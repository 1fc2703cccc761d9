------------------------------ MODULE KeyTable ------------------------------
(***************************************************************************)
(* What the registry of Secure Enclave keys promises, whatever fails: a    *)
(* table of keys and their names that changes by one addition, one new     *)
(* name or one removal at a time.  No two keys have the same name, and a   *)
(* key that was removed never comes back, since nothing can restore it.    *)
(***************************************************************************)
CONSTANTS Keys, Names, NoName  \* NoName is none of the names

VARIABLES
    table,  \* per key: its name, or NoName
    used    \* the keys that have ever been in the table

tableVars == <<table, used>>

Taken(name, but) == \E k \in Keys \ {but} : table[k] = name

TableInit ==
    /\ table = [k \in Keys |-> NoName]
    /\ used = {}

Add(k, name) ==
    /\ k \notin used
    /\ ~Taken(name, k)
    /\ table' = [table EXCEPT ![k] = name]
    /\ used' = used \cup {k}

Rename(k, name) ==
    /\ table[k] # NoName
    /\ ~Taken(name, k)
    /\ table' = [table EXCEPT ![k] = name]
    /\ UNCHANGED used

Remove(k) ==
    /\ table[k] # NoName
    /\ table' = [table EXCEPT ![k] = NoName]
    /\ UNCHANGED used

TableNext ==
    \E k \in Keys : Remove(k) \/ \E name \in Names : Add(k, name) \/ Rename(k, name)

TableSpec == TableInit /\ [][TableNext]_tableVars
=============================================================================
