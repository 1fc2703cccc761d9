------------------------------ MODULE Activity ------------------------------
(***************************************************************************)
(* The activity log (activity.rs): a list in memory, newest entry first,   *)
(* written to activity.json as a whole after every change, and read back   *)
(* when Keynoxis starts.  A record takes its identifier from an atomic     *)
(* counter before it waits for the mutex of the list; everything else is   *)
(* under that mutex, so that one action is one critical section.           *)
(***************************************************************************)
EXTENDS Naturals, Sequences, SequencesExt

CONSTANTS
    Recorders,   \* threads that record activity
    MaxEntries,  \* MAX_ACTIVITY_ENTRIES
    MaxId,       \* bound: the counter stops there
    MaxRuns      \* bound: starts of the program

ASSUME LogAssumption ==
    MaxEntries \in Nat \ {0} /\ MaxId \in Nat \ {0} /\ MaxRuns \in Nat \ {0}

VARIABLES
    activity,        \* RuntimeState.activity
    nextActivityId,  \* RuntimeState.next_activity_id
    activityFile,    \* what activity.json holds
    recording,       \* per thread: the entry it has yet to store, or NoEntry
    run,             \* which start of the program this is
    persisted,       \* history: the last write of the file in this run succeeded
    cleared          \* history: entries that a successful clear has removed

logVars == <<activity, nextActivityId, activityFile, recording, run, persisted, cleared>>

(* An entry is told by its identifier and by the run that recorded it. *)
Entries == [id : 1 .. MaxId + 1, run : 1 .. MaxRuns]
NoEntry == [id |-> 0, run |-> 0]
Lists == {<<>>} \cup UNION {[1 .. n -> Entries] : n \in 1 .. MaxEntries}

(* A plausible bug for the mutation run: the list is cut one entry late. *)
TruncateLate(list) == SubSeq(list, 1, IF Len(list) <= MaxEntries THEN Len(list) ELSE MaxEntries + 1)

Truncate(list) == SubSeq(list, 1, IF Len(list) < MaxEntries THEN Len(list) ELSE MaxEntries)

LogInit ==
    /\ activity = <<>>
    /\ nextActivityId = 1
    /\ activityFile = <<>>
    /\ recording = [t \in Recorders |-> NoEntry]
    /\ run = 1
    /\ persisted = TRUE
    /\ cleared = {}

-----------------------------------------------------------------------------
(* A plausible bug for the mutation run: the next identifier is read from the
   list instead of taken from the counter. *)
TakeIdFromList(t) ==
    /\ recording[t] = NoEntry
    /\ nextActivityId <= MaxId
    /\ LET id == IF activity = <<>> THEN nextActivityId ELSE Head(activity).id + 1
       IN  /\ recording' = [recording EXCEPT ![t] = [id |-> id, run |-> run]]
           /\ nextActivityId' = id + 1
    /\ UNCHANGED <<activity, activityFile, run, persisted, cleared>>

(* record: the identifier, taken before the mutex. *)
TakeId(t) ==
    /\ recording[t] = NoEntry
    /\ nextActivityId <= MaxId
    /\ recording' = [recording EXCEPT ![t] = [id |-> nextActivityId, run |-> run]]
    /\ nextActivityId' = nextActivityId + 1
    /\ UNCHANGED <<activity, activityFile, run, persisted, cleared>>

(* persist: a temporary file is renamed over activity.json, which therefore
   holds the new list or, when any of its steps fails, still the old one. *)
Persist(list, ok) ==
    /\ activityFile' = IF ok THEN list ELSE activityFile
    /\ persisted' = ok

(* record: push_front, truncate and persist under the mutex; nobody hears of a
   persist that fails. *)
Store(t) ==
    /\ recording[t] # NoEntry
    /\ activity' = Truncate(<<recording[t]>> \o activity)
    /\ \E ok \in BOOLEAN : Persist(activity', ok)
    /\ recording' = [recording EXCEPT ![t] = NoEntry]
    /\ UNCHANGED <<nextActivityId, run, cleared>>

(* A plausible bug for the mutation run: the file is left to the next record. *)
ClearMemory ==
    /\ activity' = <<>>
    /\ cleared' = cleared \cup ToSet(activity) \cup ToSet(activityFile)
    /\ UNCHANGED <<activityFile, persisted, nextActivityId, recording, run>>

(* clear: the memory first, then the file; only a file that could be written
   makes the command succeed. *)
Clear ==
    /\ activity' = <<>>
    /\ \E ok \in BOOLEAN :
          /\ Persist(<<>>, ok)
          /\ cleared' = IF ok THEN cleared \cup ToSet(activity) \cup ToSet(activityFile)
                        ELSE cleared
    /\ UNCHANGED <<nextActivityId, recording, run>>

(* A plausible bug for the mutation run: entries are counted, not compared. *)
NextIdByCount(list) == Len(list) + 1

(* initialize: the next identifier follows that of the newest entry. *)
NextId(list) == IF list = <<>> THEN 1 ELSE Head(list).id + 1

(* The program ends, in order or by a crash, and starts again.  A file that
   cannot be read leaves an empty list and the counter at 1; the next record
   then replaces the file. *)
Restart ==
    /\ run < MaxRuns
    /\ run' = run + 1
    /\ recording' = [t \in Recorders |-> NoEntry]
    /\ \/ /\ activity' = activityFile
          /\ nextActivityId' = NextId(activityFile)
          /\ persisted' = TRUE
       \/ /\ activity' = <<>>
          /\ nextActivityId' = 1
          /\ persisted' = FALSE
    /\ UNCHANGED <<activityFile, cleared>>

LogNext == (\E t \in Recorders : TakeId(t) \/ Store(t)) \/ Clear \/ Restart

LogSpec == LogInit /\ [][LogNext]_logVars

-----------------------------------------------------------------------------
(* Types; neither the list nor the file ever exceeds MAX_ACTIVITY_ENTRIES
   (activity.rs:58). *)
LogTypeOK ==
    /\ activity \in Lists
    /\ nextActivityId \in 1 .. MaxId + 2
    /\ activityFile \in Lists
    /\ recording \in [Recorders -> Entries \cup {NoEntry}]
    /\ run \in 1 .. MaxRuns
    /\ persisted \in BOOLEAN
    /\ cleared \subseteq Entries

(* Entries that this run has recorded or is about to store. *)
Pending(t) == recording[t] # NoEntry

(* Within one run no identifier is given twice, however the threads overtake
   each other between the counter and the mutex (activity.rs:45 and 56): the
   front end takes a second entry with the same identifier for the first
   (App.vue:416). *)
IdsDistinctInRun ==
    /\ \A i, j \in DOMAIN activity :
          activity[i].run = run /\ activity[j].run = run /\ activity[i].id = activity[j].id => i = j
    /\ \A t, u \in Recorders : Pending(t) /\ recording[t] = recording[u] => t = u
    /\ \A t \in Recorders : Pending(t) => recording[t] \notin ToSet(activity)

(* As long as the list is in the order of its identifiers, a new record gets
   one that no listed entry has, in this run and after any number of restarts,
   truncations and failed writes (activity.rs:25-28).  Out of that order it may
   not: the newest entry is then not the one with the largest identifier. *)
FreshIds ==
    (\A i, j \in DOMAIN activity : i < j => activity[i].id > activity[j].id)
       => \A i \in DOMAIN activity : activity[i].id < nextActivityId

(* An entry that a successful clear has removed is never listed or on disk
   again (activity.rs:72-79), while records and restarts go on. *)
ClearedIsGone == cleared \cap (ToSet(activity) \cup ToSet(activityFile)) = {}
=============================================================================
