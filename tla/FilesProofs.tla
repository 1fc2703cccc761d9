---------------------------- MODULE FilesProofs ----------------------------
(***************************************************************************)
(* Three files that several threads, processes or people handle.           *)
(* activity.json: no interleaving of records, clears, failed writes and    *)
(* restarts gives an identifier twice in a run or brings a cleared entry   *)
(* back.  keynoxis.sock: a process that runs alone is reachable, and no    *)
(* process leaves its file behind when it ends in order.  ~/.ssh/config:   *)
(* no install loses a line of the user's or takes the agent from OpenSSH.  *)
(***************************************************************************)
EXTENDS Activity, AgentSocket, SSHConfig, SequenceTheorems, WellFoundedInduction, TLAPS

-----------------------------------------------------------------------------
(* The activity log: the inductive invariant                               *)

Recorded == ToSet(activity) \cup ToSet(activityFile) \cup cleared

(* The counter is ahead of every entry of this run, stored or not. *)
CounterAhead ==
    /\ \A e \in Recorded : e.run <= run /\ (e.run = run => e.id < nextActivityId)
    /\ \A t \in Recorders : Pending(t) => recording[t].run = run /\ recording[t].id < nextActivityId

(* What is still to be stored has never been stored. *)
PendingIsNew == \A t \in Recorders : Pending(t) => recording[t] \notin Recorded

FileIsList == persisted => activityFile = activity

LogInv ==
    /\ LogTypeOK
    /\ CounterAhead
    /\ PendingIsNew
    /\ FileIsList
    /\ IdsDistinctInRun
    /\ FreshIds
    /\ ClearedIsGone

-----------------------------------------------------------------------------
(* The activity log: lists                                                 *)

LEMMA ListIsSequence ==
    ASSUME NEW list
    PROVE  list \in Lists <=> list \in Seq(Entries) /\ Len(list) <= MaxEntries
<1>1. ASSUME list \in Lists
      PROVE  list \in Seq(Entries) /\ Len(list) <= MaxEntries
  <2>1. CASE list = <<>>
    BY <2>1, LogAssumption
  <2>2. ASSUME NEW n \in 1 .. MaxEntries, list \in [1 .. n -> Entries]
        PROVE  list \in Seq(Entries) /\ Len(list) <= MaxEntries
    BY <2>2, LogAssumption
  <2>3. QED
    BY <1>1, <2>1, <2>2 DEF Lists
<1>2. ASSUME list \in Seq(Entries), Len(list) <= MaxEntries
      PROVE  list \in Lists
  <2>1. Len(list) \in Nat /\ list \in [1 .. Len(list) -> Entries]
    BY <1>2, LenProperties
  <2>2. CASE list # <<>>
    <3>1. Len(list) \in 1 .. MaxEntries
      BY <1>2, <2>1, <2>2, EmptySeq, LogAssumption
    <3>2. QED
      BY <2>1, <3>1 DEF Lists
  <2>3. QED
    BY <2>2 DEF Lists
<1>3. QED
  BY <1>1, <1>2

LEMMA EmptyList == <<>> \in Lists /\ ToSet(<<>>) = {}
<1>1. ToSet(<<>>) = {}
  BY DEF ToSet
<1>2. QED
  BY <1>1 DEF Lists

LEMMA ListedAreEntries == ASSUME NEW list \in Lists PROVE ToSet(list) \subseteq Entries
<1>1. list \in Seq(Entries)
  BY ListIsSequence
<1>2. QED
  BY <1>1, LenProperties DEF ToSet

LEMMA EntryIsNotNone == \A e \in Entries : e # NoEntry /\ e.id \in 1 .. MaxId + 1 /\ e.run \in 1 .. MaxRuns
BY LogAssumption DEF Entries, NoEntry

(* push_front and truncate: the new entry is the first, and the others are the
   first ones there were. *)
Push(list, e) == Truncate(<<e>> \o list)

LEMMA PushFacts ==
    ASSUME NEW list \in Lists, NEW e \in Entries, NEW pushed, pushed = Push(list, e)
    PROVE  /\ pushed \in Lists /\ Len(pushed) >= 1 /\ pushed[1] = e
           /\ \A i \in DOMAIN pushed : i # 1 => i - 1 \in DOMAIN list /\ pushed[i] = list[i - 1]
           /\ ToSet(pushed) \subseteq {e} \cup ToSet(list)
<1>1. list \in Seq(Entries) /\ Len(list) <= MaxEntries /\ MaxEntries \in Nat \ {0}
  BY ListIsSequence, LogAssumption
<1>2. /\ pushed \in Seq(Entries) /\ Len(pushed) >= 1 /\ Len(pushed) <= MaxEntries /\ pushed[1] = e
      /\ \A i \in 2 .. Len(pushed) : i - 1 \in 1 .. Len(list) /\ pushed[i] = list[i - 1]
  BY <1>1 DEF Push, Truncate
<1>3. \A i \in DOMAIN pushed : i # 1 => i - 1 \in DOMAIN list /\ pushed[i] = list[i - 1]
  <2>1. DOMAIN pushed = 1 .. Len(pushed) /\ DOMAIN list = 1 .. Len(list) /\ Len(pushed) \in Nat
    BY <1>1, <1>2, LenProperties
  <2>2. \A i \in DOMAIN pushed : i # 1 => i \in 2 .. Len(pushed)
    BY <2>1
  <2>3. QED
    BY <1>2, <2>1, <2>2
<1>4. ToSet(pushed) \subseteq {e} \cup ToSet(list)
  BY <1>1, <1>2, <1>3 DEF ToSet
<1>5. QED
  BY <1>2, <1>3, <1>4, ListIsSequence

-----------------------------------------------------------------------------
(* The activity log: steps                                                 *)

LEMMA RecordedAreEntries == LogInv => Recorded \subseteq Entries
BY ListedAreEntries DEF LogInv, LogTypeOK, Recorded

LEMMA TakeIdInv ==
    ASSUME LogInv, NEW t \in Recorders, TakeId(t)
    PROVE  LogInv'
<1> DEFINE e == [id |-> nextActivityId, run |-> run]
<1>1. /\ recording[t] = NoEntry /\ nextActivityId <= MaxId
      /\ recording' = [recording EXCEPT ![t] = e] /\ nextActivityId' = nextActivityId + 1
      /\ UNCHANGED <<activity, activityFile, run, persisted, cleared>>
  BY DEF TakeId
<1>2. /\ nextActivityId \in 1 .. MaxId /\ run \in 1 .. MaxRuns /\ MaxId \in Nat
      /\ recording \in [Recorders -> Entries \cup {NoEntry}]
  BY <1>1, LogAssumption DEF LogInv, LogTypeOK
<1>3. e \in Entries /\ e.id = nextActivityId /\ e.run = run
  BY <1>2 DEF Entries
<1> HIDE DEF e
<1>4. recording'[t] = e /\ \A u \in Recorders \ {t} : recording'[u] = recording[u]
  BY <1>1, <1>2
<1>5. e \notin Recorded
  BY <1>3, <1>2 DEF LogInv, CounterAhead
<1>6. Recorded' = Recorded
  BY <1>1 DEF Recorded, ToSet
<1>7. \A u \in Recorders : Pending(u) => recording[u] # e
  BY <1>2, <1>3 DEF LogInv, CounterAhead
<1>8. LogTypeOK'
  BY <1>1, <1>2, <1>3 DEF LogInv, LogTypeOK
<1>9. CounterAhead'
  <2>1. \A x \in Recorded' : x.run <= run' /\ (x.run = run' => x.id < nextActivityId')
    <3>1. \A x \in Recorded : x.id \in Nat
      BY RecordedAreEntries, EntryIsNotNone, LogAssumption
    <3>2. QED
      BY <1>1, <1>2, <1>6, <3>1 DEF LogInv, CounterAhead
  <2>2. ASSUME NEW u \in Recorders, recording'[u] # NoEntry
        PROVE  recording'[u].run = run' /\ recording'[u].id < nextActivityId'
    <3>1. CASE u = t
      BY <3>1, <1>1, <1>2, <1>3, <1>4
    <3>2. CASE u # t
      <4>1. recording[u] \in Entries
        BY <3>2, <2>2, <1>2, <1>4
      <4>2. QED
        BY <3>2, <4>1, <2>2, <1>1, <1>2, <1>4, EntryIsNotNone DEF LogInv, CounterAhead, Pending
    <3>3. QED
      BY <3>1, <3>2
  <2>3. QED
    BY <2>1, <2>2 DEF CounterAhead, Pending
<1>10. PendingIsNew'
  BY <1>4, <1>5, <1>6 DEF LogInv, PendingIsNew, Pending
<1>11. FileIsList' /\ ClearedIsGone'
  BY <1>1 DEF LogInv, FileIsList, ClearedIsGone, ToSet
<1>12. IdsDistinctInRun'
  <2>1. \A i, j \in DOMAIN activity :
          activity[i].run = run /\ activity[j].run = run /\ activity[i].id = activity[j].id => i = j
    BY DEF LogInv, IdsDistinctInRun
  <2>2. \A u, v \in Recorders : recording'[u] # NoEntry /\ recording'[u] = recording'[v] => u = v
    BY <1>4, <1>7 DEF LogInv, IdsDistinctInRun, Pending
  <2>3. \A u \in Recorders : recording'[u] # NoEntry => recording'[u] \notin ToSet(activity)
    BY <1>4, <1>5 DEF LogInv, IdsDistinctInRun, Pending, Recorded
  <2>4. QED
    BY <1>1, <2>1, <2>2, <2>3 DEF IdsDistinctInRun, Pending
<1>13. FreshIds'
  <2>1. \A i \in DOMAIN activity : activity[i].id \in Nat
    BY EntryIsNotNone, ListIsSequence, LogAssumption DEF LogInv, LogTypeOK
  <2>2. QED
    BY <1>1, <1>2, <2>1 DEF LogInv, FreshIds
<1>14. QED
  BY <1>8, <1>9, <1>10, <1>11, <1>12, <1>13 DEF LogInv

LEMMA StoreInv ==
    ASSUME LogInv, NEW t \in Recorders, Store(t)
    PROVE  LogInv'
<1> DEFINE e == recording[t]
<1>1. /\ e # NoEntry /\ activity' = Push(activity, e)
      /\ recording' = [recording EXCEPT ![t] = NoEntry]
      /\ activityFile' \in {activity', activityFile} /\ persisted' \in BOOLEAN
      /\ persisted' => activityFile' = activity'
      /\ UNCHANGED <<nextActivityId, run, cleared>>
  BY DEF Store, Persist, Push
<1>2. /\ activity \in Lists /\ activityFile \in Lists
      /\ recording \in [Recorders -> Entries \cup {NoEntry}]
      /\ nextActivityId \in Nat /\ run \in Nat
  BY LogAssumption DEF LogInv, LogTypeOK
<1>3. e \in Entries /\ e.run = run /\ e.id < nextActivityId /\ e \notin Recorded /\ e.id \in Nat
  BY <1>1, <1>2, EntryIsNotNone, LogAssumption DEF LogInv, CounterAhead, PendingIsNew, Pending
<1> HIDE DEF e
<1>4. /\ activity' \in Lists /\ Len(activity') >= 1 /\ activity'[1] = e
      /\ \A i \in DOMAIN activity' :
            i # 1 => i - 1 \in DOMAIN activity /\ activity'[i] = activity[i - 1]
      /\ ToSet(activity') \subseteq {e} \cup ToSet(activity)
  BY <1>1, <1>2, <1>3, PushFacts
<1>5. recording'[t] = NoEntry /\ \A u \in Recorders \ {t} : recording'[u] = recording[u]
  BY <1>1, <1>2
<1>6. Recorded' \subseteq Recorded \cup {e}
  BY <1>1, <1>4 DEF Recorded
<1>7. LogTypeOK'
  BY <1>1, <1>2, <1>4 DEF LogInv, LogTypeOK
<1>8. CounterAhead'
  BY <1>1, <1>2, <1>3, <1>5, <1>6 DEF LogInv, CounterAhead, Pending
<1>9. PendingIsNew'
  BY <1>5, <1>6, <1>1 DEF LogInv, PendingIsNew, IdsDistinctInRun, Pending, e
<1>10. FileIsList'
  BY <1>1 DEF FileIsList
<1>11. IdsDistinctInRun'
  <2>1. ASSUME NEW i \in DOMAIN activity', NEW j \in DOMAIN activity',
               activity'[i].run = run, activity'[j].run = run, activity'[i].id = activity'[j].id
        PROVE  i = j
    <3>1. activity' \in Seq(Entries) /\ activity \in Seq(Entries) /\ i \in Nat /\ j \in Nat
      BY <1>2, <1>4, ListIsSequence
    <3>2. \A k \in DOMAIN activity' : k # 1 => activity'[k] # e
      BY <1>3, <1>4 DEF Recorded, ToSet
    <3>3. \A x, y \in Entries : x.id = y.id /\ x.run = y.run => x = y
      BY DEF Entries
    <3>4. activity'[i] \in Entries /\ activity'[j] \in Entries
      BY <3>1
    <3>5. activity'[i] = activity'[j]
      BY <2>1, <3>3, <3>4
    <3>6. CASE i = 1 \/ j = 1
      BY <3>2, <3>5, <3>6, <1>4
    <3>7. CASE i # 1 /\ j # 1
      <4>1. /\ i - 1 \in DOMAIN activity /\ j - 1 \in DOMAIN activity
            /\ activity'[i] = activity[i - 1] /\ activity'[j] = activity[j - 1]
        BY <3>7, <1>4
      <4>2. i - 1 = j - 1
        BY <4>1, <2>1 DEF LogInv, IdsDistinctInRun
      <4>3. QED
        BY <3>1, <4>2
    <3>8. QED
      BY <3>6, <3>7
  <2>2. \A u, v \in Recorders : recording'[u] # NoEntry /\ recording'[u] = recording'[v] => u = v
    BY <1>5 DEF LogInv, IdsDistinctInRun, Pending
  <2>3. \A u \in Recorders : recording'[u] # NoEntry => recording'[u] \notin ToSet(activity')
    BY <1>9 DEF PendingIsNew, Pending, Recorded
  <2>4. QED
    BY <1>1, <2>1, <2>2, <2>3 DEF IdsDistinctInRun, Pending
<1>12. FreshIds'
  <2>1. ASSUME \A i, j \in DOMAIN activity' : i < j => activity'[i].id > activity'[j].id,
               NEW i \in DOMAIN activity'
        PROVE  activity'[i].id < nextActivityId
    <3>1. activity' \in Seq(Entries) /\ 1 \in DOMAIN activity' /\ i \in Nat /\ i >= 1
      BY <1>4, ListIsSequence
    <3>2. activity'[i].id \in Nat
      BY <3>1, EntryIsNotNone, LogAssumption
    <3>3. i # 1 => activity'[1].id > activity'[i].id
      BY <2>1, <3>1
    <3>4. QED
      BY <1>2, <1>3, <1>4, <3>2, <3>3
  <2>2. QED
    BY <2>1, <1>1 DEF FreshIds
<1>13. ClearedIsGone'
  BY <1>1, <1>3, <1>4 DEF LogInv, ClearedIsGone, Recorded
<1>14. QED
  BY <1>7, <1>8, <1>9, <1>10, <1>11, <1>12, <1>13 DEF LogInv

LEMMA ClearInv ==
    ASSUME LogInv, Clear
    PROVE  LogInv'
<1>1. /\ activity' = <<>> /\ activityFile' \in {<<>>, activityFile} /\ persisted' \in BOOLEAN
      /\ persisted' => activityFile' = <<>>
      /\ \/ cleared' = cleared
         \/ activityFile' = <<>> /\ cleared' = cleared \cup ToSet(activity) \cup ToSet(activityFile)
      /\ UNCHANGED <<nextActivityId, recording, run>>
  BY DEF Clear, Persist
<1>2. Recorded' \subseteq Recorded
  BY <1>1, EmptyList DEF Recorded
<1>3. ToSet(activity) \cup ToSet(activityFile) \subseteq Entries
  BY ListIsSequence DEF LogInv, LogTypeOK, ToSet
<1>4. LogTypeOK'
  BY <1>1, <1>3, EmptyList DEF LogInv, LogTypeOK
<1>5. CounterAhead' /\ PendingIsNew'
  BY <1>1, <1>2 DEF LogInv, CounterAhead, PendingIsNew, Pending
<1>6. FileIsList' /\ FreshIds'
  BY <1>1 DEF FileIsList, FreshIds
<1>7. IdsDistinctInRun'
  BY <1>1, EmptyList DEF LogInv, IdsDistinctInRun, Pending
<1>8. ClearedIsGone'
  BY <1>1, EmptyList DEF LogInv, ClearedIsGone
<1>9. QED
  BY <1>4, <1>5, <1>6, <1>7, <1>8 DEF LogInv

LEMMA LogRestartInv ==
    ASSUME LogInv, Restart
    PROVE  LogInv'
<1>1. /\ run \in 1 .. MaxRuns /\ MaxRuns \in Nat /\ activityFile \in Lists /\ cleared \subseteq Entries
      /\ run < MaxRuns /\ run' = run + 1 /\ recording' = [t \in Recorders |-> NoEntry]
      /\ UNCHANGED <<activityFile, cleared>>
  BY LogAssumption DEF Restart, LogInv, LogTypeOK
<1>2. activity' \in {activityFile, <<>>} /\ persisted' \in BOOLEAN
      /\ (persisted' => activity' = activityFile)
      /\ nextActivityId' = NextId(activity')
  BY DEF Restart, NextId
<1>3. activity' \in Seq(Entries) /\ activity' \in Lists
  BY <1>1, <1>2, EmptyList, ListIsSequence
<1>4. nextActivityId' \in 1 .. MaxId + 2
      /\ (activity' # <<>> => activity'[1] \in Entries /\ nextActivityId' = activity'[1].id + 1)
  BY <1>2, <1>3, EntryIsNotNone, LogAssumption DEF NextId
<1>5. LogTypeOK'
  BY <1>1, <1>2, <1>3, <1>4 DEF LogInv, LogTypeOK
<1>6. ToSet(activity') \subseteq ToSet(activityFile)
  BY <1>2, EmptyList
<1>7. \A e \in Recorded' : e.run < run'
  <2>1. \A e \in Recorded' : e \in Recorded /\ e \in Entries
    BY <1>1, <1>6, RecordedAreEntries DEF Recorded
  <2>2. QED
    BY <2>1, <1>1, EntryIsNotNone DEF LogInv, CounterAhead
<1>8. CounterAhead'
  <2>1. \A e \in Recorded' : e \in Entries
    BY <1>1, <1>6, RecordedAreEntries DEF Recorded
  <2>2. QED
    BY <2>1, <1>1, <1>7, EntryIsNotNone DEF CounterAhead, Pending
<1>9. PendingIsNew' /\ FileIsList'
  BY <1>1, <1>2 DEF PendingIsNew, FileIsList, Pending
<1>10. IdsDistinctInRun'
  <2>1. \A i \in DOMAIN activity' : activity'[i] \in Recorded'
    BY <1>3 DEF Recorded, ToSet
  <2>2. \A i \in DOMAIN activity' : activity'[i].run # run'
    BY <2>1, <1>1, <1>3, <1>7, EntryIsNotNone
  <2>3. QED
    BY <2>2, <1>1 DEF IdsDistinctInRun, Pending
<1>11. FreshIds'
  <2>1. ASSUME \A i, j \in DOMAIN activity' : i < j => activity'[i].id > activity'[j].id,
               NEW i \in DOMAIN activity'
        PROVE  activity'[i].id < nextActivityId'
    <3>1. activity' # <<>> /\ 1 \in DOMAIN activity' /\ i \in Nat /\ i >= 1
      BY <1>3
    <3>2. activity'[i].id \in Nat /\ activity'[1].id \in Nat
      BY <1>3, <3>1, EntryIsNotNone, LogAssumption
    <3>3. i # 1 => activity'[1].id > activity'[i].id
      BY <2>1, <3>1
    <3>4. QED
      BY <1>4, <3>1, <3>2, <3>3
  <2>2. QED
    BY <2>1 DEF FreshIds
<1>12. ClearedIsGone'
  BY <1>1, <1>6 DEF LogInv, ClearedIsGone
<1>13. QED
  BY <1>5, <1>8, <1>9, <1>10, <1>11, <1>12 DEF LogInv

LEMMA LogInitInv == LogInit => LogInv
<1> SUFFICES ASSUME LogInit PROVE LogInv
  OBVIOUS
<1>1. Recorded = {} /\ run = 1 /\ \A t \in Recorders : ~Pending(t)
  BY EmptyList DEF LogInit, Recorded, Pending
<1>2. LogTypeOK
  BY EmptyList, LogAssumption DEF LogInit, LogTypeOK
<1>3. CounterAhead /\ PendingIsNew /\ FileIsList
  BY <1>1 DEF LogInit, CounterAhead, PendingIsNew, FileIsList
<1>4. IdsDistinctInRun /\ FreshIds /\ ClearedIsGone
  BY <1>1 DEF LogInit, IdsDistinctInRun, FreshIds, ClearedIsGone
<1>5. QED
  BY <1>2, <1>3, <1>4 DEF LogInv

LEMMA LogStepInv == LogInv /\ [LogNext]_logVars => LogInv'
<1> SUFFICES ASSUME LogInv, [LogNext]_logVars PROVE LogInv'
  OBVIOUS
<1>1. CASE LogNext
  BY <1>1, TakeIdInv, StoreInv, ClearInv, LogRestartInv DEF LogNext
<1>2. CASE UNCHANGED logVars
  BY <1>2 DEF logVars, LogInv, LogTypeOK, CounterAhead, PendingIsNew, FileIsList, Recorded,
     Pending, IdsDistinctInRun, FreshIds, ClearedIsGone, ToSet
<1>3. QED
  BY <1>1, <1>2

LEMMA LogInvariant == LogSpec => []LogInv
<1>1. QED
  BY LogInitInv, LogStepInv, PTL DEF LogSpec

-----------------------------------------------------------------------------
(* The activity log: theorems                                              *)

\* Every variable has its type, and neither the list nor the file exceeds
\* MAX_ACTIVITY_ENTRIES, for any limit and any number of recording threads
\* (record, clear, initialize).
THEOREM LogTypeCorrect == LogSpec => []LogTypeOK
<1>1. LogInv => LogTypeOK
  BY DEF LogInv
<1>2. QED
  BY <1>1, LogInvariant, PTL

\* Within one run no two entries get the same identifier, although threads
\* overtake each other between the counter and the mutex (record).
THEOREM IdsStayDistinct == LogSpec => []IdsDistinctInRun
<1>1. LogInv => IdsDistinctInRun
  BY DEF LogInv
<1>2. QED
  BY <1>1, LogInvariant, PTL

\* While the list is in the order of its identifiers the next one is new, in
\* this run and after restarts, truncations and failed writes (initialize).
THEOREM IdsAreFresh == LogSpec => []FreshIds
<1>1. LogInv => FreshIds
  BY DEF LogInv
<1>2. QED
  BY <1>1, LogInvariant, PTL

\* What a successful clear has removed is never listed or on disk again (clear,
\* record, initialize).
THEOREM ClearedStaysGone == LogSpec => []ClearedIsGone
<1>1. LogInv => ClearedIsGone
  BY DEF LogInv
<1>2. QED
  BY <1>1, LogInvariant, PTL

(* A restart shows the list as it was, or none at all when the file cannot be
   read, provided the last write of the file had succeeded (activity.rs:56-60). *)
RestartKeepsList ==
    [][run' # run /\ persisted => activity' \in {activity, <<>>}]_logVars

\* After a write of the file that succeeded a restart shows the list as it was,
\* or nothing when the file cannot be read (persist, initialize).
THEOREM RestartKeepsTheList == LogSpec => RestartKeepsList
<1>1. LogInv /\ [LogNext]_logVars
        => [run' # run /\ persisted => activity' \in {activity, <<>>}]_logVars
  BY DEF LogInv, FileIsList, LogNext, TakeId, Store, Clear, Restart, Persist
<1>2. QED
  BY <1>1, LogInvariant, PTL DEF LogSpec, RestartKeepsList

-----------------------------------------------------------------------------
(* The agent socket: the inductive invariant                               *)

(* A process with a listener that is bound and open, and one with a file. *)
Open(p) == proc[p].pc \in {"identify", "install", "running", "stop"}
HasFile(p) == Open(p) \/ proc[p].pc \in {"compare", "remove"}

(* Inodes are used once, each by one process; a process without a listener has
   none. *)
InodesUsedOnce ==
    /\ path <= created
    /\ \A p \in Procs :
          IF HasFile(p) THEN proc[p].bound \in 1 .. created ELSE proc[p].bound = NoFile
    /\ \A p, q \in Procs : HasFile(p) /\ proc[p].bound = proc[q].bound => p = q

(* The listeners that accept connections are the open ones. *)
ListenersAreOpen == listening = {proc[p].bound : p \in {q \in Procs : Open(q)}}

(* The path names an orphan or the file of a process, and a process whose file it
   still names has recorded just that file. *)
PathIsKnown == path \in Inodes => path \in orphans \/ \E p \in Procs : HasFile(p) /\ path = proc[p].bound
IdentityIsBound ==
    \A p \in Procs :
       HasFile(p) /\ path = proc[p].bound /\ ~At(p, "identify") => proc[p].identity = path

(* Without overlap one process at most is alive, and its path is its own until
   someone else touches it. *)
Alone ==
    ~Overlap =>
       /\ \A p, q \in Procs : ~At(p, "off") /\ ~At(q, "off") => p = q
       /\ \A p \in Procs : Open(p) /\ ~At(p, "stop") /\ ~touched => path = proc[p].bound

SocketInv ==
    /\ TypeOK
    /\ InodesUsedOnce
    /\ ListenersAreOpen
    /\ PathIsKnown
    /\ IdentityIsBound
    /\ Alone

-----------------------------------------------------------------------------
(* The agent socket: steps                                                 *)

OpenPCs == {"identify", "install", "running", "stop"}
FilePCs == OpenPCs \cup {"compare", "remove"}

LEMMA SocketFacts ==
    ASSUME SocketInv
    PROVE  /\ path \in Nat /\ created \in Nat /\ NoFile = 0 /\ NoFile \notin Inodes
           /\ proc \in [Procs -> ProcState]
           /\ path \in 0 .. created /\ created <= MaxInodes
           /\ \A p \in Procs : proc[p].bound \in 0 .. created /\ proc[p] \in ProcState
BY SocketAssumption DEF SocketInv, TypeOK, InodesUsedOnce, Inodes, NoFile, ProcState, HasFile, Open

LEMMA OffFacts ==
    /\ Off.pc = "off" /\ Off.bound = NoFile /\ Off.identity = NoFile /\ Off.then = "off"
    /\ Off \in ProcState
BY DEF Off, ProcState, PCs

(* A step of p that creates no file: what it keeps open it had open, and a file
   it leaves is gone, or known as an orphan. *)
LEMMA ProcStepInv ==
    ASSUME SocketInv, NEW p \in Procs, NEW r \in ProcState,
           proc' = [proc EXCEPT ![p] = r],
           path' \in {path, NoFile}, created' = created, touched' \in BOOLEAN,
           orphans' \in {orphans, orphans \cup ({proc[p].bound} \cap Inodes)},
           IF r.pc \in FilePCs THEN HasFile(p) /\ r.bound = proc[p].bound ELSE r.bound = NoFile,
           IF r.pc \in OpenPCs THEN Open(p) /\ listening' = listening
                               ELSE listening' = listening \ {proc[p].bound},
           HasFile(p) /\ r.pc \notin FilePCs /\ path' = proc[p].bound => path' \in orphans',
           r.pc \in FilePCs \ {"identify"} /\ path' = r.bound => r.identity = path',
           ~Overlap /\ At(p, "off") => \A q \in Procs : At(q, "off"),
           ~Overlap /\ r.pc \in OpenPCs \ {"stop"} /\ ~touched' => path' = r.bound
    PROVE  SocketInv'
<1> USE SocketFacts
<1>1. proc'[p] = r /\ \A q \in Procs \ {p} : proc'[q] = proc[q]
  OBVIOUS
<1>2. /\ Open(p)' <=> r.pc \in OpenPCs
      /\ HasFile(p)' <=> r.pc \in FilePCs
      /\ \A q \in Procs \ {p} : (Open(q)' <=> Open(q)) /\ (HasFile(q)' <=> HasFile(q))
  BY <1>1 DEF Open, HasFile, OpenPCs, FilePCs
<1>3. TypeOK'
  BY DEF SocketInv, TypeOK
<1>4. InodesUsedOnce'
  BY <1>1, <1>2 DEF SocketInv, InodesUsedOnce
<1>5. ListenersAreOpen'
  <2>1. listening = {proc[q].bound : q \in {x \in Procs : Open(x)}}
    BY DEF SocketInv, ListenersAreOpen
  <2>2. \A q \in Procs \ {p} : Open(q) => proc[q].bound # proc[p].bound
    BY DEF SocketInv, InodesUsedOnce, HasFile
  <2>3. \A i : i \in listening' <=> \E q \in Procs : Open(q)' /\ i = proc'[q].bound
    <3>1. CASE r.pc \in OpenPCs
      BY <3>1, <1>1, <1>2, <2>1 DEF FilePCs
    <3>2. CASE r.pc \notin OpenPCs
      BY <3>2, <1>1, <1>2, <2>1, <2>2
    <3>3. QED
      BY <3>1, <3>2
  <2>4. QED
    BY <2>3 DEF ListenersAreOpen
<1>6. PathIsKnown'
  BY <1>1, <1>2 DEF SocketInv, PathIsKnown
<1>7. IdentityIsBound'
  <2>1. ASSUME NEW q \in Procs, HasFile(q)', path' = proc'[q].bound, proc'[q].pc # "identify"
        PROVE  proc'[q].identity = path'
    <3>1. CASE q = p
      BY <2>1, <3>1, <1>1, <1>2
    <3>2. CASE q # p
      <4>1. path' = path
        BY <2>1, <3>2, <1>1, <1>2 DEF SocketInv, InodesUsedOnce
      <4>2. QED
        BY <2>1, <3>2, <4>1, <1>1, <1>2 DEF SocketInv, IdentityIsBound, At
    <3>3. QED
      BY <3>1, <3>2
  <2>2. QED
    BY <2>1 DEF IdentityIsBound, At
<1>8. Alone'
  <2>1. ASSUME ~Overlap
        PROVE  \A q \in Procs : q # p => proc'[q].pc = "off"
    BY <1>1, <2>1 DEF SocketInv, Alone, At
  <2>2. ASSUME ~Overlap, NEW q \in Procs, Open(q)', proc'[q].pc # "stop", ~touched'
        PROVE  path' = proc'[q].bound
    <3>1. q = p
      BY <2>1, <2>2 DEF Open
    <3>2. QED
      BY <3>1, <2>2, <1>1, <1>2
  <2>3. Overlap' = Overlap
    OBVIOUS
  <2>4. QED
    BY <2>1, <2>2 DEF Alone, At
<1>9. QED
  BY <1>3, <1>4, <1>5, <1>6, <1>7, <1>8 DEF SocketInv

LEMMA FailInv ==
    ASSUME SocketInv, NEW p \in Procs, ~At(p, "off"), Fail(p) \/ Crash(p),
           UNCHANGED <<path, created, touched>>
    PROVE  SocketInv'
<1> DEFINE agentless == [Off EXCEPT !.pc = "agentless"]
<1>1. /\ agentless.pc = "agentless" /\ agentless.bound = NoFile /\ agentless \in ProcState
  BY OffFacts DEF ProcState, PCs
<1>2. PICK r \in {Off, agentless} : proc' = [proc EXCEPT ![p] = r]
  BY DEF Fail, Crash
<1>3. /\ r \in ProcState /\ r.bound = NoFile /\ r.pc \notin FilePCs /\ r.pc \notin OpenPCs
  BY <1>1, <1>2, OffFacts DEF FilePCs, OpenPCs
<1>4. /\ listening' = listening \ {proc[p].bound}
      /\ orphans' = orphans \cup ({proc[p].bound} \cap Inodes)
  BY DEF Fail, Crash
<1>5. HasFile(p) => proc[p].bound \in Inodes
  BY SocketAssumption DEF SocketInv, InodesUsedOnce, TypeOK, Inodes
<1>6. touched' \in BOOLEAN
  BY DEF SocketInv, TypeOK
<1> HIDE DEF agentless
<1>7. QED
  BY <1>2, <1>3, <1>4, <1>5, <1>6, ProcStepInv

LEMMA GotoFacts ==
    ASSUME SocketInv, NEW p \in Procs, NEW pc \in PCs, NEW r, r = [proc[p] EXCEPT !.pc = pc]
    PROVE  /\ r \in ProcState /\ r.pc = pc /\ r.bound = proc[p].bound
           /\ r.identity = proc[p].identity
           /\ Goto(p, pc) => proc' = [proc EXCEPT ![p] = r]
BY SocketFacts DEF ProcState, Goto

(* Where a process stands tells what it has. *)
LEMMA StandFacts ==
    ASSUME SocketInv, NEW p \in Procs
    PROVE  /\ Open(p) <=> proc[p].pc \in OpenPCs
           /\ HasFile(p) <=> proc[p].pc \in FilePCs
           /\ ~HasFile(p) => proc[p].bound = NoFile
           /\ HasFile(p) => proc[p].bound \in Inodes
           /\ listening \ {NoFile} = listening
           /\ touched \in BOOLEAN
BY SocketFacts, SocketAssumption DEF Open, HasFile, OpenPCs, FilePCs, SocketInv, InodesUsedOnce, Inodes, TypeOK

LEMMA BeforeBindInv ==
    ASSUME SocketInv, NEW p \in Procs, Launch(p) \/ CheckStale(p) \/ UnlinkStale(p) \/ Retry(p)
    PROVE  SocketInv'
<1> USE SocketFacts, StandFacts DEF At, OpenPCs, FilePCs
<1>1. CASE Launch(p)
  <2> DEFINE r == [proc[p] EXCEPT !.pc = "check"]
  <2>1. r \in ProcState /\ r.pc = "check" /\ r.bound = proc[p].bound /\ proc' = [proc EXCEPT ![p] = r]
    BY <1>1, GotoFacts DEF Launch, PCs
  <2> HIDE DEF r
  <2>2. QED
    BY <1>1, <2>1, ProcStepInv DEF Launch
<1>2. CASE CheckStale(p)
  <2> DEFINE pc == IF path # NoFile THEN "unlink" ELSE "bind"
             r == [proc[p] EXCEPT !.pc = pc]
  <2>1. pc \in {"unlink", "bind"} /\ pc \in PCs
    BY DEF PCs
  <2>2. r \in ProcState /\ r.pc = pc /\ r.bound = proc[p].bound /\ proc' = [proc EXCEPT ![p] = r]
    BY <1>2, <2>1, GotoFacts DEF CheckStale
  <2> HIDE DEF r, pc
  <2>3. QED
    BY <1>2, <2>1, <2>2, ProcStepInv DEF CheckStale
<1>3. CASE UnlinkStale(p)
  <2>1. CASE path = NoFile
    BY <1>3, <2>1, FailInv DEF UnlinkStale
  <2>2. CASE path # NoFile
    <3> DEFINE r == [proc[p] EXCEPT !.pc = "bind"]
    <3>1. r \in ProcState /\ r.pc = "bind" /\ r.bound = proc[p].bound /\ proc' = [proc EXCEPT ![p] = r]
      BY <1>3, <2>2, GotoFacts DEF UnlinkStale, PCs
    <3> HIDE DEF r
    <3>2. QED
      BY <1>3, <2>2, <3>1, ProcStepInv DEF UnlinkStale
  <2>3. QED
    BY <2>1, <2>2
<1>4. CASE Retry(p)
  <2> DEFINE r == [proc[p] EXCEPT !.pc = "check", !.then = "check"]
  <2>1. r \in ProcState /\ r.pc = "check" /\ r.bound = proc[p].bound /\ proc' = [proc EXCEPT ![p] = r]
    BY <1>4 DEF Retry, ProcState, PCs
  <2> HIDE DEF r
  <2>2. QED
    <3>1. /\ proc[p].pc = "agentless" /\ ~HasFile(p) /\ proc[p].bound = NoFile
          /\ UNCHANGED <<path, listening, created, orphans, touched>>
      BY <1>4, StandFacts DEF Retry
    <3>2. listening' = listening \ {proc[p].bound} /\ touched' \in BOOLEAN
      BY <3>1, StandFacts
    <3>3. QED
      BY <3>1, <3>2, <2>1, ProcStepInv
<1>5. QED
  BY <1>1, <1>2, <1>3, <1>4

LEMMA BindInv ==
    ASSUME SocketInv, NEW p \in Procs, Bind(p)
    PROVE  SocketInv'
<1> USE SocketFacts, StandFacts DEF At
<1>1. CASE path # NoFile
  BY <1>1, FailInv DEF Bind
<1>2. CASE path = NoFile
  <2> DEFINE new == created + 1
             r == [proc[p] EXCEPT !.pc = "identify", !.bound = new]
  <2>1. /\ proc[p].pc = "bind" /\ created < MaxInodes /\ created' = new /\ path' = new
        /\ listening' = listening \cup {new} /\ touched' = FALSE /\ orphans' = orphans
        /\ proc' = [proc EXCEPT ![p] = r]
    BY <1>2 DEF Bind
  <2>2. new \in Inodes /\ new > created /\ new \in Nat
    BY <2>1, SocketAssumption DEF Inodes
  <2>3. r \in ProcState /\ r.pc = "identify" /\ r.bound = new
    BY <2>2 DEF ProcState, PCs
  <2> HIDE DEF new, r
  <2>4. proc'[p] = r /\ \A q \in Procs \ {p} : proc'[q] = proc[q]
    BY <2>1
  <2>5. /\ Open(p)' /\ HasFile(p)' /\ ~HasFile(p) /\ ~Open(p)
        /\ \A q \in Procs \ {p} : (Open(q)' <=> Open(q)) /\ (HasFile(q)' <=> HasFile(q))
    BY <2>1, <2>3, <2>4 DEF Open, HasFile
  <2>6. \A q \in Procs : proc[q].bound # new
    BY <2>2
  <2>7. TypeOK'
    <3>1. /\ path' \in Inodes /\ created' \in 0 .. MaxInodes /\ listening' \subseteq Inodes
          /\ orphans' \subseteq Inodes
      BY <2>1, <2>2, SocketAssumption DEF SocketInv, TypeOK, new
    <3>2. proc' \in [Procs -> ProcState] /\ touched' \in BOOLEAN
      BY <2>1, <2>3
    <3>3. QED
      BY <3>1, <3>2 DEF TypeOK
  <2>8. InodesUsedOnce'
    <3>1. \A q \in Procs : IF HasFile(q)' THEN proc'[q].bound \in 1 .. created' ELSE proc'[q].bound = NoFile
      BY <2>1, <2>2, <2>3, <2>4, <2>5 DEF SocketInv, InodesUsedOnce
    <3>2. \A q, x \in Procs : HasFile(q)' /\ proc'[q].bound = proc'[x].bound => q = x
      BY <2>3, <2>4, <2>5, <2>6 DEF SocketInv, InodesUsedOnce
    <3>3. QED
      BY <2>1, <2>2, <3>1, <3>2 DEF InodesUsedOnce
  <2>9. ListenersAreOpen'
    BY <2>1, <2>3, <2>4, <2>5 DEF SocketInv, ListenersAreOpen
  <2>10. PathIsKnown' /\ IdentityIsBound'
    BY <2>1, <2>3, <2>4, <2>5, <2>6 DEF PathIsKnown, IdentityIsBound
  <2>11. Alone'
    <3>1. ~Overlap => \A q \in Procs \ {p} : proc'[q].pc = "off"
      BY <2>1, <2>4 DEF SocketInv, Alone
    <3>2. QED
      BY <2>1, <2>3, <2>4, <3>1 DEF Alone, Open
  <2>12. QED
    BY <2>7, <2>8, <2>9, <2>10, <2>11 DEF SocketInv
<1>3. QED
  BY <1>1, <1>2

LEMMA AfterBindInv ==
    ASSUME SocketInv, NEW p \in Procs, Identify(p) \/ Install(p)
    PROVE  SocketInv'
<1> USE SocketFacts, StandFacts DEF At, OpenPCs, FilePCs
<1>1. CASE Identify(p) /\ path # NoFile
  <2> DEFINE r == [proc[p] EXCEPT !.pc = "install", !.identity = path]
  <2>1. /\ r \in ProcState /\ r.pc = "install" /\ r.bound = proc[p].bound /\ r.identity = path
        /\ proc' = [proc EXCEPT ![p] = r]
    BY <1>1 DEF Identify, ProcState, PCs, SocketInv, TypeOK
  <2> HIDE DEF r
  <2>2. ~Overlap /\ ~touched => path = proc[p].bound
    BY <1>1 DEF SocketInv, Alone, Identify
  <2>3. QED
    <3>1. /\ HasFile(p) /\ Open(p) /\ ~At(p, "off")
          /\ UNCHANGED <<path, listening, created, orphans, touched>> /\ touched' \in BOOLEAN
      BY <1>1, StandFacts DEF Identify
    <3>2. QED
      BY <3>1, <2>1, <2>2, ProcStepInv
<1>2. CASE Identify(p) /\ path = NoFile
  BY <1>2, FailInv DEF Identify
<1>3. CASE Install(p) /\ Goto(p, "running") /\ UNCHANGED <<path, listening, created, orphans, touched>>
  <2> DEFINE r == [proc[p] EXCEPT !.pc = "running"]
  <2>1. /\ r \in ProcState /\ r.pc = "running" /\ r.bound = proc[p].bound
        /\ r.identity = proc[p].identity /\ proc' = [proc EXCEPT ![p] = r]
    BY <1>3, GotoFacts DEF PCs
  <2> HIDE DEF r
  <2>2. /\ proc[p].pc = "install"
        /\ ~Overlap /\ ~touched => path = proc[p].bound
        /\ path = proc[p].bound => proc[p].identity = path
    BY <1>3 DEF SocketInv, Alone, IdentityIsBound, Install
  <2>3. QED
    BY <1>3, <2>1, <2>2, ProcStepInv
<1>4. CASE Install(p) /\ Fail(p) /\ UNCHANGED <<path, created, touched>>
  BY <1>4, FailInv DEF Install
<1>5. QED
  BY <1>1, <1>2, <1>3, <1>4 DEF Install

LEMMA ResumeInv ==
    ASSUME SocketInv, NEW p \in Procs, Resume(p)
    PROVE  SocketInv'
<1> USE SocketFacts, StandFacts DEF At, OpenPCs, FilePCs
<1>1. /\ proc[p].pc = "running" /\ UNCHANGED <<path, listening, created, orphans>>
      /\ path = proc[p].bound => proc[p].identity = path
  BY DEF Resume, Healthy, SocketInv, IdentityIsBound
<1>2. CASE Healthy(p) /\ touched' = FALSE /\ proc' = proc
  <2>1. ~Overlap => path = proc[p].bound
    BY <1>1, <1>2 DEF Healthy, SocketInv, Alone, ListenersAreOpen, Open
  <2>2. proc' = [proc EXCEPT ![p] = proc[p]] /\ proc[p] \in ProcState
    BY <1>2
  <2>3. QED
    BY <1>1, <1>2, <2>1, <2>2, ProcStepInv
<1>3. CASE proc' = [proc EXCEPT ![p].pc = "stop", ![p].then = "check"] /\ touched' = touched
  <2> DEFINE r == [proc[p] EXCEPT !.pc = "stop", !.then = "check"]
  <2>1. /\ r \in ProcState /\ r.pc = "stop" /\ r.bound = proc[p].bound
        /\ r.identity = proc[p].identity /\ proc' = [proc EXCEPT ![p] = r]
    BY <1>3 DEF ProcState, PCs
  <2> HIDE DEF r
  <2>2. HasFile(p) /\ Open(p) /\ ~At(p, "off") /\ touched' \in BOOLEAN
    BY <1>1, <1>3, StandFacts
  <2>3. QED
    BY <1>1, <2>1, <2>2, ProcStepInv
<1>4. QED
  BY <1>2, <1>3 DEF Resume

LEMMA ExitInv ==
    ASSUME SocketInv, NEW p \in Procs, Exit(p) \/ Stop(p)
    PROVE  SocketInv'
<1> USE SocketFacts, StandFacts DEF At, OpenPCs, FilePCs
<1>1. CASE Exit(p) /\ At(p, "running")
  <2> DEFINE r == [proc[p] EXCEPT !.pc = "stop", !.then = "off"]
  <2>1. /\ r \in ProcState /\ r.pc = "stop" /\ r.bound = proc[p].bound
        /\ r.identity = proc[p].identity /\ proc' = [proc EXCEPT ![p] = r]
    BY <1>1 DEF Exit, ProcState, PCs
  <2> HIDE DEF r
  <2>2. path = proc[p].bound => proc[p].identity = path
    BY <1>1 DEF SocketInv, IdentityIsBound
  <2>3. QED
    BY <1>1, <2>1, <2>2, ProcStepInv DEF Exit
<1>2. CASE Exit(p) /\ At(p, "agentless")
  <2>1. proc' = [proc EXCEPT ![p] = Off]
    BY <1>2 DEF Exit
  <2>2. QED
    BY <1>2, <2>1, OffFacts, ProcStepInv DEF Exit
<1>3. CASE Stop(p)
  <2> DEFINE r == [proc[p] EXCEPT !.pc = "compare"]
  <2>1. /\ r \in ProcState /\ r.pc = "compare" /\ r.bound = proc[p].bound
        /\ r.identity = proc[p].identity /\ proc' = [proc EXCEPT ![p] = r]
    BY <1>3, GotoFacts DEF Stop, PCs
  <2> HIDE DEF r
  <2>2. path = proc[p].bound => proc[p].identity = path
    BY <1>3 DEF Stop, SocketInv, IdentityIsBound
  <2>3. QED
    BY <1>3, <2>1, <2>2, ProcStepInv DEF Stop
<1>4. QED
  BY <1>1, <1>2, <1>3 DEF Exit

LEMMA DropInv ==
    ASSUME SocketInv, NEW p \in Procs, Compare(p) \/ RemoveFile(p)
    PROVE  SocketInv'
<1> USE SocketFacts, StandFacts DEF At, OpenPCs, FilePCs
<1> DEFINE d == [Off EXCEPT !.pc = proc[p].then, !.then = proc[p].then]
<1>1. /\ d \in ProcState /\ d.pc \in {"off", "check"} /\ d.bound = NoFile
      /\ Dropped(p) => proc' = [proc EXCEPT ![p] = d]
  BY DEF Off, ProcState, PCs, Dropped
<1> HIDE DEF d
<1>2. proc[p].pc \in {"compare", "remove"} /\ (path = proc[p].bound => proc[p].identity = path)
      /\ proc[p].bound \notin listening
  BY DEF Compare, RemoveFile, SocketInv, IdentityIsBound, ListenersAreOpen, InodesUsedOnce, Open, HasFile
<1>3. CASE Compare(p) /\ path = proc[p].identity
  <2> DEFINE r == [proc[p] EXCEPT !.pc = "remove"]
  <2>1. /\ r \in ProcState /\ r.pc = "remove" /\ r.bound = proc[p].bound
        /\ r.identity = proc[p].identity /\ proc' = [proc EXCEPT ![p] = r]
    BY <1>3, GotoFacts DEF Compare, PCs
  <2> HIDE DEF r
  <2>2. QED
    BY <1>2, <1>3, <2>1, ProcStepInv DEF Compare
<1>4. CASE Compare(p) /\ path # proc[p].identity
  BY <1>1, <1>2, <1>4, ProcStepInv DEF Compare
<1>5. CASE RemoveFile(p)
  BY <1>1, <1>2, <1>5, ProcStepInv DEF RemoveFile
<1>6. QED
  BY <1>3, <1>4, <1>5

LEMMA TamperInv ==
    ASSUME SocketInv, Tamper
    PROVE  SocketInv'
<1> USE SocketFacts
<1>1. /\ touched' = TRUE /\ listening' = listening /\ proc' = proc
      /\ \/ path' = NoFile /\ created' = created /\ orphans' = orphans
         \/ /\ created < MaxInodes /\ created' = created + 1 /\ path' = created'
            /\ orphans' = orphans \cup {created'}
  BY DEF Tamper
<1>2. \A p \in Procs : (Open(p)' <=> Open(p)) /\ (HasFile(p)' <=> HasFile(p))
  BY <1>1 DEF Open, HasFile
<1>3. TypeOK'
  <2>1. /\ path' \in Inodes \cup {NoFile} /\ created' \in 0 .. MaxInodes
        /\ orphans' \subseteq Inodes
    <3>1. created \in 0 .. MaxInodes /\ orphans \subseteq Inodes
      BY DEF SocketInv, TypeOK
    <3>2. created < MaxInodes => created + 1 \in Inodes /\ created + 1 \in 0 .. MaxInodes
      BY <3>1, SocketAssumption DEF Inodes
    <3>3. QED
      BY <1>1, <3>1, <3>2
  <2>2. listening' \subseteq Inodes /\ proc' \in [Procs -> ProcState] /\ touched' \in BOOLEAN
    BY <1>1 DEF SocketInv, TypeOK
  <2>3. QED
    BY <2>1, <2>2 DEF TypeOK
<1>4. InodesUsedOnce'
  BY <1>1, <1>2 DEF SocketInv, InodesUsedOnce
<1>5. ListenersAreOpen'
  BY <1>1, <1>2 DEF SocketInv, ListenersAreOpen
<1>6. PathIsKnown'
  BY <1>1, <1>2 DEF PathIsKnown
<1>7. IdentityIsBound'
  BY <1>1, <1>2 DEF SocketInv, InodesUsedOnce, IdentityIsBound
<1>8. Alone'
  BY <1>1, <1>2 DEF SocketInv, Alone, At
<1>9. QED
  BY <1>3, <1>4, <1>5, <1>6, <1>7, <1>8 DEF SocketInv

LEMMA SocketInitInv == Init => SocketInv
<1> SUFFICES ASSUME Init PROVE SocketInv
  OBVIOUS
<1>1. \A p \in Procs : proc[p] = Off /\ ~Open(p) /\ ~HasFile(p) /\ At(p, "off")
  BY OffFacts DEF Init, Open, HasFile, At
<1>2. TypeOK
  <2>1. path \in Inodes \cup {NoFile} /\ listening \subseteq Inodes /\ orphans \subseteq Inodes
    BY DEF Init
  <2>2. created \in 0 .. MaxInodes
    BY SocketAssumption DEF Init
  <2>3. proc \in [Procs -> ProcState] /\ touched \in BOOLEAN
    BY OffFacts DEF Init
  <2>4. QED
    BY <2>1, <2>2, <2>3 DEF TypeOK
<1>3. InodesUsedOnce /\ ListenersAreOpen /\ PathIsKnown /\ IdentityIsBound
  BY <1>1, OffFacts DEF Init, InodesUsedOnce, ListenersAreOpen, PathIsKnown, IdentityIsBound,
     NoFile, Inodes
<1>4. Alone
  BY <1>1 DEF Alone
<1>5. QED
  BY <1>2, <1>3, <1>4 DEF SocketInv

LEMMA SocketStepInv == SocketInv /\ [Next]_vars => SocketInv'
<1> SUFFICES ASSUME SocketInv, [Next]_vars PROVE SocketInv'
  OBVIOUS
<1>1. ASSUME NEW p \in Procs, Launch(p) \/ Ensure(p) \/ Retry(p) PROVE SocketInv'
  BY <1>1, BeforeBindInv, BindInv, AfterBindInv DEF Ensure
<1>2. ASSUME NEW p \in Procs, Resume(p) \/ Exit(p) \/ Drop(p) PROVE SocketInv'
  BY <1>2, ResumeInv, ExitInv, DropInv DEF Drop
<1>3. ASSUME NEW p \in Procs, Crash(p) PROVE SocketInv'
  BY <1>3, FailInv DEF Crash
<1>4. CASE Tampering /\ Tamper
  BY <1>4, TamperInv
<1>5. CASE UNCHANGED vars
  BY <1>5 DEF vars, SocketInv, TypeOK, InodesUsedOnce, ListenersAreOpen, PathIsKnown,
     IdentityIsBound, Alone, Open, HasFile, At
<1>6. QED
  BY <1>1, <1>2, <1>3, <1>4, <1>5 DEF Next

LEMMA SocketInvariant == Spec => []SocketInv
<1>1. QED
  BY SocketInitInv, SocketStepInv, PTL DEF Spec

-----------------------------------------------------------------------------
(* The agent socket: theorems                                              *)

\* Every variable has its type, for any number of processes, crashes, failed
\* starts, recoveries and changes of the path by someone else (ensure, drop,
\* reactivate).
THEOREM SocketTypeCorrect == Spec => []TypeOK
<1>1. SocketInv => TypeOK
  BY DEF SocketInv
<1>2. QED
  BY <1>1, SocketInvariant, PTL

\* An orderly end leaves no file behind, even while processes overlap: a file
\* nobody listens on comes from a crash, a failed start or someone else (drop).
THEOREM OrderlyEndsTidy == Spec => []EndsTidy
<1>1. SocketInv => EndsTidy
  BY DEF SocketInv, PathIsKnown, ListenersAreOpen, EndsTidy, HasFile
<1>2. QED
  BY <1>1, SocketInvariant, PTL

\* A process that has an agent while no other one is alive is reachable by the
\* path, as long as nobody else has touched it (ensure, reactivate).
THEOREM RunningStaysReachable == ~Overlap => (Spec => []RunningIsReachable)
<1> SUFFICES ASSUME ~Overlap PROVE Spec => []RunningIsReachable
  OBVIOUS
<1>1. SocketInv => RunningIsReachable
  BY DEF SocketInv, Alone, ListenersAreOpen, RunningIsReachable, Open, At
<1>2. QED
  BY <1>1, SocketInvariant, PTL

-----------------------------------------------------------------------------
(* The OpenSSH configuration: induction over numbers and over sequences    *)

(* The provers cannot instantiate a rule of induction for a predicate; these take
   the set of what satisfies it. *)
LEMMA LeastElement ==
    ASSUME NEW S \in SUBSET Nat, S # {}
    PROVE  \E x \in S : \A y \in S : x <= y
<1>1. \A y, x \in Nat : y < x => <<y, x>> \in OpToRel(<, Nat)
  BY DEF OpToRel
<1>2. PICK x \in S : \A y \in S : ~ (<<y, x>> \in OpToRel(<, Nat))
  BY NatLessThanWellFounded, WFMin
<1>3. \A y \in S : ~ (y < x)
  BY <1>1, <1>2
<1>4. QED
  BY <1>3

LEMMA CountedUp ==
    ASSUME NEW P, 0 \in P, \A n \in Nat : n \in P => n + 1 \in P
    PROVE  Nat \subseteq P
<1> SUFFICES ASSUME Nat \ P # {} PROVE FALSE
  OBVIOUS
<1>1. \A y, x \in Nat : y < x => <<y, x>> \in OpToRel(<, Nat)
  BY DEF OpToRel
<1>2. PICK n \in Nat \ P : \A m \in Nat \ P : ~ (<<m, n>> \in OpToRel(<, Nat))
  BY NatLessThanWellFounded, WFMin
<1> DEFINE m == n - 1
<1>3. m \in Nat /\ m < n /\ m + 1 = n
  BY n # 0
<1>4. m \in P
  BY <1>1, <1>2, <1>3
<1>5. QED
  BY <1>3, <1>4

LEMMA GrownByAppend ==
    ASSUME NEW X, NEW P, <<>> \in P,
           \A s \in Seq(X), x \in X : s \in P => Append(s, x) \in P
    PROVE  Seq(X) \subseteq P
<1> DEFINE N == {n \in Nat : \A s \in Seq(X) : Len(s) = n => s \in P}
<1>1. 0 \in N
  BY EmptySeq
<1>2. ASSUME NEW n \in Nat, n \in N PROVE n + 1 \in N
  <2> SUFFICES ASSUME NEW s \in Seq(X), Len(s) = n + 1 PROVE s \in P
    OBVIOUS
  <2>1. PICK t \in Seq(X), x \in X : s = Append(t, x)
    BY SequenceEmptyOrAppend, EmptySeq
  <2>2. Len(t) = n
    BY <2>1, AppendProperties, LenProperties
  <2>3. QED
    BY <1>2, <2>1, <2>2
<1>3. Nat \subseteq N
  <2> HIDE DEF N
  <2> QED BY <1>1, <1>2, CountedUp
<1>4. QED
  BY <1>3, LenProperties

-----------------------------------------------------------------------------
(* The OpenSSH configuration: what Only takes of a sequence                *)

(* f is the function by which Only is defined, up to position n. *)
IsTaking(f, s, S, n) ==
    f = [i \in 0 .. n |->
           IF i = 0 THEN <<>>
           ELSE IF s[i] \in S THEN Append(f[i - 1], s[i]) ELSE f[i - 1]]

LEMMA TakingExists ==
    ASSUME NEW s, NEW S
    PROVE  \A n \in Nat : \E f : IsTaking(f, s, S, n)
<1> DEFINE N == {n \in Nat : \E f : IsTaking(f, s, S, n)}
<1>1. 0 \in N
  <2> DEFINE f == [i \in 0 .. 0 |-> <<>>]
  <2>1. IsTaking(f, s, S, 0)
    BY DEF IsTaking
  <2>2. QED
    BY <2>1
<1>2. ASSUME NEW n \in Nat, n \in N PROVE n + 1 \in N
  <2>1. PICK f : IsTaking(f, s, S, n)
    BY <1>2
  <2> DEFINE g == [i \in 0 .. n + 1 |->
                     IF i # n + 1 THEN f[i]
                     ELSE IF s[i] \in S THEN Append(f[n], s[i]) ELSE f[n]]
  <2>2. IsTaking(g, s, S, n + 1)
    <3>1. \A i \in 0 .. n : f[i] = IF i = 0 THEN <<>>
                                   ELSE IF s[i] \in S THEN Append(f[i - 1], s[i]) ELSE f[i - 1]
      BY <2>1 DEF IsTaking
    <3>2. \A i \in 0 .. n : g[i] = f[i]
      OBVIOUS
    <3>3. \A i \in 0 .. n + 1 : g[i] = IF i = 0 THEN <<>>
                                   ELSE IF s[i] \in S THEN Append(g[i - 1], s[i]) ELSE g[i - 1]
      <4> SUFFICES ASSUME NEW i \in 0 .. n + 1
                   PROVE  g[i] = IF i = 0 THEN <<>>
                                 ELSE IF s[i] \in S THEN Append(g[i - 1], s[i]) ELSE g[i - 1]
        OBVIOUS
      <4>1. CASE i = n + 1
        BY <4>1, <3>2, n \in 0 .. n
      <4>2. CASE i # n + 1
        BY <4>2, <3>1, <3>2
      <4>3. QED
        BY <4>1, <4>2
    <3>4. QED
      BY <3>3, Zenon DEF IsTaking
  <2>3. QED
    BY <2>2
<1>3. QED
  <2> HIDE DEF N
  <2>1. Nat \subseteq N
    BY <1>1, <1>2, CountedUp
  <2>2. QED
    BY <2>1 DEF N

TakingOf(s, S) == CHOOSE f : IsTaking(f, s, S, Len(s))

LEMMA OnlyIsTaking ==
    ASSUME NEW s, Len(s) \in Nat, NEW S
    PROVE  /\ Only(s, S) = TakingOf(s, S)[Len(s)]
           /\ \A i \in 0 .. Len(s) :
                 TakingOf(s, S)[i] =
                    IF i = 0 THEN <<>>
                    ELSE IF s[i] \in S THEN Append(TakingOf(s, S)[i - 1], s[i])
                                       ELSE TakingOf(s, S)[i - 1]
<1>1. Only(s, S) = TakingOf(s, S)[Len(s)]
  BY DEF Only, TakingOf, IsTaking
<1>2. IsTaking(TakingOf(s, S), s, S, Len(s))
  <2>1. \E f : IsTaking(f, s, S, Len(s))
    BY TakingExists
  <2>2. QED
    BY <2>1, Zenon DEF TakingOf
<1> HIDE DEF TakingOf
<1>3. QED
  BY <1>1, <1>2 DEF IsTaking

LEMMA OnlyEmpty == ASSUME NEW S PROVE Only(<<>>, S) = <<>>
<1> DEFINE s == <<>>
<1>1. s \in Seq({}) /\ Len(s) = 0
  BY EmptySeq
<1> HIDE DEF s
<1>2. /\ Only(s, S) = TakingOf(s, S)[Len(s)]
      /\ \A i \in 0 .. Len(s) : i = 0 => TakingOf(s, S)[i] = <<>>
  BY <1>1, OnlyIsTaking
<1>3. QED
  BY <1>1, <1>2 DEF s

LEMMA OnlyAppend ==
    ASSUME NEW X, NEW s \in Seq(X), NEW x \in X, NEW S
    PROVE  Only(Append(s, x), S) = IF x \in S THEN Append(Only(s, S), x) ELSE Only(s, S)
<1> DEFINE t == Append(s, x)
           f == TakingOf(s, S)
           g == TakingOf(t, S)
           N == {n \in Nat : n <= Len(s) => f[n] = g[n]}
<1>1. /\ t \in Seq(X) /\ Len(t) = Len(s) + 1 /\ t[Len(s) + 1] = x /\ Len(s) \in Nat
      /\ \A i \in 1 .. Len(s) : t[i] = s[i]
  BY AppendProperties, LenProperties
<1>2. /\ Only(s, S) = f[Len(s)]
      /\ \A i \in 0 .. Len(s) :
            f[i] = IF i = 0 THEN <<>> ELSE IF s[i] \in S THEN Append(f[i - 1], s[i]) ELSE f[i - 1]
  BY OnlyIsTaking
<1>3. /\ Only(t, S) = g[Len(s) + 1]
      /\ \A i \in 0 .. Len(s) + 1 :
            g[i] = IF i = 0 THEN <<>> ELSE IF t[i] \in S THEN Append(g[i - 1], t[i]) ELSE g[i - 1]
  <2> HIDE DEF t
  <2>1. /\ Only(t, S) = TakingOf(t, S)[Len(t)]
        /\ \A i \in 0 .. Len(t) :
              TakingOf(t, S)[i] = IF i = 0 THEN <<>>
                                  ELSE IF t[i] \in S THEN Append(TakingOf(t, S)[i - 1], t[i])
                                                     ELSE TakingOf(t, S)[i - 1]
    BY <1>1, OnlyIsTaking
  <2> QED BY <1>1, <2>1
<1> HIDE DEF t, f, g
<1>4. 0 \in N
  BY <1>1, <1>2, <1>3
<1>5. ASSUME NEW n \in Nat, n \in N PROVE n + 1 \in N
  BY <1>1, <1>2, <1>3, <1>5
<1>6. f[Len(s)] = g[Len(s)]
  <2> HIDE DEF N
  <2>1. Len(s) \in N
    BY <1>1, <1>4, <1>5, CountedUp
  <2>2. QED
    BY <2>1, <1>1 DEF N
<1>7. Only(t, S) = IF x \in S THEN Append(g[Len(s)], x) ELSE g[Len(s)]
  BY <1>1, <1>3
<1>8. QED
  BY <1>2, <1>6, <1>7 DEF t

(* Only takes lines of S, all of them, and in their order: it respects
   concatenation, leaves a sequence over S alone, and takes nothing where there is
   nothing of S. *)
LEMMA OnlyType ==
    ASSUME NEW X, NEW S, NEW s \in Seq(X)
    PROVE  Only(s, S) \in Seq(X \cap S)
<1> DEFINE P == {t \in Seq(X) : Only(t, S) \in Seq(X \cap S)}
<1>1. <<>> \in P
  BY EmptySeq, OnlyEmpty
<1>2. ASSUME NEW t \in Seq(X), NEW x \in X, t \in P PROVE Append(t, x) \in P
  <2>1. Append(t, x) \in Seq(X) /\ Only(t, S) \in Seq(X \cap S)
    BY <1>2, AppendProperties
  <2>2. Only(Append(t, x), S) = IF x \in S THEN Append(Only(t, S), x) ELSE Only(t, S)
    BY OnlyAppend
  <2>3. x \in S => Append(Only(t, S), x) \in Seq(X \cap S)
    <3> DEFINE Y == X \cap S
               u == Only(t, S)
    <3>1. u \in Seq(Y) /\ (x \in S => x \in Y)
      BY <2>1
    <3> HIDE DEF u, Y
    <3>2. x \in S => Append(u, x) \in Seq(Y)
      BY <3>1, AppendProperties
    <3>3. QED
      BY <3>2 DEF u, Y
  <2>4. QED
    BY <2>1, <2>2, <2>3
<1> HIDE DEF P
<1>3. Seq(X) \subseteq P
  BY <1>1, <1>2, GrownByAppend
<1>4. QED
  BY <1>3 DEF P

LEMMA OnlyAll ==
    ASSUME NEW X, NEW S, X \subseteq S, NEW s \in Seq(X)
    PROVE  Only(s, S) = s
<1> DEFINE P == {t \in Seq(X) : Only(t, S) = t}
<1>1. <<>> \in P
  BY EmptySeq, OnlyEmpty
<1>2. ASSUME NEW t \in Seq(X), NEW x \in X, t \in P PROVE Append(t, x) \in P
  BY <1>2, OnlyAppend, AppendProperties
<1> HIDE DEF P
<1>3. Seq(X) \subseteq P
  BY <1>1, <1>2, GrownByAppend
<1>4. QED
  BY <1>3 DEF P

LEMMA OnlyNone ==
    ASSUME NEW X, NEW S, X \cap S = {}, NEW s \in Seq(X)
    PROVE  Only(s, S) = <<>>
<1> DEFINE P == {t \in Seq(X) : Only(t, S) = <<>>}
<1>1. <<>> \in P
  BY EmptySeq, OnlyEmpty
<1>2. ASSUME NEW t \in Seq(X), NEW x \in X, t \in P PROVE Append(t, x) \in P
  BY <1>2, OnlyAppend, AppendProperties
<1> HIDE DEF P
<1>3. Seq(X) \subseteq P
  BY <1>1, <1>2, GrownByAppend
<1>4. QED
  BY <1>3 DEF P

LEMMA OnlyOnly ==
    ASSUME NEW X, NEW S, NEW T, T \subseteq S, NEW s \in Seq(X)
    PROVE  Only(Only(s, S), T) = Only(s, T)
<1> DEFINE P == {t \in Seq(X) : Only(Only(t, S), T) = Only(t, T)}
<1>1. <<>> \in P
  BY EmptySeq, OnlyEmpty
<1>2. ASSUME NEW t \in Seq(X), NEW x \in X, t \in P PROVE Append(t, x) \in P
  <2>1. Append(t, x) \in Seq(X)
    BY AppendProperties
  <2>2. Only(Append(t, x), T) = IF x \in T THEN Append(Only(t, T), x) ELSE Only(t, T)
    BY OnlyAppend
  <2>3. CASE x \in S
    <3>1. Only(t, S) \in Seq(X \cap S) /\ x \in X \cap S
      BY <2>3, OnlyType
    <3>2. Only(Append(Only(t, S), x), T) = IF x \in T THEN Append(Only(Only(t, S), T), x)
                                                     ELSE Only(Only(t, S), T)
      <4> DEFINE Y == X \cap S
                 u == Only(t, S)
      <4>1. u \in Seq(Y) /\ x \in Y
        BY <3>1
      <4> HIDE DEF u, Y
      <4>2. Only(Append(u, x), T) = IF x \in T THEN Append(Only(u, T), x) ELSE Only(u, T)
        BY <4>1, OnlyAppend
      <4>3. QED
        BY <4>2 DEF u
    <3>3. Only(Append(t, x), S) = Append(Only(t, S), x)
      BY <2>3, OnlyAppend
    <3>4. QED
      BY <1>2, <2>1, <2>2, <3>2, <3>3
  <2>4. CASE x \notin S
    <3>1. Only(Append(t, x), S) = Only(t, S)
      BY <2>4, OnlyAppend
    <3>2. QED
      BY <1>2, <2>1, <2>2, <2>4, <3>1
  <2>5. QED
    BY <2>3, <2>4
<1> HIDE DEF P
<1>3. Seq(X) \subseteq P
  BY <1>1, <1>2, GrownByAppend
<1>4. QED
  BY <1>3 DEF P

LEMMA OnlyConcat ==
    ASSUME NEW X, NEW S, NEW s \in Seq(X), NEW t \in Seq(X)
    PROVE  Only(s \o t, S) = Only(s, S) \o Only(t, S)
<1> DEFINE P == {r \in Seq(X) : Only(s \o r, S) = Only(s, S) \o Only(r, S)}
<1>1. <<>> \in P
  <2>1. s \o <<>> = s /\ <<>> \in Seq(X)
    BY ConcatEmptySeq, EmptySeq
  <2>2. Only(s, S) \o <<>> = Only(s, S)
    BY OnlyType, ConcatEmptySeq
  <2>3. QED
    BY <2>1, <2>2, OnlyEmpty
<1>2. ASSUME NEW r \in Seq(X), NEW x \in X, r \in P PROVE Append(r, x) \in P
  <2>1. Append(r, x) \in Seq(X) /\ s \o r \in Seq(X)
    BY AppendProperties, ConcatProperties
  <2>2. s \o Append(r, x) = Append(s \o r, x)
    OBVIOUS
  <2>3. /\ Only(Append(s \o r, x), S) = IF x \in S THEN Append(Only(s \o r, S), x) ELSE Only(s \o r, S)
        /\ Only(Append(r, x), S) = IF x \in S THEN Append(Only(r, S), x) ELSE Only(r, S)
    BY <2>1, OnlyAppend
  <2>4. Only(s, S) \in Seq(X \cap S) /\ Only(r, S) \in Seq(X \cap S)
    BY OnlyType
  <2>5. x \in S => Only(s, S) \o Append(Only(r, S), x) = Append(Only(s, S) \o Only(r, S), x)
    BY <2>4
  <2>6. QED
    BY <1>2, <2>1, <2>2, <2>3, <2>5
<1> HIDE DEF P
<1>3. Seq(X) \subseteq P
  BY <1>1, <1>2, GrownByAppend
<1>4. QED
  BY <1>3 DEF P

LEMMA OnlyOne ==
    ASSUME NEW x, NEW S
    PROVE  Only(<<x>>, S) = IF x \in S THEN <<x>> ELSE <<>>
<1> DEFINE s == <<x>>
<1>1. Len(s) = 1 /\ s[1] = x
  OBVIOUS
<1> HIDE DEF s
<1>2. /\ Only(s, S) = TakingOf(s, S)[Len(s)]
      /\ \A i \in 0 .. Len(s) :
            TakingOf(s, S)[i] = IF i = 0 THEN <<>>
                                ELSE IF s[i] \in S THEN Append(TakingOf(s, S)[i - 1], s[i])
                                                   ELSE TakingOf(s, S)[i - 1]
  BY <1>1, OnlyIsTaking
<1>3. TakingOf(s, S)[0] = <<>>
  BY <1>1, <1>2
<1>4. Only(s, S) = IF x \in S THEN Append(<<>>, x) ELSE <<>>
  <2>1. 1 \in 0 .. Len(s) /\ 1 # 0 /\ 1 - 1 = 0
    BY <1>1
  <2>2. TakingOf(s, S)[1] = IF s[1] \in S THEN Append(TakingOf(s, S)[1 - 1], s[1])
                                           ELSE TakingOf(s, S)[1 - 1]
    BY <1>2, <2>1
  <2>3. QED
    BY <1>1, <1>2, <1>3, <2>1, <2>2
<1>5. QED
  BY <1>4 DEF s

-----------------------------------------------------------------------------
(* The OpenSSH configuration: migrated_config                              *)

(* SelectInSeq finds the first line that is not blank. *)
LEMMA FirstSolid ==
    ASSUME NEW s, Len(s) \in Nat
    PROVE  LET first == SelectInSeq(s, IsSolid)
           IN  \/ first = 0 /\ \A i \in 1 .. Len(s) : s[i] = "blank"
               \/ /\ first \in 1 .. Len(s) /\ s[first] # "blank"
                  /\ \A i \in 1 .. first - 1 : s[i] = "blank"
<1> DEFINE I == {i \in 1 .. Len(s) : s[i] # "blank"}
<1>1. SelectInSeq(s, IsSolid) = IF I # {} THEN Min(I) ELSE 0
  BY DEF SelectInSeq, IsSolid
<1>2. I \subseteq Nat
  OBVIOUS
<1>3. I # {} => Min(I) \in I /\ \A i \in I : Min(I) <= i
  <2> HIDE DEF I
  <2>1. SUFFICES ASSUME I # {} PROVE Min(I) \in I /\ \A i \in I : Min(I) <= i
    OBVIOUS
  <2>2. \E x \in I : \A y \in I : x <= y
    BY <1>2, <2>1, LeastElement
  <2>3. QED
    BY <2>2, Zenon DEF Min
<1> DEFINE m == Min(I)
<1> HIDE DEF m
<1>4. I # {} => m \in I /\ \A i \in I : m <= i
  BY <1>3 DEF m
<1>5. I # {} => m \in 1 .. Len(s) /\ s[m] # "blank" /\ \A i \in 1 .. m - 1 : s[i] = "blank"
  BY <1>4
<1>6. QED
  BY <1>1, <1>5 DEF m

(* What WithoutLeadingBlanks takes off are blank lines and nothing else. *)
LEMMA LeadingBlanks ==
    ASSUME NEW X, NEW s \in Seq(X)
    PROVE  LET w == WithoutLeadingBlanks(s)
           IN  /\ w \in Seq(X)
               /\ w = <<>> \/ w[1] # "blank"
               /\ \E b \in Seq({"blank"}) : s = b \o w
<1> DEFINE first == SelectInSeq(s, IsSolid)
           w == WithoutLeadingBlanks(s)
           b == SubSeq(s, 1, first - 1)
<1>1. Len(s) \in Nat /\ \A i \in 1 .. Len(s) : s[i] \in X
  BY LenProperties, ElementOfSeq
<1>2. \/ first = 0 /\ \A i \in 1 .. Len(s) : s[i] = "blank"
      \/ /\ first \in 1 .. Len(s) /\ s[first] # "blank"
         /\ \A i \in 1 .. first - 1 : s[i] = "blank"
  BY <1>1, FirstSolid
<1>3. w = IF first = 0 THEN <<>> ELSE SubSeq(s, first, Len(s))
  BY DEF WithoutLeadingBlanks
<1> HIDE DEF first, w
<1>4. CASE first = 0
  <2>1. s \in Seq({"blank"})
    BY <1>1, <1>2, <1>4, IsASeq, LenProperties
  <2>2. s = s \o <<>>
    BY ConcatEmptySeq
  <2>3. w = <<>>
    BY <1>3, <1>4
  <2>4. QED
    BY <2>1, <2>2, <2>3, EmptySeq DEF w
<1>5. CASE first # 0
  <2>1. first \in 1 .. Len(s) /\ s[first] # "blank" /\ \A i \in 1 .. first - 1 : s[i] = "blank"
    BY <1>2, <1>5
  <2>2. w = SubSeq(s, first, Len(s))
    BY <1>3, <1>5
  <2>3. b \in Seq({"blank"})
    BY <1>1, <2>1, SubSeqProperties
  <2>4. w \in Seq(X) /\ w[1] = s[first]
    <3>1. \A i \in first .. Len(s) : s[i] \in X
      BY <1>1, <2>1
    <3>2. /\ SubSeq(s, first, Len(s)) \in Seq(X)
          /\ \A i \in 1 .. Len(s) - first + 1 : SubSeq(s, first, Len(s))[i] = s[first + i - 1]
      BY <1>1, <2>1, <3>1, SubSeqProperties
    <3>3. 1 \in 1 .. Len(s) - first + 1 /\ first + 1 - 1 = first
      BY <1>1, <2>1
    <3>4. QED
      BY <2>2, <3>2, <3>3
  <2>5. s = b \o w
    <3>1. 1 \in 1 .. Len(s) + 1 /\ first - 1 \in 1 - 1 .. Len(s) /\ Len(s) \in first - 1 .. Len(s)
          /\ (first - 1) + 1 = first
      BY <1>1, <2>1
    <3>2. SubSeq(s, 1, first - 1) \o SubSeq(s, first, Len(s)) = SubSeq(s, 1, Len(s))
      <4> DEFINE k == first - 1
      <4>1. SubSeq(s, 1, k) \o SubSeq(s, k + 1, Len(s)) = SubSeq(s, 1, Len(s))
        <5>1. k \in 1 - 1 .. Len(s) /\ Len(s) \in k .. Len(s)
          BY <3>1
        <5> HIDE DEF k
        <5>2. QED
          BY <3>1, <5>1, ConcatAdjacentSubSeq
      <4>2. k + 1 = first
        BY <3>1
      <4>3. QED
        BY <4>1, <4>2
    <3>3. SubSeq(s, 1, Len(s)) = s
      BY SubSeqFull
    <3>4. QED
      BY <2>2, <3>2, <3>3
  <2>6. QED
    BY <2>1, <2>3, <2>4, <2>5 DEF w
<1>6. QED
  BY <1>4, <1>5

LEMMA SolidAlready ==
    ASSUME NEW X, NEW s \in Seq(X), s # <<>>, s[1] # "blank"
    PROVE  WithoutLeadingBlanks(<<"blank">> \o s) = s
<1> DEFINE t == <<"blank">> \o s
<1>1. /\ Len(t) = Len(s) + 1 /\ Len(s) \in Nat \ {0}
      /\ t[1] = "blank" /\ t[2] = s[1]
      /\ SubSeq(t, 2, Len(t)) = s
  OBVIOUS
<1> HIDE DEF t
<1>2. SelectInSeq(t, IsSolid) = 2
  <2> DEFINE first == SelectInSeq(t, IsSolid)
  <2>1. \/ first = 0 /\ \A i \in 1 .. Len(t) : t[i] = "blank"
        \/ /\ first \in 1 .. Len(t) /\ t[first] # "blank"
           /\ \A i \in 1 .. first - 1 : t[i] = "blank"
    BY <1>1, FirstSolid
  <2> HIDE DEF first
  <2>2. first = 2
    BY <1>1, <2>1
  <2>3. QED
    BY <2>2 DEF first
<1>3. WithoutLeadingBlanks(t) = SubSeq(t, 2, Len(t))
  BY <1>2 DEF WithoutLeadingBlanks
<1>4. QED
  BY <1>1, <1>3 DEF t

(* What the rest rests on: migrating a configuration puts the include first and
   once, keeps the lines of the user, and changes nothing when it is repeated. *)
LEMMA MigratedFacts ==
    ASSUME NEW s \in Seq(Lines)
    PROVE  /\ Migrated(s) \in Seq(Lines)
           /\ Contains(Migrated(s), "include")
           /\ UserPart(Migrated(s)) = UserPart(s)
           /\ Migrated(Migrated(s)) = Migrated(s)
           /\ {i \in DOMAIN Migrated(s) : Migrated(s)[i] \in {"include", "legacy"}} = {1}
           /\ Migrated(s)[1] = "include"
<1> DEFINE kept == Only(s, KeptLines)
           body == WithoutLeadingBlanks(kept)
           head == <<"include", "blank">>
<1>1. /\ "include" \in Lines /\ "blank" \in Lines /\ "blank" \in KeptLines /\ "include" \notin KeptLines
      /\ KeptLines \subseteq Lines /\ UserLines \subseteq KeptLines
      /\ "blank" \notin UserLines /\ "include" \notin UserLines
  BY ConfigAssumption DEF KeptLines, Lines, IsKept
<1>2. kept \in Seq(KeptLines)
  <2>1. Lines \cap KeptLines = KeptLines
    BY <1>1
  <2>2. QED
    BY <2>1, OnlyType
<1>3. /\ body \in Seq(KeptLines) /\ (body = <<>> \/ body[1] # "blank")
      /\ \E b \in Seq({"blank"}) : kept = b \o body
  <2> HIDE DEF kept
  <2>1. QED
    BY <1>2, LeadingBlanks
<1>4. UserPart(kept) = UserPart(s)
  BY <1>1, OnlyOnly DEF UserPart
<1> HIDE DEF kept
<1> HIDE DEF body
<1>5. UserPart(body) = UserPart(kept)
  <2>1. PICK b \in Seq({"blank"}) : kept = b \o body
    BY <1>3
  <2>2. b \in Seq(KeptLines)
    BY <1>1, SeqMonotonic
  <2>3. Only(kept, UserLines) = Only(b, UserLines) \o Only(body, UserLines)
    BY <1>3, <2>1, <2>2, OnlyConcat
  <2>4. Only(b, UserLines) = <<>>
    BY <1>1, OnlyNone
  <2>5. Only(body, UserLines) \in Seq(KeptLines \cap UserLines)
    BY <1>3, OnlyType
  <2>6. QED
    BY <2>3, <2>4, <2>5, ConcatEmptySeq DEF UserPart
<1>6. /\ <<"include">> \in Seq(Lines) /\ head \in Seq(Lines) /\ body \in Seq(Lines)
      /\ <<"blank">> \in Seq(Lines) /\ head = <<"include">> \o <<"blank">>
  BY <1>1, <1>3, SeqMonotonic
<1>7. ASSUME NEW S, "include" \notin S
      PROVE  /\ Only(<<"include">>, S) = <<>>
             /\ Only(head, S) = IF "blank" \in S THEN <<"blank">> ELSE <<>>
  <2>1. Only(<<"include">>, S) = <<>> /\ Only(<<"blank">>, S) = IF "blank" \in S THEN <<"blank">> ELSE <<>>
    BY <1>7, OnlyOne
  <2>2. Only(<<"include">> \o <<"blank">>, S) = Only(<<"include">>, S) \o Only(<<"blank">>, S)
    BY <1>6, OnlyConcat
  <2>3. <<>> \o <<"blank">> = <<"blank">> /\ <<>> \o <<>> = <<>>
    OBVIOUS
  <2>4. Only(head, S) = Only(<<"include">>, S) \o Only(<<"blank">>, S)
    BY <1>6, <2>2
  <2> HIDE DEF head
  <2>5. QED
    BY <2>1, <2>3, <2>4
<1>8. CASE body = <<>>
  <2>1. Migrated(s) = <<"include">>
    BY <1>8 DEF Migrated, body, kept
  <2>2. Only(<<"include">>, KeptLines) = <<>> /\ UserPart(<<"include">>) = <<>> /\ UserPart(<<>>) = <<>>
    BY <1>1, <1>7, OnlyEmpty DEF UserPart
  <2>3. WithoutLeadingBlanks(<<>>) = <<>>
    BY LeadingBlanks, EmptySeq DEF WithoutLeadingBlanks
  <2>4. Migrated(<<"include">>) = <<"include">>
    BY <2>2, <2>3 DEF Migrated
  <2>5. QED
    BY <1>4, <1>5, <1>6, <1>8, <2>1, <2>2, <2>4 DEF Contains
<1>9. CASE body # <<>>
  <2>1. Migrated(s) = head \o body
    BY <1>9 DEF Migrated, body, kept
  <2>2. UserPart(head \o body) = UserPart(body)
    <3>1. Only(head, UserLines) = <<>>
      BY <1>1, <1>7
    <3>2. Only(head \o body, UserLines) = Only(head, UserLines) \o Only(body, UserLines)
      BY <1>6, OnlyConcat
    <3>3. Only(body, UserLines) \in Seq(Lines \cap UserLines)
      BY <1>6, OnlyType
    <3>4. QED
      BY <3>1, <3>2, <3>3, ConcatEmptySeq DEF UserPart
  <2>3. Only(head \o body, KeptLines) = <<"blank">> \o body
    <3>1. Only(head, KeptLines) = <<"blank">>
      BY <1>1, <1>7
    <3>2. Only(body, KeptLines) = body
      BY <1>3, OnlyAll
    <3>3. Only(head \o body, KeptLines) = Only(head, KeptLines) \o Only(body, KeptLines)
      BY <1>6, OnlyConcat
    <3>4. QED
      BY <3>1, <3>2, <3>3
  <2>4. Migrated(head \o body) = head \o body
    BY <1>3, <1>9, <2>3, SolidAlready DEF Migrated
  <2>5. head \o body \in Seq(Lines) /\ Len(head \o body) = Len(body) + 2
    BY <1>6
  <2>6. (head \o body)[1] = "include" /\ \A i \in DOMAIN (head \o body) : i # 1 => (head \o body)[i] \in KeptLines
    BY <1>1, <1>3
  <2>7. QED
    BY <1>4, <1>5, <2>1, <2>2, <2>4, <2>5, <2>6, LenProperties DEF Contains, KeptLines, IsKept
<1>10. QED
  BY <1>8, <1>9

-----------------------------------------------------------------------------
(* The OpenSSH configuration: the inductive invariant                      *)

(* An install that is about to write has read the configuration as it is, and
   one that is about to remove the former file has seen to the include, unless
   an edit came since; what is to be kept of the user's is what the configuration
   holds of it. *)
ExistingIsCurrent == installer.pc = "write" /\ ~raced => installer.existing = config
IncludeFirst == installer.pc = "remove" /\ ~raced => Contains(config, "include")

ConfigInv ==
    /\ ConfigTypeOK
    /\ UserLinesKept
    /\ MigrationIsStable
    /\ ExistingIsCurrent
    /\ IncludeFirst

LEMMA UserConfigType ==
    ASSUME NEW lines \in UserConfigs
    PROVE  lines \in Seq(Lines) /\ UserPart(lines) \in Seq(UserLines)
<1>1. lines \in Seq(Lines)
  BY ConfigAssumption, SeqDef DEF UserConfigs
<1>2. Lines \cap UserLines = UserLines
  BY DEF Lines
<1>3. QED
  BY <1>1, <1>2, OnlyType DEF UserPart

LEMMA StepType ==
    ASSUME NEW pc \in InstallSteps, Step(pc)
    PROVE  installer' \in [pc : InstallSteps, existing : Seq(Lines)] /\ installer'.pc = pc
BY EmptySeq DEF Step, NotInstalling

LEMMA ConfigInitInv == ConfigInit => ConfigInv
<1> SUFFICES ASSUME ConfigInit PROVE ConfigInv
  OBVIOUS
<1>1. ConfigTypeOK
  <2>1. config \in Seq(Lines) /\ written \in Seq(UserLines) /\ 0 \in 0 .. MaxEdits
    BY UserConfigType, ConfigAssumption DEF ConfigInit
  <2>2. installer \in [pc : InstallSteps, existing : Seq(Lines)] /\ installer.pc = "idle"
    BY EmptySeq DEF ConfigInit, NotInstalling, InstallSteps
  <2>3. QED
    BY <2>1, <2>2 DEF ConfigInit, ConfigTypeOK
<1>2. QED
  BY <1>1 DEF ConfigInit, ConfigInv, UserLinesKept, MigrationIsStable, ExistingIsCurrent, IncludeFirst,
              NotInstalling

LEMMA ConfigStepInv == ConfigInv /\ [ConfigNext]_configVars => ConfigInv'
<1> SUFFICES ASSUME ConfigInv, [ConfigNext]_configVars PROVE ConfigInv'
  OBVIOUS
<1> USE DEF ConfigInv, InstallSteps
<1>1. CASE EmptyConf
  BY <1>1, StepType DEF EmptyConf, ConfigTypeOK, UserLinesKept, MigrationIsStable,
     ExistingIsCurrent, IncludeFirst
<1>2. CASE FillConf
  BY <1>2, StepType DEF FillConf, ConfigTypeOK, UserLinesKept, MigrationIsStable,
     ExistingIsCurrent, IncludeFirst
<1>3. CASE ReadConfig
  BY <1>3 DEF ReadConfig, ConfigTypeOK, UserLinesKept, MigrationIsStable,
     ExistingIsCurrent, IncludeFirst
<1>4. CASE WriteConfig
  <2> DEFINE new == Migrated(installer.existing)
  <2>1. installer.existing \in Seq(Lines)
    BY DEF ConfigTypeOK
  <2>2. /\ new \in Seq(Lines) /\ Contains(new, "include") /\ UserPart(new) = UserPart(installer.existing)
        /\ Migrated(new) = new
        /\ {i \in DOMAIN new : new[i] \in {"include", "legacy"}} = {1} /\ new[1] = "include"
    BY <2>1, MigratedFacts
  <2>3. installer'.pc = "remove" /\ installer' \in [pc : InstallSteps, existing : Seq(Lines)]
    BY <1>4, StepType DEF WriteConfig
  <2>4. CASE new # installer.existing
    <3> HIDE DEF new
    <3>1. /\ config' = new /\ migrated' = TRUE /\ raced' = FALSE
          /\ written' = IF raced THEN UserPart(new) ELSE written
          /\ UNCHANGED <<keynoxis, yubiagent, edits>>
      BY <1>4, <2>4 DEF WriteConfig, new
    <3>2. ConfigTypeOK'
      <4>1. UserPart(new) \in Seq(UserLines)
        BY <2>2, OnlyType DEF UserPart, Lines
      <4>2. QED
        BY <1>4, <2>2, <2>3, <3>1, <4>1 DEF ConfigTypeOK, WriteConfig
    <3>3. UserLinesKept'
      BY <1>4, <2>2, <3>1 DEF UserLinesKept, ExistingIsCurrent, WriteConfig
    <3>4. MigrationIsStable'
      BY <2>2, <3>1 DEF MigrationIsStable
    <3>5. QED
      BY <2>2, <2>3, <3>1, <3>2, <3>3, <3>4 DEF ExistingIsCurrent, IncludeFirst
  <2>5. CASE new = installer.existing
    <3>1. UNCHANGED <<config, migrated, keynoxis, yubiagent, edits, written, raced>>
      BY <1>4, <2>5 DEF WriteConfig
    <3> HIDE DEF new
    <3>2. ConfigTypeOK'
      BY <1>4, <2>3, <3>1 DEF ConfigTypeOK, WriteConfig
    <3>3. IncludeFirst'
      BY <1>4, <2>2, <2>5, <3>1 DEF IncludeFirst, ExistingIsCurrent, WriteConfig
    <3>4. QED
      BY <2>3, <3>1, <3>2, <3>3 DEF UserLinesKept, MigrationIsStable, ExistingIsCurrent
  <2>6. QED
    BY <2>4, <2>5
<1>5. CASE WriteConfigFails
  BY <1>5, StepType DEF WriteConfigFails, ConfigTypeOK, UserLinesKept, MigrationIsStable,
     ExistingIsCurrent, IncludeFirst
<1>6. CASE RemoveLegacy
  BY <1>6, StepType DEF RemoveLegacy, WithoutLegacy, ConfigTypeOK, UserLinesKept, MigrationIsStable,
                        ExistingIsCurrent, IncludeFirst
<1>7. CASE InstallEnds
  BY <1>7, StepType DEF InstallEnds, ConfigTypeOK, UserLinesKept, MigrationIsStable,
     ExistingIsCurrent, IncludeFirst
<1>8. CASE UserEdits
  <2>1. config' \in Seq(Lines) /\ UserPart(config') \in Seq(UserLines)
    BY <1>8, UserConfigType DEF UserEdits
  <2>2. edits' \in 0 .. MaxEdits /\ (installer.pc \in {"write", "remove"}) \in BOOLEAN
    BY <1>8, ConfigAssumption DEF UserEdits, ConfigTypeOK
  <2>3. QED
    BY <1>8, <2>1, <2>2 DEF UserEdits, ConfigTypeOK, UserLinesKept, MigrationIsStable, ExistingIsCurrent,
                            IncludeFirst
<1>9. CASE UNCHANGED configVars
  BY <1>9 DEF configVars, ConfigTypeOK, UserLinesKept, MigrationIsStable,
     ExistingIsCurrent, IncludeFirst
<1>10. QED
  BY <1>1, <1>2, <1>3, <1>4, <1>5, <1>6, <1>7, <1>8, <1>9 DEF ConfigNext

LEMMA ConfigInvariant == ConfigSpec => []ConfigInv
BY ConfigInitInv, ConfigStepInv, PTL DEF ConfigSpec

LEMMA StepKeepsReaching ==
    ASSUME ConfigInv, [ConfigNext]_configVars, Reaches, ~Reaches'
    PROVE  \/ edits' # edits
           \/ keynoxis = "ours" /\ keynoxis' = "partial"
           \/ raced /\ yubiagent' # yubiagent
<1> USE DEF ConfigInv
<1>1. CASE EmptyConf
  BY <1>1 DEF EmptyConf, Reaches
<1>2. CASE FillConf
  BY <1>2 DEF FillConf, Reaches
<1>3. CASE ReadConfig
  BY <1>3 DEF ReadConfig, Reaches
<1>4. CASE WriteConfig
  <2>1. Contains(Migrated(installer.existing), "include")
    BY MigratedFacts DEF ConfigTypeOK
  <2>2. CASE Migrated(installer.existing) # installer.existing
    <3>1. config' = Migrated(installer.existing) /\ keynoxis' = "ours"
      BY <1>4, <2>2 DEF WriteConfig, ConfigTypeOK
    <3> DEFINE new == Migrated(installer.existing)
    <3> HIDE DEF new
    <3>2. QED
      BY <2>1, <3>1 DEF Reaches, new
  <2>3. CASE Migrated(installer.existing) = installer.existing
    BY <1>4, <2>3 DEF WriteConfig, Reaches
  <2>4. QED
    BY <2>2, <2>3
<1>5. CASE WriteConfigFails
  BY <1>5 DEF WriteConfigFails, Reaches
<1>6. CASE RemoveLegacy
  BY <1>6 DEF RemoveLegacy, Reaches, IncludeFirst, ConfigTypeOK
<1>7. CASE InstallEnds
  BY <1>7 DEF InstallEnds, Reaches
<1>8. CASE UserEdits
  BY <1>8 DEF UserEdits, ConfigTypeOK
<1>9. CASE UNCHANGED configVars
  BY <1>9 DEF configVars, Reaches
<1>10. QED
  BY <1>1, <1>2, <1>3, <1>4, <1>5, <1>6, <1>7, <1>8, <1>9 DEF ConfigNext

-----------------------------------------------------------------------------
(* The OpenSSH configuration: theorems                                     *)

\* Every variable has its type, and no install touches the configuration before
\* keynoxis.conf is complete (install).
THEOREM ConfigTypeCorrect == ConfigSpec => []ConfigTypeOK
BY ConfigInvariant, PTL DEF ConfigInv

\* Through any number of installs that fail or are cut off anywhere, the user's
\* lines stay as the user left them, whatever and however long the configuration
\* is (install, migrated_config).  The exception is an edit between the reading
\* and the writing of an install that rewrites the configuration.
THEOREM UserLinesAreKept == ConfigSpec => []UserLinesKept
BY ConfigInvariant, PTL DEF ConfigInv

\* A configuration that install has written includes keynoxis.conf once and first,
\* and the next install has nothing to change (migrated_config).
THEOREM MigrationStaysStable == ConfigSpec => []MigrationIsStable
BY ConfigInvariant, PTL DEF ConfigInv

\* No step of an install takes the agent away from OpenSSH (install,
\* remove_legacy_integration), but the one that empties keynoxis.conf, and the
\* removal of the former file after an edit the install has not read.
THEOREM InstallNeverDisconnects == ConfigSpec => NeverDisconnects
BY ConfigInvariant, StepKeepsReaching, PTL DEF ConfigSpec, NeverDisconnects
=============================================================================
