------------------------- MODULE EnclaveStoreProofs -------------------------
(***************************************************************************)
(* The Secure Enclave keys: no interleaving of the commands, no failed     *)
(* write and no restart loses a key that was reported, lets memory and     *)
(* registry drift apart, or makes the registry anything but a KeyTable.    *)
(***************************************************************************)
EXTENDS EnclaveStore, TLAPS

-----------------------------------------------------------------------------
(* The inductive invariant.  j stands for the job of a thread w.           *)

(* Only the main thread creates, renames and sets preferences, only the others
   delete; a deletion has no name, and a preference goes straight to merge. *)
Fits(w, j) ==
    /\ IF w = "main" THEN j.what # "delete" ELSE j.what = "delete" \/ j = Idle
    /\ j.pc \in {"want", "write"} => j.what \in {"create", "rename", "delete"}
    /\ j.what \in {"create", "rename"} => j.name \in Names
    /\ j.what = "delete" => j.name = NoName

(* The entries in hand are the registry but for key k, by an edit that the code
   does not reject. *)
Edits(j, k) ==
    /\ j.keys = {k}
    /\ IF j.what = "create" THEN k \notin registered ELSE registry[k] # NoName
    /\ j.what # "delete" => \A other \in Keys \ {k} : registry[other] # j.name
    /\ j.entries = [registry EXCEPT ![k] = j.name]

(* A key that is meant by a rename or a deletion has been in the registry, and
   leaves memory only after it has left the registry. *)
Means(j) ==
    j.what \in {"rename", "delete"} =>
       \A k \in j.keys : k \in registered /\ (Listed(k) \/ registry[k] = NoName)

JobsFit ==
    \A w \in Threads : Fits(w, job[w]) /\ Means(job[w])

(* The mutex: one thread at most has entries in hand. *)
MutexOK ==
    /\ \A w, x \in Threads : job[w].pc = "write" /\ job[x].pc = "write" => w = x
    /\ \A w \in Threads : job[w].pc = "write" => \E k \in Keys : Edits(job[w], k)

KnownKeys == \A k \in Keys : registry[k] # NoName \/ Listed(k) => k \in registered

(* A key whose creation is still to be merged is in the registry and nowhere
   else: nobody can have asked to delete it. *)
CreationPrivate ==
    Doing("main", "merge", "create") =>
       \A k \in job["main"].keys :
          /\ registry[k] = job["main"].name
          /\ ~Listed(k)
          /\ \A w \in Deleters : k \notin job[w].keys

(* A name still to be merged is the one in the registry, unless the key has been
   deleted since; a deletion still to be merged has happened there; a
   preference still to be merged has been saved. *)
MergesFollow ==
    /\ Doing("main", "merge", "rename") =>
          \A k \in job["main"].keys : registry[k] \in {job["main"].name, NoName}
    /\ \A w \in Threads : Doing(w, "merge", "delete") =>
          \A k \in job[w].keys : registry[k] = NoName
    /\ Doing("main", "merge", "disable") => job["main"].keys \subseteq disabled

(* Memory shows the registry, or is about to. *)
Follows(k) ==
    \/ comment[k] = registry[k]
    \/ blind /\ comment[k] = NoName
    \/ \E w \in Threads : Doing(w, "merge", "delete") /\ k \in job[w].keys
    \/ /\ Doing("main", "merge", "create") \/ Doing("main", "merge", "rename")
       /\ k \in job["main"].keys /\ registry[k] = job["main"].name

EnclaveInv ==
    /\ EnclaveTypeOK
    /\ JobsFit
    /\ MutexOK
    /\ KnownKeys
    /\ CreationPrivate
    /\ MergesFollow
    /\ \A k \in Keys : Follows(k)
    /\ ReportedIsKept
    /\ DisabledIsStored

-----------------------------------------------------------------------------
(* Facts about jobs                                                        *)

LEMMA IdleFields ==
    /\ Idle.pc = "idle" /\ Idle.what = "none" /\ Idle.keys = {}
    /\ Idle.name = NoName /\ Idle.entries = NoKeys /\ Idle \in Jobs
BY DEF Idle, Jobs, NoKeys, NameOrNone

LEMMA ThreadFacts == "main" \in Threads /\ \A w \in Deleters : w \in Threads /\ w # "main"
BY EnclaveAssumption DEF Threads

-----------------------------------------------------------------------------
(* Steps that change a job outside of merge, and nothing else              *)

LEMMA JobOnly ==
    ASSUME EnclaveInv, NEW w \in Threads, NEW j \in Jobs,
           job' = [job EXCEPT ![w] = j],
           UNCHANGED <<registry, disabled, comment, enabled, registered, reported, blind>>,
           job[w].pc # "merge", j.pc # "merge", Fits(w, j), Means(j),
           j.pc = "write" => EnclaveFree /\ \E k \in Keys : Edits(j, k),
           \A k \in j.keys : Listed(k) \/ k \in job[w].keys \/ w = "main"
    PROVE  EnclaveInv'
<1> USE ThreadFacts
<1>0. job \in [Threads -> Jobs]
  BY DEF EnclaveInv, EnclaveTypeOK
<1>1. EnclaveTypeOK'
  BY <1>0 DEF EnclaveInv, EnclaveTypeOK, Listed
<1>2. JobsFit'
  BY <1>0 DEF EnclaveInv, JobsFit, Fits, Means, Listed
<1>3. MutexOK'
  <2>1. \A x \in Threads, k \in Keys : x # w /\ Edits(job[x], k) => Edits(job[x], k)'
    BY <1>0 DEF Edits
  <2>2. \A k \in Keys : Edits(j, k) => Edits(job[w], k)'
    BY <1>0 DEF Edits
  <2>3. QED
    BY <1>0, <2>1, <2>2 DEF EnclaveInv, MutexOK, EnclaveFree
<1>4. KnownKeys'
  BY DEF EnclaveInv, KnownKeys, Listed
<1>5. CreationPrivate'
  BY <1>0 DEF EnclaveInv, CreationPrivate, Doing, Listed
<1>6. MergesFollow'
  BY <1>0 DEF EnclaveInv, MergesFollow, Doing
<1>7. (\A k \in Keys : Follows(k))'
  BY <1>0 DEF EnclaveInv, Follows, Doing
<1>8. ReportedIsKept' /\ DisabledIsStored'
  BY <1>0 DEF EnclaveInv, ReportedIsKept, DisabledIsStored, Doing, Listed
<1>9. QED
  BY <1>1, <1>2, <1>3, <1>4, <1>5, <1>6, <1>7, <1>8 DEF EnclaveInv

LEMMA AskInv ==
    ASSUME EnclaveInv,
           \/ \E name \in Names : AskCreate(name) \/ \E k \in Keys : AskRename(k, name)
           \/ \E w \in Deleters, k \in Keys : AskDelete(w, k)
    PROVE  EnclaveInv'
<1> USE ThreadFacts, IdleFields
<1>1. ASSUME NEW name \in Names, AskCreate(name)
      PROVE  EnclaveInv'
  <2> DEFINE j == [Idle EXCEPT !.pc = "want", !.what = "create", !.name = name]
  <2>1. j \in Jobs /\ j.pc = "want" /\ j.what = "create" /\ j.name = name /\ j.keys = {}
    BY DEF Jobs, NameOrNone
  <2>2. Fits("main", j) /\ Means(j)
    BY <2>1 DEF Fits, Means
  <2>3. QED
    BY <1>1, <2>1, <2>2, JobOnly DEF AskCreate
<1>2. ASSUME NEW name \in Names, NEW k \in Keys, AskRename(k, name)
      PROVE  EnclaveInv'
  <2> DEFINE j == [Idle EXCEPT !.pc = "want", !.what = "rename", !.keys = {k}, !.name = name]
  <2>1. j \in Jobs /\ j.pc = "want" /\ j.what = "rename" /\ j.name = name /\ j.keys = {k}
    BY DEF Jobs, NameOrNone
  <2>2. Fits("main", j) /\ Means(j)
    BY <1>2, <2>1 DEF Fits, Means, AskRename, EnclaveInv, KnownKeys
  <2>3. QED
    BY <1>2, <2>1, <2>2, JobOnly DEF AskRename
<1>3. ASSUME NEW w \in Deleters, NEW k \in Keys, AskDelete(w, k)
      PROVE  EnclaveInv'
  <2> DEFINE j == [Idle EXCEPT !.pc = "want", !.what = "delete", !.keys = {k}]
  <2>1. j \in Jobs /\ j.pc = "want" /\ j.what = "delete" /\ j.name = NoName /\ j.keys = {k}
    BY DEF Jobs, NameOrNone
  <2>2. Fits(w, j) /\ Means(j)
    BY <1>3, <2>1 DEF Fits, Means, AskDelete, EnclaveInv, KnownKeys
  <2>3. QED
    BY <1>3, <2>1, <2>2, JobOnly DEF AskDelete
<1>4. QED
  BY <1>1, <1>2, <1>3

LEMMA EndInv ==
    ASSUME EnclaveInv, NEW w \in Threads, Refused(w) \/ WriteFails(w)
    PROVE  EnclaveInv'
<1>1. Fits(w, Idle) /\ Means(Idle)
  BY IdleFields, EnclaveAssumption DEF Fits, Means
<1>2. QED
  BY <1>1, IdleFields, JobOnly DEF Refused, WriteFails, Finish

LEMMA ReadRegistryInv ==
    ASSUME EnclaveInv, NEW w \in Threads, ReadRegistry(w)
    PROVE  EnclaveInv'
<1>1. PICK k \in Keys :
         /\ ~Rejects(registry, w, k)
         /\ job' = [job EXCEPT ![w].pc = "write", ![w].keys = {k},
                               ![w].entries = [registry EXCEPT ![k] = job[w].name]]
  BY DEF ReadRegistry, Edit
<1> DEFINE j == [job[w] EXCEPT !.pc = "write", !.keys = {k},
                               !.entries = [registry EXCEPT ![k] = job[w].name]]
<1>2. job[w] \in Jobs /\ job \in [Threads -> Jobs] /\ registry \in [Keys -> NameOrNone]
  BY DEF EnclaveInv, EnclaveTypeOK
<1>3. /\ j.pc = "write" /\ j.keys = {k} /\ j.what = job[w].what /\ j.name = job[w].name
      /\ j.entries = [registry EXCEPT ![k] = job[w].name] /\ j \in Jobs
  BY <1>2 DEF Jobs
<1>4. job' = [job EXCEPT ![w] = j]
  BY <1>1, <1>2
<1>5. job[w].pc = "want" /\ Fits(w, job[w]) /\ Means(job[w])
  BY DEF ReadRegistry, EnclaveInv, JobsFit
<1>6. job[w] # Idle /\ job[w].what \in {"create", "rename", "delete"}
  BY <1>5, IdleFields DEF Fits
<1>7. Edits(j, k)
  BY <1>1, <1>3, <1>6 DEF Edits, Rejects
<1>8. k \in job[w].keys \/ j.what = "create"
  BY <1>1, <1>3, <1>6 DEF Rejects
<1>9. Fits(w, j) /\ Means(j)
  BY <1>3, <1>5, <1>6, <1>8 DEF Fits, Means
<1>10. k \in job[w].keys \/ w = "main"
  BY <1>3, <1>5, <1>6, <1>8 DEF Fits
<1>11. QED
  BY <1>3, <1>4, <1>5, <1>7, <1>9, <1>10, JobOnly DEF ReadRegistry

-----------------------------------------------------------------------------
(* The registry is replaced                                                *)

(* The fields of the job of a thread whose write has succeeded. *)
LEMMA Written ==
    ASSUME EnclaveInv, NEW w \in Threads, WriteRegistry(w)
    PROVE  /\ job \in [Threads -> Jobs]
           /\ job'[w].pc = "merge" /\ job'[w].what = job[w].what /\ job'[w].keys = job[w].keys
           /\ job'[w].name = job[w].name
           /\ job' \in [Threads -> Jobs]
           /\ \A x \in Threads \ {w} : job'[x] = job[x] /\ job[x].pc # "write"
<1> DEFINE j == [job[w] EXCEPT !.pc = "merge", !.entries = NoKeys]
<1>1. job \in [Threads -> Jobs] /\ job[w] \in Jobs
  BY DEF EnclaveInv, EnclaveTypeOK
<1>2. /\ j.pc = "merge" /\ j.what = job[w].what /\ j.keys = job[w].keys
      /\ j.name = job[w].name /\ j \in Jobs
  BY <1>1 DEF Jobs, NoKeys, NameOrNone
<1>3. job' = [job EXCEPT ![w] = j]
  BY DEF WriteRegistry
<1> HIDE DEF j
<1>4. job'[w] = j /\ job' \in [Threads -> Jobs] /\ \A x \in Threads \ {w} : job'[x] = job[x]
  BY <1>1, <1>2, <1>3
<1>5. \A x \in Threads \ {w} : job[x].pc # "write"
  BY DEF WriteRegistry, EnclaveInv, MutexOK
<1>6. QED
  BY <1>1, <1>2, <1>4, <1>5

LEMMA WriteRegistryInv ==
    ASSUME EnclaveInv, NEW w \in Threads, WriteRegistry(w)
    PROVE  EnclaveInv'
<1> USE ThreadFacts, Written
<1>1. PICK k \in Keys : Edits(job[w], k)
  BY DEF EnclaveInv, MutexOK, WriteRegistry
<1>2. /\ job[w].pc = "write" /\ job[w].keys = {k} /\ job[w].name \in NameOrNone
      /\ registry \in [Keys -> NameOrNone]
      /\ job[w].what \in {"create", "rename", "delete"}
      /\ Fits(w, job[w]) /\ Means(job[w])
  BY <1>1 DEF WriteRegistry, EnclaveInv, EnclaveTypeOK, JobsFit, Fits, Edits, Jobs
<1>3. /\ registry' = [registry EXCEPT ![k] = job[w].name]
      /\ UNCHANGED <<disabled, comment, enabled, blind>>
      /\ registered' = registered \cup {i \in Keys : registry'[i] # NoName}
      /\ reported' = IF job[w].what = "delete" THEN reported \ {k} ELSE reported
  BY <1>1, <1>2 DEF WriteRegistry, Edits
<1>4. job[w].what = "delete" <=> job[w].name = NoName
  BY <1>2, EnclaveAssumption DEF Fits
<1>5. EnclaveTypeOK'
  BY <1>2, <1>3 DEF EnclaveInv, EnclaveTypeOK, Listed
<1>6. JobsFit'
  <2>1. \A x \in Threads : Fits(x, job'[x])
    BY <1>2, IdleFields DEF EnclaveInv, JobsFit, Fits
  <2>2. ASSUME NEW x \in Threads, job'[x].what \in {"rename", "delete"}, NEW i \in job'[x].keys
        PROVE  i \in registered' /\ (Listed(i)' \/ registry'[i] = NoName)
    <3>1. i \in Keys /\ i \in registered /\ (Listed(i) \/ registry[i] = NoName)
      BY <2>2 DEF EnclaveInv, EnclaveTypeOK, JobsFit, Means, Jobs
    <3>2. CASE i # k
      BY <3>1, <3>2, <1>2, <1>3 DEF Listed
    <3>3. CASE i = k
      BY <3>1, <3>3, <1>1, <1>2, <1>3, <1>4 DEF Listed, Edits
    <3>4. QED
      BY <3>2, <3>3
  <2>3. QED
    BY <2>1, <2>2 DEF JobsFit, Means
<1>7. MutexOK'
  BY DEF MutexOK
<1>8. KnownKeys'
  BY <1>2, <1>3 DEF EnclaveInv, KnownKeys, Listed
<1>9. CreationPrivate'
  <2>1. CASE Doing("main", "merge", "create")
    <3>1. w # "main"
      BY <2>1, <1>2 DEF Doing
    <3>2. k \notin job["main"].keys
      BY <2>1, <3>1, <1>2 DEF EnclaveInv, CreationPrivate, Threads
    <3>3. \A i \in job["main"].keys : i \in Keys /\ i # k
      BY <3>2 DEF EnclaveInv, EnclaveTypeOK, Jobs
    <3>4. QED
      BY <2>1, <3>1, <3>3, <1>2, <1>3 DEF EnclaveInv, CreationPrivate, Doing, Listed, Threads
  <2>2. CASE w = "main" /\ job[w].what = "create"
    <3>1. k \notin registered
      BY <2>2, <1>1 DEF Edits
    <3>2. ~Listed(k)
      BY <3>1 DEF EnclaveInv, KnownKeys
    <3>3. \A x \in Deleters : k \notin job[x].keys
      BY <3>1, IdleFields DEF EnclaveInv, JobsFit, Fits, Means
    <3>4. \A x \in Deleters : job'[x] = job[x]
      BY <2>2
    <3>5. QED
      BY <2>2, <3>2, <3>3, <3>4, <1>2, <1>3 DEF CreationPrivate, Listed
  <2>3. QED
    BY <2>1, <2>2, <1>2 DEF CreationPrivate, Doing
<1>10. MergesFollow'
  <2>1. Doing("main", "merge", "rename")' =>
          \A i \in job'["main"].keys : registry'[i] \in {job'["main"].name, NoName}
    <3>1. CASE w = "main"
      BY <3>1, <1>2, <1>3
    <3>2. CASE w # "main"
      <4>1. job[w].name = NoName
        BY <3>2, <1>2, <1>4, IdleFields DEF Fits
      <4>2. \A i \in job["main"].keys : i \in Keys
        BY DEF EnclaveInv, EnclaveTypeOK, Jobs
      <4>3. QED
        BY <3>2, <4>1, <4>2, <1>2, <1>3 DEF EnclaveInv, MergesFollow, Doing
    <3>3. QED
      BY <3>1, <3>2
  <2>2. ASSUME NEW x \in Threads, Doing(x, "merge", "delete")', NEW i \in job'[x].keys
        PROVE  registry'[i] = NoName
    <3>1. CASE x = w
      BY <3>1, <2>2, <1>2, <1>3, <1>4 DEF Doing
    <3>2. CASE x # w
      <4>1. i \in Keys /\ registry[i] = NoName /\ i \in registered
        BY <3>2, <2>2 DEF EnclaveInv, EnclaveTypeOK, Jobs, JobsFit, Means, MergesFollow, Doing
      <4>2. i # k
        BY <4>1, <1>1, <1>2 DEF Edits
      <4>3. QED
        BY <4>1, <4>2, <1>2, <1>3
    <3>3. QED
      BY <3>1, <3>2
  <2>3. (Doing("main", "merge", "disable") => job["main"].keys \subseteq disabled)'
    BY <1>2, <1>3 DEF EnclaveInv, MergesFollow, Doing
  <2>4. QED
    BY <2>1, <2>2, <2>3 DEF MergesFollow
<1>11. ASSUME NEW i \in Keys
       PROVE  Follows(i)'
  <2>1. CASE i = k /\ job[w].what = "delete"
    BY <2>1, <1>2 DEF Follows, Doing
  <2>2. CASE i = k /\ job[w].what \in {"create", "rename"}
    <3>1. w = "main"
      BY <2>2, <1>2, IdleFields DEF Fits
    <3>2. QED
      BY <2>2, <3>1, <1>2, <1>3 DEF Follows, Doing
  <2>3. CASE i # k
    <3>1. registry'[i] = registry[i] /\ comment'[i] = comment[i]
      BY <2>3, <1>2, <1>3
    <3>2. \A x \in Threads : Doing(x, "merge", "delete") /\ i \in job[x].keys
                               => (Doing(x, "merge", "delete") /\ i \in job[x].keys)'
      BY <1>2 DEF Doing
    <3>3. QED
      BY <3>1, <3>2, <1>2, <1>3 DEF EnclaveInv, Follows, Doing
  <2>4. QED
    BY <2>1, <2>2, <2>3, <1>2
<1>12. ReportedIsKept'
  BY <1>2, <1>3, <1>4 DEF EnclaveInv, EnclaveTypeOK, ReportedIsKept
<1>13. DisabledIsStored'
  BY <1>2, <1>3 DEF EnclaveInv, DisabledIsStored, Doing, Listed
<1>14. QED
  BY <1>5, <1>6, <1>7, <1>8, <1>9, <1>10, <1>11, <1>12, <1>13 DEF EnclaveInv

-----------------------------------------------------------------------------
(* Memory follows                                                          *)

(* What the end of a merge keeps, whatever it has done to memory. *)
LEMMA MergeEnds ==
    ASSUME EnclaveInv, NEW w \in Threads, job[w].pc = "merge", Finish(w),
           UNCHANGED <<registry, disabled, registered, blind>>,
           comment' \in [Keys -> NameOrNone],
           enabled' \subseteq {k \in Keys : Listed(k)'},
           reported' \subseteq Keys,
           \A k \in Keys : Listed(k) => Listed(k)' \/ registry[k] = NoName,
           \A k \in Keys : Listed(k)' => k \in registered,
           \A k \in Keys : Listed(k)' => Listed(k) \/ w = "main"
    PROVE  /\ job'[w] = Idle /\ \A x \in Threads \ {w} : job'[x] = job[x]
           /\ EnclaveTypeOK' /\ JobsFit' /\ MutexOK' /\ KnownKeys'
           /\ CreationPrivate' /\ MergesFollow'
<1> USE ThreadFacts, IdleFields
<1>1. job \in [Threads -> Jobs] /\ \A x \in Threads : job[x].keys \subseteq Keys
  BY DEF EnclaveInv, EnclaveTypeOK, Jobs
<1>2. job'[w] = Idle /\ \A x \in Threads \ {w} : job'[x] = job[x]
  BY <1>1 DEF Finish
<1>3. EnclaveTypeOK'
  BY <1>1 DEF EnclaveInv, EnclaveTypeOK, Finish
<1>4. JobsFit'
  <2>1. ASSUME NEW x \in Threads
        PROVE  Fits(x, job[x])'
    BY <1>2 DEF EnclaveInv, JobsFit, Fits
  <2>2. ASSUME NEW x \in Threads, job'[x].what \in {"rename", "delete"}, NEW k \in job'[x].keys
        PROVE  k \in registered' /\ (Listed(k)' \/ registry'[k] = NoName)
    <3>1. x # w
      BY <1>2, <2>2
    <3>2. QED
      BY <1>1, <1>2, <2>2, <3>1 DEF EnclaveInv, JobsFit, Means
  <2>3. QED
    BY <2>1, <2>2 DEF JobsFit, Means
<1>5. MutexOK'
  <2>1. \A x \in Threads, k \in Keys : x # w /\ Edits(job[x], k) => Edits(job[x], k)'
    BY <1>2 DEF Edits
  <2>2. QED
    BY <1>2, <2>1 DEF EnclaveInv, MutexOK
<1>6. KnownKeys'
  BY DEF EnclaveInv, KnownKeys, Listed
<1>7. CreationPrivate'
  BY <1>1, <1>2 DEF EnclaveInv, CreationPrivate, Doing
<1>8. MergesFollow'
  BY <1>2 DEF EnclaveInv, MergesFollow, Doing
<1>9. QED
  BY <1>2, <1>3, <1>4, <1>5, <1>6, <1>7, <1>8

LEMMA MergeCreatedInv ==
    ASSUME EnclaveInv, NEW w \in Threads, MergeCreated(w)
    PROVE  EnclaveInv'
<1> USE ThreadFacts, IdleFields
<1>1. w = "main" /\ job[w].pc = "merge" /\ job[w].what = "create" /\ job[w].keys \subseteq Keys
      /\ job[w].name \in Names /\ job[w].name # NoName /\ job[w].name \in NameOrNone
  BY EnclaveAssumption DEF MergeCreated, Doing, EnclaveInv, EnclaveTypeOK, JobsFit, Fits, Jobs, NameOrNone
<1>2. \A k \in job[w].keys : registry[k] = job[w].name
  BY <1>1 DEF EnclaveInv, CreationPrivate, Doing
<1>3. comment \in [Keys -> NameOrNone] /\ registry \in [Keys -> NameOrNone] /\ reported \subseteq Keys
  BY DEF EnclaveInv, EnclaveTypeOK
<1>4. \A k \in Keys : comment'[k] = IF k \in job[w].keys THEN job[w].name ELSE comment[k]
  BY DEF MergeCreated
<1>5. /\ comment' \in [Keys -> NameOrNone]
      /\ enabled' \subseteq {k \in Keys : Listed(k)'}
      /\ reported' \subseteq Keys
  BY <1>1, <1>3, <1>4 DEF MergeCreated, EnclaveInv, EnclaveTypeOK, Listed
<1>6. /\ \A k \in Keys : Listed(k) => Listed(k)'
      /\ \A k \in Keys : Listed(k)' => k \in registered
  BY <1>1, <1>2, <1>4 DEF EnclaveInv, KnownKeys, Listed
<1>7. /\ job'[w] = Idle /\ \A x \in Threads \ {w} : job'[x] = job[x]
      /\ EnclaveTypeOK' /\ JobsFit' /\ MutexOK' /\ KnownKeys' /\ CreationPrivate' /\ MergesFollow'
  BY <1>1, <1>5, <1>6, MergeEnds DEF MergeCreated
<1>8. ASSUME NEW k \in Keys
      PROVE  Follows(k)'
  BY <1>1, <1>2, <1>4, <1>7 DEF MergeCreated, EnclaveInv, Follows, Doing
<1>9. ReportedIsKept'
  BY <1>1, <1>2 DEF MergeCreated, EnclaveInv, ReportedIsKept
<1>10. DisabledIsStored'
  BY <1>1, <1>4 DEF MergeCreated, EnclaveInv, DisabledIsStored, Listed, Doing
<1>11. QED
  BY <1>7, <1>8, <1>9, <1>10 DEF EnclaveInv

LEMMA MergeRenamedInv ==
    ASSUME EnclaveInv, NEW w \in Threads, MergeRenamed(w)
    PROVE  EnclaveInv'
<1> USE ThreadFacts, IdleFields
<1>1. w = "main" /\ job[w].pc = "merge" /\ job[w].what = "rename" /\ job[w].keys \subseteq Keys
      /\ job[w].name \in Names /\ job[w].name # NoName /\ job[w].name \in NameOrNone
  BY EnclaveAssumption DEF MergeRenamed, Doing, EnclaveInv, EnclaveTypeOK, JobsFit, Fits, Jobs, NameOrNone
<1>2. \A k \in job[w].keys : registry[k] \in {job[w].name, NoName}
                             /\ (Listed(k) \/ registry[k] = NoName)
  BY <1>1 DEF EnclaveInv, MergesFollow, JobsFit, Means, Doing
<1>3. comment \in [Keys -> NameOrNone] /\ registry \in [Keys -> NameOrNone] /\ reported \subseteq Keys
  BY DEF EnclaveInv, EnclaveTypeOK
<1>4. /\ \A k \in Keys : comment'[k] = IF k \in job[w].keys /\ Listed(k) THEN job[w].name ELSE comment[k]
      /\ enabled' = enabled \cup {k \in job[w].keys : Listed(k)}
  BY DEF MergeRenamed
<1>5. /\ comment' \in [Keys -> NameOrNone]
      /\ enabled' \subseteq {k \in Keys : Listed(k)'}
      /\ reported' \subseteq Keys
  <2>1. comment' \in [Keys -> NameOrNone]
    BY <1>1, <1>3 DEF MergeRenamed
  <2>2. QED
    BY <1>1, <1>3, <1>4, <2>1 DEF MergeRenamed, EnclaveInv, EnclaveTypeOK, Listed
<1>6. \A k \in Keys : Listed(k)' <=> Listed(k)
  BY <1>1, <1>4 DEF Listed
<1>7. /\ job'[w] = Idle /\ \A x \in Threads \ {w} : job'[x] = job[x]
      /\ EnclaveTypeOK' /\ JobsFit' /\ MutexOK' /\ KnownKeys' /\ CreationPrivate' /\ MergesFollow'
  <2>1. \A k \in Keys : Listed(k)' => k \in registered
    BY <1>6 DEF EnclaveInv, KnownKeys
  <2>2. QED
    BY <1>1, <1>5, <1>6, <2>1, MergeEnds DEF MergeRenamed
<1>8. ASSUME NEW k \in Keys
      PROVE  Follows(k)'
  <2>1. ASSUME NEW x \in Threads, Doing(x, "merge", "delete"), k \in job[x].keys
        PROVE  Follows(k)'
    BY <2>1, <1>1, <1>7 DEF Follows, Doing
  <2>2. CASE k \in job[w].keys /\ ~\E x \in Threads : Doing(x, "merge", "delete") /\ k \in job[x].keys
    BY <2>2, <1>1, <1>2, <1>4 DEF MergeRenamed, EnclaveInv, Follows, Listed
  <2>3. CASE k \notin job[w].keys /\ ~\E x \in Threads : Doing(x, "merge", "delete") /\ k \in job[x].keys
    BY <2>3, <1>1, <1>4 DEF MergeRenamed, EnclaveInv, Follows
  <2>4. QED
    BY <2>1, <2>2, <2>3
<1>9. ReportedIsKept'
  BY DEF MergeRenamed, EnclaveInv, ReportedIsKept
<1>10. DisabledIsStored'
  BY <1>1, <1>4, <1>6 DEF MergeRenamed, EnclaveInv, DisabledIsStored, Doing
<1>11. QED
  BY <1>7, <1>8, <1>9, <1>10 DEF EnclaveInv

LEMMA MergeDeletedInv ==
    ASSUME EnclaveInv, NEW w \in Threads, MergeDeleted(w)
    PROVE  EnclaveInv'
<1> USE ThreadFacts, IdleFields
<1>1. w # "main" /\ job[w].pc = "merge" /\ job[w].what = "delete" /\ job[w].keys \subseteq Keys
      /\ job[w].what # "none"
  BY DEF MergeDeleted, Doing, EnclaveInv, EnclaveTypeOK, JobsFit, Fits, Jobs
<1>2. \A k \in job[w].keys : registry[k] = NoName
  BY <1>1 DEF EnclaveInv, MergesFollow, Doing
<1>3. comment \in [Keys -> NameOrNone] /\ registry \in [Keys -> NameOrNone] /\ reported \subseteq Keys
  BY DEF EnclaveInv, EnclaveTypeOK
<1>4. \A k \in Keys : comment'[k] = IF k \in job[w].keys THEN NoName ELSE comment[k]
  BY DEF MergeDeleted
<1>5. /\ comment' \in [Keys -> NameOrNone]
      /\ enabled' \subseteq {k \in Keys : Listed(k)'}
      /\ reported' \subseteq Keys
  <2>1. comment' \in [Keys -> NameOrNone]
    BY <1>3 DEF MergeDeleted, NameOrNone
  <2>2. QED
    BY <1>3, <1>4, <2>1 DEF MergeDeleted, EnclaveInv, EnclaveTypeOK, Listed
<1>6. /\ \A k \in Keys : Listed(k) => Listed(k)' \/ registry[k] = NoName
      /\ \A k \in Keys : Listed(k)' => Listed(k)
  BY <1>2, <1>4 DEF Listed
<1>7. /\ job'[w] = Idle /\ \A x \in Threads \ {w} : job'[x] = job[x]
      /\ EnclaveTypeOK' /\ JobsFit' /\ MutexOK' /\ KnownKeys' /\ CreationPrivate' /\ MergesFollow'
  <2>1. \A k \in Keys : Listed(k)' => k \in registered
    BY <1>6 DEF EnclaveInv, KnownKeys
  <2>2. QED
    BY <1>1, <1>5, <1>6, <2>1, MergeEnds DEF MergeDeleted
<1>8. ASSUME NEW k \in Keys
      PROVE  Follows(k)'
  <2>1. CASE k \in job[w].keys
    BY <2>1, <1>2, <1>4 DEF MergeDeleted, Follows
  <2>2. CASE k \notin job[w].keys
    BY <2>2, <1>1, <1>4, <1>7 DEF MergeDeleted, EnclaveInv, Follows, Doing
  <2>3. QED
    BY <2>1, <2>2
<1>9. ReportedIsKept'
  BY DEF MergeDeleted, EnclaveInv, ReportedIsKept
<1>10. DisabledIsStored'
  BY <1>1, <1>4, <1>7 DEF MergeDeleted, EnclaveInv, DisabledIsStored, Listed, Doing
<1>11. QED
  BY <1>7, <1>8, <1>9, <1>10 DEF EnclaveInv

-----------------------------------------------------------------------------
(* Preferences and restarts                                                *)

LEMMA SetPreferenceInv ==
    ASSUME EnclaveInv, NEW k \in Keys, NEW on \in BOOLEAN, SetPreference(k, on)
    PROVE  EnclaveInv'
<1> USE ThreadFacts, IdleFields
<1> DEFINE what == IF on THEN "enable" ELSE "disable"
           j == [Idle EXCEPT !.pc = "merge", !.keys = {k}, !.what = what]
<1>1. /\ j.pc = "merge" /\ j.keys = {k} /\ j.what = what /\ j.name = NoName /\ j \in Jobs
      /\ what \in {"enable", "disable"}
  BY DEF Jobs, NameOrNone
<1>2. job' = [job EXCEPT !["main"] = j]
  BY DEF SetPreference, MergingPreference
<1> HIDE DEF j
<1>3. job \in [Threads -> Jobs] /\ job["main"] = Idle
  BY DEF EnclaveInv, EnclaveTypeOK, SetPreference
<1>4. job'["main"] = j /\ \A x \in Threads \ {"main"} : job'[x] = job[x]
  BY <1>2, <1>3
<1>5. /\ UNCHANGED <<registry, comment, enabled, registered, reported, blind>>
      /\ disabled' = IF on THEN disabled \ {k} ELSE disabled \cup {k}
  BY DEF SetPreference, Preferred
<1>6. EnclaveTypeOK'
  BY <1>1, <1>2, <1>3, <1>5 DEF EnclaveInv, EnclaveTypeOK, Listed
<1>7. JobsFit'
  BY <1>1, <1>4, <1>5 DEF EnclaveInv, JobsFit, Fits, Means, Listed
<1>8. MutexOK'
  <2>1. \A x \in Threads, i \in Keys : x # "main" /\ Edits(job[x], i) => Edits(job[x], i)'
    BY <1>4, <1>5 DEF Edits
  <2>2. QED
    BY <1>1, <1>4, <2>1 DEF EnclaveInv, MutexOK
<1>9. KnownKeys' /\ CreationPrivate' /\ ReportedIsKept'
  BY <1>1, <1>4, <1>5 DEF EnclaveInv, KnownKeys, CreationPrivate, ReportedIsKept, Listed, Doing
<1>10. MergesFollow'
  BY <1>1, <1>4, <1>5 DEF EnclaveInv, MergesFollow, Doing
<1>11. (\A i \in Keys : Follows(i))'
  BY <1>1, <1>3, <1>4, <1>5 DEF EnclaveInv, Follows, Doing
<1>12. DisabledIsStored'
  BY <1>1, <1>3, <1>4, <1>5 DEF EnclaveInv, DisabledIsStored, Listed, Doing
<1>13. QED
  BY <1>6, <1>7, <1>8, <1>9, <1>10, <1>11, <1>12 DEF EnclaveInv

LEMMA MergePreferenceInv ==
    ASSUME EnclaveInv, MergePreference
    PROVE  EnclaveInv'
<1> USE ThreadFacts, IdleFields
<1>1. /\ job["main"].pc = "merge" /\ job["main"].what \in {"enable", "disable"}
      /\ Finish("main") /\ UNCHANGED <<registry, disabled, comment, registered, reported, blind>>
  BY DEF MergePreference
<1>2. /\ comment \in [Keys -> NameOrNone] /\ reported \subseteq Keys
      /\ enabled \subseteq {k \in Keys : Listed(k)} /\ job["main"].keys \subseteq Keys
  BY DEF EnclaveInv, EnclaveTypeOK, Jobs
<1>3. (\A k \in Keys : Listed(k)' <=> Listed(k)) /\ \A k \in Keys : Listed(k) => k \in registered
  BY <1>1 DEF EnclaveInv, KnownKeys, Listed
<1>4. enabled' \subseteq {k \in Keys : Listed(k)'}
  BY <1>2, <1>3 DEF MergePreference
<1>5. /\ job'["main"] = Idle /\ \A x \in Threads \ {"main"} : job'[x] = job[x]
      /\ EnclaveTypeOK' /\ JobsFit' /\ MutexOK' /\ KnownKeys' /\ CreationPrivate' /\ MergesFollow'
  BY <1>1, <1>2, <1>3, <1>4, MergeEnds
<1>6. (\A k \in Keys : Follows(k))'
  BY <1>1, <1>5 DEF EnclaveInv, Follows, Doing
<1>7. ReportedIsKept'
  BY <1>1 DEF EnclaveInv, ReportedIsKept
<1>8. DisabledIsStored'
  BY <1>1, <1>3, <1>5 DEF EnclaveInv, MergesFollow, DisabledIsStored, Doing, MergePreference
<1>9. QED
  BY <1>5, <1>6, <1>7, <1>8 DEF EnclaveInv

LEMMA EnclaveRestartInv ==
    ASSUME EnclaveInv, EnclaveRestart
    PROVE  EnclaveInv'
<1> USE ThreadFacts, IdleFields
<1>1. /\ registry \in [Keys -> NameOrNone] /\ disabled \subseteq Keys /\ registered \subseteq Keys
      /\ reported \subseteq Keys
  BY DEF EnclaveInv, EnclaveTypeOK
<1>2. /\ job' = [w \in Threads |-> Idle] /\ job' \in [Threads -> Jobs]
      /\ UNCHANGED <<registry, disabled, registered, reported>> /\ blind' \in BOOLEAN
  BY DEF EnclaveRestart
<1>3. /\ comment' \in [Keys -> NameOrNone] /\ enabled' \subseteq {k \in Keys : Listed(k)'}
      /\ \A k \in Keys : Listed(k)' => registry[k] # NoName /\ (k \in enabled' \/ k \in disabled)
      /\ \A k \in Keys : comment'[k] = registry[k] \/ (blind' /\ comment'[k] = NoName)
  BY <1>1 DEF EnclaveRestart, Listed, NoKeys, NameOrNone
<1>4. EnclaveTypeOK'
  BY <1>1, <1>2, <1>3 DEF EnclaveTypeOK
<1>5. JobsFit' /\ MutexOK' /\ CreationPrivate' /\ MergesFollow'
  BY <1>2 DEF JobsFit, Fits, Means, MutexOK, CreationPrivate, MergesFollow, Doing
<1>6. KnownKeys' /\ ReportedIsKept'
  BY <1>2, <1>3 DEF EnclaveInv, KnownKeys, ReportedIsKept
<1>7. (\A k \in Keys : Follows(k))'
  BY <1>2, <1>3 DEF Follows
<1>8. DisabledIsStored'
  BY <1>2, <1>3 DEF DisabledIsStored
<1>9. QED
  BY <1>4, <1>5, <1>6, <1>7, <1>8 DEF EnclaveInv

-----------------------------------------------------------------------------
LEMMA EnclaveInitInv == EnclaveInit => EnclaveInv
<1> SUFFICES ASSUME EnclaveInit PROVE EnclaveInv
  OBVIOUS
<1> USE ThreadFacts, IdleFields
<1>1. EnclaveTypeOK
  BY DEF EnclaveInit, EnclaveTypeOK, NoKeys, NameOrNone
<1>2. JobsFit /\ MutexOK /\ CreationPrivate /\ MergesFollow
  BY DEF EnclaveInit, JobsFit, Fits, Means, MutexOK, CreationPrivate, MergesFollow, Doing
<1>3. KnownKeys /\ ReportedIsKept /\ DisabledIsStored /\ \A k \in Keys : Follows(k)
  BY DEF EnclaveInit, KnownKeys, ReportedIsKept, DisabledIsStored, Follows, Listed, NoKeys
<1>4. QED
  BY <1>1, <1>2, <1>3 DEF EnclaveInv

LEMMA EnclaveStepInv == EnclaveInv /\ [EnclaveNext]_enclaveVars => EnclaveInv'
<1> SUFFICES ASSUME EnclaveInv, [EnclaveNext]_enclaveVars PROVE EnclaveInv'
  OBVIOUS
<1>1. CASE \/ \E name \in Names : AskCreate(name) \/ \E k \in Keys : AskRename(k, name)
           \/ \E w \in Deleters, k \in Keys : AskDelete(w, k)
  BY <1>1, AskInv
<1>2. ASSUME NEW w \in Threads,
             \/ Refused(w) \/ ReadRegistry(w) \/ WriteRegistry(w) \/ WriteFails(w)
             \/ MergeCreated(w) \/ MergeRenamed(w) \/ MergeDeleted(w)
      PROVE  EnclaveInv'
  BY <1>2, EndInv, ReadRegistryInv, WriteRegistryInv, MergeCreatedInv, MergeRenamedInv,
     MergeDeletedInv
<1>3. CASE \E k \in Keys, on \in BOOLEAN : SetPreference(k, on)
  BY <1>3, SetPreferenceInv
<1>4. CASE MergePreference
  BY <1>4, MergePreferenceInv
<1>5. CASE EnclaveRestart
  BY <1>5, EnclaveRestartInv
<1>6. CASE UNCHANGED enclaveVars
  BY <1>6 DEF enclaveVars, EnclaveInv, EnclaveTypeOK, JobsFit, Fits, Means, MutexOK, Edits,
     KnownKeys, CreationPrivate, MergesFollow, Follows, ReportedIsKept, DisabledIsStored,
     Listed, Doing
<1>7. QED
  BY <1>1, <1>2, <1>3, <1>4, <1>5, <1>6 DEF EnclaveNext

LEMMA EnclaveInvariant == EnclaveSpec => []EnclaveInv
<1>1. QED
  BY EnclaveInitInv, EnclaveStepInv, PTL DEF EnclaveSpec

-----------------------------------------------------------------------------
(* Theorems                                                                *)

\* Every variable has its type and only listed keys are enabled, whatever the
\* keys, the names and the number of overlapping deletions (the commands of
\* ipc/commands.rs on Secure Enclave keys).
THEOREM TypeCorrect == EnclaveSpec => []EnclaveTypeOK
<1>1. EnclaveInv => EnclaveTypeOK
  BY DEF EnclaveInv
<1>2. QED
  BY <1>1, EnclaveInvariant, PTL

\* A key whose creation was reported stays in the registry until delete_key
\* takes it out, whatever is interleaved, fails or is cut off by a restart.
THEOREM NoReportedKeyIsLost == EnclaveSpec => []ReportedIsKept
<1>1. EnclaveInv => ReportedIsKept
  BY DEF EnclaveInv
<1>2. QED
  BY <1>1, EnclaveInvariant, PTL

\* Once nothing is left to merge, AppState.keys shows the registry, or nothing
\* of it after a start that could not read it.
THEOREM MemoryFollowsRegistry == EnclaveSpec => []MemoryMatchesRegistry
<1>1. EnclaveInv => MemoryMatchesRegistry
  BY ThreadFacts DEF EnclaveInv, Follows, MemoryMatchesRegistry, Doing
<1>2. QED
  BY <1>1, EnclaveInvariant, PTL

\* A key shown as disabled is disabled on disk, unless it is just being enabled
\* (set_key_enabled saves before it changes memory).
THEOREM DisabledSurvives == EnclaveSpec => []DisabledIsStored
<1>1. EnclaveInv => DisabledIsStored
  BY DEF EnclaveInv
<1>2. QED
  BY <1>1, EnclaveInvariant, PTL

(* One write of the whole file changes one key of the table. *)
LEMMA WriteIsOneEdit ==
    ASSUME EnclaveInv, NEW w \in Threads, WriteRegistry(w)
    PROVE  Table!TableNext
<1>1. PICK k \in Keys : Edits(job[w], k)
  BY DEF EnclaveInv, MutexOK, WriteRegistry
<1>2. /\ Fits(w, job[w]) /\ job[w].what \in {"create", "rename", "delete"}
      /\ registry \in [Keys -> NameOrNone] /\ registered \subseteq Keys
      /\ \A i \in Keys : registry[i] # NoName => i \in registered
  BY DEF WriteRegistry, EnclaveInv, EnclaveTypeOK, JobsFit, Fits, KnownKeys
<1>3. /\ registry' = [registry EXCEPT ![k] = job[w].name]
      /\ registered' = registered \cup {i \in Keys : registry'[i] # NoName}
  BY <1>1 DEF WriteRegistry, Edits
<1>4. CASE job[w].what = "create"
  <2>1. job[w].name \in Names /\ job[w].name # NoName /\ k \notin registered
    BY <1>1, <1>2, <1>4, EnclaveAssumption DEF Fits, Edits
  <2>2. registered' = registered \cup {k}
    BY <1>2, <1>3, <2>1
  <2>3. Table!Add(k, job[w].name)
    BY <1>1, <1>3, <1>4, <2>1, <2>2 DEF Table!Add, Table!Taken, Edits
  <2>4. QED
    BY <2>1, <2>3 DEF Table!TableNext
<1>5. CASE job[w].what \in {"rename", "delete"}
  <2>1. registry[k] # NoName /\ k \in registered
    BY <1>1, <1>2, <1>5 DEF Edits
  <2>2. registered' = registered
    BY <1>2, <1>3, <2>1
  <2>3. CASE job[w].what = "rename"
    <3>1. job[w].name \in Names
      BY <2>3, <1>2 DEF Fits
    <3>2. Table!Rename(k, job[w].name)
      BY <1>1, <1>3, <2>1, <2>2, <2>3 DEF Table!Rename, Table!Taken, Edits
    <3>3. QED
      BY <3>1, <3>2 DEF Table!TableNext
  <2>4. CASE job[w].what = "delete"
    <3>1. job[w].name = NoName
      BY <2>4, <1>2 DEF Fits
    <3>2. Table!Remove(k)
      BY <1>3, <2>1, <2>2, <3>1 DEF Table!Remove
    <3>3. QED
      BY <3>2 DEF Table!TableNext
  <2>5. QED
    BY <1>5, <2>3, <2>4
<1>6. QED
  BY <1>2, <1>4, <1>5

LEMMA StepRefines ==
    EnclaveInv /\ [EnclaveNext]_enclaveVars => [Table!TableNext]_(Table!tableVars)
<1> SUFFICES ASSUME EnclaveInv, [EnclaveNext]_enclaveVars
             PROVE  Table!TableNext \/ UNCHANGED <<registry, registered>>
  BY DEF Table!tableVars
<1>1. ASSUME NEW w \in Threads, WriteRegistry(w)
      PROVE  Table!TableNext
  BY <1>1, WriteIsOneEdit
<1>2. CASE UNCHANGED enclaveVars
  BY <1>2 DEF enclaveVars
<1>3. CASE EnclaveNext /\ ~\E w \in Threads : WriteRegistry(w)
  BY <1>3 DEF EnclaveNext, AskCreate, AskRename, AskDelete, Refused, ReadRegistry, WriteFails,
     MergeCreated, MergeRenamed, MergeDeleted, SetPreference, MergePreference, EnclaveRestart
<1>4. QED
  BY <1>1, <1>2, <1>3

\* The registry, read and written as a whole by several threads, implements the
\* table that changes one key at a time (the mutex of secure_enclave.rs is held
\* from the read to the write).
THEOREM Refinement == EnclaveSpec => ImplementsKeyTable
<1>1. EnclaveInit => Table!TableInit
  BY DEF EnclaveInit, Table!TableInit, NoKeys
<1>2. QED
  BY <1>1, StepRefines, EnclaveInvariant, PTL
     DEF EnclaveSpec, ImplementsKeyTable, Table!TableSpec

\* No two keys in the registry ever have the same name, although a rename may
\* wait for the mutex while another key takes the name (name_exists is asked
\* again under the mutex).
NamesDistinct == \A k, l \in Keys : registry[k] = registry[l] /\ registry[k] # NoName => k = l

\* It follows from the table that the registry implements.
THEOREM NamesStayDistinct == EnclaveSpec => []NamesDistinct
<1>1. EnclaveInit => NamesDistinct
  BY DEF EnclaveInit, NamesDistinct, NoKeys
<1>2. EnclaveInv /\ NamesDistinct /\ [Table!TableNext]_(Table!tableVars) => NamesDistinct'
  <2> SUFFICES ASSUME EnclaveInv, NamesDistinct, Table!TableNext \/ UNCHANGED <<registry, registered>>
               PROVE  NamesDistinct'
    BY DEF Table!tableVars
  <2>1. registry \in [Keys -> NameOrNone]
    BY DEF EnclaveInv, EnclaveTypeOK
  <2>2. QED
    BY <2>1 DEF NamesDistinct, Table!TableNext, Table!Add, Table!Rename, Table!Remove, Table!Taken
<1>3. QED
  BY <1>1, <1>2, StepRefines, EnclaveInvariant, PTL DEF EnclaveSpec

\* A key that was deleted never returns to the registry: neither a stale copy in
\* the hands of another command nor a restart brings it back.
DeletedStaysGone ==
    [][\A k \in registered : registry[k] = NoName => registry'[k] = NoName]_enclaveVars

\* It follows from the table as well: only a key that was never there is added.
THEOREM NoDeletedKeyReturns == EnclaveSpec => DeletedStaysGone
<1>1. EnclaveInv /\ [EnclaveNext]_enclaveVars
        => [\A k \in registered : registry[k] = NoName => registry'[k] = NoName]_enclaveVars
  <2> SUFFICES ASSUME EnclaveInv, Table!TableNext \/ UNCHANGED <<registry, registered>>,
                      NEW k \in registered, registry[k] = NoName
               PROVE  registry'[k] = NoName
    BY StepRefines DEF Table!tableVars
  <2>1. registry \in [Keys -> NameOrNone] /\ registered \subseteq Keys
    BY DEF EnclaveInv, EnclaveTypeOK
  <2>2. QED
    BY <2>1 DEF Table!TableNext, Table!Add, Table!Rename, Table!Remove
<1>2. QED
  BY <1>1, EnclaveInvariant, PTL DEF EnclaveSpec, DeletedStaysGone
=============================================================================
