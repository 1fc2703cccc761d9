---------------------------- MODULE LocksProofs ----------------------------
(***************************************************************************)
(* No deadlock among the handlers that take their mutexes in the order of  *)
(* Rank, however many operations and agent connections there are.          *)
(*                                                                         *)
(* The first part is about the scripts alone.  A script is built from Use, *)
(* Hold and concatenation, so its proof follows its construction: each of  *)
(* the three keeps a script within a rank.  The second part is about the   *)
(* threads that run them.                                                  *)
(***************************************************************************)
EXTENDS Locks, Integers, TLAPS

(* The order in which the handlers nest the mutexes.  No handler holds agent
   or a hardware mutex together with another of them. *)
Rank == [m \in Mutexes |->
    CASE m = "agent" -> 0
      [] m \in {"fido", "secure_enclave"} -> 1
      [] m = "gate" -> 2
      [] m = "app" -> 3
      [] m = "pins" -> 4
      [] m = "activity" -> 5]

Asks(step) == step.do \in {"take", "pass"}

(* Every guard s takes it drops. *)
Closed(s) ==
    \A i \in 1 .. Len(s) : s[i].do = "take" =>
       \E j \in i + 1 .. Len(s) : DropsLive(s, i + 1, j, s[i].mutex)

(* What s asks for ranks above every guard that is alive then. *)
Orderly(s) ==
    \A i, j \in 1 .. Len(s), m \in Mutexes :
       i < j /\ Asks(s[i]) /\ DropsLive(s, i, j, m) => Rank[m] < Rank[s[i].mutex]

(* Every path through every handler that may run drops what it takes, and
   takes its mutexes in the order of Rank: all that the absence of
   deadlocks rests on. *)
Disciplined ==
    \A h \in Handlers : \A s \in Script(h) : s \in Seq(Steps) /\ Closed(s) /\ Orderly(s)

-----------------------------------------------------------------------------
(* s drops only what it took itself and what it takes ranks above lo. *)
Within(s, lo) ==
    /\ s \in Seq(Steps)
    /\ Closed(s)
    /\ Orderly(s)
    /\ \A i \in 1 .. Len(s) : Asks(s[i]) => lo < Rank[s[i].mutex]
    /\ \A j \in 1 .. Len(s) : s[j].do = "drop" =>
          \E i \in 1 .. j - 1 : s[i] = Take(s[j].mutex)

LEMMA RankIsNat == \A m \in Mutexes : Rank[m] \in 0 .. 5
  BY DEF Rank, Mutexes

LEMMA StepIsTyped ==
    ASSUME NEW m \in Mutexes
    PROVE  /\ Take(m) \in Steps /\ Drop(m) \in Steps /\ Pass(m) \in Steps
           /\ Asks(Take(m)) /\ Asks(Pass(m)) /\ ~Asks(Drop(m))
           /\ Take(m).do = "take" /\ Drop(m).do = "drop" /\ Pass(m).do = "pass"
           /\ Take(m).mutex = m /\ Drop(m).mutex = m /\ Pass(m).mutex = m
  BY DEF Take, Drop, Pass, Steps, Asks

(* DropsLive sees only the steps between its two positions. *)
LEMMA ShiftLive ==
    ASSUME NEW r, NEW s, NEW d \in Int, NEW i \in Int, NEW j \in Int, i <= j,
           \A k \in i .. j : r[k] = s[k + d], NEW m
    PROVE  DropsLive(r, i, j, m) <=> DropsLive(s, i + d, j + d, m)
<1>1. ASSUME DropsLive(r, i, j, m) PROVE DropsLive(s, i + d, j + d, m)
  <2>1. s[j + d] = Drop(m)
    BY <1>1 DEF DropsLive
  <2>2. ASSUME NEW k \in i + d .. j + d - 1 PROVE s[k] # Take(m)
    <3>1. k - d \in i .. j - 1 /\ k - d \in i .. j /\ (k - d) + d = k
      OBVIOUS
    <3> QED BY <1>1, <3>1 DEF DropsLive
  <2> QED BY <2>1, <2>2 DEF DropsLive
<1>2. ASSUME DropsLive(s, i + d, j + d, m) PROVE DropsLive(r, i, j, m)
  <2>1. r[j] = Drop(m)
    BY <1>2 DEF DropsLive
  <2>2. ASSUME NEW k \in i .. j - 1 PROVE r[k] # Take(m)
    <3>1. k + d \in i + d .. j + d - 1 /\ k \in i .. j
      OBVIOUS
    <3> QED BY <1>2, <3>1 DEF DropsLive
  <2> QED BY <2>1, <2>2 DEF DropsLive
<1> QED BY <1>1, <1>2

LEMMA EmptyWithin == ASSUME NEW lo PROVE Within(<<>>, lo)
  BY DEF Within, Closed, Orderly

LEMMA UseWithin ==
    ASSUME NEW m \in Mutexes, NEW lo \in Int, lo < Rank[m]
    PROVE  Within(Use(m), lo)
<1>1. Use(m) \in Seq(Steps) /\ Len(Use(m)) = 1 /\ Use(m)[1] = Pass(m)
  BY StepIsTyped DEF Use
<1>2. \A i \in 1 .. Len(Use(m)) : i = 1
  BY <1>1
<1>3. Use(m)[1].do = "pass" /\ Use(m)[1].mutex = m
  BY <1>1, StepIsTyped
<1> QED BY <1>1, <1>2, <1>3 DEF Within, Closed, Orderly

LEMMA LowerWithin ==
    ASSUME NEW s, NEW hi \in Int, NEW lo \in Int, lo <= hi, Within(s, hi)
    PROVE  Within(s, lo)
<1>1. ASSUME NEW i \in 1 .. Len(s), Asks(s[i]) PROVE lo < Rank[s[i].mutex]
  <2>1. s[i] \in Steps
    BY DEF Within
  <2> QED BY <1>1, <2>1, RankIsNat DEF Within, Steps
<1> QED BY <1>1 DEF Within

LEMMA ConcatWithin ==
    ASSUME NEW lo, NEW s, Within(s, lo), NEW u, Within(u, lo)
    PROVE  Within(s \o u, lo)
<1> DEFINE c == s \o u
           n == Len(s)
<1>1. s \in Seq(Steps) /\ u \in Seq(Steps) /\ c \in Seq(Steps)
  BY DEF Within
<1>2. n \in Nat /\ Len(u) \in Nat /\ Len(c) = n + Len(u)
  BY <1>1
<1>3. \A i \in 1 .. n : c[i] = s[i] /\ i \in 1 .. Len(c)
  BY <1>1, <1>2
<1>4. \A i \in n + 1 .. Len(c) : i - n \in 1 .. Len(u) /\ c[i] = u[i - n]
  BY <1>1, <1>2
<1> HIDE DEF c, n
<1>5. \A i, j \in 1 .. n : \A m : i <= j => (DropsLive(c, i, j, m) <=> DropsLive(s, i, j, m))
  <2> SUFFICES ASSUME NEW i \in 1 .. n, NEW j \in 1 .. n, NEW m, i <= j
               PROVE  DropsLive(c, i, j, m) <=> DropsLive(s, i, j, m)
    OBVIOUS
  <2>1. \A k \in i .. j : c[k] = s[k + 0]
    BY <1>2, <1>3
  <2>2. i \in Int /\ j \in Int /\ 0 \in Int /\ i + 0 = i /\ j + 0 = j
    BY <1>2
  <2>3. DropsLive(c, i, j, m) <=> DropsLive(s, i + 0, j + 0, m)
    BY <2>1, <2>2, ShiftLive, Zenon
  <2> QED BY <2>2, <2>3
<1>6. \A i, j \in n + 1 .. Len(c) : \A m :
         i <= j => (DropsLive(c, i, j, m) <=> DropsLive(u, i - n, j - n, m))
  <2> SUFFICES ASSUME NEW i \in n + 1 .. Len(c), NEW j \in n + 1 .. Len(c), NEW m, i <= j
               PROVE  DropsLive(c, i, j, m) <=> DropsLive(u, i - n, j - n, m)
    OBVIOUS
  <2>1. PICK d \in Int : d = 0 - n
    BY <1>2
  <2>2. \A k \in i .. j : c[k] = u[k + d]
    <3> TAKE k \in i .. j
    <3>1. k \in n + 1 .. Len(c) /\ k + d = k - n
      BY <1>2, <2>1
    <3> QED BY <1>4, <3>1
  <2>3. i \in Int /\ j \in Int /\ i <= j /\ d \in Int /\ i + d = i - n /\ j + d = j - n
    BY <1>2, <2>1
  <2>4. DropsLive(c, i, j, m) <=> DropsLive(u, i + d, j + d, m)
    BY <2>2, <2>3, ShiftLive, SMT
  <2> QED BY <2>3, <2>4
<1>7. Closed(c)
  <2> SUFFICES ASSUME NEW i \in 1 .. Len(c), c[i].do = "take"
               PROVE  \E j \in i + 1 .. Len(c) : DropsLive(c, i + 1, j, c[i].mutex)
    BY DEF Closed
  <2>1. CASE i \in 1 .. n
    <3>1. s[i].do = "take" /\ c[i] = s[i]
      BY <1>3, <2>1
    <3>2. PICK j \in i + 1 .. n : DropsLive(s, i + 1, j, s[i].mutex)
      BY <2>1, <3>1 DEF Within, Closed, n
    <3>3. i + 1 \in 1 .. n /\ j \in 1 .. n /\ i + 1 <= j /\ j \in i + 1 .. Len(c)
      BY <1>2, <2>1, <3>2
    <3> QED BY <1>5, <3>1, <3>2, <3>3
  <2>2. CASE i \in n + 1 .. Len(c)
    <3>1. i - n \in 1 .. Len(u) /\ c[i] = u[i - n]
      BY <1>4, <2>2
    <3>2. PICK j \in (i - n) + 1 .. Len(u) : DropsLive(u, (i - n) + 1, j, u[i - n].mutex)
      BY <3>1 DEF Within, Closed
    <3>3. /\ i + 1 \in n + 1 .. Len(c) /\ j + n \in n + 1 .. Len(c) /\ i + 1 <= j + n
          /\ (i + 1) - n = (i - n) + 1 /\ (j + n) - n = j /\ j + n \in i + 1 .. Len(c)
      BY <1>2, <2>2, <3>1, <3>2
    <3>4. DropsLive(c, i + 1, j + n, c[i].mutex)
      BY <1>6, <3>1, <3>2, <3>3
    <3> QED BY <3>3, <3>4
  <2> QED BY <1>2, <2>1, <2>2
<1>8. Orderly(c)
  <2> SUFFICES ASSUME NEW i \in 1 .. Len(c), NEW j \in 1 .. Len(c), NEW m \in Mutexes,
                      i < j, Asks(c[i]), DropsLive(c, i, j, m)
               PROVE  Rank[m] < Rank[c[i].mutex]
    BY DEF Orderly
  <2>1. CASE j \in 1 .. n
    <3>1. i \in 1 .. n /\ i <= j
      BY <1>2, <2>1
    <3>2. DropsLive(s, i, j, m) /\ c[i] = s[i]
      BY <1>3, <1>5, <2>1, <3>1
    <3> QED BY <2>1, <3>1, <3>2 DEF Within, Orderly, n
  <2>2. CASE i \in n + 1 .. Len(c)
    <3>1. j \in n + 1 .. Len(c) /\ i <= j
      BY <1>2, <2>2
    <3>2. DropsLive(u, i - n, j - n, m) /\ c[i] = u[i - n]
      BY <1>4, <1>6, <2>2, <3>1
    <3>3. i - n \in 1 .. Len(u) /\ j - n \in 1 .. Len(u) /\ i - n < j - n
      BY <1>2, <1>4, <2>2, <3>1
    <3> QED BY <3>2, <3>3 DEF Within, Orderly
  <2>3. CASE i \in 1 .. n /\ j \in n + 1 .. Len(c)
    <3>1. j - n \in 1 .. Len(u) /\ u[j - n] = Drop(m)
      BY <1>4, <2>3 DEF DropsLive
    <3>2. PICK k \in 1 .. (j - n) - 1 : u[k] = Take(m)
      BY <3>1, StepIsTyped DEF Within
    <3>3. k + n \in i .. j - 1 /\ k + n \in n + 1 .. Len(c) /\ (k + n) - n = k
      BY <1>2, <2>3, <3>2
    <3>4. c[k + n] = Take(m)
      BY <1>4, <3>2, <3>3
    <3> QED BY <3>3, <3>4 DEF DropsLive
  <2> QED BY <1>2, <2>1, <2>2, <2>3
<1>9. ASSUME NEW i \in 1 .. Len(c), Asks(c[i]) PROVE lo < Rank[c[i].mutex]
  <2>1. CASE i \in 1 .. n
    BY <1>3, <1>9, <2>1 DEF Within, n
  <2>2. CASE i \in n + 1 .. Len(c)
    BY <1>4, <1>9, <2>2 DEF Within
  <2> QED BY <1>2, <2>1, <2>2
<1>10. ASSUME NEW j \in 1 .. Len(c), c[j].do = "drop"
       PROVE  \E i \in 1 .. j - 1 : c[i] = Take(c[j].mutex)
  <2>1. CASE j \in 1 .. n
    <3>1. PICK i \in 1 .. j - 1 : s[i] = Take(s[j].mutex)
      BY <1>3, <1>10, <2>1 DEF Within, n
    <3>2. i \in 1 .. n
      BY <1>2, <2>1, <3>1
    <3> QED BY <1>3, <2>1, <3>1, <3>2
  <2>2. CASE j \in n + 1 .. Len(c)
    <3>1. PICK i \in 1 .. (j - n) - 1 : u[i] = Take(u[j - n].mutex)
      BY <1>4, <1>10, <2>2 DEF Within
    <3>2. i + n \in n + 1 .. Len(c) /\ (i + n) - n = i /\ i + n \in 1 .. j - 1
      BY <1>2, <2>2, <3>1
    <3>3. c[i + n] = Take(c[j].mutex)
      BY <1>4, <2>2, <3>1, <3>2
    <3> QED BY <3>2, <3>3
  <2> QED BY <1>2, <2>1, <2>2
<1> QED BY <1>1, <1>7, <1>8, <1>9, <1>10 DEF Within, c

LEMMA HoldWithin ==
    ASSUME NEW m \in Mutexes, NEW lo \in Int, lo < Rank[m], NEW b, Within(b, Rank[m])
    PROVE  Within(Hold(m, b), lo)
<1> DEFINE h == Hold(m, b)
           n == Len(b)
           T == Take(m)
           D == Drop(m)
<1>1. b \in Seq(Steps) /\ n \in Nat /\ T \in Steps /\ D \in Steps
  BY StepIsTyped DEF Within
<1>2. /\ h \in Seq(Steps) /\ Len(h) = n + 2 /\ h[1] = T /\ h[n + 2] = D
      /\ \A i \in 2 .. n + 1 : i - 1 \in 1 .. n /\ h[i] = b[i - 1]
  <2>1. <<T>> \o b \in Seq(Steps) /\ Len(<<T>> \o b) = n + 1 /\ (<<T>> \o b)[1] = T
    BY <1>1
  <2>2. \A i \in 2 .. n + 1 : i - 1 \in 1 .. n /\ (<<T>> \o b)[i] = b[i - 1]
    BY <1>1
  <2>3. h = (<<T>> \o b) \o <<D>>
    BY <1>1 DEF Hold
  <2> HIDE DEF h, T, D
  <2>4. h \in Seq(Steps) /\ Len(h) = n + 2 /\ h[n + 2] = D
    BY <1>1, <2>1, <2>3
  <2>5. \A i \in 1 .. n + 1 : h[i] = (<<T>> \o b)[i]
    BY <1>1, <2>1, <2>3
  <2> QED BY <1>1, <2>1, <2>2, <2>4, <2>5
<1>3. Asks(T) /\ ~Asks(D) /\ T.mutex = m /\ D.mutex = m /\ T.do = "take" /\ D.do = "drop"
  BY StepIsTyped
<1>4. Rank[m] \in Int
  BY RankIsNat
<1> HIDE DEF h, n
<1>5. \A i \in 1 .. Len(h) : i = 1 \/ i \in 2 .. n + 1 \/ i = n + 2
  BY <1>1, <1>2
<1>6. \A i \in 2 .. n + 1 : h[i] \in Steps /\ (Asks(h[i]) => Rank[m] < Rank[h[i].mutex])
  BY <1>1, <1>2 DEF Within, n
<1>7. \A i \in 2 .. n + 1 : h[i] # T
  BY <1>3, <1>4, <1>6
<1>8. \A i, j \in 2 .. n + 1 : \A x : i <= j => (DropsLive(h, i, j, x) <=> DropsLive(b, i - 1, j - 1, x))
  <2> SUFFICES ASSUME NEW i \in 2 .. n + 1, NEW j \in 2 .. n + 1, NEW x, i <= j
               PROVE  DropsLive(h, i, j, x) <=> DropsLive(b, i - 1, j - 1, x)
    OBVIOUS
  <2>1. PICK d \in Int : d = 0 - 1
    OBVIOUS
  <2>2. \A k \in i .. j : h[k] = b[k + d]
    <3> TAKE k \in i .. j
    <3>1. k \in 2 .. n + 1 /\ k + d = k - 1
      BY <1>1, <2>1
    <3> QED BY <1>2, <3>1
  <2>3. i \in Int /\ j \in Int /\ i + d = i - 1 /\ j + d = j - 1
    BY <1>1, <2>1
  <2>4. DropsLive(h, i, j, x) <=> DropsLive(b, i + d, j + d, x)
    BY <2>2, <2>3, ShiftLive, Zenon
  <2> QED BY <2>3, <2>4
<1>9. Closed(h)
  <2> SUFFICES ASSUME NEW i \in 1 .. Len(h), h[i].do = "take"
               PROVE  \E j \in i + 1 .. Len(h) : DropsLive(h, i + 1, j, h[i].mutex)
    BY DEF Closed
  <2>1. CASE i = 1
    <3>1. n + 2 \in 2 .. Len(h) /\ h[n + 2] = Drop(m) /\ h[1].mutex = m
      BY <1>1, <1>2, <1>3
    <3>2. \A k \in 2 .. (n + 2) - 1 : h[k] # Take(m)
      BY <1>1, <1>7
    <3> QED BY <2>1, <3>1, <3>2 DEF DropsLive
  <2>2. CASE i \in 2 .. n + 1
    <3>1. i - 1 \in 1 .. n /\ h[i] = b[i - 1]
      BY <1>2, <2>2
    <3>2. PICK j \in (i - 1) + 1 .. n : DropsLive(b, (i - 1) + 1, j, b[i - 1].mutex)
      BY <2>2, <3>1 DEF Within, Closed, n
    <3>3. /\ i + 1 \in 2 .. n + 1 /\ j + 1 \in 2 .. n + 1 /\ i + 1 <= j + 1
          /\ (i + 1) - 1 = (i - 1) + 1 /\ (j + 1) - 1 = j /\ j + 1 \in i + 1 .. Len(h)
      BY <1>1, <1>2, <2>2, <3>2
    <3>4. DropsLive(h, i + 1, j + 1, h[i].mutex)
      BY <1>8, <3>1, <3>2, <3>3
    <3> QED BY <3>3, <3>4
  <2>3. CASE i = n + 2
    BY <1>2, <1>3, <2>3
  <2> QED BY <1>5, <2>1, <2>2, <2>3
<1>10. Orderly(h)
  <2> SUFFICES ASSUME NEW i \in 1 .. Len(h), NEW j \in 1 .. Len(h), NEW x \in Mutexes,
                      i < j, Asks(h[i]), DropsLive(h, i, j, x)
               PROVE  Rank[x] < Rank[h[i].mutex]
    BY DEF Orderly
  <2>1. CASE j = n + 2
    <3>1. x = m
      BY <1>2, <1>3, <2>1, StepIsTyped DEF DropsLive
    <3>2. i \in i .. j - 1
      OBVIOUS
    <3>3. i # 1
      BY <1>2, <3>1, <3>2 DEF DropsLive
    <3>4. i \in 2 .. n + 1
      BY <1>5, <2>1, <3>3
    <3> QED BY <1>6, <3>1, <3>4
  <2>2. CASE j \in 2 .. n + 1 /\ i = 1
    <3>1. j - 1 \in 1 .. n /\ b[j - 1] = Drop(x)
      BY <1>2, <2>2 DEF DropsLive
    <3>2. PICK k \in 1 .. (j - 1) - 1 : b[k] = Take(x)
      BY <3>1, StepIsTyped DEF Within, n
    <3>3. k + 1 \in i .. j - 1 /\ k + 1 \in 2 .. n + 1 /\ (k + 1) - 1 = k
      BY <1>1, <2>2, <3>2
    <3>4. h[k + 1] = Take(x)
      BY <1>2, <3>2, <3>3
    <3> QED BY <3>3, <3>4 DEF DropsLive
  <2>3. CASE j \in 2 .. n + 1 /\ i \in 2 .. n + 1
    <3>1. i - 1 \in 1 .. n /\ j - 1 \in 1 .. n /\ i - 1 < j - 1 /\ i <= j /\ h[i] = b[i - 1]
      BY <1>1, <1>2, <2>3
    <3>2. DropsLive(b, i - 1, j - 1, x)
      BY <1>8, <2>3, <3>1
    <3> QED BY <3>1, <3>2 DEF Within, Orderly, n
  <2>4. j # 1 /\ ~(j \in 2 .. n + 1 /\ i = n + 2)
    BY <1>1
  <2> QED BY <1>5, <2>1, <2>2, <2>3, <2>4
<1>11. ASSUME NEW i \in 1 .. Len(h), Asks(h[i]) PROVE lo < Rank[h[i].mutex]
  <2>1. CASE i = 1
    BY <1>2, <1>3, <2>1
  <2>2. CASE i \in 2 .. n + 1
    BY <1>4, <1>6, <1>11, <2>2, RankIsNat DEF Steps
  <2>3. CASE i = n + 2
    BY <1>2, <1>3, <1>11, <2>3
  <2> QED BY <1>5, <2>1, <2>2, <2>3
<1>12. ASSUME NEW j \in 1 .. Len(h), h[j].do = "drop"
       PROVE  \E i \in 1 .. j - 1 : h[i] = Take(h[j].mutex)
  <2>1. CASE j = 1
    BY <1>2, <1>3, <1>12, <2>1
  <2>2. CASE j \in 2 .. n + 1
    <3>1. PICK i \in 1 .. (j - 1) - 1 : b[i] = Take(b[j - 1].mutex)
      BY <1>2, <1>12, <2>2 DEF Within, n
    <3>2. i + 1 \in 2 .. n + 1 /\ (i + 1) - 1 = i /\ i + 1 \in 1 .. j - 1
      BY <1>1, <2>2, <3>1
    <3> QED BY <1>2, <2>2, <3>1, <3>2
  <2>3. CASE j = n + 2
    <3>1. 1 \in 1 .. j - 1 /\ h[1] = Take(h[j].mutex)
      BY <1>1, <1>2, <1>3, <2>3
    <3> QED BY <3>1
  <2> QED BY <1>5, <2>1, <2>2, <2>3
<1> QED BY <1>2, <1>9, <1>10, <1>11, <1>12 DEF Within, h

-----------------------------------------------------------------------------
LEMMA Ranks ==
    /\ Rank["app"] = 3 /\ Rank["pins"] = 4 /\ Rank["gate"] = 2 /\ Rank["fido"] = 1
    /\ Rank["secure_enclave"] = 1 /\ Rank["activity"] = 5 /\ Rank["agent"] = 0
    /\ {"app", "pins", "gate", "fido", "secure_enclave", "activity", "agent"} = Mutexes
  BY DEF Rank, Mutexes

(* Every path through every handler but the FIDO2 signature takes its mutexes
   in the order of Rank. *)
LEMMA ScriptsWithin ==
    ASSUME NEW handler \in AllHandlers \ {"signFido"}, NEW script \in Script(handler)
    PROVE  Within(script, 0 - 1)
<1> DEFINE Ok(s) == Within(s, 0 - 1)
<1>1. /\ \A m \in Mutexes : Ok(Use(m))
      /\ \A m \in {"pins", "activity"} : Within(Use(m), 3)
      /\ \A m \in {"app", "pins", "activity"} : Within(Use(m), 2)
      /\ Within(Use("pins"), 1)
      /\ Within(Use("app"), 2)
  BY UseWithin, Ranks, RankIsNat
<1>2. /\ \A s, u : Ok(s) /\ Ok(u) => Ok(s \o u)
      /\ \A s, u : Within(s, 3) /\ Within(u, 3) => Within(s \o u, 3)
      /\ \A s, u : Within(s, 2) /\ Within(u, 2) => Within(s \o u, 2)
  BY ConcatWithin
<1>3. /\ \A b : Within(b, 3) => Ok(Hold("app", b))
      /\ \A b : Within(b, 2) => Ok(Hold("gate", b))
      /\ \A b : Within(b, 1) => Ok(Hold("fido", b))
      /\ \A b : Within(b, 1) => Ok(Hold("secure_enclave", b))
      /\ \A b : Within(b, 2) => Within(Hold("gate", b), 1)
  BY HoldWithin, Ranks
<1>4. Within(<<>>, 2) /\ Ok(<<>>)
  BY EmptyWithin
<1> SUFFICES Ok(script)
  OBVIOUS
<1> HIDE DEF Ok
<1>5. /\ Within(Record, 2) /\ Within(Record, 3) /\ Ok(Record)
      /\ Ok(LockSession) /\ Within(LockSession, 2)
  BY <1>1, <1>2, Ranks DEF Record, LockSession
<1>6. \A p \in Perform : Ok(p)
  <2>1. Ok(Hold("app", Use("pins") \o Record))
    BY <1>1, <1>2, <1>3, <1>5
  <2>2. \A ensure \in {<<>>, Use("agent")} : Ok(ensure)
    BY <1>1, <1>4, Ranks
  <2> QED BY <1>1, <1>2, <2>1, <2>2, Ranks DEF Perform
<1>7. Ok(SetLocked(LockSession)) /\ Ok(SetLocked(<<>>))
  BY <1>1, <1>2, <1>3, <1>4, <1>5 DEF SetLocked
<1>8. \A s : Ok(s) => \A r \in FromTray(s) : Ok(r)
  BY <1>1, <1>2, Ranks DEF FromTray
<1>9. CASE handler = "getState"
  <2>1. script = Use("app")
    BY <1>9 DEF Script
  <2> QED BY <1>1, Ranks, <2>1
<1>10. CASE handler = "identities"
  <2>1. script = Use("app")
    BY <1>10 DEF Script
  <2> QED BY <1>1, Ranks, <2>1
<1>11. CASE handler = "activityList"
  <2>1. script = Record
    BY <1>11 DEF Script
  <2> QED BY <1>5, <2>1
<1>12. CASE handler = "autolock"
  <2>1. script = LockSession
    BY <1>12 DEF Script
  <2> QED BY <1>5, <2>1
<1>13. CASE handler = "prompt"
  <2>1. script = Hold("app", Use("pins") \o Use("pins"))
    BY <1>13 DEF Script
  <2> QED BY <1>1, <1>2, <1>3, <2>1
<1>14. CASE handler = "setKeyEnabled"
  <2>1. script = Hold("gate", Use("app") \o Record)
    BY <1>14 DEF Script
  <2> QED BY <1>1, <1>2, <1>3, <1>5, <2>1
<1>15. CASE handler = "setLabel"
  <2>1. script = Use("app") \o Record
    BY <1>15 DEF Script
  <2> QED BY <1>1, <1>2, <1>5, Ranks, <2>1
<1>16. CASE handler = "refuse"
  <2>1. script = Use("app") \o Record
    BY <1>16 DEF Script
  <2> QED BY <1>1, <1>2, <1>5, Ranks, <2>1
<1>17. CASE handler = "createEnclave"
  <2>1. script = Use("secure_enclave") \o Use("app") \o Record
    BY <1>17 DEF Script
  <2> QED BY <1>1, <1>2, <1>5, Ranks, <2>1
<1>18. CASE handler = "exit"
  <2>1. script = Use("pins") \o Use("agent")
    BY <1>18 DEF Script
  <2> QED BY <1>1, <1>2, Ranks, <2>1
<1>19. CASE handler = "reactivate"
  <2>1. script = Use("agent") \o Use("app") \o Record
    BY <1>19 DEF Script
  <2> QED BY <1>1, <1>2, <1>5, Ranks, <2>1
<1>20. CASE handler = "renameFido"
  <2>1. \/ script = Use("app") \o Use("pins") \o Hold("app", Use("pins"))
        \/ script = Use("app") \o Use("pins") \o Use("app") \o
                       Hold("fido", Use("pins")) \o Hold("app", Record)
    BY <1>20 DEF Script
  <2>2. Ok(Hold("app", Use("pins"))) /\ Ok(Hold("fido", Use("pins"))) /\ Ok(Hold("app", Record))
    BY <1>1, <1>3, <1>5
  <2> QED BY <1>1, <1>2, <2>1, <2>2, Ranks
<1>21. CASE handler = "renameEnclave"
  <2>1. script = Use("app") \o Use("app") \o Use("secure_enclave") \o Hold("app", Record)
    BY <1>21 DEF Script
  <2> QED BY <1>1, <1>2, <1>3, <1>5, Ranks, <2>1
<1>22. CASE handler = "lockAgent"
  <2>1. script \in FromTray(SetLocked(LockSession))
    BY <1>22 DEF Script
  <2> QED BY <1>7, <1>8, <2>1
<1>23. CASE handler = "unlockAgent"
  <2>1. script \in FromTray(SetLocked(<<>>))
    BY <1>23 DEF Script
  <2> QED BY <1>7, <1>8, <2>1
<1>24. CASE handler = "load"
  <2>1. script \in Perform
    BY <1>24 DEF Script
  <2> QED BY <1>6, <2>1
<1>25. CASE handler = "continue"
  <2>1. \E p \in Perform : script = Use("app") \o Use("pins") \o p
    BY <1>25 DEF Script
  <2> QED BY <1>1, <1>2, <1>6, <2>1, Ranks
<1>26. CASE handler = "delete"
  <2>1. \E applied \in {<<>>, Use("app")} :
           script = Use("app") \o Use("secure_enclave") \o applied \o Record
    BY <1>26 DEF Script
  <2> QED BY <1>1, <1>2, <1>4, <1>5, <2>1, Ranks
<1>27. CASE handler = "scan"
  <2>1. script = Use("app") \o Use("fido") \o Hold("app", Use("pins") \o Record)
    BY <1>27 DEF Script
  <2> QED BY <1>1, <1>2, <1>3, <1>5, Ranks, <2>1
<1>28. CASE handler = "deactivate"
  <2>1. script = Use("app") \o LockSession \/ script = Use("app") \o LockSession \o Record
    BY <1>28 DEF Script
  <2> QED BY <1>1, <1>2, <1>5, <2>1, Ranks
<1>29. CASE handler = "signEnclave"
  <2>1. \E failed \in {<<>>, Use("app")} :
           script = Use("app") \o Use("app") \o SignEnclave \o Record \o failed
    BY <1>29 DEF Script
  <2>2. Ok(SignEnclave)
    BY <1>1, <1>3 DEF SignEnclave
  <2> QED BY <1>1, <1>2, <1>4, <1>5, <2>1, <2>2, Ranks
<1> QED BY <1>9, <1>10, <1>11, <1>12, <1>13, <1>14, <1>15, <1>16, <1>17, <1>18,
     <1>19, <1>20, <1>21, <1>22, <1>23, <1>24, <1>25, <1>26, <1>27, <1>28,
     <1>29 DEF AllHandlers

(* Every handler but the FIDO2 signature takes its mutexes in the order of
   Rank and drops what it takes. *)
THEOREM ScriptsAreDisciplined == "signFido" \notin Handlers => Disciplined
<1> SUFFICES ASSUME "signFido" \notin Handlers, NEW h \in Handlers, NEW s \in Script(h)
             PROVE  s \in Seq(Steps) /\ Closed(s) /\ Orderly(s)
  BY DEF Disciplined
<1>1. h \in AllHandlers \ {"signFido"}
  BY HandlersAssumption
<1> QED BY <1>1, ScriptsWithin DEF Within

-----------------------------------------------------------------------------
(* The threads that run the scripts.                                       *)

(* What holds of a thread's remaining script in every reachable state. *)
Kept(s) == s \in Seq(Steps) /\ Closed(s) /\ Orderly(s)

(* The inductive invariant: a mutex that is held is still to be dropped by its
   holder, and what remains of every script is closed and orderly. *)
IInv == TypeOK /\ \A t \in Threads : Kept(todo[t])

-----------------------------------------------------------------------------
(* What remains of a script keeps the properties of the whole. *)
LEMMA TailKept ==
    ASSUME NEW s, Kept(s), s # <<>>
    PROVE  Kept(Tail(s))
<1> DEFINE r == Tail(s)
<1>1. s \in Seq(Steps) /\ r \in Seq(Steps) /\ Len(s) \in Nat /\ Len(r) = Len(s) - 1
  BY DEF Kept
<1>2. \A i \in 1 .. Len(r) : r[i] = s[i + 1] /\ i + 1 \in 1 .. Len(s)
  BY <1>1
<1>3. ASSUME NEW i \in 1 .. Len(r), NEW j \in i .. Len(r), NEW m
      PROVE  DropsLive(r, i, j, m) <=> DropsLive(s, i + 1, j + 1, m)
  <2>1. ASSUME DropsLive(r, i, j, m) PROVE DropsLive(s, i + 1, j + 1, m)
    <3>1. s[j + 1] = Drop(m)
      BY <1>1, <1>2, <2>1 DEF DropsLive
    <3>2. ASSUME NEW k \in i + 1 .. j PROVE s[k] # Take(m)
      <4>1. k - 1 \in i .. j - 1 /\ k - 1 \in 1 .. Len(r) /\ (k - 1) + 1 = k
        BY <1>1
      <4> QED BY <1>2, <2>1, <4>1 DEF DropsLive
    <3> QED BY <1>1, <3>1, <3>2 DEF DropsLive
  <2>2. ASSUME DropsLive(s, i + 1, j + 1, m) PROVE DropsLive(r, i, j, m)
    <3>1. r[j] = Drop(m)
      BY <1>1, <1>2, <2>2 DEF DropsLive
    <3>2. ASSUME NEW k \in i .. j - 1 PROVE r[k] # Take(m)
      <4>1. k + 1 \in i + 1 .. (j + 1) - 1 /\ k \in 1 .. Len(r)
        BY <1>1
      <4> QED BY <1>2, <2>2, <4>1 DEF DropsLive
    <3> QED BY <3>1, <3>2 DEF DropsLive
  <2> QED BY <2>1, <2>2
<1>4. Closed(r)
  <2> SUFFICES ASSUME NEW i \in 1 .. Len(r), r[i].do = "take"
               PROVE  \E j \in i + 1 .. Len(r) : DropsLive(r, i + 1, j, r[i].mutex)
    BY DEF Closed
  <2>1. i + 1 \in 1 .. Len(s) /\ s[i + 1] = r[i]
    BY <1>2
  <2>2. PICK j \in (i + 1) + 1 .. Len(s) : DropsLive(s, (i + 1) + 1, j, s[i + 1].mutex)
    BY <2>1 DEF Kept, Closed
  <2>3. j - 1 \in i + 1 .. Len(r) /\ i + 1 \in 1 .. Len(r) /\ (j - 1) + 1 = j
    BY <1>1, <2>2
  <2>4. DropsLive(r, i + 1, j - 1, r[i].mutex)
    BY <1>3, <2>1, <2>2, <2>3
  <2> QED BY <2>3, <2>4
<1>5. Orderly(r)
  <2> SUFFICES ASSUME NEW i \in 1 .. Len(r), NEW j \in 1 .. Len(r), NEW m \in Mutexes,
                      i < j, Asks(r[i]), DropsLive(r, i, j, m)
               PROVE  Rank[m] < Rank[r[i].mutex]
    BY DEF Orderly
  <2>1. i + 1 \in 1 .. Len(s) /\ s[i + 1] = r[i] /\ j + 1 \in 1 .. Len(s) /\ i + 1 < j + 1
    BY <1>1, <1>2
  <2>2. DropsLive(s, i + 1, j + 1, m)
    BY <1>1, <1>3
  <2> QED BY <2>1, <2>2 DEF Kept, Orderly
<1> QED BY <1>1, <1>4, <1>5 DEF Kept

(* A thread whose next step is not the drop of a mutex it holds will still
   drop it after that step. *)
LEMMA StillDropped ==
    ASSUME NEW s \in Seq(Steps), s # <<>>, NEW m, Head(s) # Drop(m),
           \E j \in 1 .. Len(s) : DropsLive(s, 1, j, m)
    PROVE  \E j \in 1 .. Len(Tail(s)) : DropsLive(Tail(s), 1, j, m)
<1>1. PICK j \in 1 .. Len(s) : DropsLive(s, 1, j, m)
  OBVIOUS
<1>2. j # 1 /\ j - 1 \in 1 .. Len(Tail(s))
  BY <1>1 DEF DropsLive
<1>3. Tail(s)[j - 1] = Drop(m)
  BY <1>1, <1>2 DEF DropsLive
<1>4. ASSUME NEW k \in 1 .. (j - 1) - 1 PROVE Tail(s)[k] # Take(m)
  BY <1>1, <1>2 DEF DropsLive
<1> QED BY <1>2, <1>3, <1>4 DEF DropsLive

-----------------------------------------------------------------------------
LEMMA InitInv == Init => IInv
<1> SUFFICES ASSUME Init PROVE IInv
  OBVIOUS
<1>1. Kept(<<>>)
  BY DEF Kept, Closed, Orderly
<1> QED BY <1>1 DEF Init, IInv, TypeOK, Kept

LEMMA StepInv == Disciplined /\ IInv /\ [Next]_vars => IInv'
<1> SUFFICES ASSUME Disciplined, IInv, [Next]_vars PROVE IInv'
  OBVIOUS
<1> USE DEF IInv, TypeOK
<1>1. ASSUME NEW t \in Threads, Start(t) PROVE IInv'
  <2>1. PICK h \in Runs(t) \cap Handlers :
                \E s \in Script(h) : todo' = [todo EXCEPT ![t] = s]
    BY <1>1 DEF Start
  <2>a. PICK s \in Script(h) : todo' = [todo EXCEPT ![t] = s]
    BY <2>1
  <2>2. Kept(s)
    BY <2>1, <2>a DEF Disciplined, Kept
  <2>3. \A u \in Threads : Kept(todo'[u])
    BY <2>a, <2>2
  <2>4. \A m \in Mutexes : holder[m] # t
    <3>1. t # Nobody /\ todo[t] = <<>>
      BY <1>1, ThreadsAssumption DEF Start, Threads, Nobody
    <3> QED BY <3>1
  <2> QED BY <1>1, <2>a, <2>3, <2>4 DEF Start, Kept
<1>2. ASSUME NEW t \in Threads, Lock(t) PROVE IInv'
  <2> DEFINE s == todo[t]
             n == Head(s)
  <2>1. s # <<>> /\ s \in Seq(Steps) /\ n \in Steps /\ n.do \in {"take", "pass"} /\ n = s[1]
    BY <1>2 DEF Lock, NextIs
  <2>2. todo' = [todo EXCEPT ![t] = Tail(s)] /\ holder[n.mutex] = Nobody
    BY <1>2 DEF Lock
  <2>3. \A u \in Threads : Kept(todo'[u])
    BY <2>1, <2>2, TailKept
  <2>4. holder' \in [Mutexes -> Threads \cup {Nobody}]
    BY <1>2, <2>1 DEF Lock, Steps
  <2>5. ASSUME NEW m \in Mutexes, holder[m] # Nobody
        PROVE  /\ holder'[m] = holder[m]
               /\ \E j \in 1 .. Len(todo'[holder[m]]) : DropsLive(todo'[holder[m]], 1, j, m)
    <3>1. holder'[m] = holder[m]
      BY <1>2, <2>1, <2>2, <2>5 DEF Lock, Steps
    <3>2. CASE holder[m] = t
      <4>1. n # Drop(m)
        BY <2>1 DEF Drop
      <4>2. \E j \in 1 .. Len(s) : DropsLive(s, 1, j, m)
        BY <2>5, <3>2
      <4> QED BY <2>1, <2>2, <3>1, <3>2, <4>1, <4>2, StillDropped
    <3>3. CASE holder[m] # t
      <4>1. todo'[holder[m]] = todo[holder[m]]
        BY <2>2, <2>5, <3>3
      <4> QED BY <2>5, <3>1, <4>1
    <3> QED BY <3>2, <3>3
  <2>6. ASSUME NEW m \in Mutexes, holder[m] = Nobody, holder'[m] # Nobody
        PROVE  \E j \in 1 .. Len(todo'[holder'[m]]) : DropsLive(todo'[holder'[m]], 1, j, m)
    <3>1. n.do = "take" /\ m = n.mutex /\ holder'[m] = t
      BY <1>2, <2>1, <2>6 DEF Lock, Steps
    <3>2. PICK j \in 2 .. Len(s) : DropsLive(s, 2, j, m)
      <4>1. 1 \in 1 .. Len(s) /\ s[1].do = "take" /\ s[1].mutex = m /\ 1 + 1 = 2
        BY <2>1, <3>1
      <4>2. Closed(s)
        BY DEF Kept
      <4> QED BY <4>1, <4>2 DEF Closed
    <3>3. j - 1 \in 1 .. Len(Tail(s)) /\ Tail(s)[j - 1] = s[j]
      BY <2>1, <3>2
    <3>4. ASSUME NEW k \in 1 .. (j - 1) - 1 PROVE Tail(s)[k] # Take(m)
      <4>1. k + 1 \in 2 .. j - 1 /\ Tail(s)[k] = s[k + 1]
        BY <2>1, <3>2
      <4> QED BY <3>2, <4>1 DEF DropsLive
    <3>5. DropsLive(Tail(s), 1, j - 1, m)
      BY <3>2, <3>3, <3>4 DEF DropsLive
    <3> QED BY <2>2, <3>1, <3>3, <3>5
  <2>7. \A m \in Mutexes : holder'[m] # Nobody =>
           \E j \in 1 .. Len(todo'[holder'[m]]) : DropsLive(todo'[holder'[m]], 1, j, m)
    BY <2>5, <2>6
  <2> QED BY <2>3, <2>4, <2>7, <2>2 DEF Kept
<1>3. ASSUME NEW t \in Threads, Unlock(t) PROVE IInv'
  <2> DEFINE s == todo[t]
             n == Head(s)
  <2>1. s # <<>> /\ s \in Seq(Steps) /\ n \in Steps /\ n.do = "drop"
    BY <1>3 DEF Unlock, NextIs
  <2>2. todo' = [todo EXCEPT ![t] = Tail(s)] /\ holder' = [holder EXCEPT ![n.mutex] = Nobody]
    BY <1>3 DEF Unlock
  <2>3. \A u \in Threads : Kept(todo'[u])
    BY <2>1, <2>2, TailKept
  <2>4. holder' \in [Mutexes -> Threads \cup {Nobody}]
    BY <2>2
  <2>5. ASSUME NEW m \in Mutexes, holder'[m] # Nobody
        PROVE  \E j \in 1 .. Len(todo'[holder'[m]]) : DropsLive(todo'[holder'[m]], 1, j, m)
    <3>1. m # n.mutex /\ holder'[m] = holder[m] /\ holder[m] # Nobody
      BY <2>1, <2>2, <2>5 DEF Steps
    <3>2. n # Drop(m)
      BY <3>1 DEF Drop
    <3>3. CASE holder[m] = t
      <4>1. \E j \in 1 .. Len(s) : DropsLive(s, 1, j, m)
        BY <3>1, <3>3
      <4> QED BY <2>1, <2>2, <3>1, <3>2, <3>3, <4>1, StillDropped
    <3>4. CASE holder[m] # t
      <4>1. todo'[holder[m]] = todo[holder[m]]
        BY <2>2, <3>1, <3>4
      <4> QED BY <3>1, <4>1
    <3> QED BY <3>3, <3>4
  <2> QED BY <2>2, <2>3, <2>4, <2>5 DEF Kept
<1>4. ASSUME NEW t \in Threads, ReturnEarly(t) PROVE IInv'
  <2>1. Kept(<<>>)
    BY DEF Kept, Closed, Orderly
  <2>2. /\ holder' = [m \in Mutexes |-> IF holder[m] = t THEN Nobody ELSE holder[m]]
        /\ todo' = [todo EXCEPT ![t] = <<>>]
    BY <1>4 DEF ReturnEarly
  <2>3. \A u \in Threads : Kept(todo'[u])
    BY <2>1, <2>2
  <2>4. ASSUME NEW m \in Mutexes, holder'[m] # Nobody
        PROVE  \E j \in 1 .. Len(todo'[holder'[m]]) : DropsLive(todo'[holder'[m]], 1, j, m)
    <3>1. holder'[m] = holder[m] /\ holder[m] # t /\ holder[m] # Nobody
      BY <2>2, <2>4
    <3>2. todo'[holder[m]] = todo[holder[m]]
      BY <2>2, <3>1
    <3> QED BY <3>1, <3>2
  <2> QED BY <2>2, <2>3, <2>4 DEF Kept
<1>5. CASE UNCHANGED vars
  BY <1>5 DEF vars
<1> QED BY <1>1, <1>2, <1>3, <1>4, <1>5 DEF Next

-----------------------------------------------------------------------------
(* The rank of the mutex a thread waits for exceeds the rank of every mutex
   it holds. *)
LEMMA WaitsUpward ==
    ASSUME IInv, NEW t \in Threads, NEW m \in Mutexes, holder[m] = t,
           NextIs(t, {"take", "pass"})
    PROVE  Rank[m] < Rank[Head(todo[t]).mutex]
<1> DEFINE s == todo[t]
<1>1. s \in Seq(Steps) /\ s # <<>> /\ Orderly(s) /\ Head(s) = s[1] /\ Asks(s[1])
  BY DEF IInv, TypeOK, Kept, NextIs, Asks
<1>2. t # Nobody
  BY ThreadsAssumption DEF Threads, Nobody
<1>3. PICK j \in 1 .. Len(s) : DropsLive(s, 1, j, m)
  BY <1>2 DEF IInv, TypeOK
<1>4. j # 1
  BY <1>1, <1>3 DEF DropsLive, Drop, Asks
<1> QED BY <1>1, <1>3, <1>4 DEF Orderly

(* No bounded quantity grows for ever: nothing but the empty set has, for each
   of its members, another that ranks higher. *)
LEMMA NoAscent ==
    ASSUME NEW G, NEW w \in [G -> 0 .. 5], \A t \in G : \E u \in G : w[t] < w[u]
    PROVE  G = {}
<1>1. \A t \in G : w[t] \in 0 .. 5
  OBVIOUS
<1>2. \A t \in G : w[t] < 5
  BY <1>1
<1>3. \A t \in G : w[t] < 4
  BY <1>1, <1>2
<1>4. \A t \in G : w[t] < 3
  BY <1>1, <1>3
<1>5. \A t \in G : w[t] < 2
  BY <1>1, <1>4
<1>6. \A t \in G : w[t] < 1
  BY <1>1, <1>5
<1> QED BY <1>1, <1>6

LEMMA NoWaitCycle == IInv => NoCircularWait
<1> SUFFICES ASSUME IInv, NEW group \in (SUBSET Threads) \ {{}},
                    \A t \in group : WaitsFor(t) \in group
             PROVE  FALSE
  BY DEF NoCircularWait
<1>1. ASSUME NEW t \in group
      PROVE  /\ NextIs(t, {"take", "pass"})
             /\ Head(todo[t]).mutex \in Mutexes
             /\ holder[Head(todo[t]).mutex] = WaitsFor(t)
  <2>1. Nobody \notin group
    BY ThreadsAssumption DEF Threads, Nobody
  <2>2. NextIs(t, {"take", "pass"})
    BY <2>1 DEF WaitsFor
  <2>3. todo[t] \in Seq(Steps) /\ todo[t] # <<>>
    BY <2>2 DEF IInv, TypeOK, NextIs
  <2>4. Head(todo[t]) \in Steps
    BY <2>3
  <2> QED BY <2>2, <2>4 DEF WaitsFor, Steps
<1> DEFINE w == [t \in group |-> Rank[Head(todo[t]).mutex]]
<1>2. w \in [group -> 0 .. 5]
  BY <1>1, RankIsNat
<1>3. ASSUME NEW t \in group PROVE \E u \in group : w[t] < w[u]
  <2> DEFINE u == WaitsFor(t)
  <2>1. u \in group /\ u \in Threads
    OBVIOUS
  <2>2. Rank[Head(todo[t]).mutex] < Rank[Head(todo[u]).mutex]
    BY <1>1, <2>1, WaitsUpward
  <2> QED BY <2>1, <2>2
<1> QED BY <1>2, <1>3, NoAscent

(* In every run of handlers that leaves the FIDO2 signature out, the guards of
   a thread never outlive its handler. *)
THEOREM TypeCorrect == "signFido" \notin Handlers => (Spec => []TypeOK)
<1> SUFFICES ASSUME "signFido" \notin Handlers PROVE Spec => []TypeOK
  OBVIOUS
<1>1. IInv /\ [Next]_vars => IInv'
  BY StepInv, ScriptsAreDisciplined
<1>2. IInv => TypeOK
  BY DEF IInv
<1> QED BY InitInv, <1>1, <1>2, PTL DEF Spec

(* In every run of handlers that leaves the FIDO2 signature out, no group of
   threads waits for its own members, however many operations and agent
   connections there are: the one handler that takes the state while it holds
   the PINs is the only one that can deadlock Keynoxis. *)
THEOREM NoDeadlock == "signFido" \notin Handlers => (Spec => []NoCircularWait)
<1> SUFFICES ASSUME "signFido" \notin Handlers PROVE Spec => []NoCircularWait
  OBVIOUS
<1>1. IInv /\ [Next]_vars => IInv'
  BY StepInv, ScriptsAreDisciplined
<1> QED BY InitInv, <1>1, NoWaitCycle, PTL DEF Spec
=============================================================================
