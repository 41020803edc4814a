----------------------------- MODULE QueueLemmas -----------------------------
(***************************************************************************)
(* What the walks of module Queues compute, for sequences of any length.   *)
(* Induction is over a set of natural numbers, which the provers can       *)
(* instantiate, and not over a predicate.                                  *)
(***************************************************************************)
EXTENDS Queues, WellFoundedInduction, TLAPS

(* A set that has 0 and the successor of each of its numbers has them all. *)
LEMMA SetInduction ==
    ASSUME NEW T, 0 \in T, \A n \in Nat : n \in T => n + 1 \in T
    PROVE  Nat \subseteq T
<1> SUFFICES ASSUME Nat \ T # {} PROVE FALSE
  OBVIOUS
<1>1. PICK x \in Nat \ T : \A y \in Nat \ T : ~(<<y, x>> \in OpToRel(<, Nat))
  <2> DEFINE R == OpToRel(<, Nat)
             U == Nat \ T
  <2>1. IsWellFoundedOn(R, Nat) BY NatLessThanWellFounded, Zenon
  <2>2. U \subseteq Nat /\ U # {} OBVIOUS
  <2> HIDE DEF R, U
  <2>3. \E x \in U : \A y \in U : ~(<<y, x>> \in R) BY <2>1, <2>2, WFMin, Zenon
  <2> QED BY <2>3, Zenon DEF R, U
<1>2. \A y \in Nat : y < x => y \in T
  BY <1>1, Zenon DEF OpToRel
<1>3. x # 0 /\ x - 1 \in Nat /\ x - 1 < x
  OBVIOUS
<1> QED BY <1>2, <1>3

-----------------------------------------------------------------------------
(* The recursion that defines Collected has a solution. *)
LEMMA CollectedEquation ==
    ASSUME NEW S, NEW queue \in Seq(S), NEW wanted
    PROVE  Collected(queue, wanted) =
               [n \in 0..Len(queue) |->
                   IF n = 0 THEN <<>>
                   ELSE IF queue[n] \in wanted
                        THEN Append(Collected(queue, wanted)[n - 1], queue[n])
                        ELSE Collected(queue, wanted)[n - 1]]
<1> DEFINE Step(f, n) == IF n = 0 THEN <<>>
                         ELSE IF queue[n] \in wanted THEN Append(f[n - 1], queue[n])
                         ELSE f[n - 1]
           T == {m \in Nat : \E f : f = [n \in 0..m |-> Step(f, n)]}
<1>1. 0 \in T
  <2> DEFINE f == [n \in 0..0 |-> <<>>]
  <2>1. f = [n \in 0..0 |-> Step(f, n)] OBVIOUS
  <2> QED BY <2>1, Zenon
<1>2. ASSUME NEW m \in Nat, m \in T PROVE m + 1 \in T
  <2>1. PICK f : f = [n \in 0..m |-> Step(f, n)] BY <1>2
  <2> DEFINE g == [n \in 0..(m + 1) |-> IF n = m + 1 THEN Step(f, n) ELSE f[n]]
  <2>2. \A n \in 0..(m + 1) : n # 0 => g[n - 1] = f[n - 1]
    OBVIOUS
  <2>3. \A n \in 0..(m + 1) : g[n] = Step(f, n)
    <3> HIDE DEF Step
    <3>1. \A n \in 0..m : f[n] = Step(f, n) BY <2>1
    <3>2. \A n \in 0..(m + 1) : n # m + 1 => n \in 0..m OBVIOUS
    <3> QED BY <3>1, <3>2
  <2>4. \A n \in 0..(m + 1) : g[n] = Step(g, n)
    BY <2>2, <2>3
  <2>5. g = [n \in 0..(m + 1) |-> Step(g, n)]
    BY <2>4
  <2>6. m + 1 \in Nat OBVIOUS
  <2> HIDE DEF g, Step
  <2> QED BY <2>5, <2>6
<1>3. Len(queue) \in T
  <2>1. Nat \subseteq T
    <3> HIDE DEF T
    <3> QED BY <1>1, <1>2, SetInduction
  <2>2. Len(queue) \in Nat OBVIOUS
  <2> HIDE DEF T
  <2> QED BY <2>1, <2>2
<1>4. \E f : f = [n \in 0..Len(queue) |-> Step(f, n)]
  BY <1>3
<1>5. Collected(queue, wanted) = [n \in 0..Len(queue) |-> Step(Collected(queue, wanted), n)]
  BY <1>4, Zenon DEF Collected
<1> QED BY <1>5, Zenon

-----------------------------------------------------------------------------
(* A set of sequences that has <<>> and, with a sequence, all that are     *)
(* longer by one, has them all.                                            *)
LEMMA SeqInduction ==
    ASSUME NEW S, NEW T, <<>> \in T,
           \A s \in Seq(S), e \in S : s \in T => Append(s, e) \in T
    PROVE  Seq(S) \subseteq T
<1> DEFINE U == {n \in Nat : \A s \in Seq(S) : Len(s) = n => s \in T}
<1>1. 0 \in U
  <2>1. \A s \in Seq(S) : Len(s) = 0 => s = <<>> OBVIOUS
  <2> QED BY <2>1
<1>2. ASSUME NEW n \in Nat, n \in U PROVE n + 1 \in U
  <2> SUFFICES ASSUME NEW s \in Seq(S), Len(s) = n + 1 PROVE s \in T
    OBVIOUS
  <2> DEFINE f == SubSeq(s, 1, n)
  <2>1. f \in Seq(S) /\ Len(f) = n /\ s[n + 1] \in S /\ s = Append(f, s[n + 1])
    OBVIOUS
  <2>2. f \in T BY <1>2, <2>1, Zenon
  <2> HIDE DEF f
  <2> QED BY <2>1, <2>2, Zenon
<1>3. Nat \subseteq U
  <2> HIDE DEF U
  <2> QED BY <1>1, <1>2, SetInduction
<1>4. \A s \in Seq(S) : Len(s) \in U
  <2> HIDE DEF U
  <2> QED BY <1>3
<1> QED BY <1>4

-----------------------------------------------------------------------------
(* Removed *)

(* Taking out the element at i leaves the others where they are, or one    *)
(* place further on.                                                       *)
LEMMA RemovedElements ==
    ASSUME NEW S, NEW queue \in Seq(S), NEW i \in 1..Len(queue)
    PROVE  /\ Removed(queue, i) \in Seq(S)
           /\ Len(Removed(queue, i)) = Len(queue) - 1
           /\ \A j \in 1..(Len(queue) - 1) :
                  Removed(queue, i)[j] = IF j < i THEN queue[j] ELSE queue[j + 1]
<1>1. Len(queue) \in Nat OBVIOUS
<1> DEFINE e(j) == IF j < i THEN queue[j] ELSE queue[j + 1]
<1>2. \A j \in 1..(Len(queue) - 1) : e(j) \in S BY <1>1
<1> QED BY <1>1, <1>2 DEF Removed

(* What is left of a queue was in it. *)
LEMMA RemovedKeeps ==
    ASSUME NEW S, NEW queue \in Seq(S), NEW i \in 1..Len(queue)
    PROVE  /\ \A j \in DOMAIN Removed(queue, i) :
                  \E k \in DOMAIN queue : k # i /\ Removed(queue, i)[j] = queue[k]
           /\ \A k \in DOMAIN queue : k # i =>
                  \E j \in DOMAIN Removed(queue, i) : Removed(queue, i)[j] = queue[k]
<1> DEFINE r == Removed(queue, i)
<1>1. r \in Seq(S) /\ DOMAIN r = 1..(Len(queue) - 1) /\ DOMAIN queue = 1..Len(queue)
      /\ \A j \in 1..(Len(queue) - 1) : r[j] = IF j < i THEN queue[j] ELSE queue[j + 1]
  BY RemovedElements
<1> HIDE DEF r
<1>2. ASSUME NEW j \in DOMAIN r
      PROVE  \E k \in DOMAIN queue : k # i /\ r[j] = queue[k]
  <2>1. CASE j < i BY <1>1, <2>1
  <2>2. CASE ~(j < i) BY <1>1, <2>2
  <2> QED BY <2>1, <2>2
<1>3. ASSUME NEW k \in DOMAIN queue, k # i
      PROVE  \E j \in DOMAIN r : r[j] = queue[k]
  <2>1. CASE k < i BY <1>1, <2>1
  <2>2. CASE k > i
    <3>1. k - 1 \in DOMAIN r /\ r[k - 1] = queue[k] BY <1>1, <2>2
    <3> QED BY <3>1
  <2> QED BY <1>1, <1>3, <2>1, <2>2
<1> QED BY <1>2, <1>3 DEF r

(* q has the elements of s, each of them once, but for the one at i. *)
Omits(q, s, i) ==
    /\ \A j \in 1..Len(q) : q[j] # s[i] /\ \E k \in 1..Len(s) : s[k] = q[j]
    /\ \A k \in 1..Len(s) : s[k] # s[i] => \E j \in 1..Len(q) : q[j] = s[k]
    /\ \A j, k \in 1..Len(q) : q[j] = q[k] => j = k

(* The queue without an element that is in it once. *)
LEMMA RemovedOnce ==
    ASSUME NEW S, NEW s \in Seq(S), NEW i \in 1..Len(s),
           \A j, k \in 1..Len(s) : s[j] = s[k] => j = k
    PROVE  Removed(s, i) \in Seq(S) /\ Omits(Removed(s, i), s, i)
<1> DEFINE q == Removed(s, i)
<1>1. q \in Seq(S) BY RemovedElements
<1>2. Len(q) = Len(s) - 1 /\ Len(s) \in Nat BY RemovedElements
<1>3. \A j \in 1..(Len(s) - 1) : q[j] = IF j < i THEN s[j] ELSE s[j + 1] BY RemovedElements
<1> HIDE DEF q
<1>4. \A j \in 1..Len(q) : \E k \in 1..Len(s) : s[k] = q[j] /\ k # i
  <2> SUFFICES ASSUME NEW j \in 1..Len(q) PROVE \E k \in 1..Len(s) : s[k] = q[j] /\ k # i
    OBVIOUS
  <2>1. CASE j < i BY <1>2, <1>3, <2>1
  <2>2. CASE ~(j < i) BY <1>2, <1>3, <2>2
  <2> QED BY <2>1, <2>2
<1>5. \A j, k \in 1..Len(q) : q[j] = q[k] => j = k BY <1>2, <1>3
<1>6. \A k \in 1..Len(s) : s[k] # s[i] => \E j \in 1..Len(q) : q[j] = s[k]
  <2> SUFFICES ASSUME NEW k \in 1..Len(s), s[k] # s[i] PROVE \E j \in 1..Len(q) : q[j] = s[k]
    OBVIOUS
  <2>1. CASE k < i BY <1>2, <1>3, <2>1
  <2>2. CASE ~(k < i)
    <3>1. k - 1 \in 1..Len(q) /\ q[k - 1] = s[k] BY <1>2, <1>3, <2>2
    <3> QED BY <3>1
  <2> QED BY <2>1, <2>2
<1>7. \A j \in 1..Len(q) : q[j] # s[i] BY <1>4
<1>8. Omits(q, s, i) BY <1>4, <1>5, <1>6, <1>7 DEF Omits
<1> QED BY <1>1, <1>8 DEF q

\* Taking an element out of a queue and then appending is appending and then
\* taking it out.
LEMMA RemovedAppend ==
    ASSUME NEW S, NEW queue \in Seq(S), NEW e \in S, NEW i \in 1..(Len(queue) + 1)
    PROVE  Removed(Append(queue, e), i) =
               IF i = Len(queue) + 1 THEN queue ELSE Append(Removed(queue, i), e)
<1> DEFINE a == Append(queue, e)
<1>1. /\ a \in Seq(S) /\ Len(a) = Len(queue) + 1
      /\ \A j \in 1..Len(queue) : a[j] = queue[j]
      /\ a[Len(queue) + 1] = e
  OBVIOUS
<1> HIDE DEF a
<1> DEFINE ra == Removed(a, i)
<1>2. /\ ra \in Seq(S) /\ Len(ra) = Len(queue)
      /\ \A j \in 1..Len(queue) : ra[j] = IF j < i THEN a[j] ELSE a[j + 1]
  <2>1. i \in 1..Len(a) BY <1>1
  <2>2. /\ ra \in Seq(S) /\ Len(ra) = Len(a) - 1
        /\ \A j \in 1..(Len(a) - 1) : ra[j] = IF j < i THEN a[j] ELSE a[j + 1]
    BY <1>1, <2>1, RemovedElements, Zenon
  <2>3. Len(a) - 1 = Len(queue) BY <1>1
  <2> HIDE DEF ra
  <2> QED BY <2>2, <2>3
<1> HIDE DEF ra
<1>3. CASE i = Len(queue) + 1
  <2>1. \A j \in 1..Len(queue) : ra[j] = queue[j] BY <1>1, <1>2, <1>3
  <2>2. ra = queue BY <1>2, <2>1
  <2> QED BY <1>3, <2>2 DEF ra, a
<1>4. CASE i # Len(queue) + 1
  <2> DEFINE r == Removed(queue, i)
             ar == Append(r, e)
  <2>1. /\ r \in Seq(S) /\ Len(r) = Len(queue) - 1
        /\ \A j \in 1..(Len(queue) - 1) : r[j] = IF j < i THEN queue[j] ELSE queue[j + 1]
    <3>1. i \in 1..Len(queue) BY <1>4
    <3> QED BY <3>1, RemovedElements, Zenon
  <2> HIDE DEF r
  <2>2. /\ ar \in Seq(S) /\ Len(ar) = Len(queue)
        /\ \A j \in 1..(Len(queue) - 1) : ar[j] = r[j]
        /\ ar[Len(queue)] = e
    BY <1>4, <2>1
  <2> HIDE DEF ar
  <2>3. \A j \in 1..Len(queue) : ra[j] = ar[j]
    <3> SUFFICES ASSUME NEW j \in 1..Len(queue) PROVE ra[j] = ar[j]
      OBVIOUS
    <3>1. CASE j = Len(queue) BY <1>1, <1>2, <1>4, <2>2, <3>1
    <3>2. CASE j < i
      <4>1. j \in 1..(Len(queue) - 1) /\ j # Len(queue) + 1 BY <1>4, <3>2
      <4> QED BY <1>1, <1>2, <2>1, <2>2, <3>2, <4>1
    <3>3. CASE j # Len(queue) /\ ~(j < i)
      <4>1. j \in 1..(Len(queue) - 1) /\ j + 1 \in 1..Len(queue) BY <3>3
      <4> QED BY <1>1, <1>2, <2>1, <2>2, <3>3, <4>1
    <3> QED BY <3>1, <3>2, <3>3
  <2>4. ra = ar BY <1>2, <2>2, <2>3
  <2> QED BY <1>4, <2>4 DEF ra, ar, a, r
<1> QED BY <1>3, <1>4

(* A walk that looks for an element finds one if there is one, and stops   *)
(* at one place only.                                                      *)
LEMMA FirstAmongExists ==
    ASSUME NEW S, NEW queue \in Seq(S), NEW wanted, FirstAmong(queue, wanted) = {}
    PROVE  \A i \in 1..Len(queue) : queue[i] \notin wanted
<1> DEFINE T == {n \in Nat : \A i \in 1..Len(queue) : i <= n => queue[i] \notin wanted}
<1>1. 0 \in T OBVIOUS
<1>2. ASSUME NEW n \in Nat, n \in T PROVE n + 1 \in T
  <2> SUFFICES ASSUME n + 1 \in 1..Len(queue) PROVE queue[n + 1] \notin wanted
    BY <1>2
  <2>1. \A j \in 1..((n + 1) - 1) : queue[j] \notin wanted BY <1>2
  <2> QED BY <2>1 DEF FirstAmong
<1>3. Nat \subseteq T
  <2> HIDE DEF T
  <2> QED BY <1>1, <1>2, SetInduction
<1>4. Len(queue) \in T
  <2> HIDE DEF T
  <2> QED BY <1>3
<1> QED BY <1>4

-----------------------------------------------------------------------------
(* AllAmong *)

\* Nothing is collected from an empty prefix.
LEMMA CollectedZero ==
    ASSUME NEW S, NEW queue \in Seq(S), NEW wanted
    PROVE  Collected(queue, wanted)[0] = <<>>
<1> DEFINE c == Collected(queue, wanted)
<1>1. c = [n \in 0..Len(queue) |->
              IF n = 0 THEN <<>>
              ELSE IF queue[n] \in wanted THEN Append(c[n - 1], queue[n]) ELSE c[n - 1]]
  BY CollectedEquation
<1> HIDE DEF c
<1>2. c[0] = <<>> BY <1>1
<1> QED BY <1>2 DEF c

\* An empty queue has no selected elements.
LEMMA AllAmongEmpty == ASSUME NEW wanted PROVE AllAmong(<<>>, wanted) = <<>>
<1>1. ASSUME NEW queue \in Seq(Nat), queue = <<>>
      PROVE  AllAmong(queue, wanted) = <<>>
  <2>1. Collected(queue, wanted)[0] = <<>> BY CollectedZero, Zenon
  <2>2. Len(queue) = 0 BY <1>1
  <2> QED BY <2>1, <2>2 DEF AllAmong
<1>2. <<>> \in Seq(Nat) OBVIOUS
<1> QED BY <1>1, <1>2, Zenon

(* The walk of a longer queue begins like that of the shorter one. *)
LEMMA CollectedAppend ==
    ASSUME NEW S, NEW queue \in Seq(S), NEW e \in S, NEW wanted
    PROVE  \A n \in 0..Len(queue) :
               Collected(Append(queue, e), wanted)[n] = Collected(queue, wanted)[n]
<1> DEFINE a == Append(queue, e)
           c == Collected(queue, wanted)
           d == Collected(a, wanted)
           T == {n \in Nat : n <= Len(queue) => d[n] = c[n]}
<1>1. /\ a \in Seq(S) /\ Len(a) = Len(queue) + 1 /\ Len(queue) \in Nat
      /\ \A j \in 1..Len(queue) : a[j] = queue[j]
  OBVIOUS
<1> HIDE DEF a
<1>2. c = [n \in 0..Len(queue) |->
              IF n = 0 THEN <<>>
              ELSE IF queue[n] \in wanted THEN Append(c[n - 1], queue[n]) ELSE c[n - 1]]
  BY CollectedEquation
<1>3. d = [n \in 0..Len(a) |->
              IF n = 0 THEN <<>>
              ELSE IF a[n] \in wanted THEN Append(d[n - 1], a[n]) ELSE d[n - 1]]
  BY <1>1, CollectedEquation
<1> HIDE DEF c, d
<1>4. 0 \in T
  <2>1. c[0] = <<>> BY <1>1, <1>2
  <2>2. d[0] = <<>> BY <1>1, <1>3
  <2> QED BY <2>1, <2>2
<1>5. ASSUME NEW n \in Nat, n \in T PROVE n + 1 \in T
  <2> SUFFICES ASSUME n + 1 <= Len(queue) PROVE d[n + 1] = c[n + 1]
    OBVIOUS
  <2>1. /\ n + 1 \in 0..Len(queue) /\ n + 1 \in 0..Len(a) /\ n + 1 # 0 /\ (n + 1) - 1 = n
        /\ a[n + 1] = queue[n + 1] /\ d[n] = c[n]
    BY <1>1, <1>5
  <2>2. c[n + 1] = IF queue[n + 1] \in wanted THEN Append(c[n], queue[n + 1]) ELSE c[n]
    BY <1>2, <2>1, Zenon
  <2>3. d[n + 1] = IF a[n + 1] \in wanted THEN Append(d[n], a[n + 1]) ELSE d[n]
    BY <1>3, <2>1, Zenon
  <2> QED BY <2>1, <2>2, <2>3
<1>6. Nat \subseteq T
  <2> HIDE DEF T
  <2> QED BY <1>4, <1>5, SetInduction
<1>7. \A n \in 0..Len(queue) : n \in Nat /\ n <= Len(queue) OBVIOUS
<1>8. \A n \in 0..Len(queue) : d[n] = c[n] BY <1>6, <1>7
<1> QED BY <1>8 DEF a, c, d

(* The walk of a queue ends with what its last element adds. *)
LEMMA AllAmongAppend ==
    ASSUME NEW S, NEW queue \in Seq(S), NEW e \in S, NEW wanted
    PROVE  AllAmong(Append(queue, e), wanted) =
               IF e \in wanted THEN Append(AllAmong(queue, wanted), e)
                               ELSE AllAmong(queue, wanted)
<1> DEFINE a == Append(queue, e)
           n == Len(queue)
<1>1. a \in Seq(S) /\ Len(a) = n + 1 /\ n \in Nat /\ a[n + 1] = e
  OBVIOUS
<1>2. Collected(a, wanted)[n] = Collected(queue, wanted)[n]
  BY CollectedAppend
<1> HIDE DEF a
<1>3. Collected(a, wanted) =
          [k \in 0..Len(a) |->
              IF k = 0 THEN <<>>
              ELSE IF a[k] \in wanted THEN Append(Collected(a, wanted)[k - 1], a[k])
                   ELSE Collected(a, wanted)[k - 1]]
  BY <1>1, CollectedEquation
<1>4. n + 1 \in 0..Len(a) /\ n + 1 # 0 /\ (n + 1) - 1 = n BY <1>1
<1>5. Collected(a, wanted)[n + 1] =
          IF e \in wanted THEN Append(Collected(a, wanted)[n], e) ELSE Collected(a, wanted)[n]
  BY <1>1, <1>3, <1>4, Zenon
<1>6. AllAmong(a, wanted) = Collected(a, wanted)[n + 1] BY <1>1 DEF AllAmong
<1>7. AllAmong(queue, wanted) = Collected(queue, wanted)[n] BY DEF AllAmong
<1> QED BY <1>2, <1>5, <1>6, <1>7 DEF a

\* The selected elements form a queue of the same kind.
LEMMA AllAmongType ==
    ASSUME NEW S, NEW queue \in Seq(S), NEW wanted
    PROVE  AllAmong(queue, wanted) \in Seq(S)
<1> DEFINE T == {s \in Seq(S) : AllAmong(s, wanted) \in Seq(S)}
<1>1. <<>> \in T
  <2>1. <<>> \in Seq(S) OBVIOUS
  <2> QED BY <2>1, AllAmongEmpty, Zenon
<1>2. ASSUME NEW s \in Seq(S), NEW e \in S, s \in T PROVE Append(s, e) \in T
  <2> DEFINE b == AllAmong(s, wanted)
  <2>1. b \in Seq(S) /\ Append(s, e) \in Seq(S) BY <1>2
  <2>2. AllAmong(Append(s, e), wanted) = IF e \in wanted THEN Append(b, e) ELSE b
    BY AllAmongAppend
  <2> HIDE DEF b
  <2>3. Append(b, e) \in Seq(S) BY <2>1
  <2>4. AllAmong(Append(s, e), wanted) \in Seq(S) BY <2>1, <2>2, <2>3
  <2> QED BY <2>1, <2>4
<1> HIDE DEF T
<1>3. Seq(S) \subseteq T BY <1>1, <1>2, SeqInduction
<1> QED BY <1>3 DEF T

(* What is collected is what is wanted of the queue. *)
LEMMA AllAmongElements ==
    ASSUME NEW S, NEW queue \in Seq(S), NEW wanted
    PROVE  \A x : (\E k \in DOMAIN AllAmong(queue, wanted) : AllAmong(queue, wanted)[k] = x)
                  <=> x \in wanted /\ \E i \in DOMAIN queue : queue[i] = x
<1> DEFINE In(x, s) == \E k \in DOMAIN s : s[k] = x
           T == {s \in Seq(S) : \A x : In(x, AllAmong(s, wanted)) <=> x \in wanted /\ In(x, s)}
<1>1. <<>> \in T BY AllAmongEmpty
<1>2. ASSUME NEW U, NEW s \in Seq(U), NEW e \in U
      PROVE  \A x : In(x, Append(s, e)) <=> In(x, s) \/ x = e
  <2>1. /\ DOMAIN Append(s, e) = 1..(Len(s) + 1) /\ DOMAIN s = 1..Len(s) /\ Len(s) \in Nat
        /\ \A k \in 1..Len(s) : Append(s, e)[k] = s[k]
        /\ Append(s, e)[Len(s) + 1] = e
    OBVIOUS
  <2> DEFINE a == Append(s, e)
  <2> HIDE DEF a
  <2>2. ASSUME NEW x, NEW k \in DOMAIN a, a[k] = x PROVE In(x, s) \/ x = e
    <3>1. CASE k = Len(s) + 1 BY <2>1, <2>2, <3>1 DEF a
    <3>2. CASE k # Len(s) + 1
      <4>1. k \in 1..Len(s) BY <2>1, <3>2 DEF a
      <4> QED BY <2>1, <2>2, <4>1 DEF a
    <3> QED BY <3>1, <3>2
  <2>3. ASSUME NEW k \in DOMAIN s PROVE k \in DOMAIN a /\ a[k] = s[k]
    BY <2>1 DEF a
  <2>4. Len(s) + 1 \in DOMAIN a /\ a[Len(s) + 1] = e BY <2>1 DEF a
  <2>5. \A x : In(x, a) <=> In(x, s) \/ x = e BY <2>2, <2>3, <2>4
  <2> QED BY <2>5 DEF a
<1>3. ASSUME NEW s \in Seq(S), NEW e \in S, s \in T PROVE Append(s, e) \in T
  <2> DEFINE b == AllAmong(s, wanted)
  <2>1. b \in Seq(S) BY AllAmongType
  <2>2. \A x : In(x, b) <=> x \in wanted /\ In(x, s) BY <1>3
  <2>3. AllAmong(Append(s, e), wanted) = IF e \in wanted THEN Append(b, e) ELSE b
    BY AllAmongAppend
  <2> HIDE DEF b
  <2>4. \A x : In(x, Append(s, e)) <=> In(x, s) \/ x = e BY <1>2
  <2>5. \A x : In(x, Append(b, e)) <=> In(x, b) \/ x = e
    <3> HIDE DEF In
    <3> QED BY <1>2, <2>1
  <2> DEFINE a == Append(s, e)
             c == Append(b, e)
  <2>6. a \in Seq(S) OBVIOUS
  <2> HIDE DEF In, a, c
  <2>7. \A x : In(x, AllAmong(a, wanted)) <=> x \in wanted /\ In(x, a)
    <3>1. CASE e \in wanted
      <4>1. AllAmong(a, wanted) = c BY <2>3, <3>1 DEF a, c
      <4>2. \A x : In(x, c) <=> In(x, b) \/ x = e BY <2>5 DEF c
      <4>3. \A x : In(x, a) <=> In(x, s) \/ x = e BY <2>4 DEF a
      <4> QED BY <2>2, <3>1, <4>1, <4>2, <4>3
    <3>2. CASE e \notin wanted
      <4>1. AllAmong(a, wanted) = b BY <2>3, <3>2 DEF a
      <4>2. \A x : In(x, a) <=> In(x, s) \/ x = e BY <2>4 DEF a
      <4> QED BY <2>2, <3>2, <4>1, <4>2
    <3> QED BY <3>1, <3>2
  <2>8. a \in T BY <2>6, <2>7
  <2> QED BY <2>8 DEF a
<1>4. Seq(S) \subseteq T
  <2> HIDE DEF T
  <2> QED BY <1>1, <1>3, SeqInduction
<1> QED BY <1>4

(* The walk sees no difference between two kinds that no element tells     *)
(* apart.                                                                  *)
LEMMA AllAmongAgree ==
    ASSUME NEW S, NEW queue \in Seq(S), NEW V, NEW W,
           \A i \in DOMAIN queue : queue[i] \in V <=> queue[i] \in W
    PROVE  AllAmong(queue, V) = AllAmong(queue, W)
<1> DEFINE T == {s \in Seq(S) : (\A i \in DOMAIN s : s[i] \in V <=> s[i] \in W)
                                   => AllAmong(s, V) = AllAmong(s, W)}
<1>1. <<>> \in T BY AllAmongEmpty
<1>2. ASSUME NEW s \in Seq(S), NEW e \in S, s \in T PROVE Append(s, e) \in T
  <2> DEFINE a == Append(s, e)
  <2>0. a \in Seq(S) OBVIOUS
  <2> SUFFICES ASSUME \A i \in DOMAIN a : a[i] \in V <=> a[i] \in W
               PROVE  AllAmong(a, V) = AllAmong(a, W)
    <3> HIDE DEF a
    <3>1. a \in T BY <2>0
    <3> QED BY <3>1 DEF a
  <2>1. \A i \in DOMAIN s : i \in DOMAIN a /\ a[i] = s[i] OBVIOUS
  <2>2. Len(s) + 1 \in DOMAIN a /\ a[Len(s) + 1] = e OBVIOUS
  <2>3. AllAmong(a, V) = (IF e \in V THEN Append(AllAmong(s, V), e) ELSE AllAmong(s, V))
        /\ AllAmong(a, W) = (IF e \in W THEN Append(AllAmong(s, W), e) ELSE AllAmong(s, W))
    BY AllAmongAppend
  <2> HIDE DEF a
  <2>4. AllAmong(s, V) = AllAmong(s, W) BY <1>2, <2>1
  <2>5. e \in V <=> e \in W BY <2>2
  <2> QED BY <2>3, <2>4, <2>5
<1> HIDE DEF T
<1>3. Seq(S) \subseteq T BY <1>1, <1>2, SeqInduction
<1> QED BY <1>3 DEF T

(* Nobody is collected if nobody is wanted. *)
LEMMA AllAmongNone ==
    ASSUME NEW S, NEW queue \in Seq(S), NEW W,
           \A i \in DOMAIN queue : queue[i] \notin W
    PROVE  AllAmong(queue, W) = <<>>
<1> DEFINE A == AllAmong(queue, W)
<1>1. A \in Seq(S) BY AllAmongType
<1>2. \A k \in DOMAIN A : FALSE BY AllAmongElements
<1> HIDE DEF A
<1>3. Len(A) = 0
  <2> SUFFICES ASSUME Len(A) # 0 PROVE FALSE OBVIOUS
  <2>1. 1 \in DOMAIN A BY <1>1
  <2> QED BY <1>2, <2>1
<1>4. A = <<>> BY <1>1, <1>3
<1> QED BY <1>4 DEF A

(* Two walks after each other collect what is wanted by both. *)
LEMMA AllAmongTwice ==
    ASSUME NEW S, NEW queue \in Seq(S), NEW V, NEW W
    PROVE  AllAmong(AllAmong(queue, V), W) = AllAmong(queue, V \cap W)
<1> DEFINE T == {s \in Seq(S) : AllAmong(AllAmong(s, V), W) = AllAmong(s, V \cap W)}
<1>1. <<>> \in T BY AllAmongEmpty
<1>2. ASSUME NEW s \in Seq(S), NEW e \in S, s \in T PROVE Append(s, e) \in T
  <2> DEFINE b == AllAmong(s, V)
             c == AllAmong(s, V \cap W)
  <2>1. b \in Seq(S) BY AllAmongType
  <2>2. AllAmong(Append(s, e), V) = (IF e \in V THEN Append(b, e) ELSE b)
        /\ AllAmong(Append(s, e), V \cap W) = (IF e \in V \cap W THEN Append(c, e) ELSE c)
    BY AllAmongAppend
  <2>3. AllAmong(b, W) = c BY <1>2
  <2> HIDE DEF b, c
  <2>4. AllAmong(Append(b, e), W) = (IF e \in W THEN Append(c, e) ELSE c)
    BY <2>1, <2>3, AllAmongAppend
  <2> DEFINE a == Append(s, e)
  <2>5. a \in Seq(S) OBVIOUS
  <2>6. AllAmong(AllAmong(a, V), W) = AllAmong(a, V \cap W)
    <3>1. CASE e \in V
      <4>1. AllAmong(a, V) = Append(b, e) BY <2>2, <3>1
      <4>2. AllAmong(a, V \cap W) = IF e \in W THEN Append(c, e) ELSE c BY <2>2, <3>1
      <4> HIDE DEF a
      <4> QED BY <2>4, <4>1, <4>2, Zenon
    <3>2. CASE e \notin V
      <4>1. AllAmong(a, V) = b /\ AllAmong(a, V \cap W) = c BY <2>2, <3>2
      <4> HIDE DEF a
      <4> QED BY <2>3, <4>1
    <3> QED BY <3>1, <3>2
  <2> HIDE DEF a
  <2>7. a \in T BY <2>5, <2>6
  <2> QED BY <2>7 DEF a
<1> HIDE DEF T
<1>3. Seq(S) \subseteq T BY <1>1, <1>2, SeqInduction
<1> QED BY <1>3, Zenon DEF T

\* Taking out the last element leaves the front of the queue.
LEMMA RemovedLast ==
    ASSUME NEW S, NEW queue \in Seq(S), NEW e \in S
    PROVE  Removed(Append(queue, e), Len(queue) + 1) = queue
<1>1. Len(queue) + 1 \in 1..(Len(queue) + 1) OBVIOUS
<1> DEFINE n == Len(queue) + 1
<1> HIDE DEF n
<1>2. Removed(Append(queue, e), n) = IF n = Len(queue) + 1 THEN queue ELSE Append(Removed(queue, n), e)
  BY <1>1, RemovedAppend, Zenon DEF n
<1> QED BY <1>2 DEF n

\* Taking out an element before the last one leaves the last one last.
LEMMA RemovedInside ==
    ASSUME NEW S, NEW queue \in Seq(S), NEW e \in S, NEW i \in 1..Len(queue)
    PROVE  Removed(Append(queue, e), i) = Append(Removed(queue, i), e)
<1>1. i \in 1..(Len(queue) + 1) /\ i # Len(queue) + 1 OBVIOUS
<1>2. Removed(Append(queue, e), i) = IF i = Len(queue) + 1 THEN queue ELSE Append(Removed(queue, i), e)
  BY <1>1, RemovedAppend
<1> QED BY <1>1, <1>2

\* Appending adds one element at the end and keeps the others in place.
LEMMA AppendElements ==
    ASSUME NEW S, NEW s \in Seq(S), NEW e \in S
    PROVE  /\ Append(s, e) \in Seq(S)
           /\ Len(Append(s, e)) = Len(s) + 1 /\ Len(s) \in Nat
           /\ \A j \in 1..Len(s) : Append(s, e)[j] = s[j]
           /\ Append(s, e)[Len(s) + 1] = e
OBVIOUS

(* Taking an element out of the queue takes it out of what is collected,   *)
(* from the first place if it is the first of its kind.                    *)
LEMMA AllAmongRemoved ==
    ASSUME NEW S, NEW queue \in Seq(S), NEW W, NEW i \in 1..Len(queue)
    PROVE  /\ queue[i] \notin W => AllAmong(Removed(queue, i), W) = AllAmong(queue, W)
           /\ queue[i] \in W =>
                  \E k \in 1..Len(AllAmong(queue, W)) :
                      /\ AllAmong(queue, W)[k] = queue[i]
                      /\ AllAmong(Removed(queue, i), W) = Removed(AllAmong(queue, W), k)
                      /\ (\A j \in 1..(i - 1) : queue[j] \notin W) => k = 1
<1> DEFINE Same(s, n) == s[n] \notin W => AllAmong(Removed(s, n), W) = AllAmong(s, W)
           Less(s, n) == s[n] \in W =>
                  \E k \in 1..Len(AllAmong(s, W)) :
                      /\ AllAmong(s, W)[k] = s[n]
                      /\ AllAmong(Removed(s, n), W) = Removed(AllAmong(s, W), k)
                      /\ (\A j \in 1..(n - 1) : s[j] \notin W) => k = 1
           T == {s \in Seq(S) : \A n \in 1..Len(s) : Same(s, n) /\ Less(s, n)}
<1>1. <<>> \in T OBVIOUS
<1>2. ASSUME NEW s \in Seq(S), NEW e \in S, s \in T PROVE Append(s, e) \in T
  <2> DEFINE a == Append(s, e)
             b == AllAmong(s, W)
             c == AllAmong(a, W)
             be == Append(b, e)
  <2>1. /\ a \in Seq(S) /\ Len(a) = Len(s) + 1 /\ Len(s) \in Nat
        /\ \A j \in 1..Len(s) : a[j] = s[j]
        /\ a[Len(s) + 1] = e
    BY AppendElements
  <2>2. b \in Seq(S) BY AllAmongType
  <2>3. c = IF e \in W THEN be ELSE b BY AllAmongAppend
  <2>4. /\ be \in Seq(S) /\ Len(be) = Len(b) + 1 /\ Len(b) \in Nat
        /\ \A j \in 1..Len(b) : be[j] = b[j]
        /\ be[Len(b) + 1] = e
    BY <2>2, AppendElements
  <2>5. Removed(a, Len(s) + 1) = s BY RemovedLast
  <2>6. Removed(be, Len(b) + 1) = b
    <3> HIDE DEF b
    <3> QED BY <2>2, RemovedLast
  <2>7. \A k \in 1..Len(b) : Removed(be, k) = Append(Removed(b, k), e)
    <3> HIDE DEF b
    <3> QED BY <2>2, RemovedInside
  <2>8. \A n \in 1..Len(s) : /\ Removed(a, n) = Append(Removed(s, n), e)
                            /\ Removed(s, n) \in Seq(S)
    <3>1. \A n \in 1..Len(s) : Removed(a, n) = Append(Removed(s, n), e) BY RemovedInside
    <3>2. \A n \in 1..Len(s) : Removed(s, n) \in Seq(S) BY RemovedElements
    <3> QED BY <3>1, <3>2
  <2>9. \A n \in 1..Len(s) : AllAmong(Removed(a, n), W) =
            IF e \in W THEN Append(AllAmong(Removed(s, n), W), e) ELSE AllAmong(Removed(s, n), W)
    BY <2>8, AllAmongAppend, Zenon
  <2>10. (\A j \in 1..Len(s) : s[j] \notin W) => b = <<>>
    <3>1. DOMAIN s = 1..Len(s) OBVIOUS
    <3> QED BY <3>1, AllAmongNone
  <2>11. \A n \in 1..Len(s) : Same(s, n) /\ Less(s, n) BY <1>2
  <2> HIDE DEF a, b, be
  <2>12. ASSUME NEW n \in 1..Len(a) PROVE Same(a, n)
    <3> SUFFICES ASSUME a[n] \notin W PROVE AllAmong(Removed(a, n), W) = c
      OBVIOUS
    <3>1. CASE n = Len(s) + 1 BY <2>1, <2>3, <2>5, <3>1 DEF b
    <3>2. CASE n # Len(s) + 1
      <4>1. n \in 1..Len(s) /\ a[n] = s[n] BY <2>1, <3>2
      <4>2. AllAmong(Removed(s, n), W) = b BY <2>11, <4>1 DEF b
      <4> QED BY <2>3, <2>9, <4>1, <4>2 DEF be
    <3> QED BY <3>1, <3>2
  <2>13. ASSUME NEW n \in 1..Len(a) PROVE Less(a, n)
    <3> SUFFICES ASSUME a[n] \in W
                 PROVE  \E k \in 1..Len(c) :
                            /\ c[k] = a[n]
                            /\ AllAmong(Removed(a, n), W) = Removed(c, k)
                            /\ (\A j \in 1..(n - 1) : a[j] \notin W) => k = 1
      OBVIOUS
    <3>1. CASE n = Len(s) + 1
      <4>1. c = be /\ a[n] = e BY <2>1, <2>3, <3>1
      <4>2. AllAmong(Removed(a, n), W) = b BY <2>5, <3>1 DEF b
      <4>3. Len(b) + 1 \in 1..Len(c) /\ c[Len(b) + 1] = a[n] /\ Removed(c, Len(b) + 1) = b
        BY <2>4, <2>6, <4>1
      <4>4. (\A j \in 1..(n - 1) : a[j] \notin W) => Len(b) + 1 = 1
        <5> SUFFICES ASSUME \A j \in 1..(n - 1) : a[j] \notin W PROVE Len(b) = 0
          BY <2>4
        <5>1. \A j \in 1..Len(s) : s[j] \notin W BY <2>1, <3>1
        <5> QED BY <2>10, <5>1
      <4> HIDE DEF c
      <4> QED BY <4>2, <4>3, <4>4
    <3>2. CASE n # Len(s) + 1
      <4>1. n \in 1..Len(s) /\ a[n] = s[n] BY <2>1, <3>2
      <4>2. PICK k \in 1..Len(b) :
                /\ b[k] = s[n]
                /\ AllAmong(Removed(s, n), W) = Removed(b, k)
                /\ (\A j \in 1..(n - 1) : s[j] \notin W) => k = 1
        BY <2>11, <4>1 DEF b
      <4>3. (\A j \in 1..(n - 1) : a[j] \notin W) => k = 1
        <5>1. \A j \in 1..(n - 1) : j \in 1..Len(s) BY <2>1, <4>1
        <5> QED BY <2>1, <4>2, <5>1
      <4>4. k \in 1..Len(c) /\ c[k] = a[n]
        <5>1. CASE e \in W BY <2>3, <2>4, <4>1, <4>2, <5>1
        <5>2. CASE e \notin W BY <2>3, <4>1, <4>2, <5>2
        <5> QED BY <5>1, <5>2
      <4>5. AllAmong(Removed(a, n), W) = Removed(c, k)
        <5>1. CASE e \in W BY <2>3, <2>7, <2>9, <4>1, <4>2, <5>1, Zenon
        <5>2. CASE e \notin W BY <2>3, <2>9, <4>1, <4>2, <5>2
        <5> QED BY <5>1, <5>2
      <4> HIDE DEF c
      <4> QED BY <4>3, <4>4, <4>5
    <3> QED BY <3>1, <3>2
  <2> HIDE DEF Same, Less
  <2>14. a \in T BY <2>1, <2>12, <2>13
  <2> QED BY <2>14 DEF a
<1>3. Seq(S) \subseteq T
  <2> HIDE DEF T
  <2> QED BY <1>1, <1>2, SeqInduction
<1> QED BY <1>3

(* q has the elements of s that are in W. *)
Selects(q, s, W) ==
    /\ \A j \in 1..Len(q) : q[j] \in W /\ \E k \in 1..Len(s) : s[k] = q[j]
    /\ \A k \in 1..Len(s) : s[k] \in W => \E j \in 1..Len(q) : q[j] = s[k]

\* The selected elements are the elements of the queue that are in the set.
LEMMA AllAmongMembers ==
    ASSUME NEW S, NEW queue \in Seq(S), NEW W
    PROVE  Selects(AllAmong(queue, W), queue, W)
<1> DEFINE b == AllAmong(queue, W)
<1>1. b \in Seq(S) BY AllAmongType
<1>2. \A x : (\E k \in DOMAIN b : b[k] = x) <=> x \in W /\ \E i \in DOMAIN queue : queue[i] = x
  BY AllAmongElements
<1> HIDE DEF b
<1>3. DOMAIN queue = 1..Len(queue) /\ DOMAIN b = 1..Len(b) BY <1>1
<1>4. \A j \in 1..Len(b) : b[j] \in W /\ \E k \in 1..Len(queue) : queue[k] = b[j] BY <1>2, <1>3
<1>5. \A k \in 1..Len(queue) : queue[k] \in W => \E j \in 1..Len(b) : b[j] = queue[k]
  BY <1>2, <1>3
<1> QED BY <1>4, <1>5 DEF b, Selects

(* No walk collects an element twice that is in the queue once. *)
LEMMA AllAmongOnce ==
    ASSUME NEW S, NEW queue \in Seq(S), NEW W,
           \A i, j \in 1..Len(queue) : queue[i] = queue[j] => i = j
    PROVE  \A i, j \in 1..Len(AllAmong(queue, W)) :
               AllAmong(queue, W)[i] = AllAmong(queue, W)[j] => i = j
<1> DEFINE Once(s) == \A i, j \in 1..Len(s) : s[i] = s[j] => i = j
           T == {s \in Seq(S) : Once(s) => Once(AllAmong(s, W))}
<1>1. <<>> \in T
  <2>1. <<>> \in Seq(S) /\ Once(<<>>) OBVIOUS
  <2> HIDE DEF Once
  <2> QED BY <2>1, AllAmongEmpty
<1>2. ASSUME NEW s \in Seq(S), NEW e \in S, s \in T PROVE Append(s, e) \in T
  <2> DEFINE a == Append(s, e)
             b == AllAmong(s, W)
             be == Append(b, e)
  <2>1. /\ a \in Seq(S) /\ Len(a) = Len(s) + 1 /\ Len(s) \in Nat
        /\ \A j \in 1..Len(s) : a[j] = s[j]
        /\ a[Len(s) + 1] = e
    BY AppendElements
  <2>2. b \in Seq(S) BY AllAmongType
  <2>3. AllAmong(a, W) = IF e \in W THEN be ELSE b BY AllAmongAppend
  <2>4. /\ be \in Seq(S) /\ Len(be) = Len(b) + 1 /\ Len(b) \in Nat
        /\ \A j \in 1..Len(b) : be[j] = b[j]
        /\ be[Len(b) + 1] = e
    BY <2>2, AppendElements
  <2>5. \A j \in 1..Len(b) : \E k \in 1..Len(s) : s[k] = b[j] BY AllAmongMembers DEF Selects
  <2>6. Once(s) => Once(b) BY <1>2
  <2> HIDE DEF a, b, be
  <2>7. ASSUME Once(a) PROVE Once(AllAmong(a, W))
    <3>1. Once(s) BY <2>1, <2>7
    <3>2. \A j \in 1..Len(b) : b[j] # e
      <4> SUFFICES ASSUME NEW j \in 1..Len(b), b[j] = e PROVE FALSE
        OBVIOUS
      <4>1. PICK k \in 1..Len(s) : s[k] = e BY <2>5
      <4>2. k \in 1..Len(a) /\ Len(s) + 1 \in 1..Len(a) /\ a[k] = a[Len(s) + 1] BY <2>1, <4>1
      <4>3. k = Len(s) + 1 BY <2>7, <4>2
      <4> QED BY <2>1, <4>3
    <3>3. Once(b) BY <2>6, <3>1
    <3>4. CASE e \in W
      <4>1. Once(be)
        <5> SUFFICES ASSUME NEW i \in 1..Len(be), NEW j \in 1..Len(be), be[i] = be[j]
                     PROVE  i = j
          OBVIOUS
        <5>1. CASE i \in 1..Len(b) /\ j \in 1..Len(b) BY <2>4, <3>3, <5>1
        <5>2. CASE i = Len(b) + 1 BY <2>4, <3>2, <5>2
        <5>3. CASE j = Len(b) + 1 BY <2>4, <3>2, <5>3
        <5> QED BY <2>4, <5>1, <5>2, <5>3
      <4> QED BY <2>3, <3>4, <4>1
    <3>5. CASE e \notin W BY <2>3, <3>3, <3>5
    <3> QED BY <3>4, <3>5
  <2> HIDE DEF Once
  <2>8. a \in T BY <2>1, <2>7
  <2> QED BY <2>8 DEF a
<1>3. Seq(S) \subseteq T
  <2> HIDE DEF T
  <2> QED BY <1>1, <1>2, SeqInduction
<1> QED BY <1>3

\* Taking out the first selected element takes the head off the selected queue.
LEMMA RemovedFirst ==
    ASSUME NEW S, NEW queue \in Seq(S), queue # <<>>
    PROVE  /\ Removed(queue, 1) = Tail(queue)
           /\ Head(queue) = queue[1]
<1>1. Len(queue) \in Nat /\ 1 \in 1..Len(queue) OBVIOUS
<1>2. /\ Removed(queue, 1) \in Seq(S)
      /\ Len(Removed(queue, 1)) = Len(queue) - 1
      /\ \A j \in 1..(Len(queue) - 1) :
             Removed(queue, 1)[j] = IF j < 1 THEN queue[j] ELSE queue[j + 1]
  BY <1>1, RemovedElements
<1>3. /\ Tail(queue) \in Seq(S) /\ Len(Tail(queue)) = Len(queue) - 1
      /\ \A j \in 1..(Len(queue) - 1) : Tail(queue)[j] = queue[j + 1]
  OBVIOUS
<1> DEFINE r == Removed(queue, 1)
           u == Tail(queue)
<1> HIDE DEF r, u
<1>4. r \in Seq(S) /\ u \in Seq(S) /\ Len(r) = Len(u) /\ \A j \in 1..Len(r) : r[j] = u[j]
  BY <1>1, <1>2, <1>3 DEF r, u
<1>5. r = u BY <1>4
<1> QED BY <1>5 DEF r, u

(* When all are wanted, all are collected. *)
LEMMA AllAmongAll ==
    ASSUME NEW S, NEW queue \in Seq(S), NEW W, \A i \in 1..Len(queue) : queue[i] \in W
    PROVE  AllAmong(queue, W) = queue
<1> DEFINE T == {s \in Seq(S) : (\A i \in 1..Len(s) : s[i] \in W) => AllAmong(s, W) = s}
<1>1. <<>> \in T
  BY AllAmongEmpty
<1>2. ASSUME NEW s \in Seq(S), NEW e \in S, s \in T PROVE Append(s, e) \in T
  <2> DEFINE t == Append(s, e)
  <2>1. /\ t \in Seq(S) /\ Len(t) = Len(s) + 1 /\ Len(s) \in Nat
        /\ \A i \in 1..Len(s) : t[i] = s[i]
        /\ t[Len(s) + 1] = e
    BY AppendElements
  <2>2. AllAmong(t, W) = IF e \in W THEN Append(AllAmong(s, W), e) ELSE AllAmong(s, W)
    BY AllAmongAppend
  <2>3. t = Append(s, e) OBVIOUS
  <2> HIDE DEF t
  <2>4. ASSUME \A i \in 1..Len(t) : t[i] \in W PROVE AllAmong(t, W) = t
    <3>1. e \in W /\ \A i \in 1..Len(s) : s[i] \in W BY <2>1, <2>4
    <3>2. AllAmong(s, W) = s BY <1>2, <3>1
    <3> QED BY <2>2, <2>3, <3>1, <3>2
  <2> QED BY <2>1, <2>4, Zenon DEF t
<1>3. Seq(S) \subseteq T
  <2> HIDE DEF T
  <2> QED BY <1>1, <1>2, SeqInduction
<1> QED BY <1>3

(* The elements of one queue after the other. *)
LEMMA ConcatElements ==
    ASSUME NEW S, NEW s \in Seq(S), NEW r \in Seq(S)
    PROVE  /\ s \o r \in Seq(S) /\ Len(s) \in Nat /\ Len(r) \in Nat
           /\ Len(s \o r) = Len(s) + Len(r)
           /\ \A i \in 1..Len(s) : (s \o r)[i] = s[i]
           /\ \A i \in 1..Len(r) : (s \o r)[Len(s) + i] = r[i]
OBVIOUS

(* A new first element moves every other one up one place. *)
LEMMA PushedElements ==
    ASSUME NEW S, NEW s \in Seq(S), NEW e \in S
    PROVE  /\ <<e>> \o s \in Seq(S) /\ Len(<<e>> \o s) = Len(s) + 1
           /\ (<<e>> \o s)[1] = e
           /\ \A c \in 1..Len(<<e>> \o s) : c # 1 =>
                  c - 1 \in 1..Len(s) /\ (<<e>> \o s)[c] = s[c - 1]
<1>1. <<e>> \in Seq(S) /\ Len(<<e>>) = 1 /\ <<e>>[1] = e
  OBVIOUS
<1>2. /\ <<e>> \o s \in Seq(S) /\ Len(<<e>> \o s) = 1 + Len(s) /\ Len(s) \in Nat
      /\ \A c \in 1..Len(<<e>> \o s) :
            (<<e>> \o s)[c] = IF c <= 1 THEN <<e>>[c] ELSE s[c - 1]
  BY <1>1
<1> QED BY <1>1, <1>2

(* Appending to the second of two queues appends to both. *)
LEMMA ConcatAppend ==
    ASSUME NEW S, NEW s \in Seq(S), NEW r \in Seq(S), NEW e \in S
    PROVE  s \o Append(r, e) = Append(s \o r, e)
<1> DEFINE x == s \o Append(r, e)
           y == Append(s \o r, e)
<1>1. /\ Append(r, e) \in Seq(S) /\ Len(Append(r, e)) = Len(r) + 1 /\ Len(r) \in Nat
      /\ \A j \in 1..Len(r) : Append(r, e)[j] = r[j]
      /\ Append(r, e)[Len(r) + 1] = e
  BY AppendElements
<1> DEFINE re == Append(r, e)
           sr == s \o r
<1>2. /\ sr \in Seq(S) /\ Len(s) \in Nat /\ Len(sr) = Len(s) + Len(r)
      /\ \A i \in 1..Len(s) : sr[i] = s[i]
      /\ \A i \in 1..Len(r) : sr[Len(s) + i] = r[i]
  BY ConcatElements
<1>3. re \in Seq(S) BY <1>1
<1> HIDE DEF re, sr
<1>4. /\ s \o re \in Seq(S) /\ Len(s \o re) = Len(s) + Len(re)
      /\ \A i \in 1..Len(s) : (s \o re)[i] = s[i]
      /\ \A i \in 1..Len(re) : (s \o re)[Len(s) + i] = re[i]
  BY <1>3, ConcatElements
<1>5. /\ Append(sr, e) \in Seq(S) /\ Len(Append(sr, e)) = Len(sr) + 1
      /\ \A j \in 1..Len(sr) : Append(sr, e)[j] = sr[j]
      /\ Append(sr, e)[Len(sr) + 1] = e
  BY <1>2, AppendElements
<1>6. x = s \o re /\ y = Append(sr, e) BY DEF re, sr
<1> HIDE DEF x, y
<1>7. x \in Seq(S) /\ y \in Seq(S) BY <1>4, <1>5, <1>6
<1>8. Len(x) = Len(s) + Len(r) + 1 /\ Len(y) = Len(s) + Len(r) + 1
  BY <1>1, <1>2, <1>4, <1>5, <1>6 DEF re
<1>9. ASSUME NEW i \in 1..(Len(s) + Len(r) + 1) PROVE x[i] = y[i]
  <2>1. CASE i <= Len(s) BY <1>1, <1>2, <1>4, <1>5, <1>6, <2>1
  <2>2. CASE i > Len(s) /\ i <= Len(s) + Len(r)
    <3>1. PICK j \in 1..Len(r) : i = Len(s) + j
      <4>1. i - Len(s) \in 1..Len(r) /\ i = Len(s) + (i - Len(s)) BY <1>1, <1>2, <2>2
      <4> QED BY <4>1
    <3>2. j \in 1..Len(re) /\ re[j] = r[j] BY <1>1 DEF re
    <3>3. x[i] = r[j] BY <1>4, <1>6, <3>1, <3>2
    <3>4. y[i] = r[j] BY <1>1, <1>2, <1>5, <1>6, <2>2, <3>1
    <3> QED BY <3>3, <3>4
  <2>3. CASE i = Len(s) + Len(r) + 1
    <3>1. Len(r) + 1 \in 1..Len(re) /\ re[Len(r) + 1] = e BY <1>1 DEF re
    <3>2. (s \o re)[Len(s) + (Len(r) + 1)] = e BY <1>4, <3>1
    <3>3. i = Len(s) + (Len(r) + 1) /\ i = Len(sr) + 1 BY <1>1, <1>2, <2>3
    <3> QED BY <1>5, <1>6, <3>2, <3>3, Zenon
  <2> QED BY <1>1, <1>2, <2>1, <2>2, <2>3
<1>10. x = y BY <1>7, <1>8, <1>9
<1> QED BY <1>10 DEF x, y

(* A walk of one queue after the other collects from both. *)
LEMMA AllAmongConcat ==
    ASSUME NEW S, NEW s \in Seq(S), NEW q \in Seq(S), NEW W
    PROVE  AllAmong(s \o q, W) = AllAmong(s, W) \o AllAmong(q, W)
<1> DEFINE T == {r \in Seq(S) : AllAmong(s \o r, W) = AllAmong(s, W) \o AllAmong(r, W)}
<1>1. AllAmong(s, W) \in Seq(S) BY AllAmongType
<1>2. <<>> \in T
  <2>1. s \o <<>> = s /\ AllAmong(s, W) \o <<>> = AllAmong(s, W) BY <1>1
  <2>2. <<>> \in Seq(S) OBVIOUS
  <2> QED BY <2>1, <2>2, AllAmongEmpty, Zenon
<1>3. ASSUME NEW r \in Seq(S), NEW e \in S, r \in T PROVE Append(r, e) \in T
  <2> DEFINE A(x) == AllAmong(x, W)
  <2>1. s \o r \in Seq(S) BY ConcatElements
  <2>2. A(r) \in Seq(S) BY AllAmongType
  <2>3. A(Append(r, e)) = IF e \in W THEN Append(A(r), e) ELSE A(r) BY AllAmongAppend
  <2>4. A(Append(s \o r, e)) = IF e \in W THEN Append(A(s \o r), e) ELSE A(s \o r)
    BY <2>1, AllAmongAppend, Zenon
  <2>5. s \o Append(r, e) = Append(s \o r, e) BY ConcatAppend
  <2>6. A(s) \o Append(A(r), e) = Append(A(s) \o A(r), e) BY <1>1, <2>2, ConcatAppend
  <2>7. A(s \o r) = A(s) \o A(r) BY <1>3
  <2>8. Append(r, e) \in Seq(S) BY AppendElements
  <2> HIDE DEF A
  <2>9. A(s \o Append(r, e)) = A(s) \o A(Append(r, e)) BY <2>3, <2>4, <2>5, <2>6, <2>7, Zenon
  <2> QED BY <2>8, <2>9, Zenon DEF A
<1>4. Seq(S) \subseteq T
  <2> HIDE DEF T
  <2> QED BY <1>2, <1>3, SeqInduction
<1> QED BY <1>4
==============================================================================
