------------------------ MODULE ParkingLotTableProofs ------------------------
(***************************************************************************)
(* What the ParkingLot's hashtable promises, for any number of threads and *)
(* addresses, any hash function and any load and growth factor: whoever    *)
(* has parked is found in the current table, a resize leaks no bucket and  *)
(* keeps the order of the queues, and locks are taken in order.            *)
(***************************************************************************)
EXTENDS ParkingLotTableSteps

-----------------------------------------------------------------------------
(* The resize: filling the new table *)

(* A new table of n slots that is being filled, when there were m buckets. *)
(* No bucket is in two slots; one that is in none is still to be reused,   *)
(* and none is created before all are.                                     *)
PartialData(data, reusable, count, n, m) ==
    /\ data \in [0..(n - 1) -> Nat]
    /\ reusable \in SUBSET (1..m) /\ count \in Nat /\ m <= count
    /\ \A i \in 0..(n - 1) : data[i] \in 0..count /\ data[i] \notin reusable
    /\ \A i, j \in 0..(n - 1) : data[i] = data[j] /\ data[i] # None => i = j
    /\ \A b \in 1..count : b \in reusable \/ \E i \in 0..(n - 1) : data[i] = b
    /\ m < count => reusable = {}

Partial(new, n, m) ==
    /\ new = [size |-> n, data |-> new.data, reusable |-> new.reusable, count |-> new.count]
    /\ PartialData(new.data, new.reusable, new.count, n, m)

(* A step of the filling: slots that have a bucket keep it. *)
Extends(new, old) ==
    /\ new.size = old.size
    /\ \A i \in 0..(old.size - 1) : old.data[i] # None => new.data[i] = old.data[i]
    /\ new.reusable \subseteq old.reusable

(* The bucket to take next is b, an old or a new one: what is left then. *)
Takes(old, b, reusable, count) ==
    \/ b \in old.reusable /\ reusable = old.reusable \ {b} /\ count = old.count
    \/ old.reusable = {} /\ b = old.count + 1 /\ reusable = {} /\ count = b

(* Bucket b is put into slot i. *)
LEMMA PutOK ==
    ASSUME NEW n \in Nat \ {0}, NEW m \in Nat, NEW old, Partial(old, n, m),
           NEW i \in 0..(n - 1), old.data[i] = None,
           NEW b \in Nat \ {0}, NEW R, NEW c \in Nat, Takes(old, b, R, c)
    PROVE  /\ Partial(Put(old, i, b, R, c), n, m) /\ Extends(Put(old, i, b, R, c), old)
           /\ Put(old, i, b, R, c).data[i] # None
<1>1. PICK d, r, k : d = old.data /\ r = old.reusable /\ k = old.count BY Zenon
<1>2. PICK e : e = [d EXCEPT ![i] = b] BY Zenon
<1>3. PartialData(d, r, k, n, m) /\ old.size = n BY <1>1 DEF Partial
<1>4. \/ b \in r /\ R = r \ {b} /\ c = k
      \/ r = {} /\ b = k + 1 /\ R = {} /\ c = b
  BY <1>1, Zenon DEF Takes
<1>5. /\ e \in [0..(n - 1) -> Nat] /\ e[i] = b /\ \A j \in 0..(n - 1) : j # i => e[j] = d[j]
      /\ d[i] = None
  BY <1>1, <1>2, <1>3, Zenon DEF PartialData
<1>6. k \in Nat /\ m <= k /\ r \in SUBSET (1..m) BY <1>3, Zenon DEF PartialData
<1>7. k <= c /\ b \in 0..c /\ R \subseteq r /\ b \notin R /\ R \in SUBSET (1..m)
  <2>1. R \subseteq r /\ b \notin R BY <1>4, Zenon
  <2>2. CASE b \in r /\ c = k
    <3>1. b \in 1..m BY <1>6, <2>2, Zenon
    <3> QED BY <1>6, <2>1, <2>2, <3>1
  <2>3. CASE b = k + 1 /\ c = b BY <1>6, <2>1, <2>3
  <2> QED BY <1>4, <2>2, <2>3, Zenon
<1>8. ASSUME NEW j \in 0..(n - 1) PROVE d[j] # b
  <2>1. d[j] \in 0..k /\ d[j] \notin r BY <1>3, Zenon DEF PartialData
  <2> QED BY <1>4, <1>6, <2>1
<1>9. ASSUME NEW j \in 0..(n - 1) PROVE e[j] \in 0..c /\ e[j] \notin R
  <2>1. CASE j = i BY <1>5, <1>7, <2>1, Zenon
  <2>2. CASE j # i
    <3>1. e[j] \in 0..k /\ e[j] \notin r BY <1>3, <1>5, <2>2, Zenon DEF PartialData
    <3> QED BY <1>6, <1>7, <3>1
  <2> QED BY <2>1, <2>2, Zenon
<1>10. ASSUME NEW x \in 0..(n - 1), NEW y \in 0..(n - 1), e[x] = e[y], e[x] # None PROVE x = y
  <2>1. CASE x # i /\ y # i BY <1>3, <1>5, <1>10, <2>1 DEF PartialData
  <2>2. CASE ~(x # i /\ y # i) BY <1>5, <1>8, <1>10, <2>2, Zenon
  <2> QED BY <2>1, <2>2, Zenon
<1>11. ASSUME NEW x \in 1..c PROVE x \in R \/ \E j \in 0..(n - 1) : e[j] = x
  <2>1. CASE x = b BY <1>5, <2>1, Zenon
  <2>2. CASE x # b
    <3>1. x \in 1..k /\ (x \in r => x \in R) BY <1>4, <1>6, <2>2
    <3>2. ASSUME NEW j \in 0..(n - 1), d[j] = x PROVE e[j] = x BY <1>5, <3>2 DEF None
    <3>3. x \in r \/ \E j \in 0..(n - 1) : d[j] = x BY <1>3, <3>1, Zenon DEF PartialData
    <3> QED BY <3>1, <3>2, <3>3, Zenon
  <2> QED BY <2>1, <2>2, Zenon
<1>12. m <= c /\ (m < c => R = {})
  <2>1. m < k => r = {} BY <1>3, Zenon DEF PartialData
  <2> QED BY <1>4, <1>6, <2>1
<1>13. PartialData(e, R, c, n, m)
  BY <1>5, <1>7, <1>9, <1>10, <1>11, <1>12, Zenon DEF PartialData
<1> DEFINE new == Put(old, i, b, R, c)
<1>14. /\ new = [size |-> n, data |-> e, reusable |-> R, count |-> c]
       /\ new.size = n /\ new.data = e /\ new.reusable = R /\ new.count = c
  BY <1>1, <1>2, <1>3, Zenon DEF Put, Set
<1> HIDE DEF new
<1>15. Partial(new, n, m) BY <1>13, <1>14, Zenon DEF Partial
<1>16. Extends(new, old) BY <1>1, <1>3, <1>5, <1>7, <1>14, Zenon DEF Extends
<1>17. new.data[i] # None BY <1>5, <1>14, Zenon DEF None
<1> QED BY <1>15, <1>16, <1>17, Zenon DEF new

(* The last bucket that is left is reused. *)
LEMMA ReuseOK ==
    ASSUME NEW n \in Nat \ {0}, NEW m \in Nat, NEW old, Partial(old, n, m),
           NEW i \in 0..(n - 1), old.data[i] = None, old.reusable # {}
    PROVE  /\ Partial(Reuse(old, i), n, m) /\ Extends(Reuse(old, i), old)
           /\ Reuse(old, i).data[i] # None
<1>1. PICK r, c : r = old.reusable /\ c = old.count BY Zenon
<1>2. r \in SUBSET (1..m) /\ c \in Nat BY <1>1, Zenon DEF Partial, PartialData
<1>3. PICK b, R : b = Largest(r) /\ R = r \ {b} BY Zenon
<1>4. b \in r
  <2>1. r \in SUBSET (0..m) /\ r # {} BY <1>1, <1>2
  <2> QED BY <1>3, <2>1, LargestIs, Zenon
<1>5. b \in Nat \ {0} BY <1>2, <1>4
<1>6. Takes(old, b, R, c) BY <1>1, <1>3, <1>4, Zenon DEF Takes
<1>7. Reuse(old, i) = Put(old, i, b, R, c) BY <1>1, <1>3, Zenon DEF Reuse
<1> QED BY <1>2, <1>5, <1>6, <1>7, PutOK, Zenon

(* The slot of a thread gets a bucket, unless it has one. *)
LEMMA GiveBucketOK ==
    ASSUME NEW n \in Nat \ {0}, NEW m \in Nat, NEW old, Partial(old, n, m),
           NEW u, address[u] \in Addresses
    PROVE  /\ Partial(GiveBucket(old, u), n, m) /\ Extends(GiveBucket(old, u), old)
           /\ GiveBucket(old, u).data[hash[address[u]] % n] # None
<1>1. PICK i : i = hash[address[u]] % n BY Zenon
<1>2. i \in 0..(n - 1)
  <2>1. hash[address[u]] \in Nat BY TableAssumption, Zenon
  <2> QED BY <1>1, <2>1, Slot, Zenon
<1>3. Index(address[u], old) = i BY <1>1 DEF Index, Partial
<1>4. CASE old.data[i] # None
  <2>1. GiveBucket(old, u) = old BY <1>3, <1>4, Zenon DEF GiveBucket
  <2> QED BY <1>1, <1>4, <2>1, Zenon DEF Extends
<1>5. CASE old.data[i] = None /\ old.reusable # {}
  <2>1. GiveBucket(old, u) = Reuse(old, i) BY <1>3, <1>5, Zenon DEF GiveBucket
  <2> QED BY <1>1, <1>2, <1>5, <2>1, ReuseOK, Zenon
<1>6. CASE old.data[i] = None /\ old.reusable = {}
  <2>1. PICK b, R : b = old.count + 1 /\ R = {} BY Zenon
  <2>2. old.count \in Nat BY Zenon DEF Partial, PartialData
  <2>3. b \in Nat \ {0} /\ b \in Nat BY <2>1, <2>2
  <2>4. Takes(old, b, R, b) BY <1>6, <2>1, Zenon DEF Takes
  <2>5. GiveBucket(old, u) = Put(old, i, b, R, b) BY <1>3, <1>6, <2>1, Zenon DEF GiveBucket
  <2>6. /\ Partial(Put(old, i, b, R, b), n, m) /\ Extends(Put(old, i, b, R, b), old)
        /\ Put(old, i, b, R, b).data[i] # None
    BY <1>2, <1>6, <2>3, <2>4, PutOK, Zenon
  <2> QED BY <1>1, <2>5, <2>6, Zenon
<1> QED BY <1>4, <1>5, <1>6, Zenon

(* An empty slot gets an unused bucket, as long as there is one. *)
LEMMA PlaceUnusedOK ==
    ASSUME NEW n \in Nat \ {0}, NEW m \in Nat, NEW old, Partial(old, n, m), NEW i \in 0..(n - 1)
    PROVE  /\ Partial(PlaceUnused(old, i), n, m) /\ Extends(PlaceUnused(old, i), old)
           /\ PlaceUnused(old, i).data[i] # None \/ PlaceUnused(old, i).reusable = {}
<1>1. CASE old.data[i] # None \/ old.reusable = {}
  <2>1. PlaceUnused(old, i) = old BY <1>1, Zenon DEF PlaceUnused
  <2> QED BY <1>1, <2>1, Zenon DEF Extends
<1>2. CASE ~(old.data[i] # None \/ old.reusable = {})
  <2>1. PlaceUnused(old, i) = Reuse(old, i) BY <1>2, Zenon DEF PlaceUnused
  <2> QED BY <1>2, <2>1, ReuseOK, Zenon
<1> QED BY <1>1, <1>2, Zenon

(* The recursion that defines Filling has a solution. *)
LEMMA FillingEquation ==
    ASSUME NEW t, Len(ThreadDatas(t)) + NewSize(t) \in Nat
    PROVE  \A n \in 0..(Len(ThreadDatas(t)) + NewSize(t)) :
               Filling(t)[n] =
                   IF n = 0 THEN [size |-> NewSize(t), data |-> [i \in 0..(NewSize(t) - 1) |-> None],
                                  reusable |-> buckets[t], count |-> Len(queue)]
                   ELSE IF n <= Len(ThreadDatas(t)) THEN GiveBucket(Filling(t)[n - 1], ThreadDatas(t)[n])
                   ELSE PlaceUnused(Filling(t)[n - 1], n - Len(ThreadDatas(t)) - 1)
<1> DEFINE datas == ThreadDatas(t)
           empty == [size |-> NewSize(t), data |-> [i \in 0..(NewSize(t) - 1) |-> None],
                     reusable |-> buckets[t], count |-> Len(queue)]
           Step(f, n) == IF n = 0 THEN empty
                         ELSE IF n <= Len(datas) THEN GiveBucket(f[n - 1], datas[n])
                         ELSE PlaceUnused(f[n - 1], n - Len(datas) - 1)
           last == Len(datas) + NewSize(t)
           T == {m \in Nat : \E f : f = [n \in 0..m |-> Step(f, n)]}
<1>1. 0 \in T
  <2> HIDE DEF empty, datas
  <2> DEFINE f == [n \in 0..0 |-> empty]
  <2>1. f = [n \in 0..0 |-> Step(f, n)] OBVIOUS
  <2> QED BY <2>1, Zenon
<1>2. ASSUME NEW m \in Nat, m \in T PROVE m + 1 \in T
  <2> HIDE DEF empty, datas
  <2>1. PICK f : f = [n \in 0..m |-> Step(f, n)] BY <1>2, Zenon
  <2> DEFINE g == [n \in 0..(m + 1) |-> IF n = m + 1 THEN Step(f, n) ELSE f[n]]
  <2>2. \A n \in 0..(m + 1) : n # 0 => g[n - 1] = f[n - 1]
    <3> HIDE DEF Step
    <3> QED OBVIOUS
  <2>3. \A n \in 0..(m + 1) : g[n] = Step(f, n)
    <3> HIDE DEF Step
    <3>1. \A n \in 0..m : f[n] = Step(f, n) BY <2>1, Zenon
    <3>2. \A n \in 0..(m + 1) : n # m + 1 => n \in 0..m OBVIOUS
    <3> QED BY <3>1, <3>2, Zenon
  <2>4. \A n \in 0..(m + 1) : g[n] = Step(g, n)
    <3> HIDE DEF g
    <3> QED BY <2>2, <2>3, Zenon
  <2>5. g = [n \in 0..(m + 1) |-> Step(g, n)]
    BY <2>4, Zenon
  <2>6. m + 1 \in Nat OBVIOUS
  <2> HIDE DEF g, Step
  <2> QED BY <2>5, <2>6, Zenon
<1>3. last \in T
  <2>1. Nat \subseteq T
    <3> HIDE DEF T
    <3> QED BY <1>1, <1>2, SetInduction, Zenon
  <2>2. last \in Nat BY Zenon
  <2> HIDE DEF T
  <2> QED BY <2>1, <2>2, Zenon
<1>4. \E f : f = [n \in 0..last |-> Step(f, n)]
  <2> HIDE DEF Step, last
  <2> QED BY <1>3, Zenon
<1>5. Filling(t) = [n \in 0..last |-> Step(Filling(t), n)]
  BY <1>4, Zenon DEF Filling
<1>6. \A n \in 0..last : Filling(t)[n] = Step(Filling(t), n)
  <2> HIDE DEF Step, last
  <2> QED BY <1>5, Zenon
<1> QED BY <1>6, Zenon

(* The new table is bigger than the old one. *)
LEMMA NewSizeOK ==
    ASSUME Inv, NEW t \in Threads, pc[t] = "allLocked", ~TableIsStale(t),
           ~BigEnough(tables[hashtable], currentNumThreads[t])
    PROVE  NewSize(t) \in Nat \ {0} /\ Len(queue) <= NewSize(t) /\ Size(hashtable) < NewSize(t)
<1>1. PICK k, c : k = hashtable /\ c = currentNumThreads[t] BY Zenon
<1>2. k \in 1..hashtable BY <1>1, AllAreLocked, Zenon
<1>3. Size(k) \in Nat \ {0} BY <1>2, Tables, Zenon DEF Inv
<1>4. c \in Int BY <1>1, Zenon DEF Inv, Types
<1>5. Size(k) < c * maxLoadFactor BY <1>1, <1>3, <1>4, TableAssumption DEF BigEnough, Size
<1>6. c > 0
  <2> SUFFICES ASSUME c <= 0 PROVE FALSE BY <1>4
  <2>1. c * maxLoadFactor <= 0 BY <1>4, TableAssumption
  <2> QED BY <1>3, <1>4, <1>5, <2>1, TableAssumption
<1>7. c <= c * growthFactor /\ c * growthFactor \in Nat BY <1>4, <1>6, TableAssumption
<1>8. c * maxLoadFactor <= (c * growthFactor) * maxLoadFactor
  BY <1>4, <1>6, <1>7, TableAssumption
<1>9. (c * growthFactor) * maxLoadFactor \in Nat /\ c * maxLoadFactor \in Nat
  BY <1>4, <1>6, <1>7, TableAssumption
<1>10. NewSize(t) = (c * growthFactor) * maxLoadFactor BY <1>1, Zenon DEF NewSize
<1>11. Size(k) < NewSize(t) /\ NewSize(t) \in Nat BY <1>3, <1>5, <1>8, <1>9, <1>10
<1>12. Len(queue) <= Size(k)
  <2>1. Len(queue) \in Nat BY DEF Inv, Types
  <2>2. PICK f : f = [b \in 1..Len(queue) |-> 1 + (CHOOSE i \in Slots(k) : Data(k, i) = b)] BY Zenon
  <2>3. \A b \in 1..Len(queue) : f[b] - 1 \in Slots(k) /\ Data(k, f[b] - 1) = b
    <3> SUFFICES ASSUME NEW b \in 1..Len(queue) PROVE f[b] - 1 \in Slots(k) /\ Data(k, f[b] - 1) = b
      BY Zenon
    <3>1. PICK i : i = CHOOSE j \in Slots(k) : Data(k, j) = b BY Zenon
    <3>2. i \in Slots(k) /\ Data(k, i) = b BY <1>1, <3>1, Zenon DEF Inv, TablesOK
    <3>3. f[b] - 1 = i BY <2>2, <3>1, <3>2 DEF Slots
    <3> QED BY <3>2, <3>3, Zenon
  <2>4. f \in [1..Len(queue) -> 1..Size(k)] BY <1>3, <2>2, <2>3 DEF Slots
  <2>5. \A x, y \in 1..Len(queue) : f[x] = f[y] => x = y BY <2>3, Zenon
  <2> QED BY <1>3, <2>1, <2>4, <2>5, PigeonHole, Zenon
<1>13. Len(queue) \in Nat BY DEF Inv, Types
<1> QED BY <1>1, <1>3, <1>11, <1>12, <1>13

(* The new table after n steps of the two loops: the first n threads have  *)
(* a bucket, and then the slots, as long as there are unused buckets.      *)
Filled(new, datas, n, size, m) ==
    /\ Partial(new, size, m)
    /\ \A j \in 1..Len(datas) : j <= n => new.data[hash[address[datas[j]]] % size] # None
    /\ \A i \in 0..(size - 1) : i + Len(datas) < n => new.data[i] # None \/ new.reusable = {}

(* One step of the two loops. *)
LEMMA FilledStep ==
    ASSUME NEW size \in Nat \ {0}, NEW m \in Nat, NEW datas, Len(datas) \in Nat,
           \A j \in 1..Len(datas) : address[datas[j]] \in Addresses,
           NEW n \in Nat, n + 1 <= Len(datas) + size, NEW old, Filled(old, datas, n, size, m),
           NEW new, new = IF n + 1 <= Len(datas) THEN GiveBucket(old, datas[n + 1])
                          ELSE PlaceUnused(old, n - Len(datas))
    PROVE  Filled(new, datas, n + 1, size, m)
<1>1. PICK len : len = Len(datas) /\ len \in Nat BY Zenon
<1> DEFINE At(j) == hash[address[datas[j]]] % size
<1>2. Partial(old, size, m) BY Zenon DEF Filled
<1>3. \A j \in 1..len : At(j) \in 0..(size - 1)
  <2> SUFFICES ASSUME NEW j \in 1..len PROVE At(j) \in 0..(size - 1) BY Zenon
  <2>1. hash[address[datas[j]]] \in Nat BY <1>1, TableAssumption, Zenon
  <2> QED BY <2>1, Slot, Zenon
<1>4. old.size = size BY <1>2 DEF Partial
<1>5. ASSUME Partial(new, size, m), Extends(new, old)
      PROVE  /\ \A i \in 0..(size - 1) : old.data[i] # None => new.data[i] # None
             /\ old.reusable = {} => new.reusable = {}
  BY <1>4, <1>5, Zenon DEF Extends
<1>6. /\ \A j \in 1..len : j <= n => old.data[At(j)] # None
      /\ \A i \in 0..(size - 1) : i + len < n => old.data[i] # None \/ old.reusable = {}
  BY <1>1, Zenon DEF Filled
<1> HIDE DEF At
<1>7. CASE n + 1 <= len
  <2>1. n + 1 \in 1..len BY <1>1, <1>7
  <2>2. new = GiveBucket(old, datas[n + 1]) /\ address[datas[n + 1]] \in Addresses BY <1>1, <1>7, <2>1, Zenon
  <2>3. /\ Partial(new, size, m) /\ Extends(new, old)
        /\ new.data[At(n + 1)] # None
    BY <1>2, <2>2, GiveBucketOK, Zenon DEF At
  <2>4. \A j \in 1..len : j <= n + 1 => new.data[At(j)] # None
    <3> SUFFICES ASSUME NEW j \in 1..len, j <= n + 1 PROVE new.data[At(j)] # None BY Zenon
    <3>1. j = n + 1 \/ j <= n BY <1>1
    <3> QED BY <1>3, <1>5, <1>6, <2>3, <3>1, Zenon
  <2>5. \A i \in 0..(size - 1) : ~(i + len < n + 1) BY <1>1, <1>7
  <2> QED BY <1>1, <2>3, <2>4, <2>5, Zenon DEF Filled, At
<1>8. CASE ~(n + 1 <= len)
  <2>1. PICK k : k = n - len /\ k \in 0..(size - 1) BY <1>1, <1>8
  <2>2. new = PlaceUnused(old, k) BY <1>1, <1>8, <2>1, Zenon
  <2>3. /\ Partial(new, size, m) /\ Extends(new, old)
        /\ new.data[k] # None \/ new.reusable = {}
    BY <1>2, <2>1, <2>2, PlaceUnusedOK, Zenon
  <2>4. \A j \in 1..len : j <= n + 1 => new.data[At(j)] # None
    <3> SUFFICES ASSUME NEW j \in 1..len PROVE new.data[At(j)] # None BY Zenon
    <3>1. j <= n BY <1>1, <1>8
    <3> QED BY <1>3, <1>5, <1>6, <2>3, <3>1, Zenon
  <2>5. \A i \in 0..(size - 1) : i + len < n + 1 => new.data[i] # None \/ new.reusable = {}
    <3> SUFFICES ASSUME NEW i \in 0..(size - 1), i + len < n + 1
                 PROVE  new.data[i] # None \/ new.reusable = {}
      BY Zenon
    <3>1. i = k \/ i + len < n BY <1>1, <2>1
    <3> QED BY <1>5, <1>6, <2>3, <3>1, Zenon
  <2> QED BY <1>1, <2>3, <2>4, <2>5, Zenon DEF Filled, At
<1> QED BY <1>7, <1>8, Zenon

(* A new table in which a slot is left for every bucket reuses them all. *)
LEMMA NothingIsLeft ==
    ASSUME NEW size \in Nat \ {0}, NEW m \in Nat, m <= size, NEW new, Partial(new, size, m),
           \A i \in 0..(size - 1) : new.data[i] # None \/ new.reusable = {}
    PROVE  new.reusable = {}
<1> SUFFICES ASSUME new.reusable # {} PROVE FALSE BY Zenon
<1>1. PICK d, r, c : d = new.data /\ r = new.reusable /\ c = new.count BY Zenon
<1>2. PartialData(d, r, c, size, m) /\ r # {} BY <1>1, Zenon DEF Partial
<1>3. \A i \in 0..(size - 1) : d[i] # None BY <1>1, Zenon
<1>4. PICK b \in r : b \in 1..m BY <1>2, Zenon DEF PartialData
<1>5. c = m BY <1>2 DEF PartialData
<1>6. \A i \in 0..(size - 1) : d[i] \in 1..m /\ d[i] # b
  BY <1>2, <1>3, <1>4, <1>5 DEF PartialData, None
<1>7. PICK f : f = [j \in 1..(size + 1) |-> IF j = size + 1 THEN b ELSE d[j - 1]] BY Zenon
<1>8. \A j \in 1..(size + 1) : j = size + 1 \/ j - 1 \in 0..(size - 1) OBVIOUS
<1>9. f \in [1..(size + 1) -> 1..m] BY <1>4, <1>6, <1>7, <1>8, Zenon
<1>10. \A i, j \in 0..(size - 1) : d[i] = d[j] => i = j BY <1>2, <1>3, Zenon DEF PartialData
<1>11. ASSUME NEW i \in 1..(size + 1), NEW j \in 1..(size + 1), f[i] = f[j] PROVE i = j
  <2>1. CASE i = size + 1 /\ j = size + 1 BY <2>1, Zenon
  <2>2. CASE i = size + 1 /\ j # size + 1 BY <1>6, <1>7, <1>8, <1>11, <2>2, Zenon
  <2>3. CASE i # size + 1 /\ j = size + 1 BY <1>6, <1>7, <1>8, <1>11, <2>3, Zenon
  <2>4. CASE i # size + 1 /\ j # size + 1
    <3>1. d[i - 1] = d[j - 1] BY <1>7, <1>11, <2>4, Zenon
    <3>2. i - 1 = j - 1 BY <1>8, <1>10, <2>4, <3>1, Zenon
    <3> QED BY <3>2
  <2> QED BY <2>1, <2>2, <2>3, <2>4, Zenon
<1>12. size + 1 <= m
  <2>1. size + 1 \in Nat OBVIOUS
  <2>2. PICK n : n = size + 1 BY Zenon
  <2>3. n <= m BY <1>9, <1>11, <2>1, <2>2, PigeonHole, Zenon
  <2> QED BY <2>2, <2>3, Zenon
<1> QED BY <1>12

(* What ensureHashtableSize() installs: a table with all the buckets there *)
(* were, each once, in which every thread that has parked has one.         *)
LEMMA NewHashtableOK ==
    ASSUME Inv, NEW t \in Threads, pc[t] = "allLocked", ~TableIsStale(t),
           ~BigEnough(tables[hashtable], currentNumThreads[t])
    PROVE  /\ Partial(NewHashtable(t), NewSize(t), Len(queue))
           /\ NewHashtable(t).reusable = {}
           /\ \A j \in 1..Len(ThreadDatas(t)) :
                  NewHashtable(t).data[hash[address[ThreadDatas(t)[j]]] % NewSize(t)] # None
<1>1. PICK D : D = ThreadDatas(t) BY Zenon
<1>2. PICK N : N = NewSize(t) BY Zenon
<1>3. PICK m : m = Len(queue) BY Zenon
<1>4. N \in Nat \ {0} /\ m \in Nat /\ m <= N
  <2>1. Len(queue) \in Nat BY DEF Inv, Types
  <2> QED BY <1>2, <1>3, <2>1, NewSizeOK, Zenon
<1>5. D \in Seq(Threads) /\ \A j \in 1..Len(D) : address[D[j]] \in Addresses
  <2>1. GatheredOK(D, Len(queue)) BY <1>1, ThreadDatasOK, Zenon
  <2>2. ASSUME NEW j \in 1..Len(D) PROVE address[D[j]] \in Addresses
    <3>1. PICK b \in 1..Len(queue) : Contains(queue[b], D[j]) BY <2>1, Zenon DEF GatheredOK
    <3>2. PICK i \in 1..Len(queue[b]) : queue[b][i] = D[j] BY <3>1, Zenon DEF Contains
    <3>3. D \in Seq(Threads) BY <2>1, Zenon DEF GatheredOK
    <3>4. address[D[j]] # Null BY <3>2 DEF Inv, QueuesOK
    <3>5. address \in [Threads -> Addresses \cup {Null}] BY Zenon DEF Inv, Types
    <3>6. D[j] \in Threads BY <3>3
    <3> QED BY <3>4, <3>5, <3>6, Zenon
  <2> QED BY <2>1, <2>2, Zenon DEF GatheredOK
<1>6. PICK M : M = Len(D) BY Zenon
<1>7. M \in Nat /\ M + N \in Nat
  <2>1. Len(D) \in Nat BY <1>5
  <2> QED BY <1>4, <1>6, <2>1
<1>8. buckets[t] = 1..m BY <1>3, AllAreLocked, Zenon
<1>9. PICK F : F = Filling(t) OBVIOUS
<1>10. PICK empty : empty = [size |-> N, data |-> [i \in 0..(N - 1) |-> None],
                             reusable |-> 1..m, count |-> m]
  BY Zenon
<1>11. \A n \in 0..(M + N) :
           F[n] = IF n = 0 THEN empty
                  ELSE IF n <= M THEN GiveBucket(F[n - 1], D[n]) ELSE PlaceUnused(F[n - 1], n - M - 1)
  BY <1>1, <1>2, <1>3, <1>6, <1>7, <1>8, <1>9, <1>10, FillingEquation, Zenon
<1> DEFINE T == {n \in Nat : n <= M + N => Filled(F[n], D, n, N, m)}
<1>12. 0 \in T
  <2>1. F[0] = empty
    <3>1. 0 \in 0..(M + N) BY <1>7
    <3> QED BY <1>11, <3>1, Zenon
  <2>2. PICK d : d = [i \in 0..(N - 1) |-> None] BY Zenon
  <2>3. PartialData(d, 1..m, m, N, m) BY <1>4, <2>2 DEF PartialData, None
  <2>4. Partial(empty, N, m)
    <3>1. /\ empty = [size |-> N, data |-> d, reusable |-> 1..m, count |-> m]
          /\ empty.data = d /\ empty.reusable = 1..m /\ empty.count = m
      BY <1>10, <2>2, Zenon
    <3> QED BY <2>3, <3>1, Zenon DEF Partial
  <2>5. /\ \A j \in 1..M : ~(j <= 0)
        /\ \A i \in 0..(N - 1) : ~(i + M < 0)
    BY <1>4, <1>7
  <2>6. Filled(F[0], D, 0, N, m) BY <1>6, <2>1, <2>4, <2>5, Zenon DEF Filled
  <2> QED BY <2>6, Zenon
<1>13. ASSUME NEW n \in Nat, n \in T PROVE n + 1 \in T
  <2> SUFFICES ASSUME n + 1 <= M + N PROVE Filled(F[n + 1], D, n + 1, N, m)
    OBVIOUS
  <2>1. n <= M + N /\ n + 1 \in 0..(M + N) /\ n + 1 # 0 /\ (n + 1) - 1 = n /\ (n + 1) - M - 1 = n - M
    BY <1>7
  <2>2. Filled(F[n], D, n, N, m) BY <1>13, <2>1, Zenon
  <2>3. F[n + 1] = IF n + 1 <= M THEN GiveBucket(F[n], D[n + 1]) ELSE PlaceUnused(F[n], n - M)
    BY <1>11, <2>1, Zenon
  <2> HIDE DEF T
  <2> QED BY <1>4, <1>5, <1>6, <1>7, <2>2, <2>3, FilledStep, Zenon
<1>14. Filled(F[M + N], D, M + N, N, m)
  <2>1. Nat \subseteq T
    <3> HIDE DEF T
    <3> QED BY <1>12, <1>13, SetInduction, Zenon
  <2>2. M + N <= M + N BY <1>7
  <2> QED BY <1>7, <2>1, <2>2, Zenon
<1>15. PICK new : new = F[M + N] BY Zenon
<1>16. new = NewHashtable(t) BY <1>1, <1>2, <1>6, <1>9, <1>15, Zenon DEF NewHashtable
<1>17. Partial(new, N, m) BY <1>14, <1>15, Zenon DEF Filled
<1>18. ASSUME NEW j \in 1..M PROVE new.data[hash[address[D[j]]] % N] # None
  <2>1. j <= M + N BY <1>4, <1>7
  <2> QED BY <1>6, <1>14, <1>15, <2>1, Zenon DEF Filled
<1>19. ASSUME NEW i \in 0..(N - 1) PROVE new.data[i] # None \/ new.reusable = {}
  <2>1. i + M < M + N BY <1>4, <1>7
  <2> QED BY <1>6, <1>14, <1>15, <2>1, Zenon DEF Filled
<1>20. new.reusable = {} BY <1>4, <1>17, <1>19, NothingIsLeft, Zenon
<1> QED BY <1>1, <1>2, <1>3, <1>6, <1>16, <1>17, <1>18, <1>20, Zenon

-----------------------------------------------------------------------------
(* The resize: installing the new table *)

(* The threads D are requeued in a new table of N slots d and c buckets. *)
Requeues(D, N, d, c) ==
    /\ GatheredOK(D, Len(queue))
    /\ N \in Nat \ {0} /\ PartialData(d, {}, c, N, Len(queue))
    /\ \A j \in 1..Len(D) : d[hash[address[D[j]]] % N] # None
    /\ tables' = Append(tables, [size |-> N, data |-> d])
    /\ queue' = [b \in 1..c |-> AllAmong(D, {u \in Threads : /\ address[u] # Null
                                                            /\ d[hash[address[u]] % N] = b})]
    /\ owner' = [b \in 1..c |-> IF b \in DOMAIN owner THEN owner[b] ELSE Null]

(* That is what ensureHashtableSize() does. *)
LEMMA ResizeRequeues ==
    ASSUME Inv, NEW t \in Threads, Resize(t)
    PROVE  \E D, N, d, c : Requeues(D, N, d, c)
<1>1. PICK D, N, new : D = ThreadDatas(t) /\ N = NewSize(t) /\ new = NewHashtable(t) BY Zenon
<1>2. /\ pc[t] = "allLocked" /\ ~TableIsStale(t) /\ ~BigEnough(tables[hashtable], currentNumThreads[t])
      /\ tables' = Append(tables, [size |-> new.size, data |-> new.data])
      /\ queue' = Requeued(t, new)
      /\ owner' = [b \in 1..new.count |-> IF b \in DOMAIN owner THEN owner[b] ELSE Null]
  BY <1>1, Zenon DEF Resize
<1>3. PICK d, c : d = new.data /\ c = new.count BY Zenon
<1>4. /\ Partial(new, N, Len(queue)) /\ new.reusable = {}
      /\ \A j \in 1..Len(D) : new.data[hash[address[D[j]]] % N] # None
  BY <1>1, <1>2, NewHashtableOK, Zenon
<1>5. new.size = N /\ PartialData(d, {}, c, N, Len(queue)) BY <1>3, <1>4 DEF Partial
<1>6. GatheredOK(D, Len(queue)) BY <1>1, <1>2, ThreadDatasOK, Zenon
<1>7. N \in Nat \ {0} BY <1>1, <1>2, NewSizeOK, Zenon
<1>8. queue' = [b \in 1..c |-> AllAmong(D, {u \in Threads : /\ address[u] # Null
                                                          /\ d[hash[address[u]] % N] = b})]
  BY <1>1, <1>2, <1>3, <1>5, Zenon DEF Requeued, Index
<1>9. Requeues(D, N, d, c)
  BY <1>2, <1>3, <1>4, <1>5, <1>6, <1>7, <1>8, Zenon DEF Requeues
<1> QED BY <1>9, Zenon

(* The state after it. *)
LEMMA RequeuedState ==
    ASSUME Inv, NEW D, NEW N, NEW d, NEW c, Requeues(D, N, d, c), hashtable' = Len(tables')
    PROVE  /\ tables' \in Seq(TableType) /\ hashtable' = hashtable + 1 /\ hashtable \in Nat
           /\ \A k \in 1..hashtable : tables'[k] = tables[k]
           /\ tables'[hashtable'].size = N /\ tables'[hashtable'].data = d
           /\ queue' \in Seq(Seq(Threads)) /\ Len(queue') = c
           /\ owner' \in Seq(Threads \cup {Null}) /\ Len(owner') = c
           /\ \A b \in 1..Len(queue) : owner'[b] = owner[b]
           /\ \A b \in (Len(queue) + 1)..c : owner'[b] = Null
           /\ c \in Nat /\ Len(queue) \in Nat /\ Len(queue) <= c
<1>1. tables \in Seq(TableType) /\ hashtable = Len(tables) /\ hashtable \in Nat BY DEF Inv, Types
<1>2. PICK tab : tab = [size |-> N, data |-> d] BY Zenon
<1>3. tables' = Append(tables, tab) /\ N \in Nat \ {0} /\ d \in [0..(N - 1) -> Nat]
  BY <1>2, Zenon DEF Requeues, PartialData
<1>4. tab \in TableType BY <1>2, <1>3, IsTable, Zenon
<1>5. tab.size = N /\ tab.data = d BY <1>2, Zenon
<1>6. /\ tables' \in Seq(TableType) /\ Len(tables') = Len(tables) + 1
      /\ \A k \in 1..Len(tables) : tables'[k] = tables[k]
      /\ tables'[Len(tables) + 1] = tab
  BY <1>1, <1>3, <1>4, AppendElements
<1>7. c \in Nat /\ Len(queue) \in Nat /\ Len(queue) <= c
  <2>1. Len(queue) \in Nat BY DEF Inv, Types
  <2> QED BY <2>1, Zenon DEF Requeues, PartialData
<1>8. D \in Seq(Threads) BY Zenon DEF Requeues, GatheredOK
<1> DEFINE W(b) == {u \in Threads : address[u] # Null /\ d[hash[address[u]] % N] = b}
<1>9. \A b \in 1..c : AllAmong(D, W(b)) \in Seq(Threads) BY <1>8, AllAmongType, Zenon
<1>10. queue' = [b \in 1..c |-> AllAmong(D, W(b))] BY Zenon DEF Requeues
<1>11. queue' \in Seq(Seq(Threads)) /\ Len(queue') = c
  <2> HIDE DEF W
  <2> QED BY <1>7, <1>9, <1>10
<1>12. owner \in Seq(Threads \cup {Null}) /\ Len(owner) = Len(queue) /\ DOMAIN owner = 1..Len(queue)
  BY DEF Inv, Types
<1>13. owner' = [b \in 1..c |-> IF b \in 1..Len(queue) THEN owner[b] ELSE Null]
  BY <1>12, Zenon DEF Requeues
<1>14. owner' \in Seq(Threads \cup {Null}) /\ Len(owner') = c
  <2>1. \A b \in 1..c : (IF b \in 1..Len(queue) THEN owner[b] ELSE Null) \in Threads \cup {Null}
    BY <1>12
  <2> QED BY <1>7, <1>13, <2>1
<1>15. /\ \A b \in 1..Len(queue) : b \in 1..c
       /\ \A b \in (Len(queue) + 1)..c : b \in 1..c /\ b \notin 1..Len(queue)
  BY <1>7
<1>16. /\ \A b \in 1..Len(queue) : owner'[b] = owner[b]
       /\ \A b \in (Len(queue) + 1)..c : owner'[b] = Null
  BY <1>13, <1>15, Zenon
<1> QED BY <1>1, <1>5, <1>6, <1>7, <1>11, <1>14, <1>16, Zenon

(* The old table is full, the new one has all the buckets. *)
LEMMA RequeuedTables ==
    ASSUME Inv, NEW D, NEW N, NEW d, NEW c, Requeues(D, N, d, c), hashtable' = Len(tables'),
           \A i \in Slots(hashtable) : Data(hashtable, i) # None
    PROVE  TablesOK' /\ Grown
<1>1. /\ hashtable' = hashtable + 1 /\ hashtable \in Nat
      /\ \A k \in 1..hashtable : tables'[k] = tables[k]
      /\ tables'[hashtable'].size = N /\ tables'[hashtable'].data = d
      /\ Len(queue') = c /\ c \in Nat /\ Len(queue) \in Nat /\ Len(queue) <= c
  BY RequeuedState, Zenon
<1>2. PartialData(d, {}, c, N, Len(queue)) BY Zenon DEF Requeues
<1>3. PICK h : h = hashtable' BY Zenon
<1>4. tables'[h].size = N /\ tables'[h].data = d BY <1>1, <1>3, Zenon
<1>5. ASSUME NEW k \in 1..hashtable, NEW i \in 0..(tables'[k].size - 1)
      PROVE  /\ tables'[k].data[i] \in 0..Len(queue') /\ tables'[k].data[i] # None
             /\ \A j \in 0..(tables'[k].size - 1) : tables'[k].data[i] = tables'[k].data[j] => i = j
  <2>1. i \in Slots(k) /\ tables'[k] = tables[k] BY <1>1, Zenon DEF Slots, Size
  <2>2. Data(k, i) \in 0..Len(queue) /\ Data(k, i) # None BY <2>1, Zenon DEF Inv, TablesOK
  <2>3. \A j \in Slots(k) : Data(k, i) = Data(k, j) => i = j BY <2>1, <2>2, Zenon DEF Inv, TablesOK
  <2>4. Data(k, i) \in 0..Len(queue') BY <1>1, <2>2
  <2> QED BY <2>1, <2>2, <2>3, <2>4, Zenon DEF Slots, Size, Data
<1>6. /\ \A i \in 0..(N - 1) : d[i] \in 0..Len(queue')
      /\ \A i, j \in 0..(N - 1) : d[i] = d[j] /\ d[i] # None => i = j
      /\ \A b \in 1..Len(queue') : \E i \in 0..(N - 1) : d[i] = b
  BY <1>1, <1>2, Zenon DEF PartialData
<1>7. \A k \in 1..hashtable' : k \in 1..hashtable \/ k = h BY <1>1, <1>3
<1>8. hashtable' # None BY <1>1 DEF None
<1>9. ASSUME NEW k \in 1..hashtable'
      PROVE  /\ \A i \in Slots(k)' : Data(k, i)' \in 0..Len(queue')
             /\ \A i, j \in Slots(k)' : Data(k, i)' = Data(k, j)' /\ Data(k, i)' # None => i = j
             /\ k # hashtable' => \A i \in Slots(k)' : Data(k, i)' # None
  <2>1. CASE k \in 1..hashtable BY <1>5, <2>1, Zenon DEF Slots, Size, Data
  <2>2. CASE k = h BY <1>3, <1>4, <1>6, <2>2 DEF Slots, Size, Data
  <2> QED BY <1>7, <2>1, <2>2, Zenon
<1>10. TablesOK'
  <2>1. ASSUME NEW b \in 1..Len(queue')
        PROVE  \E i \in 0..(tables'[hashtable'].size - 1) : tables'[hashtable'].data[i] = b
    BY <1>1, <1>6, Zenon
  <2>2. \A b \in 1..Len(queue') : (\E i \in Slots(hashtable) : Data(hashtable, i) = b)'
    BY <2>1, Zenon DEF Slots, Size, Data
  <2> QED BY <1>8, <1>9, <2>2, Zenon DEF TablesOK
<1>11. Grown
  <2>1. Len(tables) = hashtable BY Zenon DEF Inv, Types
  <2> QED BY <1>1, <2>1 DEF Grown, Data
<1> QED BY <1>10, <1>11, Zenon

(* Every thread that has parked is requeued where the new table says. *)
LEMMA RequeuedQueues ==
    ASSUME Inv, NEW D, NEW N, NEW d, NEW c, Requeues(D, N, d, c), hashtable' = Len(tables'),
           UNCHANGED address
    PROVE  QueuesOK'
<1>1. /\ tables'[hashtable'].size = N /\ tables'[hashtable'].data = d
      /\ Len(queue') = c /\ c \in Nat
  BY RequeuedState, Zenon
<1> DEFINE W(b) == {u \in Threads : address[u] # Null /\ d[hash[address[u]] % N] = b}
<1>3. \A b \in 1..c : queue'[b] = AllAmong(D, W(b)) BY Zenon DEF Requeues
<1>4. /\ D \in Seq(Threads)
      /\ \A b \in 1..Len(queue) : \A j \in 1..Len(queue[b]) : Contains(D, queue[b][j])
      /\ \A i, j \in 1..Len(D) : D[i] = D[j] => i = j
  BY Zenon DEF Requeues, GatheredOK
<1>5. ASSUME NEW b \in 1..c, NEW i \in 1..Len(queue'[b]) PROVE queue'[b][i] \in W(b)
  <2> HIDE DEF W
  <2>1. Selects(queue'[b], D, W(b)) BY <1>3, <1>4, AllAmongMembers, Zenon
  <2> QED BY <2>1, Zenon DEF Selects
<1>6. ASSUME NEW b \in 1..c, NEW i \in 1..Len(queue'[b])
      PROVE  address'[queue'[b][i]] # Null /\ d[hash[address'[queue'[b][i]]] % N] = b
  <2>1. queue'[b][i] \in W(b) BY <1>5, Zenon
  <2> QED BY <2>1, Zenon
<1>7. ASSUME NEW b \in 1..c, NEW i \in 1..Len(queue'[b]), NEW j \in 1..Len(queue'[b]),
             queue'[b][i] = queue'[b][j]
      PROVE  i = j
  <2>1. PICK V : V = W(b) BY Zenon
  <2>2. queue'[b] = AllAmong(D, V) BY <1>3, <2>1, Zenon
  <2> HIDE DEF W
  <2>3. \A x, y \in 1..Len(AllAmong(D, V)) : AllAmong(D, V)[x] = AllAmong(D, V)[y] => x = y
    BY <1>4, AllAmongOnce, Zenon
  <2> QED BY <1>7, <2>2, <2>3, Zenon
<1>8. ASSUME NEW u \in Threads, address[u] # Null
      PROVE  \E b \in 1..c : Contains(queue'[b], u)
  <2>1. PICK b \in 1..Len(queue) : Contains(queue[b], u) BY <1>8, Zenon DEF Inv, QueuesOK
  <2>2. PICK i \in 1..Len(queue[b]) : queue[b][i] = u BY <2>1, Zenon DEF Contains
  <2>3. Contains(D, u) BY <1>4, <2>2, Zenon
  <2>4. PICK j \in 1..Len(D) : D[j] = u BY <2>3, Zenon DEF Contains
  <2>5. PICK x : x = d[hash[address[u]] % N] BY Zenon
  <2>6. x \in 1..c
    <3>1. x # None BY <2>4, <2>5, Zenon DEF Requeues
    <3>2. hash[address[u]] % N \in 0..(N - 1)
      <4>1. address[u] \in Addresses BY <1>8, Zenon DEF Inv, Types
      <4>2. hash[address[u]] \in Nat /\ N \in Nat \ {0} BY <4>1, TableAssumption, Zenon DEF Requeues
      <4> QED BY <4>2, Slot, Zenon
    <3>3. x \in 0..c BY <2>5, <3>2, Zenon DEF Requeues, PartialData
    <3> QED BY <1>1, <3>1, <3>3 DEF None
  <2>7. u \in W(x) BY <1>8, <2>5, Zenon
  <2> HIDE DEF W
  <2>8. Selects(queue'[x], D, W(x)) BY <1>3, <1>4, <2>6, AllAmongMembers, Zenon
  <2>9. \E k \in 1..Len(queue'[x]) : queue'[x][k] = u BY <2>4, <2>7, <2>8, Zenon DEF Selects
  <2>10. Contains(queue'[x], u) BY <2>9, Zenon DEF Contains
  <2> QED BY <2>6, <2>10, Zenon
<1> HIDE DEF W
<1> QED BY <1>1, <1>6, <1>7, <1>8, Zenon DEF QueuesOK, BucketIn, Size, Data

(* The new table is installed while every bucket is locked. *)
LEMMA ResizeKeeps ==
    ASSUME Inv, NEW t \in Threads, Resize(t)
    PROVE  Inv'
<1>1. PICK D, N, d, c : Requeues(D, N, d, c) BY ResizeRequeues, Zenon
<1>2. /\ Types /\ ThreadOK(t) /\ pc[t] = "allLocked" /\ ~TableIsStale(t)
      /\ pc' = Set(pc, t, "unlockAll") /\ hashtable' = Len(tables')
      /\ UNCHANGED <<threadCounts, address, table, call, arg, buckets>>
  BY Zenon DEF Inv, Resize
<1>3. /\ tables' \in Seq(TableType) /\ hashtable' = hashtable + 1 /\ hashtable \in Nat
      /\ \A k \in 1..hashtable : tables'[k] = tables[k]
      /\ queue' \in Seq(Seq(Threads)) /\ Len(queue') = c
      /\ owner' \in Seq(Threads \cup {Null}) /\ Len(owner') = c
      /\ \A b \in 1..Len(queue) : owner'[b] = owner[b]
      /\ \A b \in (Len(queue) + 1)..c : owner'[b] = Null
      /\ c \in Nat /\ Len(queue) \in Nat /\ Len(queue) <= c
  BY <1>1, <1>2, RequeuedState
<1>4. table[t] = hashtable /\ hashtable \in 1..hashtable /\ HasCollected(t, 0) BY <1>2, AllAreLocked, Zenon
<1>5. TablesOK' /\ Grown
  <2>1. \A i \in Slots(hashtable) : Data(hashtable, i) # None BY <1>4, Zenon DEF HasCollected, Slots
  <2> QED BY <1>1, <1>2, <2>1, RequeuedTables, Zenon
<1>6. QueuesOK' BY <1>1, <1>2, RequeuedQueues, Zenon
<1>7. ASSUME NEW u \in Threads PROVE Owned(u)' = Owned(u)
  <2>1. Null # u BY TableAssumption, Zenon
  <2>2. DOMAIN owner = 1..Len(queue) /\ DOMAIN owner' = 1..c
    <3>1. DOMAIN owner = 1..Len(queue) BY <1>2 DEF Types
    <3>2. DOMAIN owner' = 1..Len(owner') BY <1>3
    <3> QED BY <1>3, <3>1, <3>2, Zenon
  <2>3. \A b \in 1..c : b \in 1..Len(queue) \/ b \in (Len(queue) + 1)..c BY <1>3
  <2>4. \A b \in 1..Len(queue) : b \in 1..c BY <1>3
  <2>5. \A b : b \in 1..c /\ owner'[b] = u <=> b \in 1..Len(queue) /\ owner[b] = u
    BY <1>3, <2>1, <2>3, <2>4, Zenon
  <2> QED BY <2>2, <2>5, Zenon DEF Owned
<1>8. Types' BY <1>2, <1>3, Zenon DEF Types, Set, PC, threadCounts
<1>9. \A u \in Threads \ {t} : Untouched(u) BY <1>2, <1>7, Zenon DEF Types, Untouched, Set
<1>10. ThreadOK(t)'
  <2>1. pc'[t] = "unlockAll" BY <1>2, Zenon DEF Types, Set
  <2>2. table'[t] = table[t] /\ buckets'[t] = buckets[t] BY <1>2, Zenon
  <2>3. table'[t] \in 1..hashtable'
    <3>1. hashtable' = hashtable + 1 /\ hashtable \in Nat BY <1>3, Zenon
    <3> QED BY <1>4, <2>2, <3>1
  <2>4. HasCollected(t, 0)'
    <3>1. tables'[table'[t]] = tables[table[t]] BY <1>3, <1>4, <2>2
    <3> QED BY <1>4, <2>2, <3>1, Zenon DEF HasCollected, Size, Data
  <2>5. Owned(t)' = buckets'[t] BY <1>2, <1>7, Zenon DEF ThreadOK, LocksOK
  <2> QED BY <2>1, <2>3, <2>4, <2>5, Zenon DEF ThreadOK, CallOK, LocksOK, Calling, LockingAll
<1> QED BY <1>5, <1>6, <1>8, <1>9, <1>10, StepKeeps, Zenon

-----------------------------------------------------------------------------
(* Every step keeps the invariant. *)
LEMMA NextKeeps == Inv /\ [Next]_vars => Inv'
<1> SUFFICES ASSUME Inv, [Next]_vars PROVE Inv' BY Zenon
<1>1. CASE UNCHANGED vars
  <2>1. /\ UNCHANGED <<tables, hashtable, queue, owner, numThreads, address, pc, table>>
        /\ UNCHANGED <<call, arg, currentNumThreads, buckets>>
    BY <1>1, Zenon DEF vars
  <2>2. TablesOK' /\ QueuesOK' /\ Grown BY <2>1, SameTables, Zenon
  <2>3. Types' BY <2>1, Zenon DEF Inv, Types
  <2>4. \A u \in Threads : Untouched(u) BY <2>1, Zenon DEF Untouched, Owned
  <2>5. ASSUME NEW u \in Threads PROVE ThreadOK(u)'
    BY <2>2, <2>3, <2>4, OthersKeep, Zenon DEF Inv
  <2> QED BY <2>2, <2>3, <2>5, Zenon DEF Inv
<1>2. ASSUME NEW t \in Threads, NEW a \in Addresses, NEW c \in Calls, Call(t, a, c) PROVE Inv'
  BY <1>2, CallKeeps, Zenon
<1>3. ASSUME NEW t \in Threads, Dequeue(t) \/ DequeueSelf(t) PROVE Inv'
  BY <1>3, DequeueKeeps, Zenon DEF Dequeue, DequeueSelf
<1>4. ASSUME NEW t \in Threads,
             \/ Create(t) \/ Exit(t) \/ ForEach(t) \/ Check(t) \/ LockTable(t) \/ FillSlot(t)
             \/ LockNext(t) \/ LockAgain(t) \/ Resize(t) \/ NoNeedToResize(t) \/ UnlockHashtable(t)
      PROVE  Inv'
  BY <1>4, CreateKeeps, CheckKeeps, LockTableKeeps, FillSlotKeeps, LockNextKeeps, UnlockKeeps,
     ResizeKeeps, NoNeedToResizeKeeps, Zenon
<1>5. ASSUME NEW t \in Threads,
             Load(t) \/ LoadEmpty(t) \/ LockBucket(t) \/ Retry(t) \/ Enqueue(t)
      PROVE  Inv'
  BY <1>5, LoadKeeps, LoadEmptyKeeps, LockBucketKeeps, RetryKeeps, EnqueueKeeps, Zenon
<1> QED BY <1>1, <1>2, <1>3, <1>4, <1>5, Zenon DEF Next, Calls

(* The invariant: every table that was replaced is full, the current one   *)
(* has every bucket once, every queue has the threads that have parked at  *)
(* its addresses, and every thread has locked what its place says.         *)
THEOREM Invariance == Spec => []Inv
BY Start, NextKeeps, PTL DEF Spec

(* A thread that has parked is once in the bucket that the current table   *)
(* has for its address.                                                    *)
THEOREM TableFindsEveryone == Spec => []EveryoneFindable
<1>1. Inv => EveryoneFindable
  <2> SUFFICES ASSUME Inv, NEW t \in Threads, address[t] # Null
               PROVE  \E i \in DOMAIN QueueOf(address[t]) :
                          {j \in DOMAIN QueueOf(address[t]) : QueueOf(address[t])[j] = t} = {i}
    BY Zenon DEF EveryoneFindable
  <2>1. PICK a : a = address[t] BY Zenon
  <2>2. PICK b \in 1..Len(queue) : Contains(queue[b], t) BY Zenon DEF Inv, QueuesOK
  <2>3. PICK i \in 1..Len(queue[b]) : queue[b][i] = t BY <2>2, Zenon DEF Contains
  <2>4. BucketIn(hashtable, a) = b BY <2>1, <2>3, Zenon DEF Inv, QueuesOK
  <2>5. hashtable # None BY <2>2, Zenon DEF Inv, TablesOK
  <2>6. b # None BY DEF None
  <2>7. QueueOf(a) = queue[b]
    BY <2>4, <2>5, <2>6, Zenon DEF QueueOf, Index, BucketIn, Data, Size
  <2>8. DOMAIN queue[b] = 1..Len(queue[b])
    <3>1. queue[b] \in Seq(Threads) BY DEF Inv, Types
    <3> QED BY <3>1
  <2>9. {j \in DOMAIN queue[b] : queue[b][j] = t} = {i} BY <2>3, <2>8, Zenon DEF Inv, QueuesOK
  <2> QED BY <2>1, <2>7, <2>8, <2>9, Zenon
<1> QED BY <1>1, Invariance, PTL

(* Every bucket there is has exactly one slot in the current table. *)
THEOREM TableKeepsBuckets == Spec => []NoBucketLeaked
<1>1. Inv => NoBucketLeaked
  <2> SUFFICES ASSUME Inv, NEW b \in DOMAIN queue
               PROVE  \E i \in DOMAIN tables[hashtable].data :
                          {j \in DOMAIN tables[hashtable].data : tables[hashtable].data[j] = b} = {i}
    BY Zenon DEF NoBucketLeaked
  <2>1. b \in 1..Len(queue) BY DEF Inv, Types
  <2>2. PICK i \in Slots(hashtable) : Data(hashtable, i) = b BY <2>1, Zenon DEF Inv, TablesOK
  <2>3. hashtable \in 1..hashtable /\ b # None BY <2>1 DEF Inv, TablesOK, Types, None
  <2>4. DOMAIN tables[hashtable].data = Slots(hashtable) BY <2>3, Tables, Zenon DEF Inv
  <2>5. {j \in DOMAIN tables[hashtable].data : tables[hashtable].data[j] = b} = {i}
    <3>1. \A j \in Slots(hashtable) : Data(hashtable, j) = b => j = i
      BY <2>2, <2>3, Zenon DEF Inv, TablesOK
    <3> QED BY <2>2, <2>4, <3>1, Zenon DEF Data
  <2> QED BY <2>4, <2>5, Zenon
<1> QED BY <1>1, Invariance, PTL

(* What ensureHashtableSize() asserts when it resizes: the new table is    *)
(* bigger than the old one, and no old bucket is left without a slot.      *)
ResizeAssertions ==
    \A t \in Threads :
        pc[t] = "allLocked" /\ ~TableIsStale(t) /\ ~BigEnough(tables[hashtable], currentNumThreads[t]) =>
            tables[hashtable].size < NewSize(t) /\ NewHashtable(t).reusable = {}

(* RELEASE_ASSERT(newSize > oldHashtable->size) and                        *)
(* ASSERT(reusableBuckets.isEmpty()) hold in every resize.                 *)
THEOREM ResizeAsserts == Spec => []ResizeAssertions
<1>1. Inv => ResizeAssertions
  BY NewSizeOK, NewHashtableOK, Zenon DEF ResizeAssertions, Size
<1> QED BY <1>1, Invariance, PTL

(* A thread that waits for a bucket's lock has locked only buckets before  *)
(* it, so that no threads wait for each other.                             *)
THEOREM TableLocksInOrder == Spec => []LocksInOrder
<1>1. Inv => LocksInOrder
  <2> SUFFICES ASSUME Inv, NEW t \in Threads, Wanted(t) # None, NEW b \in Owned(t)
               PROVE  b < Wanted(t)
    BY Zenon DEF LocksInOrder
  <2>1. CASE pc[t] = "lock"
    <3>1. Owned(t) = {} BY <2>1, Zenon DEF Inv, ThreadOK, LocksOK, LockingAll
    <3> QED BY <3>1, Zenon
  <2>2. CASE pc[t] = "lockAll"
    <3>1. Wanted(t) = NextBucket(t) BY <2>2, Zenon DEF Wanted
    <3> QED BY <2>2, <3>1, NextBucketIs, Zenon
  <2>3. CASE pc[t] # "lock" /\ pc[t] # "lockAll"
    BY <2>3, Zenon DEF Wanted
  <2> QED BY <2>1, <2>2, <2>3, Zenon
<1> QED BY <1>1, Invariance, PTL

-----------------------------------------------------------------------------
(* The order of the queues *)

KeepsOrder(a) ==
    \/ QueuedAt(a)' = QueuedAt(a)
    \/ \E t \in Threads : QueuedAt(a)' = Append(QueuedAt(a), t)
    \/ \E i \in DOMAIN QueuedAt(a) : QueuedAt(a)' = Removed(QueuedAt(a), i)

(* Who is queued at an address when there is a table. *)
LEMMA QueuedBefore ==
    ASSUME NEW a, hashtable # None
    PROVE  QueuedAt(a) = AllAmong(IF BucketIn(hashtable, a) = None THEN <<>> ELSE queue[BucketIn(hashtable, a)],
                                  ThreadsAt(a))
BY Zenon DEF QueuedAt, QueueOf, Index, BucketIn, Data, Size

(* Most steps touch no queue. *)
LEMMA SameOrder ==
    ASSUME UNCHANGED <<tables, hashtable, queue, address>>, NEW a
    PROVE  KeepsOrder(a)
BY Zenon DEF KeepsOrder, QueuedAt, QueueOf, Index, ThreadsAt

(* Nobody has parked at an address without a bucket. *)
LEMMA NobodyThere ==
    ASSUME Inv, NEW a \in Addresses, hashtable = None \/ BucketIn(hashtable, a) = None
    PROVE  ThreadsAt(a) = {} /\ QueuedAt(a) = <<>>
<1>1. ASSUME NEW u \in Threads, address[u] = a PROVE FALSE
  <2>1. address[u] # Null BY <1>1, TableAssumption, Zenon
  <2>2. PICK b \in 1..Len(queue) : Contains(queue[b], u) BY <2>1, Zenon DEF Inv, QueuesOK
  <2>3. PICK i \in 1..Len(queue[b]) : queue[b][i] = u BY <2>2, Zenon DEF Contains
  <2>4. BucketIn(hashtable, a) = b BY <1>1, <2>3, Zenon DEF Inv, QueuesOK
  <2>5. hashtable # None BY <2>2, Zenon DEF Inv, TablesOK
  <2>6. b # None BY DEF None
  <2> QED BY <2>4, <2>5, <2>6, Zenon
<1>2. ThreadsAt(a) = {} BY <1>1, Zenon DEF ThreadsAt
<1>3. QueueOf(a) = <<>> BY Zenon DEF QueueOf, Index, BucketIn, Data, Size
<1> QED BY <1>2, <1>3, AllAmongEmpty, Zenon DEF QueuedAt

(* New tables and new buckets without threads do not change the order. *)
LEMMA GrownOrder ==
    ASSUME Inv, Types', TablesOK', Grown, UNCHANGED address, NEW a \in Addresses,
           hashtable # None => hashtable' = hashtable, hashtable' # None,
           \A b \in 1..Len(queue) : queue'[b] = queue[b]
    PROVE  KeepsOrder(a)
<1>1. PICK h : h = hashtable' BY Zenon
<1>2. h \in 1..h /\ h \in Nat BY <1>1 DEF Types, None
<1>3. PICK tab : tab = tables'[h] BY Zenon
<1>4. tab \in TableType BY <1>1, <1>2, <1>3 DEF Types
<1>5. PICK i : i = hash[a] % tab.size BY Zenon
<1>6. i \in 0..(tab.size - 1)
  <2>1. tab.size \in Nat \ {0} BY <1>4, TableShape, Zenon
  <2>2. hash[a] \in Nat BY TableAssumption, Zenon
  <2> QED BY <1>5, <2>1, <2>2, Slot, Zenon
<1>7. PICK c, q : c = tab.data[i] /\ q = IF c = None THEN <<>> ELSE queue'[c] BY Zenon
<1>8. PICK W : W = ThreadsAt(a) BY Zenon
<1>9. QueuedAt(a)' = AllAmong(q, W)
  <2>1. W = {u \in Threads : address'[u] = a} BY <1>8, Zenon DEF ThreadsAt
  <2>2. c = tables'[hashtable'].data[hash[a] % tables'[hashtable'].size] BY <1>1, <1>3, <1>5, <1>7, Zenon
  <2>3. QueuedAt(a)' = AllAmong(IF c = None THEN <<>> ELSE queue'[c], W)
    BY <2>1, <2>2, Zenon DEF QueuedAt, QueueOf, Index, ThreadsAt
  <2> QED BY <1>7, <2>3, Zenon
<1>10. CASE hashtable = None \/ BucketIn(hashtable, a) = None
  <2>1. W = {} /\ QueuedAt(a) = <<>> BY <1>8, <1>10, NobodyThere, Zenon
  <2>2. q \in Seq(Threads)
    <3>1. c \in 0..Len(queue') BY <1>1, <1>2, <1>3, <1>6, <1>7, Zenon DEF TablesOK, Slots, Size, Data
    <3>2. CASE c = None BY <1>7, <3>2
    <3>3. CASE c # None
      <4>1. Len(queue') \in Nat BY DEF Types
      <4>2. c \in 1..Len(queue') BY <3>1, <3>3, <4>1 DEF None
      <4>3. q = queue'[c] BY <1>7, <3>3, Zenon
      <4> QED BY <4>2, <4>3 DEF Types
    <3> QED BY <3>2, <3>3, Zenon
  <2>3. AllAmong(q, W) = <<>> BY <2>1, <2>2, AllAmongNone, Zenon
  <2> QED BY <1>9, <2>1, <2>3, Zenon DEF KeepsOrder
<1>11. CASE hashtable # None /\ BucketIn(hashtable, a) # None
  <2>1. hashtable = h /\ h \in 1..Len(tables) BY <1>1, <1>2, <1>11, Zenon DEF Inv, Types
  <2>2. tab.size = Size(h) BY <1>3, <2>1, Zenon DEF Grown, Size
  <2>3. i \in Slots(h) /\ Data(h, i) = BucketIn(h, a) BY <1>5, <1>6, <2>2, Zenon DEF Slots, BucketIn
  <2>4. c = BucketIn(h, a)
    <3>1. Data(h, i) # None BY <1>11, <2>1, <2>3, Zenon
    <3>2. tables'[h].data[i] = Data(h, i) BY <2>1, <2>3, <3>1, Zenon DEF Grown
    <3> QED BY <1>3, <1>7, <2>3, <3>2, Zenon
  <2>5. c \in 1..Len(queue)
    <3>1. c \in 0..Len(queue) BY <1>2, <2>1, <2>3, <2>4 DEF Inv, TablesOK
    <3>2. Len(queue) \in Nat BY DEF Inv, Types
    <3> QED BY <1>11, <2>1, <2>4, <3>1, <3>2 DEF None
  <2>6. q = queue[c] BY <1>7, <1>11, <2>1, <2>4, <2>5, Zenon
  <2>7. QueuedAt(a) = AllAmong(q, W) BY <1>8, <1>11, <2>1, <2>4, <2>6, QueuedBefore, Zenon
  <2> QED BY <1>9, <2>7, Zenon DEF KeepsOrder
<1> QED BY <1>10, <1>11, Zenon

(* A thread that enqueues itself comes last at its address. *)
LEMMA EnqueueOrder ==
    ASSUME Inv, NEW t \in Threads, Enqueue(t), NEW a \in Addresses
    PROVE  KeepsOrder(a)
<1>1. PICK b : b = MyBucket(t) BY Zenon
<1>2. PICK q : q = queue[b] BY Zenon
<1>3. Locked(t, {"enqueue"}) /\ Finish(t, Append(queue[MyBucket(t)], t), Set(address, t, arg[t]))
  BY Zenon DEF Enqueue
<1>4. /\ b \in 1..Len(queue) /\ q \in Seq(Threads) /\ arg[t] \in Addresses
      /\ hashtable \in 1..hashtable /\ BucketIn(hashtable, arg[t]) = b
  BY <1>1, <1>2, <1>3, LockedBucket, Zenon
<1>5. /\ queue' = Set(queue, b, Append(q, t)) /\ address' = Set(address, t, arg[t])
      /\ UNCHANGED <<tables, hashtable>>
  BY <1>1, <1>2, <1>3, Zenon DEF Finish
<1>6. address[t] = Null BY <1>3, Zenon DEF Locked, Inv, ThreadOK, CallOK, Calling
<1>7. hashtable # None BY <1>4 DEF None
<1>8. PICK W, V, c : W = ThreadsAt(a) /\ V = {u \in Threads : address'[u] = a} /\ c = BucketIn(hashtable, a)
  BY Zenon
<1>9. QueuedAt(a) = AllAmong(IF c = None THEN <<>> ELSE queue[c], W) BY <1>7, <1>8, QueuedBefore, Zenon
<1>10. QueuedAt(a)' = AllAmong(IF c = None THEN <<>> ELSE queue'[c], V)
  <2>1. c = tables'[hashtable'].data[hash[a] % tables'[hashtable'].size]
    BY <1>5, <1>8, Zenon DEF BucketIn, Data, Size
  <2>2. hashtable' # None /\ V = {u \in Threads : address'[u] = a} BY <1>5, <1>7, <1>8, Zenon
  <2> QED BY <2>1, <2>2, Zenon DEF QueuedAt, QueueOf, Index, ThreadsAt
<1>11. /\ address \in [Threads -> Addresses \cup {Null}] /\ queue \in Seq(Seq(Threads))
       /\ t \notin W
  <2>1. a # Null BY TableAssumption, Zenon
  <2> QED BY <1>6, <1>8, <2>1, Zenon DEF Inv, Types, ThreadsAt
<1>12. queue'[b] = Append(q, t) /\ \A x : x # b => queue'[x] = queue[x]
  <2>1. queue \in Seq(Seq(Threads)) /\ DOMAIN queue = 1..Len(queue) BY DEF Inv, Types
  <2>2. queue' = [queue EXCEPT ![b] = Append(q, t)] BY <1>5, Zenon DEF Set
  <2> QED BY <1>4, <2>1, <2>2
<1>13. CASE a = arg[t]
  <2>1. V = W \cup {t} BY <1>5, <1>8, <1>11, <1>13, Zenon DEF ThreadsAt, Set
  <2>2. c = b /\ c # None BY <1>4, <1>8, <1>13 DEF None
  <2>3. AllAmong(Append(q, t), V) = IF t \in V THEN Append(AllAmong(q, V), t) ELSE AllAmong(q, V)
    BY <1>4, AllAmongAppend, Zenon
  <2>4. \A i \in DOMAIN q : q[i] # t
    BY <1>2, <1>4, <1>6 DEF Inv, QueuesOK
  <2>5. AllAmong(q, V) = AllAmong(q, W)
    <3>1. \A i \in DOMAIN q : q[i] \in V <=> q[i] \in W BY <2>1, <2>4, Zenon
    <3> QED BY <1>4, <3>1, AllAmongAgree, Zenon
  <2>6. QueuedAt(a)' = Append(QueuedAt(a), t)
    BY <1>2, <1>9, <1>10, <1>12, <2>1, <2>2, <2>3, <2>5, Zenon
  <2> QED BY <2>6, Zenon DEF KeepsOrder
<1>14. CASE a # arg[t]
  <2>1. V = W
    <3>1. \A u \in Threads : address'[u] = IF u = t THEN arg[t] ELSE address[u] BY <1>5, <1>11, Zenon DEF Set
    <3>2. t \notin W /\ t \notin V BY <1>8, <1>11, <1>14, <3>1, Zenon
    <3> QED BY <1>8, <3>1, <3>2, Zenon DEF ThreadsAt
  <2>2. CASE c = b /\ c # None
    <3>1. AllAmong(Append(q, t), W) = IF t \in W THEN Append(AllAmong(q, W), t) ELSE AllAmong(q, W)
      BY <1>4, AllAmongAppend
    <3>2. QueuedAt(a)' = QueuedAt(a) BY <1>2, <1>9, <1>10, <1>11, <1>12, <2>1, <2>2, <3>1, Zenon
    <3> QED BY <3>2, Zenon DEF KeepsOrder
  <2>3. CASE c # b \/ c = None
    <3>1. QueuedAt(a)' = QueuedAt(a) BY <1>9, <1>10, <1>12, <2>1, <2>3, Zenon
    <3> QED BY <3>1 DEF KeepsOrder
  <2> QED BY <2>2, <2>3, Zenon
<1> QED BY <1>13, <1>14, Zenon

(* A thread that is taken off its queue leaves the others where they are. *)
LEMMA DequeueOrder ==
    ASSUME Inv, NEW t \in Threads, NEW calls, Locked(t, calls), NEW wanted, DequeueFirst(t, wanted),
           NEW a \in Addresses
    PROVE  KeepsOrder(a)
<1>1. PICK b, q : b = MyBucket(t) /\ q = queue[b] BY Zenon
<1>2. /\ b \in 1..Len(queue) /\ q \in Seq(Threads) /\ hashtable \in 1..hashtable
  BY <1>1, LockedBucket, Zenon
<1>3. queue \in Seq(Seq(Threads)) /\ DOMAIN queue = 1..Len(queue) BY DEF Inv, Types
<1>4. CASE FirstAmong(q, wanted) = {}
  <2>1. Finish(t, q, address) BY <1>1, <1>4, Zenon DEF DequeueFirst
  <2>2. queue' = Set(queue, b, q) /\ UNCHANGED <<address, tables, hashtable>> BY <1>1, <2>1, Zenon DEF Finish
  <2>3. queue' = queue
    <3>1. queue' = [queue EXCEPT ![b] = queue[b]] BY <1>1, <2>2, Zenon DEF Set
    <3> QED BY <1>3, <3>1
  <2> QED BY <2>2, <2>3, SameOrder, Zenon
<1>5. CASE FirstAmong(q, wanted) # {}
  <2>1. PICK i \in FirstAmong(q, wanted) : Finish(t, Removed(q, i), Set(address, q[i], Null))
    BY <1>1, <1>5, Zenon DEF DequeueFirst
  <2>2. PICK v, r : v = q[i] /\ r = Removed(q, i) BY Zenon
  <2>3. /\ queue' = Set(queue, b, r) /\ address' = Set(address, v, Null)
        /\ UNCHANGED <<tables, hashtable>>
    BY <1>1, <2>1, <2>2, Zenon DEF Finish
  <2>4. i \in 1..Len(q)
    <3>1. DOMAIN q = 1..Len(q) BY <1>2
    <3> QED BY <2>1, <3>1, Zenon DEF FirstAmong
  <2>5. v \in Threads /\ BucketIn(hashtable, address[v]) = b
    <3>1. v \in Threads BY <1>2, <2>2, <2>4
    <3> QED BY <1>1, <1>2, <2>2, <2>4, <3>1, Zenon DEF Inv, QueuesOK
  <2>6. PICK W, V, c : W = ThreadsAt(a) /\ V = {u \in Threads : address'[u] = a} /\ c = BucketIn(hashtable, a)
    BY Zenon
  <2>7. hashtable # None BY <1>2 DEF None
  <2>8. QueuedAt(a) = AllAmong(IF c = None THEN <<>> ELSE queue[c], W) BY <2>6, <2>7, QueuedBefore, Zenon
  <2>9. QueuedAt(a)' = AllAmong(IF c = None THEN <<>> ELSE queue'[c], V)
    <3>1. c = tables'[hashtable'].data[hash[a] % tables'[hashtable'].size]
      BY <2>3, <2>6, Zenon DEF BucketIn, Data, Size
    <3>2. hashtable' # None /\ V = {u \in Threads : address'[u] = a} BY <2>3, <2>6, <2>7, Zenon
    <3> QED BY <3>1, <3>2, Zenon DEF QueuedAt, QueueOf, Index, ThreadsAt
  <2>10. queue'[b] = r /\ \A x : x # b => queue'[x] = queue[x]
    <3>1. queue' = [queue EXCEPT ![b] = r] BY <2>3, Zenon DEF Set
    <3> QED BY <1>2, <1>3, <3>1
  <2>11. V = W \ {v}
    <3>1. a # Null /\ address \in [Threads -> Addresses \cup {Null}] BY TableAssumption, Zenon DEF Inv, Types
    <3>2. \A u \in Threads : address'[u] = IF u = v THEN Null ELSE address[u] BY <2>3, <3>1, Zenon DEF Set
    <3> QED BY <2>6, <3>1, <3>2, Zenon DEF ThreadsAt
  <2>12. CASE c = None
    BY <2>8, <2>9, <2>12, AllAmongEmpty, Zenon DEF KeepsOrder
  <2>13. CASE c # None /\ c # b
    <3>1. v \notin W BY <2>5, <2>6, <2>13, Zenon DEF ThreadsAt
    <3>2. V = W BY <2>11, <3>1, Zenon
    <3>3. QueuedAt(a)' = QueuedAt(a) BY <2>8, <2>9, <2>10, <2>13, <3>2, Zenon
    <3> QED BY <3>3, Zenon DEF KeepsOrder
  <2>14. CASE c # None /\ c = b
    <3>1. r \in Seq(Threads) /\ Omits(r, q, i)
      <4>1. \A j, k \in 1..Len(q) : q[j] = q[k] => j = k BY <1>1, <1>2, Zenon DEF Inv, QueuesOK
      <4> QED BY <1>2, <2>2, <2>4, <4>1, RemovedOnce, Zenon
    <3>2. AllAmong(r, V) = AllAmong(r, W)
      <4>1. \A j \in 1..Len(r) : r[j] # v BY <2>2, <3>1, Zenon DEF Omits
      <4>2. DOMAIN r = 1..Len(r) BY <3>1
      <4>3. \A j \in DOMAIN r : r[j] \in V <=> r[j] \in W BY <2>11, <4>1, <4>2, Zenon
      <4> QED BY <3>1, <4>3, AllAmongAgree, Zenon
    <3>3. QueuedAt(a) = AllAmong(q, W) /\ QueuedAt(a)' = AllAmong(r, W)
      BY <1>1, <2>8, <2>9, <2>10, <2>14, <3>2, Zenon
    <3>4. CASE v \notin W
      <4>1. AllAmong(r, W) = AllAmong(q, W) BY <1>2, <2>2, <2>4, <3>4, AllAmongRemoved, Zenon
      <4> QED BY <3>3, <4>1, Zenon DEF KeepsOrder
    <3>5. CASE v \in W
      <4>1. \E k \in 1..Len(AllAmong(q, W)) : AllAmong(r, W) = Removed(AllAmong(q, W), k)
        BY <1>2, <2>2, <2>4, <3>5, AllAmongRemoved, Zenon
      <4>2. DOMAIN AllAmong(q, W) = 1..Len(AllAmong(q, W))
        <5>1. AllAmong(q, W) \in Seq(Threads) BY <1>2, AllAmongType, Zenon
        <5> QED BY <5>1
      <4> QED BY <3>3, <4>1, <4>2, Zenon DEF KeepsOrder
    <3> QED BY <3>4, <3>5, Zenon
  <2> QED BY <2>12, <2>13, <2>14, Zenon
<1> QED BY <1>4, <1>5, Zenon

(* The threads of an address are gathered and requeued in their order. *)
LEMMA ResizeOrder ==
    ASSUME Inv, NEW t \in Threads, Resize(t), NEW a \in Addresses
    PROVE  KeepsOrder(a)
<1>1. PICK D, N, d, c : Requeues(D, N, d, c) BY ResizeRequeues, Zenon
<1>2. /\ pc[t] = "allLocked" /\ ~TableIsStale(t) /\ hashtable' = Len(tables') /\ UNCHANGED address
  BY Zenon DEF Resize
<1>3. /\ hashtable' = hashtable + 1 /\ hashtable \in Nat
      /\ tables'[hashtable'].size = N /\ tables'[hashtable'].data = d
      /\ Len(queue') = c /\ c \in Nat
  BY <1>1, <1>2, RequeuedState, Zenon
<1>4. hashtable \in 1..hashtable BY <1>2, AllAreLocked, Zenon
<1>5. PICK W, b, x : W = ThreadsAt(a) /\ b = BucketIn(hashtable, a) /\ x = d[hash[a] % N] BY Zenon
<1>6. D \in Seq(Threads) BY <1>1, Zenon DEF Requeues, GatheredOK
<1>7. QueuedAt(a) = AllAmong(D, W)
  <2>1. AllAmong(D, W) = IF b \in 1..Len(queue) THEN AllAmong(queue[b], W) ELSE <<>>
    BY <1>1, <1>5, Zenon DEF Requeues, GatheredOK
  <2>2. hashtable # None BY <1>4 DEF None
  <2>3. QueuedAt(a) = AllAmong(IF b = None THEN <<>> ELSE queue[b], W) BY <1>5, <2>2, QueuedBefore, Zenon
  <2>4. b \in 0..Len(queue)
    <3>1. hash[a] % Size(hashtable) \in Slots(hashtable) BY <1>4, Tables, Zenon DEF Inv
    <3> QED BY <1>4, <1>5, <3>1, Zenon DEF Inv, TablesOK, BucketIn
  <2>5. Len(queue) \in Nat BY DEF Inv, Types
  <2>6. b = None <=> b \notin 1..Len(queue) BY <2>4, <2>5 DEF None
  <2> QED BY <2>1, <2>3, <2>6, AllAmongEmpty, Zenon
<1>8. QueuedAt(a)' = AllAmong(IF x = None THEN <<>> ELSE queue'[x], W)
  <2>1. hashtable' # None /\ W = {u \in Threads : address'[u] = a}
    <3>1. hashtable' # None BY <1>3 DEF None
    <3> QED BY <1>2, <1>5, <3>1, Zenon DEF ThreadsAt
  <2>2. x = tables'[hashtable'].data[hash[a] % tables'[hashtable'].size] BY <1>3, <1>5, Zenon
  <2> QED BY <2>1, <2>2, Zenon DEF QueuedAt, QueueOf, Index, ThreadsAt
<1>9. CASE x = None
  <2>1. \A j \in DOMAIN D : D[j] \notin W
    <3> SUFFICES ASSUME NEW j \in 1..Len(D), D[j] \in W PROVE FALSE BY <1>6
    <3>1. address[D[j]] = a BY <1>5, Zenon DEF ThreadsAt
    <3>2. d[hash[address[D[j]]] % N] # None BY <1>1, Zenon DEF Requeues
    <3> QED BY <1>5, <1>9, <3>1, <3>2, Zenon
  <2>2. AllAmong(D, W) = <<>> BY <1>6, <2>1, AllAmongNone, Zenon
  <2>3. QueuedAt(a)' = AllAmong(<<>>, W) BY <1>8, <1>9, Zenon
  <2>4. AllAmong(<<>>, W) = <<>> BY AllAmongEmpty, Zenon
  <2> QED BY <1>7, <2>2, <2>3, <2>4, Zenon DEF KeepsOrder
<1>10. CASE x # None
  <2>1. PICK V : V = {u \in Threads : address[u] # Null /\ d[hash[address[u]] % N] = x} BY Zenon
  <2>2. x \in 1..c
    <3>1. hash[a] % N \in 0..(N - 1)
      <4>1. hash[a] \in Nat /\ N \in Nat \ {0} BY <1>1, TableAssumption, Zenon DEF Requeues
      <4> QED BY <4>1, Slot, Zenon
    <3>2. x \in 0..c BY <1>1, <1>5, <3>1, Zenon DEF Requeues, PartialData
    <3> QED BY <1>3, <1>10, <3>2 DEF None
  <2>3. queue'[x] = AllAmong(D, V) BY <1>1, <2>1, <2>2, Zenon DEF Requeues
  <2>4. V \cap W = W
    <3>1. a # Null BY TableAssumption
    <3> QED BY <1>5, <2>1, <3>1, Zenon DEF ThreadsAt
  <2>5. AllAmong(AllAmong(D, V), W) = AllAmong(D, V \cap W) BY <1>6, AllAmongTwice
  <2>6. QueuedAt(a)' = AllAmong(D, W) BY <1>8, <1>10, <2>3, <2>4, <2>5, Zenon
  <2> QED BY <1>7, <2>6, Zenon DEF KeepsOrder
<1> QED BY <1>9, <1>10, Zenon

(* ensureHashtable() and the making of a bucket queue nobody. *)
LEMMA EnsureOrder ==
    ASSUME Inv, Inv', NEW t \in Threads, NEW a \in Addresses,
           \/ \E l : EnsureHashtable(t, l) /\ UNCHANGED queue
           \/ \E i : EnsureBucket(t, i) /\ UNCHANGED hashtable /\ table[t] \in 1..hashtable /\ i \in Slots(table[t]),
           UNCHANGED address
    PROVE  KeepsOrder(a)
<1>1. hashtable = Len(tables) /\ hashtable \in Nat /\ queue \in Seq(Seq(Threads)) /\ Types' /\ TablesOK'
  BY DEF Inv, Types
<1>2. ASSUME NEW l, EnsureHashtable(t, l), UNCHANGED queue PROVE KeepsOrder(a)
  <2>1. hashtable' \in 1..Len(tables') /\ Grown /\ hashtable' # None
    BY <1>2, EnsureHashtableKeeps DEF None
  <2>2. hashtable # None => hashtable' = hashtable BY <1>2, Zenon DEF EnsureHashtable
  <2> QED BY <1>1, <1>2, <2>1, <2>2, GrownOrder, Zenon
<1>3. ASSUME NEW i, EnsureBucket(t, i), UNCHANGED hashtable, table[t] \in 1..hashtable, i \in Slots(table[t])
      PROVE  KeepsOrder(a)
  <2>1. Grown /\ hashtable' # None
    <3>1. UNCHANGED <<hashtable, address>> BY <1>3, Zenon
    <3>2. Grown BY <1>3, <3>1, EnsureBucketKeeps, Zenon
    <3> QED BY <1>1, <1>3, <3>2 DEF None
  <2>2. \A b \in 1..Len(queue) : queue'[b] = queue[b]
    <3>1. queue' = queue \/ queue' = Append(queue, <<>>) BY <1>3, Zenon DEF EnsureBucket
    <3>2. <<>> \in Seq(Threads) OBVIOUS
    <3>3. PICK e, S : e = <<>> /\ S = Seq(Threads) BY Zenon
    <3>4. queue \in Seq(S) /\ e \in S BY <1>1, <3>2, <3>3, Zenon
    <3>5. \A b \in 1..Len(queue) : Append(queue, e)[b] = queue[b] BY <3>4, AppendElements
    <3> QED BY <3>1, <3>3, <3>5, Zenon
  <2> QED BY <1>1, <1>3, <2>1, <2>2, GrownOrder, Zenon
<1> QED BY <1>2, <1>3, Zenon

(* Every step keeps the order. *)
LEMMA NextOrder ==
    ASSUME Inv, Inv', [Next]_vars, NEW a \in Addresses
    PROVE  KeepsOrder(a)
<1>1. CASE UNCHANGED vars
  <2>1. UNCHANGED <<tables, hashtable, queue, address>> BY <1>1, Zenon DEF vars
  <2> QED BY <2>1, SameOrder, Zenon
<1>2. ASSUME NEW t \in Threads,
             \/ Create(t) \/ Exit(t) \/ ForEach(t) \/ Check(t) \/ LockBucket(t)
             \/ LockNext(t) \/ LockAgain(t) \/ NoNeedToResize(t) \/ UnlockHashtable(t)
      PROVE  KeepsOrder(a)
  <2>1. UNCHANGED <<tables, hashtable, queue, address>>
    BY <1>2, Zenon DEF Create, Exit, ForEach, Check, LockBucket, LockNext, LockAgain, NoNeedToResize,
                UnlockHashtable
  <2> QED BY <2>1, SameOrder, Zenon
<1>3. ASSUME NEW t \in Threads, LoadEmpty(t) PROVE KeepsOrder(a)
  <2>1. /\ pc[t] = "load" /\ MyBucket(t) = None /\ UNCHANGED <<tables, hashtable, queue>>
        /\ address' = IF call[t] = "timeout" THEN Set(address, t, Null) ELSE address
    BY <1>3, Zenon DEF LoadEmpty
  <2>2. CASE call[t] = "timeout"
    <3>1. address[t] = Null BY <1>3, <2>1, <2>2, NoBucket, Zenon
    <3>2. address \in [Threads -> Addresses \cup {Null}] BY Zenon DEF Inv, Types
    <3>3. [address EXCEPT ![t] = Null] = address BY <3>1, <3>2, Zenon
    <3>4. UNCHANGED address BY <2>1, <2>2, <3>3, Zenon DEF Set
    <3> QED BY <2>1, <3>4, SameOrder, Zenon
  <2>3. CASE call[t] # "timeout" BY <2>1, <2>3, SameOrder, Zenon
  <2> QED BY <2>2, <2>3, Zenon
<1>4. ASSUME NEW t \in Threads,
             (\E x \in Addresses, c \in Calls : Call(t, x, c)) \/ Retry(t) \/ LockTable(t)
      PROVE  KeepsOrder(a)
  <2>1. UNCHANGED <<queue, address>> /\ \E l : EnsureHashtable(t, l)
    BY <1>4, Zenon DEF Call, Retry, LockTable
  <2> QED BY <2>1, EnsureOrder, Zenon
<1>5. ASSUME NEW t \in Threads, Load(t) PROVE KeepsOrder(a)
  <2>1. PICK k, i : k = table[t] /\ i = hash[arg[t]] % Size(k) BY Zenon
  <2>2. k \in 1..hashtable /\ arg[t] \in Addresses
    BY <1>5, <2>1, Zenon DEF Inv, Load, ThreadOK, CallOK, Calling
  <2>3. i \in Slots(k) BY <2>1, <2>2, Tables, Zenon DEF Inv
  <2>4. EnsureBucket(t, i) /\ UNCHANGED <<hashtable, address>> BY <1>5, <2>1, Zenon DEF Load, Index, Table, Size
  <2> QED BY <2>1, <2>2, <2>3, <2>4, EnsureOrder, Zenon
<1>6. ASSUME NEW t \in Threads, FillSlot(t) PROVE KeepsOrder(a)
  <2>1. PICK k, i : k = table[t] /\ i = NextSlot(t) BY Zenon
  <2>2. k \in 1..hashtable /\ i \in Slots(k) BY <1>6, <2>1, NextSlotIs, Zenon DEF FillSlot
  <2>3. EnsureBucket(t, i) /\ UNCHANGED <<hashtable, address>> BY <1>6, <2>1, Zenon DEF FillSlot
  <2> QED BY <2>1, <2>2, <2>3, EnsureOrder, Zenon
<1>7. ASSUME NEW t \in Threads, Dequeue(t) \/ DequeueSelf(t) PROVE KeepsOrder(a)
  BY <1>7, DequeueOrder, Zenon DEF Dequeue, DequeueSelf
<1>8. ASSUME NEW t \in Threads, Enqueue(t) \/ Resize(t) PROVE KeepsOrder(a)
  BY <1>8, EnqueueOrder, ResizeOrder, Zenon
<1> QED BY <1>1, <1>2, <1>3, <1>4, <1>5, <1>6, <1>7, <1>8, Zenon DEF Next, Calls

(* No step changes the order in which threads are queued at an address, a  *)
(* resize included: one comes last, or one leaves.                         *)
THEOREM TableKeepsOrder == Spec => OrderIsKept
<1>1. Inv /\ Inv' /\ [Next]_vars =>
          [\A a \in Addresses :
              \/ QueuedAt(a)' = QueuedAt(a)
              \/ \E t \in Threads : QueuedAt(a)' = Append(QueuedAt(a), t)
              \/ \E i \in DOMAIN QueuedAt(a) : QueuedAt(a)' = Removed(QueuedAt(a), i)]_vars
  BY NextOrder, Zenon DEF KeepsOrder
<1> QED BY <1>1, Invariance, PTL DEF Spec, OrderIsKept
==============================================================================
