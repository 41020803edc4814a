------------------------ MODULE ParkingLotTableSteps ------------------------
(***************************************************************************)
(* The invariant of the ParkingLot's hashtable, for any number of threads  *)
(* and addresses, any hash function and any load and growth factor, and that *)
(* every step but the resize keeps it.  Of the resize, that it gathers every *)
(* thread that has parked, in the order of the queues.                     *)
(***************************************************************************)
EXTENDS ParkingLotTable, QueueLemmas

PC == {"unborn", "idle", "load", "lock", "locked", "check", "lockTable", "fill", "lockAll",
       "allLocked", "unlockAll"}
Calls == {"enqueue", "unpark", "unparkOne", "timeout"}

(* Where a thread is in enqueue() or dequeue(), and in lockHashtable().    *)
Calling == {"load", "lock", "locked"}
LockingAll == {"lockAll", "allLocked", "unlockAll"}

(* The k-th table. *)
Size(k) == tables[k].size
Slots(k) == 0..(Size(k) - 1)
Data(k, i) == tables[k].data[i]

(* The bucket that it has for an address. *)
BucketIn(k, a) == Data(k, hash[a] % Size(k))

TableType == UNION {[size : {n}, data : [0..(n - 1) -> Nat]] : n \in Nat \ {0}}

Types ==
    /\ tables \in Seq(TableType) /\ hashtable = Len(tables)
    /\ queue \in Seq(Seq(Threads))
    /\ owner \in Seq(Threads \cup {Null}) /\ Len(owner) = Len(queue)
    /\ numThreads \in Int /\ currentNumThreads \in [Threads -> Int]
    /\ address \in [Threads -> Addresses \cup {Null}]
    /\ pc \in [Threads -> PC]
    /\ table \in [Threads -> Nat]
    /\ call \in [Threads -> Calls \cup {"none"}]
    /\ arg \in [Threads -> Addresses \cup {Null}]
    /\ buckets \in [Threads -> SUBSET Nat]

(* A table has no bucket twice.  One that was replaced is full, so that no *)
(* bucket is ever created in it; the current one has all buckets.          *)
TablesOK ==
    /\ \A k \in 1..hashtable :
          /\ \A i \in Slots(k) : Data(k, i) \in 0..Len(queue)
          /\ \A i, j \in Slots(k) : Data(k, i) = Data(k, j) /\ Data(k, i) # None => i = j
          /\ k # hashtable => \A i \in Slots(k) : Data(k, i) # None
    /\ \A b \in 1..Len(queue) :
          hashtable # None /\ \E i \in Slots(hashtable) : Data(hashtable, i) = b

(* Who is in a queue has parked at an address of that bucket, and is in it *)
(* once; who has parked is in a queue.                                     *)
QueuesOK ==
    /\ \A b \in 1..Len(queue) : \A i \in 1..Len(queue[b]) :
          /\ address[queue[b][i]] # Null
          /\ BucketIn(hashtable, address[queue[b][i]]) = b
    /\ \A b \in 1..Len(queue) : \A i, j \in 1..Len(queue[b]) : queue[b][i] = queue[b][j] => i = j
    /\ \A u \in Threads : address[u] # Null =>
          \E b \in 1..Len(queue) : Contains(queue[b], u)

(* lockHashtable() has collected the buckets of the slots from n on. *)
HasCollected(t, n) ==
    /\ \A i \in n..(Size(table[t]) - 1) : Data(table[t], i) # None
    /\ buckets[t] = {Data(table[t], i) : i \in n..(Size(table[t]) - 1)}

Collecting(t) == \E n \in 1..Size(table[t]) : HasCollected(t, n)

(* What a thread knows at each place. *)
CallOK(t) ==
    /\ pc[t] \in Calling => arg[t] \in Addresses /\ call[t] \in Calls
    /\ pc[t] \in Calling /\ call[t] = "enqueue" => address[t] = Null
    /\ pc[t] \in Calling /\ call[t] = "timeout" => address[t] \in {Null, arg[t]}
    /\ pc[t] \in {"lock", "locked"} => BucketIn(table[t], arg[t]) # None

(* The buckets it has locked. *)
LocksOK(t) ==
    /\ pc[t] \notin LockingAll \cup {"locked"} => Owned(t) = {}
    /\ pc[t] = "locked" => Owned(t) = {BucketIn(table[t], arg[t])}
    /\ pc[t] = "lockAll" => /\ Owned(t) \subseteq buckets[t] /\ Owned(t) # buckets[t]
                            /\ \A b \in Owned(t), c \in buckets[t] \ Owned(t) : b < c
    /\ pc[t] \in {"allLocked", "unlockAll"} => Owned(t) = buckets[t]

ThreadOK(t) ==
    /\ pc[t] \in Calling \cup LockingAll \cup {"fill"} => table[t] \in 1..hashtable
    /\ CallOK(t)
    /\ pc[t] = "fill" => Collecting(t)
    /\ pc[t] \in LockingAll => HasCollected(t, 0)
    /\ pc[t] \notin LockingAll \cup {"fill"} => buckets[t] = {}
    /\ LocksOK(t)

Inv == Types /\ TablesOK /\ QueuesOK /\ \A t \in Threads : ThreadOK(t)

-----------------------------------------------------------------------------
(* What a table is. *)
LEMMA TableShape ==
    ASSUME NEW tab \in TableType
    PROVE  /\ tab.size \in Nat \ {0}
           /\ tab.data \in [0..(tab.size - 1) -> Nat]
           /\ tab = [size |-> tab.size, data |-> tab.data]
<1>1. PICK n \in Nat \ {0} : tab \in [size : {n}, data : [0..(n - 1) -> Nat]]
  BY Zenon DEF TableType
<1> QED BY <1>1, Zenon

(* What makes a table. *)
LEMMA IsTable ==
    ASSUME NEW n \in Nat \ {0}, NEW d \in [0..(n - 1) -> Nat]
    PROVE  [size |-> n, data |-> d] \in TableType
BY DEF TableType

(* Every address has a slot. *)
LEMMA Slot ==
    ASSUME NEW n \in Nat, NEW m \in Nat \ {0}
    PROVE  n % m \in 0..(m - 1)
OBVIOUS

(* Every table there is has its shape, and a slot for every address. *)
LEMMA Tables ==
    ASSUME Types, NEW k \in 1..hashtable
    PROVE  /\ tables[k] \in TableType
           /\ Size(k) \in Nat \ {0} /\ tables[k].data \in [Slots(k) -> Nat]
           /\ tables[k] = [size |-> Size(k), data |-> tables[k].data]
           /\ \A a \in Addresses : hash[a] % Size(k) \in Slots(k)
<1>1. tables[k] \in TableType BY DEF Types
<1>2. /\ Size(k) \in Nat \ {0} /\ tables[k].data \in [Slots(k) -> Nat]
      /\ tables[k] = [size |-> Size(k), data |-> tables[k].data]
  BY <1>1, TableShape, Zenon DEF Size, Slots
<1>3. ASSUME NEW a \in Addresses PROVE hash[a] % Size(k) \in Slots(k)
  <2>1. hash[a] \in Nat BY TableAssumption, Zenon
  <2> QED BY <1>2, <2>1, Slot, Zenon DEF Slots
<1> QED BY <1>1, <1>2, <1>3, Zenon

(* A set of numbers has a smallest one. *)
LEMMA SmallestIs ==
    ASSUME NEW S \in SUBSET Nat, S # {}
    PROVE  Smallest(S) \in S /\ \A c \in S : Smallest(S) <= c
<1>1. \E b \in S : \A c \in S : b <= c
  <2> DEFINE T == {n \in Nat : \A c \in S : n <= c}
  <2> SUFFICES ASSUME \A b \in S : b \notin T PROVE FALSE BY Zenon
  <2>1. 0 \in T OBVIOUS
  <2>2. ASSUME NEW n \in Nat, n \in T PROVE n + 1 \in T
    <3>1. n \notin S BY <2>2, Zenon
    <3> QED BY <2>2, <3>1
  <2>3. Nat \subseteq T
    <3> HIDE DEF T
    <3> QED BY <2>1, <2>2, SetInduction, Zenon
  <2>4. PICK b \in S : TRUE BY Zenon
  <2>5. b \in T BY <2>3, Zenon
  <2> QED BY <2>5, Zenon
<1> QED BY <1>1, Zenon DEF Smallest

(* A set of numbers that has a bound has a largest one. *)
LEMMA LargestIs ==
    ASSUME NEW n \in Nat, NEW S \in SUBSET (0..n), S # {}
    PROVE  Largest(S) \in S /\ \A c \in S : c <= Largest(S)
<1> DEFINE R == {n - b : b \in S}
<1>1. R \in SUBSET Nat /\ R # {}
  <2>1. \A b \in S : n - b \in Nat OBVIOUS
  <2>2. PICK b \in S : TRUE BY Zenon
  <2>3. n - b \in R BY Zenon
  <2> QED BY <2>1, <2>3, Zenon
<1>2. Smallest(R) \in R /\ \A c \in R : Smallest(R) <= c
  <2> HIDE DEF R
  <2> QED BY <1>1, SmallestIs, Zenon
<1>3. PICK b \in S : Smallest(R) = n - b BY <1>2, Zenon
<1>4. \A c \in S : c <= b
  <2> SUFFICES ASSUME NEW c \in S PROVE c <= b BY Zenon
  <2>1. n - c \in R BY Zenon
  <2>2. n - b <= n - c
    <3> HIDE DEF R
    <3> QED BY <1>2, <1>3, <2>1, Zenon
  <2> QED BY <2>2
<1> HIDE DEF R
<1>5. \E x \in S : \A c \in S : c <= x BY <1>4, Zenon
<1> QED BY <1>5, Zenon DEF Largest

(* No more numbers than there are places have each a place of their own. *)
LEMMA PigeonHole ==
    ASSUME NEW m \in Nat, NEW n \in Nat, NEW f \in [1..m -> 1..n],
           \A i, j \in 1..m : f[i] = f[j] => i = j
    PROVE  m <= n
<1> DEFINE T == {x \in Nat : \A y \in Nat : \A g \in [1..y -> 1..x] :
                    (\A i, j \in 1..y : g[i] = g[j] => i = j) => y <= x}
<1>1. 0 \in T
  <2> SUFFICES ASSUME NEW y \in Nat, NEW g \in [1..y -> 1..0] PROVE y <= 0 BY Zenon
  <2> QED OBVIOUS
<1>2. ASSUME NEW x \in Nat, x \in T PROVE x + 1 \in T
  <2> SUFFICES ASSUME NEW y \in Nat, NEW g \in [1..y -> 1..(x + 1)],
                      \A i, j \in 1..y : g[i] = g[j] => i = j, y # 0
               PROVE  y <= x + 1
    OBVIOUS
  <2>1. PICK h : h = [i \in 1..(y - 1) |-> IF g[i] = x + 1 THEN g[y] ELSE g[i]] BY Zenon
  <2>2. y - 1 \in Nat /\ y \in 1..y /\ \A i \in 1..(y - 1) : i \in 1..y /\ i # y OBVIOUS
  <2>3. h \in [1..(y - 1) -> 1..x] BY <2>1, <2>2
  <2>4. \A i, j \in 1..(y - 1) : h[i] = h[j] => i = j BY <2>1, <2>2, Zenon
  <2>5. y - 1 <= x BY <1>2, <2>2, <2>3, <2>4, Zenon
  <2> QED BY <2>5
<1>3. Nat \subseteq T
  <2> HIDE DEF T
  <2> QED BY <1>1, <1>2, SetInduction, Zenon
<1>4. n \in T BY <1>3, Zenon
<1> QED BY <1>4, Zenon

-----------------------------------------------------------------------------
(* The invariant holds initially. *)
LEMMA Start == Init => Inv
<1> SUFFICES ASSUME Init PROVE Inv BY Zenon
<1>1. Types BY DEF Init, Types, None, PC
<1>2. TablesOK BY DEF Init, TablesOK, None
<1>3. QueuesOK BY DEF Init, QueuesOK
<1>4. ASSUME NEW t \in Threads PROVE ThreadOK(t)
  BY DEF Init, ThreadOK, CallOK, LocksOK, Owned, Calling, LockingAll
<1> QED BY <1>1, <1>2, <1>3, <1>4, Zenon DEF Inv

-----------------------------------------------------------------------------
(* What the others see of a step: a table that was there keeps its size    *)
(* and its buckets, and maybe gets new ones.                               *)
Grown ==
    /\ Len(tables) <= Len(tables')
    /\ \A k \in 1..Len(tables) :
          /\ tables'[k].size = tables[k].size
          /\ \A i \in Slots(k) : Data(k, i) # None => tables'[k].data[i] = Data(k, i)

(* A step that is not u's leaves its locals and its locks alone; it may    *)
(* take u off its queue.                                                   *)
Untouched(u) ==
    /\ pc'[u] = pc[u] /\ table'[u] = table[u] /\ call'[u] = call[u] /\ arg'[u] = arg[u]
    /\ buckets'[u] = buckets[u]
    /\ address'[u] \in {address[u], Null}
    /\ Owned(u)' = Owned(u)

(* What a thread knows stays true when others take a step. *)
LEMMA OthersKeep ==
    ASSUME Types, Types', NEW u \in Threads, ThreadOK(u), Grown, Untouched(u)
    PROVE  ThreadOK(u)'
<1>1. hashtable = Len(tables) /\ hashtable' = Len(tables') /\ hashtable \in Nat /\ hashtable' \in Nat
  BY DEF Types
<1>2. pc'[u] \in Calling \cup LockingAll \cup {"fill"} => table'[u] \in 1..hashtable'
  BY <1>1 DEF Grown, Untouched, ThreadOK
<1> DEFINE k == table[u]
<1>3. ASSUME k \in 1..hashtable
      PROVE  /\ Size(k)' = Size(k) /\ Size(k) \in Nat \ {0}
             /\ \A i \in Slots(k) : Data(k, i) # None => tables'[k].data[i] = Data(k, i)
             /\ table'[u] = k
  BY <1>1, <1>3, Tables, Zenon DEF Grown, Untouched, Size
<1>4. ASSUME k \in 1..hashtable, arg[u] \in Addresses, BucketIn(k, arg[u]) # None
      PROVE  BucketIn(table[u], arg[u])' = BucketIn(k, arg[u])
  <2>1. hash[arg[u]] % Size(k) \in Slots(k) BY <1>4, Tables, Zenon
  <2> QED BY <1>3, <1>4, <2>1, Zenon DEF BucketIn, Data, Untouched
<1>5. CallOK(u)'
  BY <1>4, Zenon DEF CallOK, ThreadOK, Untouched, Calling
<1>6. ASSUME NEW n \in Nat, k \in 1..hashtable, HasCollected(u, n)
      PROVE  HasCollected(u, n)'
  BY <1>3, <1>6 DEF HasCollected, Size, Slots, Data, Untouched
<1>7. pc'[u] = "fill" => Collecting(u)'
  BY <1>3, <1>6 DEF ThreadOK, Collecting, Size, Untouched
<1>8. pc'[u] \in LockingAll => HasCollected(u, 0)'
  BY <1>6, Zenon DEF ThreadOK, Untouched
<1>9. pc'[u] \notin LockingAll \cup {"fill"} => buckets'[u] = {}
  BY Zenon DEF ThreadOK, Untouched
<1>10. LocksOK(u)'
  BY <1>4, Zenon DEF LocksOK, CallOK, ThreadOK, Untouched, Calling, LockingAll
<1> QED BY <1>2, <1>5, <1>7, <1>8, <1>9, <1>10, Zenon DEF ThreadOK

(* So it is enough to look at the tables, the queues and the one who took  *)
(* the step.                                                               *)
LEMMA StepKeeps ==
    ASSUME Inv, NEW t \in Threads, Types', TablesOK', QueuesOK', Grown, ThreadOK(t)',
           \A u \in Threads \ {t} : Untouched(u)
    PROVE  Inv'
<1>1. ASSUME NEW u \in Threads, u # t PROVE ThreadOK(u)'
  <2>1. Types /\ ThreadOK(u) /\ Untouched(u) BY <1>1, Zenon DEF Inv
  <2> QED BY <2>1, OthersKeep, Zenon
<1>2. \A u \in Threads : ThreadOK(u)' BY <1>1, Zenon
<1> QED BY <1>2, Zenon DEF Inv

(* A step that leaves the tables, the queues and the addresses alone. *)
LEMMA SameTables ==
    ASSUME Inv, UNCHANGED <<tables, hashtable, queue, address>>
    PROVE  TablesOK' /\ QueuesOK' /\ Grown
<1>1. Len(tables) \in Nat BY DEF Inv, Types
<1>2. TablesOK'
  <2>1. TablesOK BY Zenon DEF Inv
  <2> QED BY <2>1, Zenon DEF TablesOK, Slots, Size, Data
<1>3. QueuesOK'
  <2>1. QueuesOK BY Zenon DEF Inv
  <2> QED BY <2>1 DEF QueuesOK, BucketIn, Size, Data
<1>4. Grown BY <1>1 DEF Grown, Data
<1> QED BY <1>2, <1>3, <1>4, Zenon

-----------------------------------------------------------------------------
(* ensureHashtable() finds a table or makes the first one, when nothing    *)
(* has been parked yet.                                                    *)
LEMMA EnsureHashtableKeeps ==
    ASSUME Inv, NEW t \in Threads, NEW label, EnsureHashtable(t, label), UNCHANGED <<queue, address>>
    PROVE  /\ tables' \in Seq(TableType) /\ hashtable' = Len(tables') /\ hashtable' \in 1..Len(tables')
           /\ TablesOK' /\ QueuesOK' /\ Grown
<1>1. tables \in Seq(TableType) /\ hashtable = Len(tables) /\ Len(tables) \in Nat /\ Len(queue) \in Nat
  BY DEF Inv, Types
<1>2. CASE hashtable # None
  <2>1. UNCHANGED <<tables, hashtable>> BY <1>2, Zenon DEF EnsureHashtable
  <2>2. TablesOK' /\ QueuesOK' /\ Grown BY <2>1, SameTables, Zenon
  <2> QED BY <1>1, <1>2, <2>1, <2>2 DEF None
<1>3. CASE hashtable = None
  <2> DEFINE tab == [size |-> maxLoadFactor, data |-> [i \in 0..(maxLoadFactor - 1) |-> None]]
  <2>1. tables' = Append(tables, tab) /\ hashtable' = Len(tables')
    BY <1>3, Zenon DEF EnsureHashtable
  <2>2. tab \in TableType
    BY TableAssumption, IsTable, Zenon DEF None
  <2>3. tab.size = maxLoadFactor /\ \A i \in 0..(maxLoadFactor - 1) : tab.data[i] = None
    BY Zenon
  <2> HIDE DEF tab
  <2>4. tables' \in Seq(TableType) /\ Len(tables') = 1 /\ tables'[1] = tab
    <3>1. /\ tables' \in Seq(TableType) /\ Len(tables') = Len(tables) + 1
          /\ tables'[Len(tables) + 1] = tab
      BY <1>1, <2>1, <2>2, AppendElements, Zenon
    <3>2. Len(tables) = 0 BY <1>1, <1>3, Zenon DEF None
    <3> QED BY <3>1, <3>2
  <2>5. Len(queue) = 0
    BY <1>1, <1>3 DEF Inv, TablesOK
  <2>6. TablesOK'
    BY <2>1, <2>3, <2>4, <2>5 DEF TablesOK, Size, Slots, Data, None
  <2>7. QueuesOK'
    BY <2>5 DEF Inv, QueuesOK
  <2>8. Grown
    BY <1>1, <1>3, <2>4 DEF Grown, None
  <2> QED BY <2>1, <2>4, <2>6, <2>7, <2>8
<1> QED BY <1>2, <1>3, Zenon

(* A slot without a bucket is one of the current table; it gets a new one. *)
LEMMA EnsureBucketKeeps ==
    ASSUME Inv, NEW t \in Threads, table[t] \in 1..hashtable, NEW i \in Slots(table[t]),
           EnsureBucket(t, i), UNCHANGED <<hashtable, address>>
    PROVE  /\ tables' \in Seq(TableType) /\ Len(tables') = Len(tables)
           /\ queue' \in Seq(Seq(Threads))
           /\ owner' \in Seq(Threads \cup {Null}) /\ Len(owner') = Len(queue')
           /\ tables'[table[t]].data[i] \in 1..Len(queue')
           /\ TablesOK' /\ QueuesOK' /\ Grown
           /\ \A u \in Threads : Owned(u)' = Owned(u)
<1>1. PICK k : k = table[t] BY Zenon
<1>2. /\ tables \in Seq(TableType) /\ hashtable = Len(tables) /\ Len(tables) \in Nat
      /\ queue \in Seq(Seq(Threads)) /\ Len(queue) \in Nat
      /\ owner \in Seq(Threads \cup {Null}) /\ Len(owner) = Len(queue)
      /\ k \in 1..hashtable /\ i \in Slots(k)
  BY <1>1 DEF Inv, Types
<1>3. CASE Data(k, i) # None
  <2>1. UNCHANGED <<tables, queue, owner>> BY <1>1, <1>3, Zenon DEF EnsureBucket, Table, Data
  <2>2. TablesOK' /\ QueuesOK' /\ Grown BY <2>1, SameTables, Zenon
  <2>3. Data(k, i) \in 1..Len(queue) BY <1>2, <1>3 DEF Inv, TablesOK, None
  <2>4. \A u \in Threads : Owned(u)' = Owned(u) BY <2>1, Zenon DEF Owned
  <2> QED BY <1>1, <1>2, <2>1, <2>2, <2>3, <2>4, Zenon DEF Data
<1>4. CASE Data(k, i) = None
  <2> DEFINE b == Len(queue) + 1
             d == [tables[k].data EXCEPT ![i] = b]
             tab == [size |-> Size(k), data |-> d]
  <2>1. /\ queue' = Append(queue, <<>>) /\ owner' = Append(owner, Null)
        /\ tables' = [tables EXCEPT ![k].data[i] = Len(queue')]
    BY <1>1, <1>4, Zenon DEF EnsureBucket, Table, Data
  <2>2. queue' \in Seq(Seq(Threads)) /\ Len(queue') = b /\ queue'[b] = <<>>
        /\ \A c \in 1..Len(queue) : queue'[c] = queue[c]
    BY <1>2, <2>1
  <2>3. owner' \in Seq(Threads \cup {Null}) /\ Len(owner') = b /\ owner'[b] = Null
        /\ \A c \in 1..Len(queue) : owner'[c] = owner[c]
    BY <1>2, <2>1
  <2>4. /\ Size(k) \in Nat \ {0} /\ tables[k].data \in [Slots(k) -> Nat]
        /\ tables[k] = [size |-> Size(k), data |-> tables[k].data]
    BY <1>2, Tables, Zenon DEF Inv
  <2>5. d \in [Slots(k) -> Nat] /\ d[i] = b /\ \A j \in Slots(k) : j # i => d[j] = Data(k, j)
    BY <1>2, <2>4 DEF Data
  <2>6. tab \in TableType /\ tab.size = Size(k) /\ tab.data = d
    <3> HIDE DEF d
    <3> QED BY <2>4, <2>5, IsTable, Zenon DEF Slots
  <2>7. tables' = [tables EXCEPT ![k] = tab]
    <3>1. PICK n, f : tables[k] = [size |-> n, data |-> f] /\ n = Size(k) /\ f = tables[k].data
      BY <2>4, Zenon
    <3>2. [[size |-> n, data |-> f] EXCEPT !.data[i] = b] = [size |-> n, data |-> [f EXCEPT ![i] = b]]
      OBVIOUS
    <3>3. [tables[k] EXCEPT !.data[i] = b] = tab BY <3>1, <3>2, Zenon DEF d
    <3> HIDE DEF tab
    <3> QED BY <2>1, <2>2, <3>3, Zenon
  <2> HIDE DEF tab, d
  <2>8. /\ tables' \in Seq(TableType) /\ Len(tables') = Len(tables) /\ tables'[k] = tab
        /\ \A j \in 1..Len(tables) : j # k => tables'[j] = tables[j]
    BY <1>2, <2>6, <2>7
  <2>9. k = hashtable BY <1>2, <1>4, Zenon DEF Inv, TablesOK
  <2>10. /\ \A j \in 1..hashtable : tables'[j].size = Size(j)
         /\ \A j \in 1..hashtable : \A s \in Slots(j) :
                tables'[j].data[s] = IF j = k /\ s = i THEN b ELSE Data(j, s)
    BY <1>2, <2>5, <2>6, <2>8, Zenon DEF Size, Data
  <2> DEFINE D(j, s) == tables'[j].data[s]
  <2>11. TablesOK'
    <3>1. ASSUME NEW j \in 1..hashtable, NEW s \in Slots(j) PROVE D(j, s) \in 0..b
      <4>1. Data(j, s) \in 0..Len(queue) BY Zenon DEF Inv, TablesOK
      <4>2. Len(queue) \in Nat BY <1>2, Zenon
      <4>3. D(j, s) = b \/ D(j, s) = Data(j, s) BY <2>10, Zenon
      <4> QED BY <4>1, <4>2, <4>3
    <3>2. ASSUME NEW j \in 1..hashtable, NEW r \in Slots(j), NEW s \in Slots(j),
                 D(j, r) = D(j, s), D(j, r) # None
          PROVE  r = s
      BY <1>2, <2>10, <3>2 DEF Inv, TablesOK
    <3>3. ASSUME NEW j \in 1..hashtable, j # hashtable, NEW s \in Slots(j) PROVE D(j, s) # None
      BY <2>9, <2>10, <3>3 DEF Inv, TablesOK
    <3>4. ASSUME NEW c \in 1..b PROVE \E s \in Slots(hashtable) : D(hashtable, s) = c
      <4>1. CASE c = b BY <1>2, <2>9, <2>10, <4>1, Zenon
      <4>2. CASE c # b
        <5>1. c \in 1..Len(queue)
          <6>1. Len(queue) \in Nat BY <1>2, Zenon
          <6> QED BY <4>2, <6>1
        <5>2. PICK s \in Slots(hashtable) : Data(hashtable, s) = c BY <5>1, Zenon DEF Inv, TablesOK
        <5>3. s # i BY <1>4, <2>9, <5>1, <5>2 DEF None
        <5>4. hashtable \in 1..hashtable BY <1>2
        <5>5. D(hashtable, s) = c BY <2>10, <5>2, <5>3, <5>4, Zenon
        <5> QED BY <5>5, Zenon
      <4> QED BY <4>1, <4>2, Zenon
    <3>5. \A j \in 1..hashtable : tables'[j].size = Size(j) BY <2>10, Zenon
    <3>6. hashtable # None /\ hashtable \in 1..hashtable BY <1>2 DEF None
    <3>7. Len(queue') = b BY <2>2, Zenon
    <3> HIDE DEF b
    <3> QED BY <3>1, <3>2, <3>3, <3>4, <3>5, <3>6, <3>7 DEF TablesOK, Slots, Size, Data
  <2>12. QueuesOK'
    <3>1. ASSUME NEW u \in Threads, NEW c \in 1..Len(queue), address[u] # Null,
                 BucketIn(hashtable, address[u]) = c
          PROVE  BucketIn(hashtable, address[u])' = c
      <4>1. address[u] \in Addresses BY <3>1, Zenon DEF Inv, Types
      <4>2. hash[address[u]] % Size(k) \in Slots(k) BY <1>2, <4>1, Tables, Zenon DEF Inv
      <4>3. Data(k, hash[address[u]] % Size(k)) = c BY <2>9, <3>1, Zenon DEF BucketIn
      <4>4. c # None BY DEF None
      <4>5. hash[address[u]] % Size(k) # i BY <1>4, <4>3, <4>4, Zenon
      <4>6. D(k, hash[address[u]] % Size(k)) = c BY <1>2, <2>10, <4>2, <4>3, <4>5, Zenon
      <4>7. D(k, hash[address[u]] % tables'[k].size) = c BY <1>2, <2>10, <4>6, Zenon
      <4> QED BY <2>9, <4>7, Zenon DEF BucketIn, Data, Size
    <3>2. ASSUME NEW c \in 1..b PROVE c = b \/ (c \in 1..Len(queue) /\ queue'[c] = queue[c])
      <4>1. Len(queue) \in Nat BY <1>2
      <4>2. c = b \/ c \in 1..Len(queue) BY <4>1
      <4> QED BY <2>2, <4>2, Zenon
    <3>3. ASSUME NEW c \in 1..b, NEW j \in 1..Len(queue'[c]), NEW u, u = queue'[c][j]
          PROVE  address[u] # Null /\ BucketIn(hashtable, address[u])' = c
      <4>1. c # b BY <2>2
      <4>2. c \in 1..Len(queue) /\ queue'[c] = queue[c] BY <3>2, <4>1, Zenon
      <4>3. u \in Threads BY <1>2, <3>3, <4>2
      <4>4. address[u] # Null /\ BucketIn(hashtable, address[u]) = c
        BY <3>3, <4>2, Zenon DEF Inv, QueuesOK
      <4> QED BY <3>1, <4>2, <4>3, <4>4, Zenon
    <3>4. ASSUME NEW c \in 1..b, NEW j \in 1..Len(queue'[c]), NEW l \in 1..Len(queue'[c]),
                 queue'[c][j] = queue'[c][l]
          PROVE  j = l
      <4>1. c # b BY <2>2
      <4> QED BY <3>2, <3>4, <4>1, Zenon DEF Inv, QueuesOK
    <3>5. ASSUME NEW u \in Threads, address[u] # Null
          PROVE  \E c \in 1..b : Contains(queue'[c], u)
      <4>1. PICK c \in 1..Len(queue) : Contains(queue[c], u) BY <3>5, Zenon DEF Inv, QueuesOK
      <4> QED BY <1>2, <2>2, <4>1
    <3>6. Len(queue') = b BY <2>2
    <3> HIDE DEF b
    <3> QED BY <3>3, <3>4, <3>5, <3>6 DEF QueuesOK, BucketIn, Data, Size
  <2>13. Grown
    <3>1. \A j \in 1..Len(tables) : \A s \in Slots(j) :
              Data(j, s) # None => tables'[j].data[s] = Data(j, s)
      BY <1>2, <1>4, <2>10, Zenon
    <3>2. \A j \in 1..Len(tables) : tables'[j].size = tables[j].size
      BY <1>2, <2>10, Zenon DEF Size
    <3>3. Len(tables) <= Len(tables') BY <1>2, <2>8
    <3> QED BY <3>1, <3>2, <3>3, Zenon DEF Grown
  <2>14. ASSUME NEW u \in Threads PROVE Owned(u)' = Owned(u)
    <3>1. DOMAIN owner = 1..Len(queue) /\ DOMAIN owner' = 1..b BY <1>2, <2>3
    <3>2. Null # u BY TableAssumption, Zenon
    <3> QED BY <1>2, <2>3, <3>1, <3>2 DEF Owned
  <2> QED BY <1>1, <1>2, <2>2, <2>3, <2>5, <2>6, <2>8, <2>11, <2>12, <2>13, <2>14
<1> QED BY <1>3, <1>4, Zenon

-----------------------------------------------------------------------------
(* Locks *)

(* The bucket that a call looks up. *)
LEMMA MyBucketIs ==
    ASSUME NEW t
    PROVE  MyBucket(t) = BucketIn(table[t], arg[t])
BY Zenon DEF MyBucket, Table, Index, BucketIn, Data, Size

(* The bucket to lock, or that is locked, is there. *)
LEMMA MyBucketExists ==
    ASSUME Inv, NEW t \in Threads, pc[t] \in {"lock", "locked"}
    PROVE  MyBucket(t) \in 1..Len(queue)
<1>1. table[t] \in 1..hashtable /\ arg[t] \in Addresses /\ MyBucket(t) # None
  BY MyBucketIs, Zenon DEF Inv, ThreadOK, CallOK, Calling
<1>2. PICK k : k = table[t] BY Zenon
<1>3. hash[arg[t]] % Size(k) \in Slots(k) BY <1>1, <1>2, Tables, Zenon DEF Inv
<1>4. Data(k, hash[arg[t]] % Size(k)) \in 0..Len(queue)
  BY <1>1, <1>2, <1>3, Zenon DEF Inv, TablesOK
<1>5. Len(queue) \in Nat BY DEF Inv, Types
<1> QED BY <1>1, <1>2, <1>4, <1>5, MyBucketIs DEF BucketIn, None

(* Locking a bucket. *)
LEMMA LockOne ==
    ASSUME Types, NEW t \in Threads, NEW b \in 1..Len(queue), owner[b] = Null, owner' = Set(owner, b, t)
    PROVE  /\ owner' \in Seq(Threads \cup {Null}) /\ Len(owner') = Len(owner)
           /\ Owned(t)' = Owned(t) \cup {b}
           /\ \A u \in Threads \ {t} : Owned(u)' = Owned(u)
<1>1. owner \in Seq(Threads \cup {Null}) /\ b \in DOMAIN owner /\ DOMAIN owner' = DOMAIN owner
  BY DEF Types, Set
<1>2. owner' \in Seq(Threads \cup {Null}) /\ Len(owner') = Len(owner) BY <1>1 DEF Set
<1>3. owner'[b] = t /\ \A c \in DOMAIN owner : c # b => owner'[c] = owner[c] BY <1>1, Zenon DEF Set
<1>4. Null \notin Threads BY TableAssumption, Zenon
<1> QED BY <1>1, <1>2, <1>3, <1>4, Zenon DEF Owned

(* Unlocking the only bucket one has locked. *)
LEMMA UnlockOne ==
    ASSUME Types, NEW t \in Threads, NEW b \in 1..Len(queue), Owned(t) = {b}, owner' = Set(owner, b, Null)
    PROVE  /\ owner' \in Seq(Threads \cup {Null}) /\ Len(owner') = Len(owner)
           /\ Owned(t)' = {}
           /\ \A u \in Threads \ {t} : Owned(u)' = Owned(u)
<1>1. owner \in Seq(Threads \cup {Null}) /\ b \in DOMAIN owner /\ DOMAIN owner' = DOMAIN owner
  BY DEF Types, Set
<1>2. owner' \in Seq(Threads \cup {Null}) /\ Len(owner') = Len(owner) BY <1>1 DEF Set
<1>3. owner'[b] = Null /\ \A c \in DOMAIN owner : c # b => owner'[c] = owner[c] BY <1>1, Zenon DEF Set
<1>4. Null \notin Threads BY TableAssumption, Zenon
<1>5. owner[b] = t BY Zenon DEF Owned
<1>6. Owned(t)' = {} BY <1>1, <1>3, <1>4, Zenon DEF Owned
<1>7. ASSUME NEW u \in Threads, u # t PROVE Owned(u)' = Owned(u)
  BY <1>1, <1>3, <1>4, <1>5, <1>7, Zenon DEF Owned
<1> QED BY <1>2, <1>6, <1>7, Zenon

(* Unlocking all that lockHashtable() has locked. *)
LEMMA UnlockAll ==
    ASSUME Types, NEW t \in Threads, Owned(t) = buckets[t], owner' = Unlocked(t)
    PROVE  /\ owner' \in Seq(Threads \cup {Null}) /\ Len(owner') = Len(owner)
           /\ Owned(t)' = {}
           /\ \A u \in Threads \ {t} : Owned(u)' = Owned(u)
<1>1. owner \in Seq(Threads \cup {Null}) /\ DOMAIN owner' = DOMAIN owner
  BY Zenon DEF Types, Unlocked
<1>2. \A c \in DOMAIN owner : owner'[c] = IF c \in buckets[t] THEN Null ELSE owner[c]
  BY Zenon DEF Unlocked
<1>3. owner' \in Seq(Threads \cup {Null}) /\ Len(owner') = Len(owner) BY <1>1 DEF Unlocked
<1>4. Null \notin Threads BY TableAssumption, Zenon
<1>5. \A c \in DOMAIN owner : c \in buckets[t] <=> owner[c] = t BY Zenon DEF Owned
<1>6. Owned(t)' = {} BY <1>1, <1>2, <1>4, <1>5, Zenon DEF Owned
<1>7. ASSUME NEW u \in Threads, u # t PROVE Owned(u)' = Owned(u)
  BY <1>1, <1>2, <1>4, <1>5, <1>7, Zenon DEF Owned
<1> QED BY <1>3, <1>6, <1>7, Zenon

-----------------------------------------------------------------------------
(* A thread that is in none of the calls has no locks and no buckets. *)
LEMMA Outside ==
    ASSUME NEW t, pc[t] \notin Calling \cup LockingAll \cup {"fill"}
    PROVE  ThreadOK(t) <=> buckets[t] = {} /\ Owned(t) = {}
BY Zenon DEF ThreadOK, CallOK, LocksOK, Calling, LockingAll

(* What a call leaves behind when it returns. *)
LEMMA Returned ==
    ASSUME Types, NEW t \in Threads, Return(t)
    PROVE  /\ pc' \in [Threads -> PC] /\ table' \in [Threads -> Nat]
           /\ call' \in [Threads -> Calls \cup {"none"}]
           /\ arg' \in [Threads -> Addresses \cup {Null}]
           /\ currentNumThreads' \in [Threads -> Int]
           /\ buckets' \in [Threads -> SUBSET Nat]
           /\ Owned(t)' = {} => ThreadOK(t)'
           /\ \A u \in Threads \ {t} :
                  /\ pc'[u] = pc[u] /\ table'[u] = table[u] /\ call'[u] = call[u] /\ arg'[u] = arg[u]
                  /\ buckets'[u] = buckets[u]
<1>1. Owned(t)' = {} => ThreadOK(t)'
  BY Zenon DEF Types, Return, Set, ThreadOK, CallOK, LocksOK, Calling, LockingAll
<1>2. /\ pc' \in [Threads -> PC] /\ table' \in [Threads -> Nat]
      /\ \A u \in Threads \ {t} : pc'[u] = pc[u] /\ table'[u] = table[u]
  <2>1. "idle" \in PC BY Zenon DEF PC
  <2> QED BY <2>1, Zenon DEF Types, Return, Set, None
<1>3. /\ call' \in [Threads -> Calls \cup {"none"}]
      /\ arg' \in [Threads -> Addresses \cup {Null}]
      /\ \A u \in Threads \ {t} : call'[u] = call[u] /\ arg'[u] = arg[u]
  BY Zenon DEF Types, Return, Set
<1>4. /\ currentNumThreads' \in [Threads -> Int]
      /\ buckets' \in [Threads -> SUBSET Nat]
      /\ \A u \in Threads \ {t} : buckets'[u] = buckets[u]
  BY DEF Types, Return, Set
<1> QED BY <1>1, <1>2, <1>3, <1>4, Zenon

-----------------------------------------------------------------------------
(* Each action preserves the invariant. *)

(* A thread is created, exits, or walks all the queues. *)
LEMMA CreateKeeps ==
    ASSUME Inv, NEW t \in Threads, Create(t) \/ Exit(t) \/ ForEach(t)
    PROVE  Inv'
<1>1. TablesOK' /\ QueuesOK' /\ Grown
  <2>1. UNCHANGED <<tables, hashtable, queue, address>> BY Zenon DEF Create, Exit, ForEach
  <2> QED BY <2>1, SameTables, Zenon
<1>2. Types'
  <2>1. pc' \in [Threads -> PC] BY Zenon DEF Inv, Types, Create, Exit, ForEach, Set, PC
  <2>2. numThreads' \in Int BY DEF Inv, Types, Create, Exit, ForEach
  <2>3. currentNumThreads' \in [Threads -> Int]
    BY <2>2 DEF Inv, Types, Create, Exit, ForEach, Set
  <2>4. UNCHANGED <<tables, hashtable, queue, owner, address, table, call, arg, buckets>>
    BY Zenon DEF Create, Exit, ForEach
  <2> QED BY <2>1, <2>2, <2>3, <2>4, Zenon DEF Inv, Types
<1>3. UNCHANGED <<table, call, arg, buckets, owner>> BY Zenon DEF Create, Exit, ForEach
<1>4. \A u \in Threads : Owned(u)' = Owned(u) BY <1>3, Zenon DEF Owned
<1>5. \A u \in Threads \ {t} : Untouched(u)
  BY <1>3, <1>4, Zenon DEF Inv, Types, Create, Exit, ForEach, Untouched, Set
<1>6. ThreadOK(t)'
  <2>1. pc[t] \notin Calling \cup LockingAll \cup {"fill"} /\ ThreadOK(t)
    BY Zenon DEF Inv, Create, Exit, ForEach, Calling, LockingAll
  <2>2. buckets[t] = {} /\ Owned(t) = {} BY <2>1, Outside, Zenon
  <2>3. pc'[t] \notin Calling \cup LockingAll \cup {"fill"}
    BY Zenon DEF Inv, Types, Create, Exit, ForEach, Set, Calling, LockingAll
  <2> QED BY <1>3, <1>4, <2>2, <2>3, Zenon DEF ThreadOK, CallOK, LocksOK, Calling, LockingAll
<1> QED BY <1>1, <1>2, <1>5, <1>6, StepKeeps, Zenon

(* The fast check returns or goes on to lock the table. *)
LEMMA CheckKeeps ==
    ASSUME Inv, NEW t \in Threads, Check(t)
    PROVE  Inv'
<1>1. UNCHANGED <<tables, hashtable, queue, owner, numThreads, address>> BY Zenon DEF Check
<1>2. TablesOK' /\ QueuesOK' /\ Grown BY <1>1, SameTables, Zenon
<1>3. \A u \in Threads : Owned(u)' = Owned(u) BY <1>1, Zenon DEF Owned
<1>4. buckets[t] = {} /\ Owned(t) = {} BY Outside, Zenon DEF Inv, Check, Calling, LockingAll
<1>5. CASE Return(t)
  <2>1. Types' BY <1>1, <1>5, Returned, Zenon DEF Inv, Types
  <2>2. \A u \in Threads \ {t} : Untouched(u)
    BY <1>1, <1>3, <1>5, Returned, Zenon DEF Inv, Untouched
  <2>3. ThreadOK(t)' BY <1>3, <1>4, <1>5, Returned, Zenon DEF Inv
  <2> QED BY <1>2, <2>1, <2>2, <2>3, StepKeeps, Zenon
<1>6. CASE pc' = Set(pc, t, "lockTable") /\ UNCHANGED <<table, call, arg, currentNumThreads, buckets>>
  <2>1. Types' BY <1>1, <1>6, Zenon DEF Inv, Types, Set, PC
  <2>2. \A u \in Threads \ {t} : Untouched(u)
    BY <1>1, <1>3, <1>6, Zenon DEF Inv, Types, Untouched, Set
  <2>3. pc'[t] = "lockTable" BY <1>6, Zenon DEF Inv, Types, Set
  <2>4. ThreadOK(t)'
    BY <1>3, <1>4, <1>6, <2>3, Zenon DEF ThreadOK, CallOK, LocksOK, Calling, LockingAll
  <2> QED BY <1>2, <2>1, <2>2, <2>4, StepKeeps
<1> QED BY <1>5, <1>6, Zenon DEF Check

(* enqueue() and dequeue() begin with ensureHashtable(). *)
LEMMA CallKeeps ==
    ASSUME Inv, NEW t \in Threads, NEW a \in Addresses, NEW c \in Calls, Call(t, a, c)
    PROVE  Inv'
<1>1. EnsureHashtable(t, "load") /\ UNCHANGED <<queue, owner, threadCounts, address, buckets>>
  BY Zenon DEF Call
<1>2. /\ tables' \in Seq(TableType) /\ hashtable' = Len(tables') /\ hashtable' \in 1..Len(tables')
      /\ TablesOK' /\ QueuesOK' /\ Grown
  BY <1>1, EnsureHashtableKeeps, Zenon
<1>3. /\ table' = Set(table, t, hashtable') /\ pc' = Set(pc, t, "load")
      /\ call' = Set(call, t, c) /\ arg' = Set(arg, t, a)
  BY Zenon DEF Call, EnsureHashtable
<1>4. \A u \in Threads : Owned(u)' = Owned(u) BY <1>1, Zenon DEF Owned
<1>5. hashtable' \in Nat BY <1>2
<1>6. Types' BY <1>1, <1>2, <1>3, <1>5, Zenon DEF Inv, Types, Set, PC, threadCounts
<1>7. \A u \in Threads \ {t} : Untouched(u)
  BY <1>1, <1>3, <1>4, Zenon DEF Inv, Types, Untouched, Set
<1>8. buckets[t] = {} /\ Owned(t) = {} BY Outside, Zenon DEF Inv, Call, Calling, LockingAll
<1>9. ThreadOK(t)'
  <2>1. pc'[t] = "load" /\ table'[t] = hashtable' /\ call'[t] = c /\ arg'[t] = a
        /\ buckets'[t] = {} /\ Owned(t)' = {} /\ address'[t] = address[t]
    BY <1>1, <1>3, <1>4, <1>8, Zenon DEF Inv, Types, Set
  <2>2. IF c = "timeout" THEN address[t] = a ELSE address[t] = Null BY Zenon DEF Call
  <2>3. CallOK(t)' BY <2>1, <2>2, Zenon DEF CallOK, Calling
  <2> QED BY <1>2, <2>1, <2>3, Zenon DEF ThreadOK, LocksOK, Calling, LockingAll
<1> QED BY <1>2, <1>6, <1>7, <1>9, StepKeeps, Zenon

(* So does lockHashtable(). *)
LEMMA LockTableKeeps ==
    ASSUME Inv, NEW t \in Threads, LockTable(t)
    PROVE  Inv'
<1>1. EnsureHashtable(t, "fill") /\ UNCHANGED <<queue, owner, threadCounts, address, call, arg, buckets>>
  BY Zenon DEF LockTable
<1>2. /\ tables' \in Seq(TableType) /\ hashtable' = Len(tables') /\ hashtable' \in 1..Len(tables')
      /\ TablesOK' /\ QueuesOK' /\ Grown
  BY <1>1, EnsureHashtableKeeps, Zenon
<1>3. table' = Set(table, t, hashtable') /\ pc' = Set(pc, t, "fill")
  BY Zenon DEF LockTable, EnsureHashtable
<1>4. \A u \in Threads : Owned(u)' = Owned(u) BY <1>1, Zenon DEF Owned
<1>5. hashtable' \in Nat BY <1>2
<1>6. Types' BY <1>1, <1>2, <1>3, <1>5, Zenon DEF Inv, Types, Set, PC, threadCounts
<1>7. \A u \in Threads \ {t} : Untouched(u)
  BY <1>1, <1>3, <1>4, Zenon DEF Inv, Types, Untouched, Set
<1>8. buckets[t] = {} /\ Owned(t) = {} BY Outside, Zenon DEF Inv, LockTable, Calling, LockingAll
<1>9. ThreadOK(t)'
  <2>1. pc'[t] = "fill" /\ table'[t] = hashtable' /\ buckets'[t] = {} /\ Owned(t)' = {}
    BY <1>1, <1>3, <1>4, <1>8, Zenon DEF Inv, Types, Set
  <2>2. tables'[table'[t]].size \in Nat \ {0} BY <1>2, <2>1, TableShape
  <2>3. PICK n : n = tables'[table'[t]].size BY Zenon
  <2>4. Collecting(t)'
    <3>1. HasCollected(t, n)' BY <2>1, <2>2, <2>3 DEF HasCollected, Size
    <3> QED BY <2>2, <2>3, <3>1 DEF Collecting, Size
  <2> QED BY <1>2, <2>1, <2>4, Zenon DEF ThreadOK, CallOK, LocksOK, Calling, LockingAll
<1> QED BY <1>2, <1>6, <1>7, <1>9, StepKeeps, Zenon

(* The slot of the address is loaded, and filled if it has to be. *)
LEMMA LoadKeeps ==
    ASSUME Inv, NEW t \in Threads, Load(t)
    PROVE  Inv'
<1>1. PICK k, i : k = table[t] /\ i = hash[arg[t]] % Size(k) BY Zenon
<1>2. k \in 1..hashtable /\ arg[t] \in Addresses /\ ThreadOK(t) /\ pc[t] = "load"
  BY <1>1, Zenon DEF Inv, Load, ThreadOK, CallOK, Calling
<1>3. i \in Slots(k) BY <1>1, <1>2, Tables, Zenon DEF Inv
<1>4. EnsureBucket(t, i) /\ UNCHANGED <<hashtable, address>> BY <1>1, Zenon DEF Load, Index, Table, Size
<1>5. /\ tables' \in Seq(TableType) /\ Len(tables') = Len(tables)
      /\ queue' \in Seq(Seq(Threads))
      /\ owner' \in Seq(Threads \cup {Null}) /\ Len(owner') = Len(queue')
      /\ tables'[k].data[i] \in 1..Len(queue')
      /\ TablesOK' /\ QueuesOK' /\ Grown
      /\ \A u \in Threads : Owned(u)' = Owned(u)
  BY <1>1, <1>2, <1>3, <1>4, EnsureBucketKeeps, Zenon
<1>6. pc' = Set(pc, t, "lock") /\ UNCHANGED <<hashtable, threadCounts, address, table, call, arg, buckets>>
  BY Zenon DEF Load
<1>7. Types' BY <1>5, <1>6, Zenon DEF Inv, Types, Set, PC, threadCounts
<1>8. \A u \in Threads \ {t} : Untouched(u)
  BY <1>5, <1>6, Zenon DEF Inv, Types, Untouched, Set
<1>9. ThreadOK(t)'
  <2>1. pc'[t] = "lock" BY <1>6, Zenon DEF Inv, Types, Set
  <2>2. tables'[k].size = Size(k) BY <1>2, <1>5, Zenon DEF Inv, Types, Grown, Size
  <2>3. BucketIn(table[t], arg[t])' # None
    <3>1. BucketIn(table[t], arg[t])' = tables'[k].data[hash[arg[t]] % tables'[k].size]
      BY <1>1, <1>6, Zenon DEF BucketIn, Data, Size
    <3>2. hash[arg[t]] % tables'[k].size = i BY <1>1, <2>2, Zenon
    <3> QED BY <1>5, <3>1, <3>2 DEF None
  <2>4. CallOK(t)' BY <1>2, <1>6, <2>1, <2>3, Zenon DEF ThreadOK, CallOK, Calling
  <2>5. buckets'[t] = {} /\ Owned(t)' = {}
    BY <1>2, <1>5, <1>6, Zenon DEF ThreadOK, LocksOK, LockingAll
  <2> QED BY <1>1, <1>2, <1>6, <2>1, <2>4, <2>5, Zenon DEF ThreadOK, LocksOK, Calling, LockingAll
<1> QED BY <1>5, <1>7, <1>8, <1>9, StepKeeps, Zenon

(* The bucket that was loaded is locked. *)
LEMMA LockBucketKeeps ==
    ASSUME Inv, NEW t \in Threads, LockBucket(t)
    PROVE  Inv'
<1>1. UNCHANGED <<tables, hashtable, queue, threadCounts, address, table, call, arg, buckets>>
      /\ pc' = Set(pc, t, "locked") /\ pc[t] = "lock" /\ ThreadOK(t) /\ Types
  BY Zenon DEF LockBucket, Inv
<1>2. PICK b : b = MyBucket(t) BY Zenon
<1>3. b \in 1..Len(queue) BY <1>1, <1>2, MyBucketExists, Zenon
<1>4. owner[b] = Null /\ owner' = Set(owner, b, t) BY <1>2, Zenon DEF LockBucket
<1>5. /\ owner' \in Seq(Threads \cup {Null}) /\ Len(owner') = Len(owner)
      /\ Owned(t)' = Owned(t) \cup {b}
      /\ \A u \in Threads \ {t} : Owned(u)' = Owned(u)
  BY <1>1, <1>3, <1>4, LockOne, Zenon
<1>6. TablesOK' /\ QueuesOK' /\ Grown BY <1>1, SameTables, Zenon
<1>7. Types' BY <1>1, <1>5, Zenon DEF Types, Set, PC, threadCounts
<1>8. \A u \in Threads \ {t} : Untouched(u) BY <1>1, <1>5, Zenon DEF Types, Untouched, Set
<1>9. ThreadOK(t)'
  <2>1. pc'[t] = "locked" BY <1>1, Zenon DEF Types, Set
  <2>2. BucketIn(table[t], arg[t])' = BucketIn(table[t], arg[t])
    BY <1>1, Zenon DEF BucketIn, Data, Size
  <2>3. CallOK(t)' BY <1>1, <2>1, <2>2, Zenon DEF ThreadOK, CallOK, Calling
  <2>4. Owned(t) = {} /\ buckets[t] = {} BY <1>1, Zenon DEF ThreadOK, LocksOK, LockingAll
  <2>5. Owned(t)' = {BucketIn(table[t], arg[t])'} BY <1>2, <1>5, <2>2, <2>4, MyBucketIs, Zenon
  <2>6. table'[t] \in 1..hashtable' BY <1>1, Zenon DEF ThreadOK, Calling
  <2> QED BY <1>1, <2>1, <2>3, <2>4, <2>5, <2>6, Zenon DEF ThreadOK, LocksOK, LockingAll
<1> QED BY <1>6, <1>7, <1>8, <1>9, StepKeeps

(* A table that was replaced is left for the new one. *)
LEMMA RetryKeeps ==
    ASSUME Inv, NEW t \in Threads, Retry(t)
    PROVE  Inv'
<1>1. EnsureHashtable(t, "load") /\ UNCHANGED <<queue, threadCounts, address, call, arg, buckets>>
      /\ pc[t] = "locked" /\ ThreadOK(t) /\ Types
  BY Zenon DEF Retry, Inv
<1>2. /\ tables' \in Seq(TableType) /\ hashtable' = Len(tables') /\ hashtable' \in 1..Len(tables')
      /\ TablesOK' /\ QueuesOK' /\ Grown
  BY <1>1, EnsureHashtableKeeps, Zenon
<1>3. table' = Set(table, t, hashtable') /\ pc' = Set(pc, t, "load") BY <1>1, Zenon DEF EnsureHashtable
<1>4. PICK b : b = MyBucket(t) OBVIOUS
<1>5. b \in 1..Len(queue) /\ Owned(t) = {b}
  BY <1>1, <1>4, MyBucketExists, MyBucketIs, Zenon DEF ThreadOK, LocksOK
<1>6. owner' = Set(owner, b, Null) BY <1>4, Zenon DEF Retry
<1>7. /\ owner' \in Seq(Threads \cup {Null}) /\ Len(owner') = Len(owner)
      /\ Owned(t)' = {}
      /\ \A u \in Threads \ {t} : Owned(u)' = Owned(u)
  BY <1>1, <1>5, <1>6, UnlockOne, Zenon
<1>8. hashtable' \in Nat BY <1>2
<1>9. Types' BY <1>1, <1>2, <1>3, <1>7, <1>8, Zenon DEF Types, Set, PC, threadCounts
<1>10. \A u \in Threads \ {t} : Untouched(u)
  BY <1>1, <1>3, <1>7, Zenon DEF Types, Untouched, Set
<1>11. ThreadOK(t)'
  <2>1. pc'[t] = "load" /\ table'[t] = hashtable' BY <1>1, <1>3, Zenon DEF Types, Set
  <2>2. CallOK(t)' BY <1>1, <2>1, Zenon DEF ThreadOK, CallOK, Calling
  <2>3. buckets'[t] = {} BY <1>1, Zenon DEF ThreadOK, LockingAll
  <2> QED BY <1>2, <1>7, <2>1, <2>2, <2>3, Zenon DEF ThreadOK, LocksOK, Calling, LockingAll
<1> QED BY <1>2, <1>9, <1>10, <1>11, StepKeeps

(* A thread whose bucket does not exist is in no queue. *)
LEMMA NoBucket ==
    ASSUME Inv, NEW t \in Threads, pc[t] = "load", MyBucket(t) = None, call[t] = "timeout"
    PROVE  address[t] = Null
<1> SUFFICES ASSUME address[t] # Null PROVE FALSE BY Zenon
<1>1. PICK k, i : k = table[t] /\ i = hash[arg[t]] % Size(k) BY Zenon
<1>2. k \in 1..hashtable /\ arg[t] \in Addresses /\ address[t] = arg[t]
  BY <1>1, Zenon DEF Inv, ThreadOK, CallOK, Calling
<1>3. i \in Slots(k) /\ Data(k, i) = None
  BY <1>1, <1>2, Tables, MyBucketIs, Zenon DEF Inv, BucketIn
<1>4. k = hashtable BY <1>2, <1>3, Zenon DEF Inv, TablesOK
<1>5. PICK b \in 1..Len(queue) : Contains(queue[b], t) BY Zenon DEF Inv, QueuesOK
<1>6. BucketIn(hashtable, address[t]) = b BY <1>5 DEF Inv, QueuesOK, Contains
<1> QED BY <1>1, <1>2, <1>3, <1>4, <1>6 DEF BucketIn, None

(* dequeue() returns at once when the address has no bucket. *)
LEMMA LoadEmptyKeeps ==
    ASSUME Inv, NEW t \in Threads, LoadEmpty(t)
    PROVE  Inv'
<1>1. Return(t) /\ UNCHANGED <<tables, hashtable, queue, owner, numThreads>>
      /\ pc[t] = "load" /\ ThreadOK(t) /\ Types
  BY Zenon DEF LoadEmpty, Inv
<1>2. address' = address
  <2>1. call[t] = "timeout" => address[t] = Null BY NoBucket, Zenon DEF LoadEmpty
  <2>2. address' = IF call[t] = "timeout" THEN Set(address, t, Null) ELSE address
    BY Zenon DEF LoadEmpty
  <2>3. address \in [Threads -> Addresses \cup {Null}] BY <1>1, Zenon DEF Types
  <2> QED BY <2>1, <2>2, <2>3, Zenon DEF Set
<1>3. TablesOK' /\ QueuesOK' /\ Grown BY <1>1, <1>2, SameTables, Zenon
<1>4. \A u \in Threads : Owned(u)' = Owned(u) BY <1>1, Zenon DEF Owned
<1>5. Owned(t) = {} BY <1>1, Zenon DEF ThreadOK, LocksOK, LockingAll
<1>6. Types' BY <1>1, <1>2, Returned, Zenon DEF Types
<1>7. \A u \in Threads \ {t} : Untouched(u) BY <1>1, <1>2, <1>4, Returned, Zenon DEF Untouched
<1>8. ThreadOK(t)' BY <1>1, <1>4, <1>5, Returned, Zenon
<1> QED BY <1>3, <1>6, <1>7, <1>8, StepKeeps

-----------------------------------------------------------------------------
(* What is done with one bucket locked.  One queue and some addresses      *)
(* change, and they fit together again.                                    *)
LEMMA OneQueue ==
    ASSUME Inv, NEW b \in 1..Len(queue), NEW q \in Seq(Threads),
           UNCHANGED <<tables, hashtable>>, queue' = Set(queue, b, q),
           \A j \in 1..Len(q) : address'[q[j]] # Null /\ BucketIn(hashtable, address'[q[j]]) = b,
           \A i, j \in 1..Len(q) : q[i] = q[j] => i = j,
           \A c \in 1..Len(queue) : c # b =>
               \A j \in 1..Len(queue[c]) : address'[queue[c][j]] = address[queue[c][j]],
           \A u \in Threads : address'[u] # Null =>
               Contains(q, u) \/ (address[u] # Null /\ ~Contains(queue[b], u))
    PROVE  queue' \in Seq(Seq(Threads)) /\ Len(queue') = Len(queue) /\ TablesOK' /\ QueuesOK' /\ Grown
<1>1. /\ queue' \in Seq(Seq(Threads)) /\ Len(queue') = Len(queue) /\ queue'[b] = q
      /\ \A c \in 1..Len(queue) : c # b => queue'[c] = queue[c]
  <2>1. queue \in Seq(Seq(Threads)) BY Zenon DEF Inv, Types
  <2> QED BY <2>1 DEF Set
<1>2. Len(tables) \in Nat BY DEF Inv, Types
<1>3. TablesOK' BY <1>1, ZenonT(30) DEF Inv, TablesOK, Slots, Size, Data
<1>4. Grown BY <1>2 DEF Grown, Data
<1>5. ASSUME NEW c \in 1..Len(queue), NEW j \in 1..Len(queue'[c])
      PROVE  address'[queue'[c][j]] # Null /\ BucketIn(hashtable, address'[queue'[c][j]]) = c
  <2>1. CASE c = b BY <1>1, <2>1, Zenon
  <2>2. CASE c # b
    <3>1. queue'[c] = queue[c] /\ address'[queue[c][j]] = address[queue[c][j]] BY <1>1, <2>2, Zenon
    <3>2. address[queue[c][j]] # Null /\ BucketIn(hashtable, address[queue[c][j]]) = c
      BY <3>1, Zenon DEF Inv, QueuesOK
    <3> QED BY <3>1, <3>2, Zenon
  <2> QED BY <2>1, <2>2, Zenon
<1>6. ASSUME NEW c \in 1..Len(queue), NEW i \in 1..Len(queue'[c]), NEW j \in 1..Len(queue'[c]),
             queue'[c][i] = queue'[c][j]
      PROVE  i = j
  <2>1. CASE c = b BY <1>1, <1>6, <2>1
  <2>2. CASE c # b BY <1>1, <1>6, <2>2 DEF Inv, QueuesOK
  <2> QED BY <2>1, <2>2, Zenon
<1>7. ASSUME NEW u \in Threads, address'[u] # Null
      PROVE  \E c \in 1..Len(queue) : Contains(queue'[c], u)
  <2>1. CASE Contains(q, u) BY <1>1, <2>1, Zenon
  <2>2. CASE ~Contains(q, u)
    <3>1. address[u] # Null /\ ~Contains(queue[b], u) BY <1>7, <2>2, Zenon
    <3>2. PICK c \in 1..Len(queue) : Contains(queue[c], u) BY <3>1, Zenon DEF Inv, QueuesOK
    <3> QED BY <1>1, <3>1, <3>2, Zenon
  <2> QED BY <2>1, <2>2, Zenon
<1>8. QueuesOK'
  <2>1. \A c \in 1..Len(queue') : \A j \in 1..Len(queue'[c]) :
            /\ address'[queue'[c][j]] # Null
            /\ BucketIn(hashtable, address[queue[c][j]])' = c
    BY <1>1, <1>5, ZenonT(30) DEF BucketIn, Data, Size
  <2> QED BY <1>1, <1>6, <1>7, <2>1, Zenon DEF QueuesOK
<1> QED BY <1>1, <1>3, <1>4, <1>8, Zenon

(* A thread that has locked its bucket, in the current table. *)
LEMMA LockedBucket ==
    ASSUME Inv, NEW t \in Threads, NEW calls, Locked(t, calls), NEW b, b = MyBucket(t)
    PROVE  /\ b \in 1..Len(queue) /\ queue[b] \in Seq(Threads)
           /\ Owned(t) = {b} /\ arg[t] \in Addresses
           /\ hashtable \in 1..hashtable /\ BucketIn(hashtable, arg[t]) = b
<1>1. pc[t] = "locked" /\ table[t] = hashtable /\ ThreadOK(t) BY Zenon DEF Locked, TableIsStale, Inv
<1>2. b \in 1..Len(queue) BY <1>1, MyBucketExists, Zenon
<1>3. Owned(t) = {b} /\ arg[t] \in Addresses
  BY <1>1, MyBucketIs, Zenon DEF ThreadOK, CallOK, LocksOK, Calling
<1>4. hashtable \in 1..hashtable /\ BucketIn(hashtable, arg[t]) = b
  BY <1>1, MyBucketIs, Zenon DEF ThreadOK, Calling
<1>5. queue[b] \in Seq(Threads) BY <1>2 DEF Inv, Types
<1> QED BY <1>2, <1>3, <1>4, <1>5, Zenon

(* The bucket is unlocked and the call returns. *)
LEMMA FinishKeeps ==
    ASSUME Inv, NEW t \in Threads, NEW calls, Locked(t, calls), NEW q, NEW new, Finish(t, q, new),
           queue' \in Seq(Seq(Threads)), Len(queue') = Len(queue), TablesOK', QueuesOK', Grown,
           new \in [Threads -> Addresses \cup {Null}],
           \A u \in Threads \ {t} : new[u] \in {address[u], Null}
    PROVE  Inv'
<1>1. Return(t) /\ UNCHANGED <<tables, hashtable, numThreads>> /\ address' = new /\ Types
  BY Zenon DEF Finish, Inv
<1>2. PICK b : b = MyBucket(t) BY Zenon
<1>3. b \in 1..Len(queue) /\ Owned(t) = {b} BY <1>2, LockedBucket, Zenon
<1>4. owner' = Set(owner, b, Null) BY <1>2, Zenon DEF Finish
<1>5. /\ owner' \in Seq(Threads \cup {Null}) /\ Len(owner') = Len(owner)
      /\ Owned(t)' = {}
      /\ \A u \in Threads \ {t} : Owned(u)' = Owned(u)
  BY <1>1, <1>3, <1>4, UnlockOne, Zenon
<1>6. Types' BY <1>1, <1>5, Returned, Zenon DEF Types
<1>7. \A u \in Threads \ {t} : Untouched(u) BY <1>1, <1>5, Returned, Zenon DEF Untouched
<1>8. ThreadOK(t)' BY <1>1, <1>5, Returned, Zenon
<1> QED BY <1>6, <1>7, <1>8, StepKeeps, Zenon

(* A thread enqueues itself at the address it has looked up. *)
LEMMA EnqueueKeeps ==
    ASSUME Inv, NEW t \in Threads, Enqueue(t)
    PROVE  Inv'
<1>1. PICK b : b = MyBucket(t) OBVIOUS
<1>2. PICK q, new : q = Append(queue[b], t) /\ new = Set(address, t, arg[t]) BY Zenon
<1>3. Locked(t, {"enqueue"}) /\ Finish(t, q, new) BY <1>1, <1>2, Zenon DEF Enqueue
<1>4. /\ b \in 1..Len(queue) /\ queue[b] \in Seq(Threads)
      /\ arg[t] \in Addresses /\ BucketIn(hashtable, arg[t]) = b
  BY <1>1, <1>3, LockedBucket, Zenon
<1>5. address[t] = Null BY <1>3, Zenon DEF Locked, Inv, ThreadOK, CallOK, Calling
<1>6. /\ q \in Seq(Threads) /\ Len(q) = Len(queue[b]) + 1 /\ Len(queue[b]) \in Nat
      /\ \A j \in 1..Len(queue[b]) : q[j] = queue[b][j]
      /\ q[Len(queue[b]) + 1] = t
  BY <1>2, <1>4, AppendElements
<1>7. /\ new \in [Threads -> Addresses \cup {Null}] /\ new[t] = arg[t]
      /\ \A u \in Threads \ {t} : new[u] = address[u]
  BY <1>2, <1>4, Zenon DEF Inv, Types, Set
<1>8. UNCHANGED <<tables, hashtable>> /\ queue' = Set(queue, b, q) /\ address' = new
  BY <1>1, <1>3, Zenon DEF Finish
<1>9. \A c \in 1..Len(queue) : \A j \in 1..Len(queue[c]) : queue[c][j] \in Threads \ {t}
  <2> SUFFICES ASSUME NEW c \in 1..Len(queue), NEW j \in 1..Len(queue[c])
               PROVE  queue[c][j] \in Threads \ {t}
    BY Zenon
  <2>1. queue[c][j] \in Threads BY DEF Inv, Types
  <2>2. address[queue[c][j]] # Null BY Zenon DEF Inv, QueuesOK
  <2> QED BY <1>5, <2>1, <2>2, Zenon
<1>10. ASSUME NEW j \in 1..Len(q) PROVE j \in 1..Len(queue[b]) \/ j = Len(queue[b]) + 1
  BY <1>6
<1>11. ASSUME NEW j \in 1..Len(q)
       PROVE  new[q[j]] # Null /\ BucketIn(hashtable, new[q[j]]) = b
  <2>1. CASE j \in 1..Len(queue[b])
    <3>1. q[j] = queue[b][j] /\ new[q[j]] = address[queue[b][j]] BY <1>4, <1>6, <1>7, <1>9, <2>1, Zenon
    <3> QED BY <1>4, <2>1, <3>1, Zenon DEF Inv, QueuesOK
  <2>2. CASE j = Len(queue[b]) + 1
    BY <1>4, <1>6, <1>7, <2>2, TableAssumption, Zenon
  <2> QED BY <1>10, <2>1, <2>2, Zenon
<1>12. ASSUME NEW i \in 1..Len(q), NEW j \in 1..Len(q), q[i] = q[j] PROVE i = j
  <2>1. CASE i \in 1..Len(queue[b]) /\ j \in 1..Len(queue[b])
    BY <1>4, <1>6, <1>12, <2>1 DEF Inv, QueuesOK
  <2>2. CASE ~(i \in 1..Len(queue[b]) /\ j \in 1..Len(queue[b]))
    BY <1>4, <1>6, <1>9, <1>10, <1>12, <2>2, Zenon
  <2> QED BY <2>1, <2>2, Zenon
<1>13. \A c \in 1..Len(queue) : c # b =>
           \A j \in 1..Len(queue[c]) : new[queue[c][j]] = address[queue[c][j]]
  BY <1>7, <1>9, Zenon
<1>14. ASSUME NEW u \in Threads, new[u] # Null
       PROVE  Contains(q, u) \/ (address[u] # Null /\ ~Contains(queue[b], u))
  <2>1. CASE u = t BY <1>6, <2>1 DEF Contains
  <2>2. CASE u # t
    <3>1. address[u] # Null BY <1>7, <1>14, <2>2, Zenon
    <3>2. Contains(queue[b], u) => Contains(q, u) BY <1>6 DEF Contains
    <3> QED BY <3>1, <3>2, Zenon
  <2> QED BY <2>1, <2>2, Zenon
<1>15. queue' \in Seq(Seq(Threads)) /\ Len(queue') = Len(queue) /\ TablesOK' /\ QueuesOK' /\ Grown
  <2>1. \A j \in 1..Len(q) : address'[q[j]] # Null /\ BucketIn(hashtable, address'[q[j]]) = b
    BY <1>8, <1>11, Zenon
  <2>2. \A i, j \in 1..Len(q) : q[i] = q[j] => i = j BY <1>12, Zenon
  <2>3. \A c \in 1..Len(queue) : c # b =>
            \A j \in 1..Len(queue[c]) : address'[queue[c][j]] = address[queue[c][j]]
    BY <1>8, <1>13, Zenon
  <2>4. \A u \in Threads : address'[u] # Null =>
            Contains(q, u) \/ (address[u] # Null /\ ~Contains(queue[b], u))
    BY <1>8, <1>14, Zenon
  <2> QED BY <1>4, <1>6, <1>8, <2>1, <2>2, <2>3, <2>4, OneQueue, Zenon
<1> QED BY <1>3, <1>7, <1>15, FinishKeeps, Zenon

(* A queued thread is taken off its queue. *)
LEMMA TakenOff ==
    ASSUME Inv, NEW b \in 1..Len(queue), NEW i \in 1..Len(queue[b]), NEW q, q = Removed(queue[b], i),
           UNCHANGED <<tables, hashtable>>, queue' = Set(queue, b, q),
           address' = Set(address, queue[b][i], Null)
    PROVE  queue' \in Seq(Seq(Threads)) /\ Len(queue') = Len(queue) /\ TablesOK' /\ QueuesOK' /\ Grown
<1>1. PICK v : v = queue[b][i] BY Zenon
<1>2. queue[b] \in Seq(Threads) /\ v \in Threads BY <1>1 DEF Inv, Types
<1>3. \A j, k \in 1..Len(queue[b]) : queue[b][j] = queue[b][k] => j = k BY Zenon DEF Inv, QueuesOK
<1>4. q \in Seq(Threads) /\ Omits(q, queue[b], i) BY <1>2, <1>3, RemovedOnce, Zenon
<1>5. /\ address' \in [Threads -> Addresses \cup {Null}] /\ address'[v] = Null
      /\ \A u \in Threads \ {v} : address'[u] = address[u]
  BY <1>1, <1>2, Zenon DEF Inv, Types, Set
<1>6. ASSUME NEW j \in 1..Len(q)
      PROVE  address'[q[j]] # Null /\ BucketIn(hashtable, address'[q[j]]) = b
  <2>1. PICK k \in 1..Len(queue[b]) : queue[b][k] = q[j] BY <1>4, Zenon DEF Omits
  <2>2. q[j] \in Threads \ {v}
    <3>1. q[j] # v BY <1>1, <1>4, Zenon DEF Omits
    <3> QED BY <1>2, <2>1, <3>1
  <2>3. address'[q[j]] = address[queue[b][k]] BY <1>5, <2>1, <2>2, Zenon
  <2> QED BY <2>3, Zenon DEF Inv, QueuesOK
<1>7. ASSUME NEW c \in 1..Len(queue), c # b, NEW j \in 1..Len(queue[c])
      PROVE  address'[queue[c][j]] = address[queue[c][j]]
  <2>1. queue[c][j] \in Threads BY DEF Inv, Types
  <2>2. BucketIn(hashtable, address[queue[c][j]]) = c BY Zenon DEF Inv, QueuesOK
  <2>3. BucketIn(hashtable, address[v]) = b BY <1>1, Zenon DEF Inv, QueuesOK
  <2> QED BY <1>5, <1>7, <2>1, <2>2, <2>3, Zenon
<1>8. ASSUME NEW u \in Threads, address'[u] # Null
      PROVE  Contains(q, u) \/ (address[u] # Null /\ ~Contains(queue[b], u))
  <2>1. u # v /\ address[u] # Null BY <1>5, <1>8, Zenon
  <2>2. ASSUME Contains(queue[b], u) PROVE Contains(q, u)
    <3>1. PICK k \in 1..Len(queue[b]) : queue[b][k] = u BY <2>2, Zenon DEF Contains
    <3> QED BY <1>1, <1>4, <2>1, <3>1, Zenon DEF Contains, Omits
  <2> QED BY <2>1, <2>2, Zenon
<1>9. \A j, k \in 1..Len(q) : q[j] = q[k] => j = k BY <1>4, Zenon DEF Omits
<1> QED BY <1>4, <1>6, <1>7, <1>8, <1>9, OneQueue, Zenon

(* A thread of the bucket is dequeued, or none is. *)
LEMMA DequeueKeeps ==
    ASSUME Inv, NEW t \in Threads, NEW calls, Locked(t, calls), NEW wanted, DequeueFirst(t, wanted)
    PROVE  Inv'
<1>1. PICK b : b = MyBucket(t) BY Zenon
<1>2. b \in 1..Len(queue) /\ queue[b] \in Seq(Threads) BY <1>1, LockedBucket, Zenon
<1>3. address \in [Threads -> Addresses \cup {Null}] BY Zenon DEF Inv, Types
<1>4. CASE FirstAmong(queue[b], wanted) = {}
  <2>1. Finish(t, queue[b], address) BY <1>1, <1>4, Zenon DEF DequeueFirst
  <2>2. queue' = queue BY <1>1, <1>2, <2>1 DEF Finish, Set, Inv, Types
  <2>3. UNCHANGED <<tables, hashtable, address>> BY <2>1, Zenon DEF Finish
  <2>4. TablesOK' /\ QueuesOK' /\ Grown BY <2>2, <2>3, SameTables, Zenon
  <2>5. queue' \in Seq(Seq(Threads)) /\ Len(queue') = Len(queue) BY <2>2, Zenon DEF Inv, Types
  <2> QED BY <1>3, <2>1, <2>4, <2>5, FinishKeeps, Zenon
<1>5. CASE FirstAmong(queue[b], wanted) # {}
  <2>1. PICK i \in FirstAmong(queue[b], wanted) :
            Finish(t, Removed(queue[b], i), Set(address, queue[b][i], Null))
    BY <1>1, <1>5, Zenon DEF DequeueFirst
  <2>2. i \in 1..Len(queue[b]) BY <1>2 DEF FirstAmong
  <2>3. PICK q, new : q = Removed(queue[b], i) /\ new = Set(address, queue[b][i], Null) BY Zenon
  <2>4. Finish(t, q, new) BY <2>1, <2>3, Zenon
  <2>5. UNCHANGED <<tables, hashtable>> /\ queue' = Set(queue, b, q) /\ address' = new
    BY <1>1, <2>4, Zenon DEF Finish
  <2>6. queue' \in Seq(Seq(Threads)) /\ Len(queue') = Len(queue) /\ TablesOK' /\ QueuesOK' /\ Grown
    BY <1>2, <2>2, <2>3, <2>5, TakenOff, Zenon
  <2>7. new \in [Threads -> Addresses \cup {Null}] /\ \A u \in Threads \ {t} : new[u] \in {address[u], Null}
    BY <1>3, <2>3, Zenon DEF Set
  <2> QED BY <2>4, <2>6, <2>7, FinishKeeps, Zenon
<1> QED BY <1>4, <1>5, Zenon

-----------------------------------------------------------------------------
(* lockHashtable() *)

(* The slots after the one that lockHashtable() comes to next are the ones *)
(* it has collected.                                                       *)
LEMMA NextSlotIs ==
    ASSUME Inv, NEW t \in Threads, pc[t] = "fill", NEW k, k = table[t]
    PROVE  /\ k \in 1..hashtable /\ Size(k) \in Nat \ {0}
           /\ NextSlot(t) \in Slots(k) /\ HasCollected(t, NextSlot(t) + 1)
<1>1. k \in 1..hashtable /\ Types /\ Collecting(t) BY Zenon DEF Inv, ThreadOK
<1>2. Size(k) \in Nat \ {0} /\ DOMAIN tables[k].data = Slots(k) BY <1>1, Tables, Zenon
<1>3. PICK n \in 1..Size(k) : HasCollected(t, n) BY <1>1, Zenon DEF Collecting
<1>4. PICK S : S = {i \in Slots(k) : Data(k, i) \notin buckets[t]} BY Zenon
<1>5. ASSUME NEW i \in Slots(k) PROVE Data(k, i) \in buckets[t] <=> i >= n
  <2>1. CASE i >= n BY <1>2, <2>1, <1>3 DEF HasCollected, Slots
  <2>2. ASSUME Data(k, i) \in buckets[t] PROVE i >= n
    <3>1. PICK j \in n..(Size(k) - 1) : Data(k, i) = Data(k, j) BY <1>3, <2>2, Zenon DEF HasCollected
    <3>2. Data(k, j) # None BY <1>3, Zenon DEF HasCollected
    <3>3. j \in Slots(k) BY <1>2 DEF Slots
    <3> QED BY <1>1, <3>1, <3>2, <3>3 DEF Inv, TablesOK
  <2> QED BY <2>1, <2>2, Zenon
<1>6. n - 1 \in S /\ S \in SUBSET (0..(Size(k) - 1)) /\ \A i \in S : i <= n - 1
  BY <1>2, <1>4, <1>5 DEF Slots
<1>7. Size(k) - 1 \in Nat BY <1>2
<1>8. Largest(S) \in S /\ \A c \in S : c <= Largest(S) BY <1>6, <1>7, LargestIs, Zenon
<1>9. Largest(S) = n - 1
  <2>1. PICK x : x = Largest(S) /\ x \in 0..(Size(k) - 1) BY <1>6, <1>8, Zenon
  <2> QED BY <1>6, <1>7, <1>8, <2>1
<1>10. NextSlot(t) = Largest(S) BY <1>2, <1>4, Zenon DEF NextSlot, Table, Data
<1>11. NextSlot(t) + 1 = n BY <1>9, <1>10
<1> QED BY <1>1, <1>2, <1>3, <1>4, <1>6, <1>9, <1>10, <1>11, Zenon

(* lockHashtable() fills and collects one more slot. *)
LEMMA FillSlotKeeps ==
    ASSUME Inv, NEW t \in Threads, FillSlot(t)
    PROVE  Inv'
<1>1. PICK k : k = table[t] BY Zenon
<1>2. PICK i : i = NextSlot(t) OBVIOUS
<1>3. k \in 1..hashtable /\ Types /\ ThreadOK(t) /\ pc[t] = "fill"
  BY <1>1, Zenon DEF Inv, FillSlot, ThreadOK
<1>4. /\ Size(k) \in Nat \ {0} /\ i \in Slots(k)
      /\ \A j \in (i + 1)..(Size(k) - 1) : Data(k, j) # None
      /\ buckets[t] = {Data(k, j) : j \in (i + 1)..(Size(k) - 1)}
  <2>1. Size(k) \in Nat \ {0} /\ i \in Slots(k) /\ HasCollected(t, i + 1)
    BY <1>1, <1>2, <1>3, NextSlotIs, Zenon
  <2> QED BY <1>1, <2>1, Zenon DEF HasCollected
<1>5. i \in Slots(k) /\ i \in Nat BY <1>4 DEF Slots
<1>6. EnsureBucket(t, i) /\ UNCHANGED <<hashtable, address>> BY <1>2, Zenon DEF FillSlot
<1>7. /\ tables' \in Seq(TableType) /\ Len(tables') = Len(tables)
      /\ queue' \in Seq(Seq(Threads))
      /\ owner' \in Seq(Threads \cup {Null}) /\ Len(owner') = Len(queue')
      /\ tables'[k].data[i] \in 1..Len(queue')
      /\ TablesOK' /\ QueuesOK' /\ Grown
      /\ \A u \in Threads : Owned(u)' = Owned(u)
  BY <1>1, <1>3, <1>5, <1>6, EnsureBucketKeeps, Zenon
<1>8. PICK b : b = tables'[k].data[i] BY Zenon
<1>9. /\ buckets' = Set(buckets, t, buckets[t] \cup {b})
      /\ pc' = Set(pc, t, IF i = 0 THEN "lockAll" ELSE "fill")
      /\ UNCHANGED <<hashtable, threadCounts, address, table, call, arg>>
  BY <1>1, <1>2, <1>8, Zenon DEF FillSlot
<1>10. Len(queue') \in Nat /\ b \in Nat /\ b # None BY <1>7, <1>8 DEF None
<1>11. Types'
  <2>1. buckets' \in [Threads -> SUBSET Nat] BY <1>3, <1>9, <1>10, Zenon DEF Types, Set
  <2>2. pc' \in [Threads -> PC] BY <1>3, <1>9, Zenon DEF Types, Set, PC
  <2> QED BY <1>3, <1>7, <1>9, <2>1, <2>2, Zenon DEF Types, threadCounts
<1>12. \A u \in Threads \ {t} : Untouched(u) BY <1>3, <1>7, <1>9, Zenon DEF Types, Untouched, Set
<1>13. /\ tables'[k].size = Size(k)
       /\ \A j \in (i + 1)..(Size(k) - 1) : tables'[k].data[j] = Data(k, j)
  <2>1. \A j \in (i + 1)..(Size(k) - 1) : j \in Slots(k) BY <1>4, <1>5 DEF Slots
  <2>2. k \in 1..Len(tables) BY <1>3, Zenon DEF Types
  <2> QED BY <1>4, <1>7, <2>1, <2>2, Zenon DEF Grown, Size
<1>14. \A j \in i..(Size(k) - 1) : j = i \/ j \in (i + 1)..(Size(k) - 1)
  BY <1>4, <1>5
<1>15. /\ buckets'[t] = {tables'[k].data[j] : j \in i..(Size(k) - 1)}
       /\ \A j \in i..(Size(k) - 1) : tables'[k].data[j] # None
  <2>1. buckets'[t] = buckets[t] \cup {b} BY <1>3, <1>9, Zenon DEF Types, Set
  <2>2. \A j \in (i + 1)..(Size(k) - 1) : j \in i..(Size(k) - 1) BY <1>4, <1>5
  <2>3. i \in i..(Size(k) - 1) BY <1>4, <1>5 DEF Slots
  <2>4. \A j \in i..(Size(k) - 1) : tables'[k].data[j] # None BY <1>4, <1>8, <1>10, <1>13, <1>14, Zenon
  <2>5. ASSUME NEW x \in buckets'[t] PROVE \E j \in i..(Size(k) - 1) : x = tables'[k].data[j]
    BY <1>4, <1>8, <1>13, <2>1, <2>2, <2>3, Zenon
  <2>6. ASSUME NEW j \in i..(Size(k) - 1) PROVE tables'[k].data[j] \in buckets'[t]
    BY <1>4, <1>8, <1>13, <1>14, <2>1, Zenon
  <2> QED BY <2>4, <2>5, <2>6, Zenon
<1>16. ThreadOK(t)'
  <2>1. Owned(t)' = {} BY <1>3, <1>7, Zenon DEF ThreadOK, LocksOK, LockingAll
  <2>2. table'[t] = k /\ k \in 1..hashtable' BY <1>1, <1>3, <1>9, Zenon
  <2>3. HasCollected(t, i)' BY <1>13, <1>15, <2>2, Zenon DEF HasCollected, Size, Data
  <2>4. CASE i = 0
    <3>1. pc'[t] = "lockAll" BY <1>3, <1>9, <2>4, Zenon DEF Types, Set
    <3>2. b \in buckets'[t] BY <1>3, <1>9, Zenon DEF Types, Set
    <3>3. LocksOK(t)' BY <2>1, <3>1, <3>2, Zenon DEF LocksOK, LockingAll
    <3> QED BY <2>2, <2>3, <2>4, <3>1, <3>3, Zenon DEF ThreadOK, CallOK, Calling, LockingAll
  <2>5. CASE i # 0
    <3>1. pc'[t] = "fill" BY <1>3, <1>9, <2>5, Zenon DEF Types, Set
    <3>2. i \in 1..Size(k) BY <1>4, <1>5, <2>5 DEF Slots
    <3>3. Collecting(t)' BY <1>13, <2>2, <2>3, <3>2, Zenon DEF Collecting, Size
    <3> QED BY <2>1, <2>2, <3>1, <3>3, Zenon DEF ThreadOK, CallOK, LocksOK, Calling, LockingAll
  <2> QED BY <2>4, <2>5, Zenon
<1> QED BY <1>7, <1>11, <1>12, <1>16, StepKeeps

(* The buckets that lockHashtable() has collected exist. *)
LEMMA CollectedExist ==
    ASSUME Inv, NEW t \in Threads, pc[t] \in LockingAll
    PROVE  buckets[t] \subseteq 1..Len(queue)
<1>1. PICK k : k = table[t] BY Zenon
<1>2. k \in 1..hashtable /\ HasCollected(t, 0) BY <1>1, Zenon DEF Inv, ThreadOK
<1>3. Len(queue) \in Nat BY DEF Inv, Types
<1>4. ASSUME NEW b \in buckets[t] PROVE b \in 1..Len(queue)
  <2>1. PICK i \in Slots(k) : b = Data(k, i) BY <1>1, <1>2, Zenon DEF HasCollected, Slots
  <2>2. Data(k, i) # None BY <1>1, <1>2, Zenon DEF HasCollected, Slots
  <2>3. Data(k, i) \in 0..Len(queue) BY <1>2, Zenon DEF Inv, TablesOK
  <2> QED BY <1>3, <2>1, <2>2, <2>3 DEF None
<1> QED BY <1>4, Zenon

(* The next bucket to lock comes after all that are locked. *)
LEMMA NextBucketIs ==
    ASSUME Inv, NEW t \in Threads, pc[t] = "lockAll"
    PROVE  /\ NextBucket(t) \in buckets[t] \ Owned(t)
           /\ \A c \in buckets[t] \ Owned(t) : NextBucket(t) <= c
           /\ \A c \in Owned(t) : c < NextBucket(t)
<1>1. PICK S : S = buckets[t] \ Owned(t) BY Zenon
<1>2. ThreadOK(t) /\ LocksOK(t) BY Zenon DEF Inv, ThreadOK
<1>3. S \in SUBSET Nat /\ S # {} BY <1>1, <1>2, Zenon DEF Inv, Types, LocksOK
<1>4. Smallest(S) \in S /\ \A c \in S : Smallest(S) <= c BY <1>3, SmallestIs, Zenon
<1> QED BY <1>1, <1>2, <1>4, Zenon DEF NextBucket, LocksOK

(* lockHashtable() locks it. *)
LEMMA LockNextKeeps ==
    ASSUME Inv, NEW t \in Threads, LockNext(t)
    PROVE  Inv'
<1>1. PICK b : b = NextBucket(t) OBVIOUS
<1>2. Types /\ ThreadOK(t) /\ LocksOK(t) /\ pc[t] = "lockAll" BY Zenon DEF Inv, ThreadOK, LockNext
<1>3. /\ b \in buckets[t] /\ b \notin Owned(t) /\ b \in Nat
      /\ \A c \in buckets[t] \ Owned(t) : b <= c
      /\ \A c \in Owned(t) : c < b
  BY <1>1, <1>2, NextBucketIs, Zenon DEF Types
<1>4. b \in 1..Len(queue) BY <1>2, <1>3, CollectedExist, Zenon DEF LockingAll
<1>5. owner[b] = Null /\ owner' = Set(owner, b, t) BY <1>1, Zenon DEF LockNext
<1>6. /\ owner' \in Seq(Threads \cup {Null}) /\ Len(owner') = Len(owner)
      /\ Owned(t)' = Owned(t) \cup {b}
      /\ \A u \in Threads \ {t} : Owned(u)' = Owned(u)
  BY <1>2, <1>4, <1>5, LockOne, Zenon
<1>7. /\ pc' = Set(pc, t, IF buckets[t] \ Owned(t) = {b} THEN "allLocked" ELSE "lockAll")
      /\ UNCHANGED <<tables, hashtable, queue, threadCounts, address, table, call, arg, buckets>>
  BY <1>1, Zenon DEF LockNext
<1>8. TablesOK' /\ QueuesOK' /\ Grown BY <1>7, SameTables, Zenon
<1>9. Types' BY <1>2, <1>6, <1>7, Zenon DEF Types, Set, PC, threadCounts
<1>10. \A u \in Threads \ {t} : Untouched(u) BY <1>2, <1>6, <1>7, Zenon DEF Types, Untouched, Set
<1>11. ThreadOK(t)'
  <2>1. HasCollected(t, 0)' /\ table'[t] \in 1..hashtable'
    BY <1>2, <1>7, Zenon DEF ThreadOK, HasCollected, Size, Data, LockingAll
  <2>2. Owned(t) \subseteq buckets[t] BY <1>2, Zenon DEF LocksOK
  <2>3. CASE buckets[t] \ Owned(t) = {b}
    <3>1. pc'[t] = "allLocked" BY <1>2, <1>7, <2>3, Zenon DEF Types, Set
    <3>2. Owned(t)' = buckets'[t] BY <1>6, <1>7, <2>2, <2>3, Zenon
    <3> QED BY <2>1, <3>1, <3>2, Zenon DEF ThreadOK, CallOK, LocksOK, Calling, LockingAll
  <2>4. CASE buckets[t] \ Owned(t) # {b}
    <3>1. pc'[t] = "lockAll" BY <1>2, <1>7, <2>4, Zenon DEF Types, Set
    <3>2. Owned(t)' \subseteq buckets'[t] /\ Owned(t)' # buckets'[t]
      BY <1>3, <1>6, <1>7, <2>2, <2>4, Zenon
    <3>3. ASSUME NEW x \in Owned(t)', NEW c \in buckets'[t] \ Owned(t)' PROVE x < c
      <4>1. c \in buckets[t] \ Owned(t) /\ c # b /\ c \in Nat BY <1>2, <1>6, <1>7, Zenon DEF Types
      <4>2. x = b \/ x \in Owned(t) BY <1>6, Zenon
      <4>3. x \in Owned(t) => x < c BY <1>2, <4>1, Zenon DEF LocksOK
      <4> QED BY <1>3, <4>1, <4>2, <4>3
    <3>4. LocksOK(t)' BY <3>1, <3>2, <3>3, Zenon DEF LocksOK, LockingAll
    <3> QED BY <2>1, <3>1, <3>4, Zenon DEF ThreadOK, CallOK, Calling, LockingAll
  <2> QED BY <2>3, <2>4, Zenon
<1> QED BY <1>8, <1>9, <1>10, <1>11, StepKeeps

(* All buckets are unlocked, to try again or to return. *)
LEMMA UnlockKeeps ==
    ASSUME Inv, NEW t \in Threads, LockAgain(t) \/ UnlockHashtable(t)
    PROVE  Inv'
<1>1. /\ Types /\ ThreadOK(t) /\ pc[t] \in {"allLocked", "unlockAll"} /\ owner' = Unlocked(t)
      /\ UNCHANGED <<tables, hashtable, queue, numThreads, address>>
  BY Zenon DEF Inv, LockAgain, UnlockHashtable, threadCounts
<1>2. Owned(t) = buckets[t] BY <1>1, Zenon DEF ThreadOK, LocksOK
<1>3. /\ owner' \in Seq(Threads \cup {Null}) /\ Len(owner') = Len(owner)
      /\ Owned(t)' = {}
      /\ \A u \in Threads \ {t} : Owned(u)' = Owned(u)
  BY <1>1, <1>2, UnlockAll, Zenon
<1>4. TablesOK' /\ QueuesOK' /\ Grown BY <1>1, SameTables, Zenon
<1>5. CASE Return(t)
  <2>1. Types' BY <1>1, <1>3, <1>5, Returned, Zenon DEF Types
  <2>2. \A u \in Threads \ {t} : Untouched(u) BY <1>1, <1>3, <1>5, Returned, Zenon DEF Untouched
  <2>3. ThreadOK(t)' BY <1>1, <1>3, <1>5, Returned, Zenon
  <2> QED BY <1>4, <2>1, <2>2, <2>3, StepKeeps, Zenon
<1>6. CASE LockAgain(t)
  <2>1. /\ buckets' = Set(buckets, t, {}) /\ pc' = Set(pc, t, "lockTable")
        /\ UNCHANGED <<threadCounts, table, call, arg>>
    BY <1>6, Zenon DEF LockAgain
  <2>2. Types' BY <1>1, <1>3, <2>1, Zenon DEF Types, Set, PC, threadCounts
  <2>3. \A u \in Threads \ {t} : Untouched(u) BY <1>1, <1>3, <2>1, Zenon DEF Types, Untouched, Set
  <2>4. pc'[t] = "lockTable" /\ buckets'[t] = {} BY <1>1, <2>1, Zenon DEF Types, Set
  <2>5. ThreadOK(t)' BY <1>3, <2>4, Zenon DEF ThreadOK, CallOK, LocksOK, Calling, LockingAll
  <2> QED BY <1>4, <2>2, <2>3, <2>5, StepKeeps
<1> QED BY <1>5, <1>6, Zenon DEF UnlockHashtable

(* A table that is big enough stays. *)
LEMMA NoNeedToResizeKeeps ==
    ASSUME Inv, NEW t \in Threads, NoNeedToResize(t)
    PROVE  Inv'
<1>1. /\ Types /\ ThreadOK(t) /\ pc[t] = "allLocked" /\ pc' = Set(pc, t, "unlockAll")
      /\ UNCHANGED <<tables, hashtable, queue, owner, threadCounts, address, table, call, arg, buckets>>
  BY Zenon DEF Inv, NoNeedToResize
<1>2. TablesOK' /\ QueuesOK' /\ Grown BY <1>1, SameTables, Zenon
<1>3. \A u \in Threads : Owned(u)' = Owned(u) BY <1>1, Zenon DEF Owned
<1>4. Types' BY <1>1, Zenon DEF Types, Set, PC, threadCounts
<1>5. \A u \in Threads \ {t} : Untouched(u) BY <1>1, <1>3, Zenon DEF Types, Untouched, Set
<1>6. ThreadOK(t)'
  <2>1. pc'[t] = "unlockAll" BY <1>1, Zenon DEF Types, Set
  <2>2. HasCollected(t, 0)' /\ table'[t] \in 1..hashtable'
    BY <1>1, Zenon DEF ThreadOK, HasCollected, Size, Data, LockingAll
  <2>3. Owned(t)' = buckets'[t] BY <1>1, <1>3, Zenon DEF ThreadOK, LocksOK
  <2> QED BY <2>1, <2>2, <2>3, Zenon DEF ThreadOK, CallOK, LocksOK, Calling, LockingAll
<1> QED BY <1>2, <1>4, <1>5, <1>6, StepKeeps

-----------------------------------------------------------------------------
(* The resize: gathering the threads *)

(* The recursion that defines Gathered has a solution. *)
LEMMA GatheredEquation ==
    ASSUME Types, NEW t \in Threads
    PROVE  \A n \in 0..Len(queue) :
               Gathered(t)[n] = IF n = 0 THEN <<>>
                                ELSE IF n \in buckets[t] THEN Gathered(t)[n - 1] \o queue[n]
                                ELSE Gathered(t)[n - 1]
<1> DEFINE Step(f, n) == IF n = 0 THEN <<>>
                         ELSE IF n \in buckets[t] THEN f[n - 1] \o queue[n]
                         ELSE f[n - 1]
           T == {m \in Nat : \E f : f = [n \in 0..m |-> Step(f, n)]}
<1>1. 0 \in T
  <2> DEFINE f == [n \in 0..0 |-> <<>>]
  <2>1. f = [n \in 0..0 |-> Step(f, n)] OBVIOUS
  <2> QED BY <2>1, Zenon
<1>2. ASSUME NEW m \in Nat, m \in T PROVE m + 1 \in T
  <2>1. PICK f : f = [n \in 0..m |-> Step(f, n)] BY <1>2, Zenon
  <2> DEFINE g == [n \in 0..(m + 1) |-> IF n = m + 1 THEN Step(f, n) ELSE f[n]]
  <2>2. \A n \in 0..(m + 1) : n # 0 => g[n - 1] = f[n - 1]
    OBVIOUS
  <2>3. \A n \in 0..(m + 1) : g[n] = Step(f, n)
    <3> HIDE DEF Step
    <3>1. \A n \in 0..m : f[n] = Step(f, n) BY <2>1, Zenon
    <3>2. \A n \in 0..(m + 1) : n # m + 1 => n \in 0..m OBVIOUS
    <3> QED BY <3>1, <3>2, Zenon
  <2>4. \A n \in 0..(m + 1) : g[n] = Step(g, n)
    BY <2>2, <2>3, Zenon
  <2>5. g = [n \in 0..(m + 1) |-> Step(g, n)]
    BY <2>4, Zenon
  <2>6. m + 1 \in Nat OBVIOUS
  <2> HIDE DEF g, Step
  <2> QED BY <2>5, <2>6, Zenon
<1>3. Len(queue) \in T
  <2>1. Nat \subseteq T
    <3> HIDE DEF T
    <3> QED BY <1>1, <1>2, SetInduction, Zenon
  <2>2. Len(queue) \in Nat BY DEF Types
  <2> HIDE DEF T
  <2> QED BY <2>1, <2>2, Zenon
<1>4. \E f : f = [n \in 0..Len(queue) |-> Step(f, n)]
  BY <1>3, Zenon
<1>5. Gathered(t) = [n \in 0..Len(queue) |-> Step(Gathered(t), n)]
  BY <1>4, Zenon DEF Gathered
<1>6. \A n \in 0..Len(queue) : Gathered(t)[n] = Step(Gathered(t), n)
  <2> HIDE DEF Step
  <2> QED BY <1>5, Zenon
<1> QED BY <1>6, Zenon

(* The thread that has locked everything has locked every bucket there is. *)
LEMMA AllAreLocked ==
    ASSUME Inv, NEW t \in Threads, pc[t] = "allLocked", ~TableIsStale(t)
    PROVE  /\ table[t] = hashtable /\ hashtable \in 1..hashtable
           /\ HasCollected(t, 0)
           /\ buckets[t] = 1..Len(queue)
<1>1. table[t] = hashtable /\ ThreadOK(t) BY Zenon DEF TableIsStale, Inv
<1>2. hashtable \in 1..hashtable /\ HasCollected(t, 0) BY <1>1, Zenon DEF ThreadOK, LockingAll
<1>3. buckets[t] \subseteq 1..Len(queue) BY CollectedExist, Zenon DEF LockingAll
<1>4. ASSUME NEW b \in 1..Len(queue) PROVE b \in buckets[t]
  <2>1. PICK i \in Slots(hashtable) : Data(hashtable, i) = b BY Zenon DEF Inv, TablesOK
  <2> QED BY <1>1, <1>2, <2>1, Zenon DEF HasCollected, Slots
<1> QED BY <1>1, <1>2, <1>3, <1>4, Zenon

(* The threads of the first n buckets. *)
GatheredOK(s, n) ==
    /\ s \in Seq(Threads)
    /\ \A i \in 1..Len(s) : \E b \in 1..n : Contains(queue[b], s[i])
    /\ \A b \in 1..n : \A j \in 1..Len(queue[b]) : Contains(s, queue[b][j])
    /\ \A i, j \in 1..Len(s) : s[i] = s[j] => i = j
    /\ \A a \in Addresses :
           AllAmong(s, ThreadsAt(a)) =
               IF BucketIn(hashtable, a) \in 1..n
               THEN AllAmong(queue[BucketIn(hashtable, a)], ThreadsAt(a)) ELSE <<>>

(* A thread is in one bucket only. *)
LEMMA OneBucket ==
    ASSUME Inv, NEW b \in 1..Len(queue), NEW i \in 1..Len(queue[b]),
           NEW c \in 1..Len(queue), NEW j \in 1..Len(queue[c]), queue[b][i] = queue[c][j]
    PROVE  b = c
BY DEF Inv, QueuesOK

(* The walk over one more bucket. *)
LEMMA GatheredStep ==
    ASSUME Inv, NEW n \in Nat, n + 1 <= Len(queue), NEW s, GatheredOK(s, n), NEW r, r = s \o queue[n + 1]
    PROVE  GatheredOK(r, n + 1)
<1>1. PICK q : q = queue[n + 1] BY Zenon
<1>2. /\ n + 1 \in 1..Len(queue) /\ n + 1 \in 1..(n + 1)
      /\ \A b \in 1..n : b \in 1..Len(queue) /\ b \in 1..(n + 1) /\ b # n + 1
      /\ \A b \in 1..(n + 1) : b = n + 1 \/ b \in 1..n
  <2>1. Len(queue) \in Nat BY DEF Inv, Types
  <2> QED BY <2>1
<1>3. q \in Seq(Threads) /\ s \in Seq(Threads)
  <2>1. queue \in Seq(Seq(Threads)) BY Zenon DEF Inv, Types
  <2>2. s \in Seq(Threads) BY Zenon DEF GatheredOK
  <2> QED BY <1>1, <1>2, <2>1, <2>2
<1>4. /\ r \in Seq(Threads) /\ Len(s) \in Nat /\ Len(q) \in Nat
      /\ Len(r) = Len(s) + Len(q)
      /\ \A i \in 1..Len(s) : r[i] = s[i]
      /\ \A i \in 1..Len(q) : r[Len(s) + i] = q[i]
  BY <1>1, <1>3, ConcatElements
<1>5. ASSUME NEW i \in 1..Len(r) PROVE i \in 1..Len(s) \/ \E j \in 1..Len(q) : i = Len(s) + j
  <2>1. i \in 1..Len(s) \/ i - Len(s) \in 1..Len(q) BY <1>4
  <2>2. i = Len(s) + (i - Len(s)) BY <1>4
  <2> QED BY <2>1, <2>2, Zenon
<1>6. /\ \A i \in 1..Len(s) : i \in 1..Len(r)
      /\ \A i \in 1..Len(q) : Len(s) + i \in 1..Len(r)
  BY <1>4
<1>7. ASSUME NEW i \in 1..Len(r) PROVE \E b \in 1..(n + 1) : Contains(queue[b], r[i])
  <2>1. CASE i \in 1..Len(s)
    <3>1. PICK b \in 1..n : Contains(queue[b], s[i]) BY <2>1, Zenon DEF GatheredOK
    <3> QED BY <1>2, <1>4, <2>1, <3>1, Zenon
  <2>2. ASSUME NEW j \in 1..Len(q), i = Len(s) + j PROVE Contains(queue[n + 1], r[i])
    BY <1>1, <1>4, <2>2, Zenon DEF Contains
  <2> QED BY <1>2, <1>5, <2>1, <2>2, Zenon
<1>8. ASSUME NEW b \in 1..(n + 1), NEW j \in 1..Len(queue[b]) PROVE Contains(r, queue[b][j])
  <2>1. CASE b = n + 1
    <3>1. j \in 1..Len(q) /\ q[j] = queue[b][j] BY <1>1, <2>1, Zenon
    <3> QED BY <1>4, <1>6, <3>1, Zenon DEF Contains
  <2>2. CASE b \in 1..n
    <3>1. PICK i \in 1..Len(s) : s[i] = queue[b][j] BY <2>2, Zenon DEF GatheredOK, Contains
    <3> QED BY <1>4, <1>6, <3>1, Zenon DEF Contains
  <2> QED BY <1>2, <2>1, <2>2, Zenon
<1>9. ASSUME NEW i \in 1..Len(s), NEW j \in 1..Len(q) PROVE s[i] # q[j]
  <2>1. PICK b \in 1..n : Contains(queue[b], s[i]) BY Zenon DEF GatheredOK
  <2>2. PICK k \in 1..Len(queue[b]) : queue[b][k] = s[i] BY <2>1, Zenon DEF Contains
  <2>3. b # n + 1 /\ b \in 1..Len(queue) BY <1>2, Zenon
  <2> QED BY <1>1, <1>2, <2>2, <2>3, OneBucket, Zenon
<1>10. ASSUME NEW i \in 1..Len(r), NEW j \in 1..Len(r), r[i] = r[j] PROVE i = j
  <2>1. CASE i \in 1..Len(s) /\ j \in 1..Len(s) BY <1>4, <1>10, <2>1, Zenon DEF GatheredOK
  <2>2. ASSUME NEW x \in 1..Len(q), i = Len(s) + x, NEW y \in 1..Len(q), j = Len(s) + y PROVE i = j
    <3>1. q[x] = q[y] BY <1>4, <1>10, <2>2, Zenon
    <3>2. x = y BY <1>1, <1>2, <3>1, Zenon DEF Inv, QueuesOK
    <3> QED BY <2>2, <3>2, Zenon
  <2>3. ASSUME i \in 1..Len(s), NEW y \in 1..Len(q), j = Len(s) + y PROVE FALSE
    BY <1>4, <1>9, <1>10, <2>3, Zenon
  <2>4. ASSUME j \in 1..Len(s), NEW x \in 1..Len(q), i = Len(s) + x PROVE FALSE
    BY <1>4, <1>9, <1>10, <2>4, Zenon
  <2> QED BY <1>5, <2>1, <2>2, <2>3, <2>4, Zenon
<1>11. ASSUME NEW a \in Addresses
       PROVE  AllAmong(r, ThreadsAt(a)) =
                  IF BucketIn(hashtable, a) \in 1..(n + 1)
                  THEN AllAmong(queue[BucketIn(hashtable, a)], ThreadsAt(a)) ELSE <<>>
  <2>1. PICK W, c : W = ThreadsAt(a) /\ c = BucketIn(hashtable, a) BY Zenon
  <2>2. AllAmong(r, W) = AllAmong(s, W) \o AllAmong(q, W)
    <3>1. r = s \o q BY <1>1, Zenon
    <3>2. AllAmong(s \o q, W) = AllAmong(s, W) \o AllAmong(q, W) BY <1>3, AllAmongConcat
    <3> QED BY <3>1, <3>2, Zenon
  <2>3. AllAmong(s, W) = IF c \in 1..n THEN AllAmong(queue[c], W) ELSE <<>> BY <2>1, Zenon DEF GatheredOK
  <2>4. AllAmong(s, W) \in Seq(Threads) /\ AllAmong(q, W) \in Seq(Threads) BY <1>3, AllAmongType, Zenon
  <2>5. CASE c = n + 1
    <3>1. c \notin 1..n /\ c \in 1..(n + 1) BY <2>5
    <3>2. AllAmong(s, W) = <<>> BY <2>3, <3>1, Zenon
    <3>3. <<>> \o AllAmong(q, W) = AllAmong(q, W) BY <2>4
    <3> QED BY <1>1, <2>1, <2>2, <2>5, <3>1, <3>2, <3>3, Zenon
  <2>6. CASE c # n + 1
    <3>1. c \in 1..n <=> c \in 1..(n + 1) BY <1>2, <2>6, Zenon
    <3>2. \A i \in DOMAIN q : q[i] \notin W
      <4> SUFFICES ASSUME NEW i \in 1..Len(q), q[i] \in W PROVE FALSE BY <1>3
      <4>1. address[q[i]] = a BY <2>1, Zenon DEF ThreadsAt
      <4>2. BucketIn(hashtable, address[q[i]]) = n + 1 BY <1>1, <1>2, Zenon DEF Inv, QueuesOK
      <4> QED BY <2>1, <2>6, <4>1, <4>2, Zenon
    <3>3. AllAmong(q, W) = <<>> BY <1>3, <3>2, AllAmongNone, Zenon
    <3>4. AllAmong(s, W) \o <<>> = AllAmong(s, W) BY <2>4
    <3> QED BY <2>1, <2>2, <2>3, <3>1, <3>3, <3>4, Zenon
  <2> QED BY <2>5, <2>6, Zenon
<1> QED BY <1>4, <1>7, <1>8, <1>10, <1>11, Zenon DEF GatheredOK

(* All threads that have parked are gathered, in the order of their queues. *)
LEMMA ThreadDatasOK ==
    ASSUME Inv, NEW t \in Threads, pc[t] = "allLocked", ~TableIsStale(t)
    PROVE  GatheredOK(ThreadDatas(t), Len(queue))
<1> DEFINE G(n) == Gathered(t)[n]
           T == {n \in Nat : n <= Len(queue) => GatheredOK(G(n), n)}
<1>1. Len(queue) \in Nat BY DEF Inv, Types
<1>2. \A n \in 0..Len(queue) :
          G(n) = IF n = 0 THEN <<>> ELSE IF n \in buckets[t] THEN G(n - 1) \o queue[n] ELSE G(n - 1)
  BY GatheredEquation, Zenon DEF Inv
<1>3. buckets[t] = 1..Len(queue) BY AllAreLocked, Zenon
<1> HIDE DEF G
<1>4. 0 \in T
  <2>1. G(0) = <<>>
    <3>1. 0 \in 0..Len(queue) BY <1>1
    <3> QED BY <1>2, <3>1, Zenon
  <2>2. GatheredOK(<<>>, 0) BY AllAmongEmpty DEF GatheredOK
  <2> QED BY <2>1, <2>2, Zenon
<1>5. ASSUME NEW n \in Nat, n \in T PROVE n + 1 \in T
  <2> SUFFICES ASSUME n + 1 <= Len(queue) PROVE GatheredOK(G(n + 1), n + 1)
    OBVIOUS
  <2>1. n <= Len(queue) /\ n + 1 \in 0..Len(queue) /\ n + 1 \in 1..Len(queue) /\ n + 1 # 0 /\ (n + 1) - 1 = n
    BY <1>1
  <2>2. GatheredOK(G(n), n) BY <1>5, <2>1, Zenon
  <2>3. G(n + 1) = G(n) \o queue[n + 1] BY <1>2, <1>3, <2>1, Zenon
  <2> QED BY <2>2, <2>3, GatheredStep, Zenon
<1>6. Nat \subseteq T
  <2> HIDE DEF T
  <2> QED BY <1>4, <1>5, SetInduction, Zenon
<1>7. GatheredOK(G(Len(queue)), Len(queue)) BY <1>1, <1>6
<1> QED BY <1>7, Zenon DEF G, ThreadDatas
=============================================================================
