--------------------------- MODULE ParkingLotTable ---------------------------
(***************************************************************************)
(* The hashtable of WTF::ParkingLot (Source/WTF/wtf/ParkingLot.cpp): how   *)
(* enqueue() and dequeue() find the bucket of an address in a table that   *)
(* is read without a lock, while new threads make ensureHashtableSize()    *)
(* replace it by a bigger one.                                             *)
(*                                                                         *)
(* A Bucket is a number, its position in the order of addresses in which   *)
(* lockHashtable() locks; a table is a number too, and old tables are      *)
(* never freed.  A bucket's WordLock is a mutex (module WordLock).  The    *)
(* compareExchangeWeak loops that retry until they win are one step.       *)
(***************************************************************************)
EXTENDS Queues

CONSTANTS Threads, Addresses, Null,
          hash,          \* hashAddress: address -> number
          maxLoadFactor, \* 3 in the code
          growthFactor   \* 2 in the code

ASSUME TableAssumption ==
    /\ hash \in [Addresses -> Nat]
    /\ maxLoadFactor \in Nat \ {0} /\ growthFactor \in Nat \ {0}
    /\ Null \notin Threads \cup Addresses

VARIABLES tables,      \* every Hashtable created: its size and its data
          hashtable,   \* the current one, 0 if there is none yet
          queue,       \* the queue of each Bucket created
          owner,       \* the thread that has the Bucket's lock, or Null
          numThreads,
          address,     \* ThreadData::address
          pc,
          table,       \* local: the table that the thread works with
          call,        \* what it is called for, "none" outside enqueue() and dequeue()
          arg,         \* the address it looks up
          currentNumThreads, \* local: the number of threads it makes room for
          buckets      \* local: the buckets lockHashtable() has collected

vars == <<tables, hashtable, queue, owner, numThreads, address, pc, table,
          call, arg, currentNumThreads, buckets>>

threadCounts == <<numThreads, currentNumThreads>>

None == 0   \* no bucket in a slot, no table

Init ==
    /\ tables = <<>> /\ hashtable = None
    /\ queue = <<>> /\ owner = <<>>
    /\ numThreads = 0
    /\ address = [t \in Threads |-> Null]
    /\ pc = [t \in Threads |-> "unborn"]
    /\ table = [t \in Threads |-> None]
    /\ call = [t \in Threads |-> "none"]
    /\ arg = [t \in Threads |-> Null]
    /\ currentNumThreads = [t \in Threads |-> 0]
    /\ buckets = [t \in Threads |-> {}]

Set(f, t, value) == [f EXCEPT ![t] = value]

Table(t) == tables[table[t]]

Index(a, tab) == hash[a] % tab.size

(* A call that ends forgets its locals. *)
Return(t) ==
    /\ pc' = Set(pc, t, "idle")
    /\ table' = Set(table, t, None)
    /\ call' = Set(call, t, "none")
    /\ arg' = Set(arg, t, Null)
    /\ currentNumThreads' = Set(currentNumThreads, t, 0)
    /\ buckets' = Set(buckets, t, {})

-----------------------------------------------------------------------------
(* ensureHashtable(), on the way to `label'. *)
EnsureHashtable(t, label) ==
    /\ IF hashtable # None
       THEN UNCHANGED <<tables, hashtable>>
       ELSE /\ tables' = Append(tables, [size |-> maxLoadFactor,
                                         data |-> [i \in 0..(maxLoadFactor - 1) |-> None]])
            /\ hashtable' = Len(tables')
    /\ table' = Set(table, t, hashtable')
    /\ pc' = Set(pc, t, label)

(* Load the slot of the thread's table; make a Bucket for it if it has none. *)
EnsureBucket(t, i) ==
    IF Table(t).data[i] # None
    THEN UNCHANGED <<tables, queue, owner>>
    ELSE /\ queue' = Append(queue, <<>>)
         /\ owner' = Append(owner, Null)
         /\ tables' = [tables EXCEPT ![table[t]].data[i] = Len(queue')]

-----------------------------------------------------------------------------
(* enqueue() and dequeue().  The calls that are not enqueue() are           *)
(*   "unparkOne", with a callback, the only one in which dequeue() makes   *)
(*       the Bucket it misses (BucketMode::EnsureNonEmpty);                *)
(*   "unpark", the calls without (BucketMode::IgnoreEmpty), and            *)
(*   "timeout", in which a thread takes itself off the queue.              *)

(* A thread that is not queued calls for an address, or a queued one for   *)
(* its own.                                                                *)
Call(t, a, c) ==
    /\ pc[t] = "idle"
    /\ IF c = "timeout" THEN address[t] = a ELSE address[t] = Null
    /\ call' = Set(call, t, c)
    /\ arg' = Set(arg, t, a)
    /\ EnsureHashtable(t, "load")
    /\ UNCHANGED <<queue, owner, threadCounts, address, buckets>>

(* The bucket of its address in the table it works with: a slot that has a *)
(* bucket keeps it for good.                                               *)
MyBucket(t) == Table(t).data[Index(arg[t], Table(t))]

Load(t) ==
    /\ pc[t] = "load"
    /\ MyBucket(t) # None \/ call[t] \in {"enqueue", "unparkOne"}
    /\ EnsureBucket(t, Index(arg[t], Table(t)))
    /\ pc' = Set(pc, t, "lock")
    /\ UNCHANGED <<hashtable, threadCounts, address, table, call, arg, buckets>>

(* BucketMode::IgnoreEmpty: dequeue() returns at once. *)
LoadEmpty(t) ==
    /\ pc[t] = "load"
    /\ MyBucket(t) = None /\ call[t] \in {"unpark", "timeout"}
    /\ address' = IF call[t] = "timeout" THEN Set(address, t, Null) ELSE address
    /\ Return(t)
    /\ UNCHANGED <<tables, hashtable, queue, owner, numThreads>>

LockBucket(t) ==
    /\ pc[t] = "lock"
    /\ owner[MyBucket(t)] = Null
    /\ owner' = Set(owner, MyBucket(t), t)
    /\ pc' = Set(pc, t, "locked")
    /\ UNCHANGED <<tables, hashtable, queue, threadCounts, address, table, call, arg, buckets>>

(* Mutant of TableIsStale: the table is not checked again. *)
NeverStale(t) == FALSE

(* At this point the hashtable could have rehashed under us. *)
TableIsStale(t) == hashtable # table[t]

Retry(t) ==
    /\ pc[t] = "locked" /\ TableIsStale(t)
    /\ owner' = Set(owner, MyBucket(t), Null)
    /\ EnsureHashtable(t, "load")
    /\ UNCHANGED <<queue, threadCounts, address, call, arg, buckets>>

Locked(t, calls) == pc[t] = "locked" /\ ~TableIsStale(t) /\ call[t] \in calls

(* What is done with the bucket locked.  A thread that enqueues itself     *)
(* stays queued until it is dequeued; its address is cleared then.         *)
Finish(t, newQueue, newAddress) ==
    /\ queue' = Set(queue, MyBucket(t), newQueue)
    /\ address' = newAddress
    /\ owner' = Set(owner, MyBucket(t), Null)
    /\ Return(t)
    /\ UNCHANGED <<tables, hashtable, numThreads>>

Enqueue(t) ==
    /\ Locked(t, {"enqueue"})
    /\ Finish(t, Append(queue[MyBucket(t)], t), Set(address, t, arg[t]))

(* Dequeue the first of `wanted' that is in the bucket, if there is one. *)
DequeueFirst(t, wanted) ==
    LET q == queue[MyBucket(t)]
    IN  IF FirstAmong(q, wanted) = {}
        THEN Finish(t, q, address)
        ELSE \E i \in FirstAmong(q, wanted) : Finish(t, Removed(q, i), Set(address, q[i], Null))

ThreadsAt(a) == {u \in Threads : address[u] = a}

Dequeue(t) == Locked(t, {"unpark", "unparkOne"}) /\ DequeueFirst(t, ThreadsAt(arg[t]))

(* Dequeue oneself, if nobody else has. *)
DequeueSelf(t) == Locked(t, {"timeout"}) /\ DequeueFirst(t, {t})

-----------------------------------------------------------------------------
(* The constructor and the destructor of ThreadData, and forEach(), which  *)
(* locks the table in the same way but always finds it big enough.         *)

Create(t) ==
    /\ pc[t] = "unborn"
    /\ numThreads' = numThreads + 1
    /\ currentNumThreads' = Set(currentNumThreads, t, numThreads')
    /\ pc' = Set(pc, t, "check")
    /\ UNCHANGED <<tables, hashtable, queue, owner, address, table, call, arg, buckets>>

Exit(t) ==
    /\ pc[t] = "idle" /\ address[t] = Null
    /\ numThreads' = numThreads - 1
    /\ pc' = Set(pc, t, "unborn")
    /\ UNCHANGED <<tables, hashtable, queue, owner, address, table, call, arg,
                   currentNumThreads, buckets>>

ForEach(t) ==
    /\ pc[t] = "idle" /\ address[t] = Null
    /\ currentNumThreads' = Set(currentNumThreads, t, 0)
    /\ pc' = Set(pc, t, "lockTable")
    /\ UNCHANGED <<tables, hashtable, queue, owner, numThreads, address, table, call, arg, buckets>>

BigEnough(tab, threads) == tab.size >= threads * maxLoadFactor

(* The fast check of ensureHashtableSize(), before any lock is taken. *)
Check(t) ==
    /\ pc[t] = "check"
    /\ IF hashtable # None /\ BigEnough(tables[hashtable], currentNumThreads[t])
       THEN Return(t)
       ELSE pc' = Set(pc, t, "lockTable") /\ UNCHANGED <<table, call, arg, currentNumThreads, buckets>>
    /\ UNCHANGED <<tables, hashtable, queue, owner, numThreads, address>>

-----------------------------------------------------------------------------
(* lockHashtable() *)

LockTable(t) ==
    /\ pc[t] = "lockTable"
    /\ EnsureHashtable(t, "fill")
    /\ UNCHANGED <<queue, owner, threadCounts, address, call, arg, buckets>>

Smallest(S) == CHOOSE b \in S : \A c \in S : b <= c
Largest(S) == CHOOSE b \in S : \A c \in S : c <= b

(* The slots are collected from the last one down. *)
NextSlot(t) == Largest({i \in DOMAIN Table(t).data : Table(t).data[i] \notin buckets[t]})

FillSlot(t) ==
    /\ pc[t] = "fill"
    /\ EnsureBucket(t, NextSlot(t))
    /\ buckets' = Set(buckets, t, buckets[t] \cup {tables'[table[t]].data[NextSlot(t)]})
    /\ pc' = Set(pc, t, IF NextSlot(t) = 0 THEN "lockAll" ELSE "fill")
    /\ UNCHANGED <<hashtable, threadCounts, address, table, call, arg>>

Owned(t) == {b \in DOMAIN owner : owner[b] = t}

(* Mutant of NextBucket: the buckets are locked in the order of the slots. *)
NextInSlotOrder(t) ==
    Table(t).data[Largest({i \in DOMAIN Table(t).data : Table(t).data[i] \notin Owned(t)})]

(* The bucket to lock next: they are locked in the order of their addresses. *)
NextBucket(t) == Smallest(buckets[t] \ Owned(t))

LockNext(t) ==
    /\ pc[t] = "lockAll"
    /\ owner[NextBucket(t)] = Null
    /\ owner' = Set(owner, NextBucket(t), t)
    /\ pc' = Set(pc, t, IF buckets[t] \ Owned(t) = {NextBucket(t)} THEN "allLocked" ELSE "lockAll")
    /\ UNCHANGED <<tables, hashtable, queue, threadCounts, address, table, call, arg, buckets>>

Unlocked(t) == [b \in DOMAIN owner |-> IF b \in buckets[t] THEN Null ELSE owner[b]]

(* The hashtable rehashed. Unlock everything and try again. *)
LockAgain(t) ==
    /\ pc[t] = "allLocked" /\ TableIsStale(t)
    /\ owner' = Unlocked(t)
    /\ buckets' = Set(buckets, t, {})
    /\ pc' = Set(pc, t, "lockTable")
    /\ UNCHANGED <<tables, hashtable, queue, threadCounts, address, table, call, arg>>

-----------------------------------------------------------------------------
(* The rest of ensureHashtableSize(), with every bucket locked: nobody     *)
(* sees the new table before it is installed.                              *)

(* The threads of the old buckets, in queue order. *)
Gathered(t) ==
    LET gathered[n \in 0..Len(queue)] ==
            IF n = 0 THEN <<>>
            ELSE IF n \in buckets[t] THEN gathered[n - 1] \o queue[n] ELSE gathered[n - 1]
    IN  gathered

(* Mutant of ThreadDatas: the threads are taken from the tail. *)
ThreadDatasBackwards(t) ==
    LET datas == Gathered(t)[Len(queue)]
    IN  [k \in 1..Len(datas) |-> datas[Len(datas) + 1 - k]]

ThreadDatas(t) == Gathered(t)[Len(queue)]

Put(new, i, b, reusable, count) ==
    [size |-> new.size, data |-> Set(new.data, i, b), reusable |-> reusable, count |-> count]

(* The last of the old buckets that are left goes into slot i. *)
Reuse(new, i) ==
    LET b == Largest(new.reusable) IN Put(new, i, b, new.reusable \ {b}, new.count)

(* Find a bucket for a thread's slot of the new table, an old bucket as    *)
(* long as there is one.                                                   *)
GiveBucket(new, u) ==
    LET i == Index(address[u], new)
    IN  IF new.data[i] # None THEN new
        ELSE IF new.reusable # {} THEN Reuse(new, i)
        ELSE Put(new, i, new.count + 1, {}, new.count + 1)

(* Mutant of PlaceUnused: the unused buckets are dropped. *)
DropUnused(new, i) == new

(* Put an unused old bucket into an empty slot, not to leak it. *)
PlaceUnused(new, i) ==
    IF new.data[i] # None \/ new.reusable = {} THEN new ELSE Reuse(new, i)

NewSize(t) == currentNumThreads[t] * growthFactor * maxLoadFactor

(* The new table after n steps of the two loops, the one over the threads  *)
(* and the one over the slots.                                             *)
Filling(t) ==
    LET datas == ThreadDatas(t)
        empty == [size |-> NewSize(t), data |-> [i \in 0..(NewSize(t) - 1) |-> None],
                  reusable |-> buckets[t], count |-> Len(queue)]
        filled[n \in 0..(Len(datas) + NewSize(t))] ==
            IF n = 0 THEN empty
            ELSE IF n <= Len(datas) THEN GiveBucket(filled[n - 1], datas[n])
            ELSE PlaceUnused(filled[n - 1], n - Len(datas) - 1)
    IN  filled

NewHashtable(t) == Filling(t)[Len(ThreadDatas(t)) + NewSize(t)]

(* Each bucket's queue afterwards: the threads are enqueued in the order   *)
(* in which they were gathered.                                            *)
Requeued(t, new) ==
    [b \in 1..new.count |->
        AllAmong(ThreadDatas(t), {u \in Threads : /\ address[u] # Null
                                                  /\ new.data[Index(address[u], new)] = b})]

Resize(t) ==
    /\ pc[t] = "allLocked" /\ ~TableIsStale(t)
    /\ ~BigEnough(tables[hashtable], currentNumThreads[t])
    /\ LET new == NewHashtable(t)
       IN  /\ tables' = Append(tables, [size |-> new.size, data |-> new.data])
           /\ queue' = Requeued(t, new)
           /\ owner' = [b \in 1..new.count |-> IF b \in DOMAIN owner THEN owner[b] ELSE Null]
    /\ hashtable' = Len(tables')
    /\ pc' = Set(pc, t, "unlockAll")
    /\ UNCHANGED <<threadCounts, address, table, call, arg, buckets>>

NoNeedToResize(t) ==
    /\ pc[t] = "allLocked" /\ ~TableIsStale(t)
    /\ BigEnough(tables[hashtable], currentNumThreads[t])
    /\ pc' = Set(pc, t, "unlockAll")
    /\ UNCHANGED <<tables, hashtable, queue, owner, threadCounts, address, table, call, arg, buckets>>

UnlockHashtable(t) ==
    /\ pc[t] = "unlockAll"
    /\ owner' = Unlocked(t)
    /\ Return(t)
    /\ UNCHANGED <<tables, hashtable, queue, numThreads, address>>

-----------------------------------------------------------------------------
Next == \E t \in Threads :
    \/ Create(t) \/ Exit(t) \/ ForEach(t)
    \/ \E a \in Addresses, c \in {"enqueue", "unpark", "unparkOne", "timeout"} : Call(t, a, c)
    \/ Load(t) \/ LoadEmpty(t) \/ LockBucket(t) \/ Retry(t)
    \/ Enqueue(t) \/ Dequeue(t) \/ DequeueSelf(t)
    \/ Check(t) \/ LockTable(t) \/ FillSlot(t) \/ LockNext(t) \/ LockAgain(t)
    \/ Resize(t) \/ NoNeedToResize(t) \/ UnlockHashtable(t)

Spec == Init /\ [][Next]_vars

-----------------------------------------------------------------------------
(* The queue of the bucket that the current table has for an address. *)
QueueOf(a) ==
    IF hashtable = None THEN <<>>
    ELSE LET b == tables[hashtable].data[Index(a, tables[hashtable])]
         IN  IF b = None THEN <<>> ELSE queue[b]

QueuedAt(a) == AllAmong(QueueOf(a), ThreadsAt(a))

(* Whoever has parked can be found: it is queued once, in the bucket that  *)
(* the current table has for its address, however often the table has been *)
(* replaced since.                                                         *)
EveryoneFindable ==
    \A t \in Threads : address[t] # Null =>
        \E i \in DOMAIN QueueOf(address[t]) :
            {j \in DOMAIN QueueOf(address[t]) : QueueOf(address[t])[j] = t} = {i}

(* No bucket is leaked or shared by a resize: each is in exactly one slot  *)
(* of the current table.  Old tables never get buckets of their own.       *)
NoBucketLeaked ==
    \A b \in DOMAIN queue :
        \E i \in DOMAIN tables[hashtable].data :
            {j \in DOMAIN tables[hashtable].data : tables[hashtable].data[j] = b} = {i}

(* The bucket a thread is waiting to lock. *)
Wanted(t) ==
    CASE pc[t] = "lock"    -> MyBucket(t)
      [] pc[t] = "lockAll" -> NextBucket(t)
      [] OTHER             -> None

(* Nobody waits for anybody in a circle: a thread that holds the locks of  *)
(* some buckets only ever waits for one that comes after all of them.      *)
LocksInOrder ==
    \A t \in Threads : Wanted(t) # None => \A b \in Owned(t) : b < Wanted(t)

(* Neither a resize nor another address in the bucket disturbs the order   *)
(* in which threads are queued at an address: forEach() and unparkOne()    *)
(* see them from first to last.                                            *)
OrderIsKept ==
    [][\A a \in Addresses :
           \/ QueuedAt(a)' = QueuedAt(a)
           \/ \E t \in Threads : QueuedAt(a)' = Append(QueuedAt(a), t)
           \/ \E i \in DOMAIN QueuedAt(a) : QueuedAt(a)' = Removed(QueuedAt(a), i)]_vars
==============================================================================
