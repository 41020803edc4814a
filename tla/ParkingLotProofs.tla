-------------------------- MODULE ParkingLotProofs --------------------------
(***************************************************************************)
(* Proofs about the ParkingLot: an invariant of its state that each of its *)
(* steps preserves, whoever takes them (also used by LockProofs), and what *)
(* follows from it for the general client: the queues are sound,           *)
(* parkConditionally() returns the truth, and the buckets implement one    *)
(* FIFO queue per address.                                                 *)
(***************************************************************************)
EXTENDS ParkingLotClient, QueueLemmas

LotTypeOK ==
    /\ bucket \in [Buckets -> Seq(Threads)]
    /\ address \in [Threads -> Addresses \cup {Null}]
    /\ parkedAt \in [Threads -> Addresses \cup {Null}]
    /\ result \in [Threads -> BOOLEAN]
    /\ leftBy \in [Threads -> {"nobody", "itself", "unpark"}]
    /\ woken \in [Threads -> Seq(Threads)]
    /\ DOMAIN ret = Threads
    /\ DOMAIN pc = Threads

(* QueuesAreSound, bucket by bucket. *)
Queued(t, b) ==
    /\ parkedAt[t] # Null /\ bucketOf[parkedAt[t]] = b
    /\ address[t] = parkedAt[t]
    /\ leftBy[t] = "nobody"

BucketInv(b) ==
    /\ \A i \in 1..Len(bucket[b]) : Queued(bucket[b][i], b)
    /\ \A i, j \in 1..Len(bucket[b]) : bucket[b][i] = bucket[b][j] => i = j

(* Where parkConditionally() is for t, and what it knows there. *)
ParkInv(t) ==
    /\ parkedAt[t] = Null => leftBy[t] = "nobody" /\ address[t] = Null
    /\ parkedAt[t] # Null /\ leftBy[t] = "nobody" => OnQueue(t)
    /\ leftBy[t] = "itself" => pc[t] \in {"clearSelf", "unparked"}
    /\ pc[t] \in {"clearSelf", "unparked"} =>
           leftBy[t] # "nobody" /\ (result[t] <=> leftBy[t] = "unpark")
    /\ pc[t] = "unparked" => address[t] = Null
    /\ pc[t] \in {"sleep", "blocked", "dequeueSelf", "clearSelf", "unparked"} =>
           parkedAt[t] # Null
    /\ pc[t] \in {"dequeueSelf", "clearSelf"} => t \in TimedThreads

(* Where the unpark call of t goes on. *)
IsAfter(label) ==
    label \notin {"blocked", "dequeueSelf", "clearSelf", "unparked", "clear", "notify"}

UnparkInv(t) ==
    pc[t] \in {"clear", "notify"} =>
        /\ woken[t] # <<>>
        /\ IsAfter(ret[t])
        /\ ret[t] = "sleep" => parkedAt[t] # Null

(* The threads that u's unpark call has dequeued and whose address it has  *)
(* yet to clear, as indices of woken[u].                                   *)
Uncleared(u) == {i \in DOMAIN woken[u] : pc[u] = "clear" \/ (pc[u] = "notify" /\ i # 1)}

(* Such a thread is still in the park that the call took it out of, unless *)
(* it has timed out in the meantime.                                       *)
UnclearedInv(u) ==
    \A i \in Uncleared(u) :
        LET v == woken[u][i]
        IN  \/ leftBy[v] = "unpark" /\ parkedAt[v] # Null /\ address[v] = parkedAt[v]
            \/ v \in TimedThreads /\ address[v] = Null

UnclearedOnce ==
    \A u, w \in Threads : \A i \in Uncleared(u), j \in Uncleared(w) :
        woken[u][i] = woken[w][j] => u = w /\ i = j

LotInv ==
    /\ LotTypeOK
    /\ \A b \in Buckets : BucketInv(b)
    /\ \A t \in Threads : ParkInv(t) /\ UnparkInv(t) /\ UnclearedInv(t)
    /\ UnclearedOnce

-----------------------------------------------------------------------------
\* The inductive invariant says in particular that the queues are sound.
LEMMA SoundFromInv == LotInv => QueuesAreSound
<1> SUFFICES ASSUME LotInv,
                    NEW b \in Buckets, NEW i \in DOMAIN bucket[b]
             PROVE  /\ Queued(bucket[b][i], b)
                    /\ \A c \in Buckets : \A j \in DOMAIN bucket[c] :
                           bucket[c][j] = bucket[b][i] => c = b /\ j = i
  BY DEF QueuesAreSound, Queued
<1>1. \A c \in Buckets : DOMAIN bucket[c] = 1..Len(bucket[c]) BY DEF LotInv, LotTypeOK
<1>2. \A c \in Buckets : BucketInv(c) BY Zenon DEF LotInv
<1>3. Queued(bucket[b][i], b) BY <1>1, <1>2, Zenon DEF BucketInv
<1>4. ASSUME NEW c \in Buckets, NEW j \in DOMAIN bucket[c], bucket[c][j] = bucket[b][i]
      PROVE  c = b /\ j = i
  <2>1. Queued(bucket[c][j], c) BY <1>1, <1>2, Zenon DEF BucketInv
  <2>2. c = b BY <1>3, <1>4, <2>1, Zenon DEF Queued
  <2> QED BY <1>1, <1>2, <1>4, <2>2, Zenon DEF BucketInv
<1> QED BY <1>3, <1>4, Zenon

(* A thread on a queue is at one place of the bucket of its address. *)
LEMMA OnQueueMeans ==
    ASSUME LotInv, NEW t \in Threads
    PROVE  /\ OnQueue(t) => /\ Queued(t, bucketOf[parkedAt[t]])
                            /\ bucketOf[parkedAt[t]] \in Buckets
                            /\ \E i \in 1..Len(bucket[bucketOf[parkedAt[t]]]) :
                                   bucket[bucketOf[parkedAt[t]]][i] = t
           /\ \A b \in Buckets : \A i \in 1..Len(bucket[b]) : bucket[b][i] = t => OnQueue(t)
<1>1. \A c \in Buckets : DOMAIN bucket[c] = 1..Len(bucket[c]) BY DEF LotInv, LotTypeOK
<1>2. \A c \in Buckets : BucketInv(c) BY Zenon DEF LotInv
<1>3. ASSUME OnQueue(t)
      PROVE  /\ Queued(t, bucketOf[parkedAt[t]])
             /\ bucketOf[parkedAt[t]] \in Buckets
             /\ \E i \in 1..Len(bucket[bucketOf[parkedAt[t]]]) :
                    bucket[bucketOf[parkedAt[t]]][i] = t
  <2>1. PICK b \in Buckets : \E i \in 1..Len(bucket[b]) : bucket[b][i] = t
    BY <1>1, <1>3, Zenon DEF OnQueue
  <2>2. Queued(t, b) BY <1>2, <2>1 DEF BucketInv
  <2>3. bucketOf[parkedAt[t]] = b BY <2>2, Zenon DEF Queued
  <2> QED BY <2>1, <2>2, <2>3, Zenon
<1>4. \A b \in Buckets : \A i \in 1..Len(bucket[b]) : bucket[b][i] = t => OnQueue(t)
  BY <1>1, Zenon DEF OnQueue
<1> QED BY <1>3, <1>4, Zenon

(* A dequeue that takes the threads G out of bucket b. *)
LEMMA QueueShrinks ==
    ASSUME LotInv,
           NEW b \in Buckets, NEW q \in Seq(Threads), NEW G \in SUBSET Threads,
           bucket' = [bucket EXCEPT ![b] = q],
           \A j \in 1..Len(q) : q[j] \notin G /\ \E k \in 1..Len(bucket[b]) : bucket[b][k] = q[j],
           \A j, k \in 1..Len(q) : q[j] = q[k] => j = k,
           \A k \in 1..Len(bucket[b]) :
               bucket[b][k] \notin G => \E j \in 1..Len(q) : q[j] = bucket[b][k],
           \A t \in G : \E k \in 1..Len(bucket[b]) : bucket[b][k] = t,
           UNCHANGED <<address, parkedAt>>,
           \A t \in Threads \ G : leftBy'[t] = leftBy[t]
    PROVE  /\ bucket' \in [Buckets -> Seq(Threads)]
           /\ (\A c \in Buckets : BucketInv(c))'
           /\ \A t \in Threads \ G : OnQueue(t) => OnQueue(t)'
<1>1. bucket \in [Buckets -> Seq(Threads)] BY Zenon DEF LotInv, LotTypeOK
<1>2. bucket' \in [Buckets -> Seq(Threads)] BY <1>1, Zenon
<1>3. \A c \in Buckets : BucketInv(c) BY Zenon DEF LotInv
<1>4. bucket'[b] = q /\ \A c \in Buckets \ {b} : bucket'[c] = bucket[c] BY <1>1, Zenon
<1>5. \A c \in Buckets : bucket[c] \in Seq(Threads) /\ DOMAIN bucket[c] = 1..Len(bucket[c])
  BY <1>1
<1>6. \A c \in Buckets : bucket'[c] \in Seq(Threads) /\ DOMAIN bucket'[c] = 1..Len(bucket'[c])
  BY <1>2
<1>7. ASSUME NEW t \in Threads \ G, NEW c, Queued(t, c) PROVE Queued(t, c)'
  BY <1>7, Zenon DEF Queued
<1>8. BucketInv(b)'
  <2>1. \A i \in 1..Len(q) : q[i] \in Threads OBVIOUS
  <2>2. \A i \in 1..Len(q) : Queued(q[i], b) BY <1>3, Zenon DEF BucketInv
  <2>3. \A i \in 1..Len(q) : Queued(q[i], b)' BY <1>7, <2>1, <2>2, Zenon
  <2>4. (\A i \in 1..Len(bucket[b]) : Queued(bucket[b][i], b))' BY <1>4, <2>3, Zenon DEF Queued
  <2>5. bucket'[b] = q BY <1>4, Zenon
  <2>6. ASSUME NEW i \in 1..Len(bucket'[b]), NEW j \in 1..Len(bucket'[b]), bucket'[b][i] = bucket'[b][j]
        PROVE  i = j
    <3>1. i \in 1..Len(q) /\ j \in 1..Len(q) /\ q[i] = q[j] BY <2>5, <2>6, Zenon
    <3> QED BY <3>1, Zenon
  <2> QED BY <2>4, <2>6, Zenon DEF BucketInv
<1>9. ASSUME NEW c \in Buckets \ {b} PROVE BucketInv(c)'
  <2>1. \A i \in 1..Len(bucket[c]) : bucket[c][i] \in Threads /\ Queued(bucket[c][i], c)
    BY <1>3, <1>5 DEF BucketInv
  <2>2. \A i \in 1..Len(bucket[c]) : bucket[c][i] \notin G
    <3> SUFFICES ASSUME NEW i \in 1..Len(bucket[c]), bucket[c][i] \in G PROVE FALSE
      BY Zenon
    <3>1. Queued(bucket[c][i], b) BY <1>3, Zenon DEF BucketInv
    <3> QED BY <2>1, <3>1, Zenon DEF Queued
  <2>3. \A i \in 1..Len(bucket[c]) : Queued(bucket[c][i], c)' BY <1>7, <2>1, <2>2
  <2> QED BY <1>3, <1>4, <2>3 DEF BucketInv
<1>10. ASSUME NEW t \in Threads \ G, OnQueue(t) PROVE OnQueue(t)'
  <2>1. PICK c \in Buckets : \E i \in 1..Len(bucket[c]) : bucket[c][i] = t
    BY <1>5, <1>10, Zenon DEF OnQueue
  <2>2. \E i \in 1..Len(bucket'[c]) : bucket'[c][i] = t
    <3>1. CASE c = b
      <4>1. PICK k \in 1..Len(bucket[b]) : bucket[b][k] = t BY <2>1, <3>1, Zenon
      <4>2. \E j \in 1..Len(q) : q[j] = bucket[b][k] BY <4>1, Zenon
      <4> QED BY <1>4, <3>1, <4>1, <4>2
    <3>2. CASE c # b BY <1>4, <2>1, <3>2, Zenon
    <3> QED BY <3>1, <3>2, Zenon
  <2> QED BY <1>6, <2>2, Zenon DEF OnQueue
<1> QED BY <1>2, <1>8, <1>9, <1>10, Zenon

(* A step that dequeues nobody. *)
LEMMA FewerUncleared ==
    ASSUME UnclearedOnce, woken' = woken,
           \A u \in Threads : \A i \in Uncleared(u)' : i \in Uncleared(u)
    PROVE  UnclearedOnce'
<1> SUFFICES ASSUME NEW u \in Threads, NEW v \in Threads,
                    NEW i \in Uncleared(u)', NEW j \in Uncleared(v)',
                    woken'[u][i] = woken'[v][j]
             PROVE  u = v /\ i = j
  BY Zenon DEF UnclearedOnce
<1>1. i \in Uncleared(u) /\ j \in Uncleared(v) BY Zenon
<1>2. woken[u][i] = woken[v][j] BY Zenon
<1> QED BY <1>1, <1>2, ZenonT(30) DEF UnclearedOnce

(* A step that leaves the queues alone, and no thread's standing with them. *)
LEMMA QueuesSame ==
    ASSUME UNCHANGED <<bucket, address, parkedAt, leftBy>>
    PROVE  /\ \A b : BucketInv(b) <=> BucketInv(b)'
           /\ \A t : OnQueue(t) <=> OnQueue(t)'
BY Zenon DEF BucketInv, Queued, OnQueue

(* The initial state. *)
LEMMA LotInitially ==
    ASSUME LotInit, pc = [t \in Threads |-> "idle"]
    PROVE  LotInv
<1>1. LotTypeOK
  <2>1. bucket \in [Buckets -> Seq(Threads)] /\ woken \in [Threads -> Seq(Threads)]
    BY DEF LotInit
  <2> QED BY <2>1, Zenon DEF LotInit, LotTypeOK
<1>2. \A b \in Buckets : BucketInv(b) BY DEF LotInit, BucketInv
<1>3. \A t \in Threads : ParkInv(t) /\ UnparkInv(t) BY Zenon DEF LotInit, ParkInv, UnparkInv
<1>4. \A t \in Threads : Uncleared(t) = {} BY Zenon DEF LotInit, Uncleared
<1>5. (\A t \in Threads : UnclearedInv(t)) /\ UnclearedOnce BY <1>4, Zenon DEF UnclearedInv, UnclearedOnce
<1> QED BY <1>1, <1>2, <1>3, <1>5, Zenon DEF LotInv

(* A thread moves, and notes where to go on, while the parking lot stays   *)
(* as it is.                                                               *)
LEMMA LotMove ==
    ASSUME LotInv, NEW t \in Threads, NEW label,
           UNCHANGED <<bucket, address, parkedAt, result, leftBy, woken>>,
           DOMAIN ret' = Threads, \A u \in Threads \ {t} : ret'[u] = ret[u],
           Goto(t, label),
           pc[t] \notin {"clearSelf", "unparked", "clear", "notify"},
           label \notin {"clearSelf", "unparked", "clear", "notify"},
           label \in {"sleep", "blocked", "dequeueSelf"} => parkedAt[t] # Null,
           label = "dequeueSelf" => t \in TimedThreads
    PROVE  LotInv'
<1> USE DEF Goto
<1>1. LotTypeOK' BY Zenon DEF LotInv, LotTypeOK
<1>2. /\ \A b : BucketInv(b) <=> BucketInv(b)'
      /\ \A u : OnQueue(u) <=> OnQueue(u)'
  BY QueuesSame, Zenon
<1>3. pc'[t] = label /\ \A u \in Threads \ {t} : pc'[u] = pc[u] BY Zenon DEF LotInv, LotTypeOK
<1>4. ASSUME NEW u \in Threads PROVE ParkInv(u)' /\ UnparkInv(u)' /\ UnclearedInv(u)'
  <2>1. ParkInv(u) /\ UnparkInv(u) /\ UnclearedInv(u) BY Zenon DEF LotInv
  <2>2. ParkInv(u)' BY <1>2, <1>3, <2>1, Zenon DEF ParkInv
  <2>3. UnparkInv(u)' BY <1>3, <2>1, Zenon DEF UnparkInv, IsAfter
  <2>4. UnclearedInv(u)' BY <1>3, <2>1, Zenon DEF UnclearedInv, Uncleared
  <2> QED BY <2>2, <2>3, <2>4, Zenon
<1>5. \A u \in Threads : Uncleared(u)' = Uncleared(u) BY <1>3, Zenon DEF Uncleared
<1>6. UnclearedOnce' BY <1>5 DEF LotInv, UnclearedOnce
<1> QED BY <1>1, <1>2, <1>4, <1>6, Zenon DEF LotInv

\* A step of a thread's own program that leaves the lot alone keeps the
\* invariant, when it neither leaves nor enters a place that owes somebody a
\* wake-up.
LEMMA LotFrame ==
    ASSUME LotInv, NEW t \in Threads, NEW label,
           UNCHANGED lotVars, Goto(t, label),
           pc[t] \notin {"clearSelf", "unparked", "clear", "notify"},
           label \notin {"clearSelf", "unparked", "clear", "notify"},
           label \in {"sleep", "blocked", "dequeueSelf"} => parkedAt[t] # Null,
           label = "dequeueSelf" => t \in TimedThreads
    PROVE  LotInv'
<1>1. UNCHANGED <<bucket, address, parkedAt, result, leftBy, woken>> /\ ret' = ret BY Zenon DEF lotVars
<1>2. DOMAIN ret' = Threads BY <1>1, Zenon DEF LotInv, LotTypeOK
<1> QED BY <1>1, <1>2, LotMove, Zenon

\* The test of the sleep loop, after which the thread blocks or knows that it
\* was unparked.
LEMMA SleepKeeps ==
    ASSUME LotInv, NEW t \in Threads, Sleep(t)
    PROVE  LotInv'
<1> USE DEF Sleep, Goto
<1>1. CASE address[t] # Null
  <2>1. parkedAt[t] # Null BY Zenon DEF LotInv, ParkInv
  <2>2. UNCHANGED lotVars /\ Goto(t, "blocked") BY <1>1, Zenon DEF lotVars
  <2> QED BY <2>1, <2>2, LotFrame, Zenon
<1>2. CASE address[t] = Null
  <2>1. LotTypeOK' BY <1>2, Zenon DEF LotInv, LotTypeOK
  <2>2. /\ \A b : BucketInv(b) <=> BucketInv(b)'
        /\ \A u : OnQueue(u) <=> OnQueue(u)'
    BY QueuesSame, Zenon
  <2>3. /\ pc'[t] = "unparked" /\ \A u \in Threads \ {t} : pc'[u] = pc[u]
        /\ result'[t] = TRUE /\ \A u \in Threads \ {t} : result'[u] = result[u]
    BY <1>2, Zenon DEF LotInv, LotTypeOK
  <2>4. leftBy[t] = "unpark"
    <3>1. ParkInv(t) BY Zenon DEF LotInv
    <3>2. leftBy[t] # "itself" BY <3>1, Zenon DEF ParkInv
    <3>3. ~OnQueue(t) BY <1>2, OnQueueMeans, Zenon DEF Queued
    <3> QED BY <3>1, <3>2, <3>3, Zenon DEF ParkInv, LotInv, LotTypeOK
  <2>5. ASSUME NEW u \in Threads PROVE ParkInv(u)' /\ UnparkInv(u)' /\ UnclearedInv(u)'
    <3>1. ParkInv(u) /\ UnparkInv(u) /\ UnclearedInv(u) BY Zenon DEF LotInv
    <3>2. ParkInv(u)' BY <1>2, <2>2, <2>3, <2>4, <3>1, Zenon DEF ParkInv
    <3>3. UnparkInv(u)' BY <2>3, <3>1, Zenon DEF UnparkInv
    <3>4. UnclearedInv(u)' BY <2>3, <3>1, Zenon DEF UnclearedInv, Uncleared
    <3> QED BY <3>2, <3>3, <3>4, Zenon
  <2>6. \A u \in Threads : Uncleared(u)' = Uncleared(u) BY <2>3, Zenon DEF Uncleared
  <2>7. UnclearedOnce' BY <2>6 DEF LotInv, UnclearedOnce
  <2> QED BY <2>1, <2>2, <2>5, <2>7, Zenon DEF LotInv
<1> QED BY <1>1, <1>2, Zenon

\* A timeout only sends the thread to take itself out of its queue.
LEMMA TimedOutKeeps ==
    ASSUME LotInv, NEW t \in Threads, TimedOut(t)
    PROVE  LotInv'
<1>1. parkedAt[t] # Null BY Zenon DEF LotInv, ParkInv, TimedOut
<1> QED BY <1>1, LotFrame, Zenon DEF TimedOut

\* Waking up keeps the invariant, by the frame lemma.
LEMMA WakeUpKeeps ==
    ASSUME LotInv, NEW t \in Threads, WakeUp(t)
    PROVE  LotInv'
<1>1. parkedAt[t] # Null BY Zenon DEF LotInv, ParkInv, WakeUp
<1> QED BY <1>1, LotFrame, Zenon DEF WakeUp

(* A thread that is not in a park, and that no unpark call is about to     *)
(* write to, enqueues itself.                                              *)
LEMMA EnqueueKeeps ==
    ASSUME LotInv, NEW t \in Threads, NEW a \in Addresses, NEW label,
           EnqueueAt(t, a), Goto(t, label),
           parkedAt[t] = Null,
           \A u \in Threads : \A i \in Uncleared(u) : woken[u][i] # t,
           pc[t] \notin {"clear", "notify"},
           label \in {"beforeSleep", "sleep"}
    PROVE  LotInv'
<1> DEFINE b == bucketOf[a]
<1>1. b \in Buckets /\ a # Null BY ParkingLotAssumption, Zenon
<1>2. LotTypeOK BY Zenon DEF LotInv
<1>3. /\ address'[t] = a /\ parkedAt'[t] = a /\ leftBy'[t] = "nobody" /\ pc'[t] = label
      /\ \A u \in Threads \ {t} : /\ address'[u] = address[u] /\ parkedAt'[u] = parkedAt[u]
                                  /\ leftBy'[u] = leftBy[u] /\ pc'[u] = pc[u]
  BY <1>2, Zenon DEF LotTypeOK, EnqueueAt, Goto
<1>4. bucket'[b] = Append(bucket[b], t) /\ \A c \in Buckets \ {b} : bucket'[c] = bucket[c]
  BY <1>1, <1>2, Zenon DEF LotTypeOK, EnqueueAt
<1>5. \A c \in Buckets : bucket[c] \in Seq(Threads) /\ DOMAIN bucket[c] = 1..Len(bucket[c])
  BY <1>2 DEF LotTypeOK
<1> DEFINE q == Append(bucket[b], t)
           n == Len(bucket[b])
<1>6. /\ q \in Seq(Threads) /\ Len(q) = n + 1 /\ n \in Nat /\ DOMAIN q = 1..(n + 1)
      /\ \A i \in 1..n : q[i] = bucket[b][i]
      /\ q[n + 1] = t
  BY <1>1, <1>5
<1>7. \A c \in Buckets : BucketInv(c) BY Zenon DEF LotInv
<1>8. \A c \in Buckets : \A i \in 1..Len(bucket[c]) :
          bucket[c][i] \in Threads \ {t} /\ Queued(bucket[c][i], c)
  <2> SUFFICES ASSUME NEW c \in Buckets, NEW i \in 1..Len(bucket[c])
               PROVE  bucket[c][i] \in Threads \ {t} /\ Queued(bucket[c][i], c)
    BY Zenon
  <2>1. bucket[c][i] \in Threads /\ Queued(bucket[c][i], c) BY <1>5, <1>7 DEF BucketInv
  <2> QED BY <2>1, Zenon DEF Queued
<1>9. \A c \in Buckets : \A u \in Threads \ {t} : Queued(u, c) => Queued(u, c)'
  BY <1>3, Zenon DEF Queued
<1> HIDE DEF q, n, b
<1>10. LotTypeOK'
  <2>1. bucket' \in [Buckets -> Seq(Threads)] BY <1>1, <1>2, <1>4, <1>6, Zenon DEF LotTypeOK, q, EnqueueAt, b
  <2> QED BY <1>2, <2>1, Zenon DEF LotTypeOK, EnqueueAt, Goto
<1>11. ASSUME NEW c \in Buckets PROVE BucketInv(c)'
  <2>1. CASE c # b
    <3>1. bucket'[c] = bucket[c] BY <1>4, <2>1, Zenon
    <3>2. \A i \in 1..Len(bucket'[c]) : bucket'[c][i] \in Threads \ {t} /\ Queued(bucket'[c][i], c)
      BY <1>8, <3>1, Zenon
    <3>3. (\A i \in 1..Len(bucket[c]) : Queued(bucket[c][i], c))' BY <1>9, <3>2 DEF Queued
    <3>4. (\A i, j \in 1..Len(bucket[c]) : bucket[c][i] = bucket[c][j] => i = j)'
      BY <1>7, <3>1, Zenon DEF BucketInv
    <3> QED BY <3>3, <3>4, Zenon DEF BucketInv
  <2>2. CASE c = b
    <3>1. bucket'[c] = q BY <1>4, <2>2, Zenon DEF q
    <3>2. Queued(t, b)' BY <1>1, <1>3, Zenon DEF Queued, b
    <3>3. \A i \in 1..Len(q) : q[i] = t \/ (q[i] \in Threads \ {t} /\ Queued(q[i], b))
      <4>1. \A i \in 1..n : q[i] \in Threads \ {t} /\ Queued(q[i], b) BY <1>1, <1>6, <1>8, Zenon DEF n
      <4> QED BY <1>6, <4>1
    <3>4. \A i, j \in 1..Len(q) : q[i] = q[j] => i = j
      <4>1. \A i \in 1..n : q[i] # t BY <1>1, <1>6, <1>8, Zenon DEF n
      <4>2. \A i, j \in 1..n : q[i] = q[j] => i = j BY <1>1, <1>6, <1>7, Zenon DEF BucketInv, n
      <4> QED BY <1>6, <4>1, <4>2
    <3>5. (\A i \in 1..Len(bucket[c]) : Queued(bucket[c][i], c))'
      BY <1>9, <2>2, <3>1, <3>2, <3>3 DEF Queued
    <3>6. (\A i, j \in 1..Len(bucket[c]) : bucket[c][i] = bucket[c][j] => i = j)' BY <3>1, <3>4, Zenon
    <3> QED BY <3>5, <3>6 DEF BucketInv
  <2> QED BY <2>1, <2>2, Zenon
<1>12. ASSUME NEW u \in Threads, OnQueue(u) \/ u = t PROVE OnQueue(u)'
  <2>1. CASE u = t
    <3>1. n + 1 \in DOMAIN bucket'[b] /\ bucket'[b][n + 1] = t BY <1>4, <1>6 DEF q
    <3> QED BY <1>1, <2>1, <3>1, Zenon DEF OnQueue
  <2>2. CASE OnQueue(u)
    <3>0. PICK c \in Buckets : \E i \in 1..Len(bucket[c]) : bucket[c][i] = u
      BY <1>5, <2>2, Zenon DEF OnQueue
    <3>1. PICK i \in 1..Len(bucket[c]) : bucket[c][i] = u BY <3>0, Zenon
    <3>2. i \in DOMAIN bucket'[c] /\ bucket'[c][i] = u
      <4>1. CASE c = b BY <1>4, <1>6, <3>1, <4>1 DEF q, n
      <4>2. CASE c # b BY <1>4, <1>5, <3>1, <4>2, Zenon
      <4> QED BY <4>1, <4>2, Zenon
    <3> QED BY <3>2, Zenon DEF OnQueue
  <2> QED BY <1>12, <2>1, <2>2, Zenon
<1>13. woken' = woken /\ ret' = ret /\ result' = result /\ \A u \in Threads : Uncleared(u)' = Uncleared(u)
  BY <1>3, Zenon DEF Uncleared, EnqueueAt
<1>14. ASSUME NEW u \in Threads PROVE ParkInv(u)' /\ UnparkInv(u)' /\ UnclearedInv(u)'
  <2>1. ParkInv(u) /\ UnparkInv(u) /\ UnclearedInv(u) BY Zenon DEF LotInv
  <2>2. ParkInv(u)' BY <1>1, <1>3, <1>12, <1>13, <2>1, Zenon DEF ParkInv
  <2>3. UnparkInv(u)' BY <1>3, <1>13, <2>1, Zenon DEF UnparkInv
  <2>4. \A i \in Uncleared(u) : woken[u][i] \in Threads \ {t}
    BY <1>2 DEF LotTypeOK, Uncleared
  <2>5. UnclearedInv(u)' BY <1>3, <1>13, <2>1, <2>4 DEF UnclearedInv
  <2> QED BY <2>2, <2>3, <2>5, Zenon
<1>15. UnclearedOnce' BY <1>13 DEF LotInv, UnclearedOnce
<1> QED BY <1>10, <1>11, <1>14, <1>15, Zenon DEF LotInv

\* A thread that took itself out clears its own address.
LEMMA ClearSelfKeeps ==
    ASSUME LotInv, NEW t \in Threads, ClearSelf(t)
    PROVE  LotInv'
<1> USE DEF ClearSelf, Goto
<1>1. LotTypeOK BY Zenon DEF LotInv
<1>2. /\ address'[t] = Null /\ pc'[t] = "unparked"
      /\ \A u \in Threads \ {t} : address'[u] = address[u] /\ pc'[u] = pc[u]
  BY <1>1, Zenon DEF LotTypeOK
<1>3. LotTypeOK' BY <1>1, Zenon DEF LotTypeOK
<1>4. ParkInv(t) BY Zenon DEF LotInv
<1>5. leftBy[t] # "nobody" /\ parkedAt[t] # Null /\ t \in TimedThreads BY <1>4, Zenon DEF ParkInv
<1>6. ASSUME NEW c \in Buckets PROVE BucketInv(c)'
  <2>1. BucketInv(c) BY Zenon DEF LotInv
  <2>2. \A i \in 1..Len(bucket[c]) : bucket[c][i] \in Threads BY <1>1 DEF LotTypeOK
  <2> QED BY <1>2, <1>5, <2>1, <2>2 DEF BucketInv, Queued
<1>7. \A u \in Threads : Uncleared(u)' = Uncleared(u) BY <1>2, Zenon DEF Uncleared
<1>8. ASSUME NEW u \in Threads PROVE ParkInv(u)' /\ UnparkInv(u)' /\ UnclearedInv(u)'
  <2>1. ParkInv(u) /\ UnparkInv(u) /\ UnclearedInv(u) BY Zenon DEF LotInv
  <2>2. ParkInv(u)' BY <1>2, <1>5, <2>1, Zenon DEF ParkInv, OnQueue
  <2>3. UnparkInv(u)' BY <1>2, <2>1, Zenon DEF UnparkInv
  <2>4. \A i \in Uncleared(u) : woken[u][i] \in Threads BY <1>1 DEF LotTypeOK, Uncleared
  <2>5. UnclearedInv(u)' BY <1>2, <1>5, <1>7, <2>1, <2>4, Zenon DEF UnclearedInv
  <2> QED BY <2>2, <2>3, <2>5, Zenon
<1>9. UnclearedOnce' BY <1>7 DEF LotInv, UnclearedOnce
<1> QED BY <1>3, <1>6, <1>8, <1>9, Zenon DEF LotInv

\* A thread returns from its park with its address cleared.
LEMMA ParkReturnKeeps ==
    ASSUME LotInv, NEW t \in Threads, NEW label, ParkReturn(t, label),
           label \notin LotPC
    PROVE  LotInv'
<1> USE DEF ParkReturn, Goto
<1>1. LotTypeOK BY Zenon DEF LotInv
<1>2. /\ parkedAt'[t] = Null /\ result'[t] = FALSE /\ leftBy'[t] = "nobody" /\ pc'[t] = label
      /\ \A u \in Threads \ {t} : /\ parkedAt'[u] = parkedAt[u] /\ result'[u] = result[u]
                                  /\ leftBy'[u] = leftBy[u] /\ pc'[u] = pc[u]
  BY <1>1, Zenon DEF LotTypeOK
<1>3. LotTypeOK' BY <1>1, Zenon DEF LotTypeOK
<1>4. ParkInv(t) BY Zenon DEF LotInv
<1>5. leftBy[t] # "nobody" /\ parkedAt[t] # Null /\ address[t] = Null BY <1>4, Zenon DEF ParkInv
<1>6. ASSUME NEW c \in Buckets PROVE BucketInv(c)'
  <2>1. BucketInv(c) BY Zenon DEF LotInv
  <2>2. \A i \in 1..Len(bucket[c]) : bucket[c][i] \in Threads BY <1>1 DEF LotTypeOK
  <2> QED BY <1>2, <1>5, <2>1, <2>2 DEF BucketInv, Queued
<1>7. \A u \in Threads : Uncleared(u)' = Uncleared(u) BY <1>2, Zenon DEF Uncleared, LotPC
<1>8. ASSUME NEW u \in Threads PROVE ParkInv(u)' /\ UnparkInv(u)' /\ UnclearedInv(u)'
  <2>1. ParkInv(u) /\ UnparkInv(u) /\ UnclearedInv(u) BY Zenon DEF LotInv
  <2>2. ParkInv(u)' BY <1>2, <1>5, <2>1 DEF ParkInv, OnQueue, LotPC
  <2>3. UnparkInv(u)' BY <1>2, <2>1, Zenon DEF UnparkInv, LotPC
  <2>4. \A i \in Uncleared(u) : woken[u][i] \in Threads BY <1>1 DEF LotTypeOK, Uncleared
  <2>5. UnclearedInv(u)' BY <1>2, <1>5, <1>7, <2>1, <2>4 DEF UnclearedInv
  <2> QED BY <2>2, <2>3, <2>5, Zenon
<1>9. UnclearedOnce' BY <1>7 DEF LotInv, UnclearedOnce
<1> QED BY <1>3, <1>6, <1>8, <1>9, Zenon DEF LotInv

(* An unpark call takes the threads w out of bucket b, which it leaves as  *)
(* q, and goes on to clear their addresses.                                *)
Split(s, q, w) ==
    /\ \A j \in 1..Len(q) : \E k \in 1..Len(s) : s[k] = q[j]
    /\ \A i \in 1..Len(w) : \E k \in 1..Len(s) : s[k] = w[i]
    /\ \A k \in 1..Len(s) : \/ \E j \in 1..Len(q) : q[j] = s[k]
                            \/ \E i \in 1..Len(w) : w[i] = s[k]
    /\ \A j \in 1..Len(q), i \in 1..Len(w) : q[j] # w[i]
    /\ \A j, k \in 1..Len(q) : q[j] = q[k] => j = k
    /\ \A i, j \in 1..Len(w) : w[i] = w[j] => i = j

Unparks(t, b, q, w, label) ==
    /\ bucket' = [bucket EXCEPT ![b] = q]
    /\ leftBy' = [u \in Threads |->
                     IF \E i \in 1..Len(w) : w[i] = u THEN "unpark" ELSE leftBy[u]]
    /\ woken' = [woken EXCEPT ![t] = w]
    /\ ret' = [ret EXCEPT ![t] = IF w = <<>> THEN "idle" ELSE label]
    /\ Goto(t, IF w = <<>> THEN label ELSE "clear")
    /\ UNCHANGED <<address, parkedAt, result>>

\* Taking any part w out of a bucket, leaving q, keeps the invariant: the
\* thread that took them owes each of them a wake-up.
LEMMA UnparkKeeps ==
    ASSUME LotInv, NEW t \in Threads, NEW b \in Buckets,
           NEW q \in Seq(Threads), NEW w \in Seq(Threads), NEW label,
           Split(bucket[b], q, w), Unparks(t, b, q, w, label),
           pc[t] \notin {"clearSelf", "unparked", "clear", "notify"},
           IsAfter(label), label = "sleep" => parkedAt[t] # Null
    PROVE  LotInv'
<1> USE DEF Split, Unparks
<1> DEFINE G == {u \in Threads : \E i \in 1..Len(w) : w[i] = u}
           next == IF w = <<>> THEN label ELSE "clear"
<1>1. LotTypeOK BY Zenon DEF LotInv
<1>2. bucket[b] \in Seq(Threads) BY <1>1, Zenon DEF LotTypeOK
<1>3. \A i \in 1..Len(w) : w[i] \in G OBVIOUS
<1>4. \A j \in 1..Len(q) : q[j] \notin G BY Zenon
<1>5. \A u \in Threads : leftBy'[u] = IF u \in G THEN "unpark" ELSE leftBy[u] BY Zenon
<1>6. ASSUME NEW u \in G PROVE \E k \in 1..Len(bucket[b]) : bucket[b][k] = u
  <2>1. PICK i \in 1..Len(w) : w[i] = u BY Zenon
  <2> QED BY <2>1, Zenon
<1>7. \A k \in 1..Len(bucket[b]) : bucket[b][k] \notin G => \E j \in 1..Len(q) : q[j] = bucket[b][k]
  BY <1>3, Zenon
<1>8. G \in SUBSET Threads BY Zenon
<1>9. /\ pc'[t] = next /\ ret'[t] = IF w = <<>> THEN "idle" ELSE label
      /\ woken'[t] = w
      /\ \A u \in Threads \ {t} : pc'[u] = pc[u] /\ ret'[u] = ret[u] /\ woken'[u] = woken[u]
  BY <1>1, Zenon DEF LotTypeOK, Goto
<1> HIDE DEF G
<1>10. /\ bucket' \in [Buckets -> Seq(Threads)]
       /\ (\A c \in Buckets : BucketInv(c))'
       /\ \A u \in Threads \ G : OnQueue(u) => OnQueue(u)'
  <2>1. \A u \in Threads \ G : leftBy'[u] = leftBy[u] BY <1>5, Zenon
  <2> QED BY <1>4, <1>6, <1>7, <1>8, <2>1, QueueShrinks, Zenon
<1>11. \A u \in G : /\ parkedAt[u] # Null /\ address[u] = parkedAt[u]
                    /\ leftBy[u] = "nobody" /\ OnQueue(u)
  <2> SUFFICES ASSUME NEW u \in G
               PROVE  /\ parkedAt[u] # Null /\ address[u] = parkedAt[u]
                      /\ leftBy[u] = "nobody" /\ OnQueue(u)
    BY Zenon
  <2>1. u \in Threads /\ \E k \in 1..Len(bucket[b]) : bucket[b][k] = u BY <1>6, <1>8, Zenon
  <2>2. BucketInv(b) BY Zenon DEF LotInv
  <2>3. Queued(u, b) BY <2>1, <2>2, Zenon DEF BucketInv
  <2>4. OnQueue(u) BY <2>1, OnQueueMeans, Zenon
  <2> QED BY <2>3, <2>4, Zenon DEF Queued
<1>12. LotTypeOK' BY <1>1, <1>10, Zenon DEF LotTypeOK, Goto
<1>13. \A u \in Threads \ {t} : Uncleared(u)' = Uncleared(u) BY <1>9 DEF Uncleared
<1>14. Uncleared(t)' \subseteq 1..Len(w)
  <2>1. DOMAIN w = 1..Len(w) OBVIOUS
  <2> QED BY <1>9, <2>1, Zenon DEF Uncleared
<1>15. \A u \in Threads : \A i \in Uncleared(u) : woken[u][i] \in Threads \ G
  <2> SUFFICES ASSUME NEW u \in Threads, NEW i \in Uncleared(u)
               PROVE  woken[u][i] \in Threads \ G
    BY Zenon
  <2>1. woken[u][i] \in Threads BY <1>1 DEF LotTypeOK, Uncleared
  <2>2. leftBy[woken[u][i]] = "unpark" \/ address[woken[u][i]] = Null
    BY Zenon DEF LotInv, UnclearedInv
  <2> QED BY <1>11, <2>1, <2>2, Zenon
<1>16. ASSUME NEW u \in Threads PROVE ParkInv(u)' /\ UnparkInv(u)' /\ UnclearedInv(u)'
  <2>1. ParkInv(u) /\ UnparkInv(u) /\ UnclearedInv(u) BY Zenon DEF LotInv
  <2>2. ParkInv(u)'
    <3>1. CASE u \in G BY <1>5, <1>9, <1>11, <2>1, <3>1, Zenon DEF ParkInv, IsAfter
    <3>2. CASE u \notin G BY <1>5, <1>9, <1>10, <2>1, <3>2, Zenon DEF ParkInv, IsAfter
    <3> QED BY <3>1, <3>2, Zenon
  <2>3. UnparkInv(u)' BY <1>9, <2>1 DEF UnparkInv, IsAfter
  <2>4. UnclearedInv(u)'
    <3>1. CASE u = t
      <4>1. \A i \in 1..Len(w) : w[i] \in Threads BY <1>3, <1>8, Zenon
      <4> QED BY <1>3, <1>5, <1>9, <1>11, <1>14, <3>1, <4>1 DEF UnclearedInv
    <3>2. CASE u # t BY <1>5, <1>9, <1>13, <1>15, <2>1, <3>2 DEF UnclearedInv
    <3> QED BY <3>1, <3>2, Zenon
  <2> QED BY <2>2, <2>3, <2>4, Zenon
<1>17. UnclearedOnce'
  <2> SUFFICES ASSUME NEW u \in Threads, NEW v \in Threads,
                      NEW i \in Uncleared(u)', NEW j \in Uncleared(v)',
                      woken'[u][i] = woken'[v][j]
               PROVE  u = v /\ i = j
    BY Zenon DEF UnclearedOnce
  <2>1. CASE u = t /\ v = t
    <3>1. i \in 1..Len(w) /\ j \in 1..Len(w) BY <1>14, <2>1, Zenon
    <3>2. w[i] = w[j] BY <1>9, <2>1, Zenon
    <3> QED BY <2>1, <3>1, <3>2, Zenon
  <2>2. CASE u # t /\ v # t BY <1>9, <1>13, <2>2 DEF LotInv, UnclearedOnce
  <2>3. CASE u = t /\ v # t BY <1>3, <1>9, <1>13, <1>14, <1>15, <2>3
  <2>4. CASE u # t /\ v = t BY <1>3, <1>9, <1>13, <1>14, <1>15, <2>4
  <2> QED BY <2>1, <2>2, <2>3, <2>4, Zenon
<1> QED BY <1>10, <1>12, <1>16, <1>17, Zenon DEF LotInv

\* FirstAt(a) is a position in the bucket of a, of a thread parked at a.
LEMMA FirstAtMeans ==
    ASSUME LotInv, NEW a \in Addresses
    PROVE  /\ bucketOf[a] \in Buckets
           /\ bucket[bucketOf[a]] \in Seq(Threads)
           /\ \A i \in FirstAt(a) : /\ i \in 1..Len(bucket[bucketOf[a]])
                                    /\ bucket[bucketOf[a]][i] \in Threads
                                    /\ address[bucket[bucketOf[a]][i]] = a
<1>1. bucketOf[a] \in Buckets BY ParkingLotAssumption, Zenon
<1>2. bucket[bucketOf[a]] \in Seq(Threads) BY <1>1, Zenon DEF LotInv, LotTypeOK
<1> QED BY <1>1, <1>2 DEF FirstAt, FirstAmong

\* unparkOne takes one thread out of its bucket.
LEMMA UnparkOneKeeps ==
    ASSUME LotInv, NEW t \in Threads, NEW a \in Addresses, NEW label,
           UnparkOneAt(t, a, label),
           pc[t] \notin {"clearSelf", "unparked", "clear", "notify"},
           IsAfter(label), label = "sleep" => parkedAt[t] # Null
    PROVE  LotInv'
<1> DEFINE b == bucketOf[a]
           s == bucket[b]
<1>1. LotTypeOK BY Zenon DEF LotInv
<1>2. b \in Buckets /\ s \in Seq(Threads) BY FirstAtMeans, Zenon
<1>3. CASE FirstAt(a) = {}
  <2>1. /\ UNCHANGED <<bucket, address, parkedAt, result, leftBy, woken>>
        /\ ret' = [ret EXCEPT ![t] = "idle"] /\ Goto(t, label)
    BY <1>3, Zenon DEF UnparkOneAt
  <2>2. DOMAIN ret' = Threads /\ \A u \in Threads \ {t} : ret'[u] = ret[u]
    BY <1>1, <2>1, Zenon DEF LotTypeOK
  <2> QED BY <2>1, <2>2, LotMove, Zenon DEF IsAfter
<1>4. ASSUME NEW i \in FirstAt(a),
             bucket' = [bucket EXCEPT ![b] = Removed(@, i)],
             leftBy' = [leftBy EXCEPT ![s[i]] = "unpark"],
             woken' = [woken EXCEPT ![t] = <<s[i]>>],
             ret' = [ret EXCEPT ![t] = label],
             Goto(t, "clear"),
             UNCHANGED <<address, parkedAt, result>>
      PROVE  LotInv'
  <2> DEFINE q == Removed(s, i)
             w == <<s[i]>>
  <2>1. i \in 1..Len(s) /\ s[i] \in Threads BY FirstAtMeans, Zenon
  <2>3. w \in Seq(Threads) /\ Len(w) = 1 /\ w[1] = s[i] /\ w # <<>> BY <2>1
  <2>4. bucket' = [bucket EXCEPT ![b] = q] BY <1>1, <1>2, <1>4, Zenon DEF LotTypeOK
  <2>5. \A j, k \in 1..Len(s) : s[j] = s[k] => j = k BY <1>2, Zenon DEF LotInv, BucketInv
  <2>6. leftBy' = [u \in Threads |-> IF \E j \in 1..Len(w) : w[j] = u THEN "unpark" ELSE leftBy[u]]
    <3>1. \A u : (\E j \in 1..Len(w) : w[j] = u) <=> u = s[i] BY <2>3
    <3> HIDE DEF w, s
    <3>2. leftBy' = [u \in Threads |-> IF u = s[i] THEN "unpark" ELSE leftBy[u]]
      BY <1>1, <1>4, <2>1, Zenon DEF LotTypeOK
    <3> QED BY <3>1, <3>2
  <2>7. woken' = [woken EXCEPT ![t] = w] BY <1>4, Zenon
  <2> HIDE DEF w, s, b
  <2>8. /\ q \in Seq(Threads)
        /\ \A j \in 1..Len(q) : q[j] # s[i] /\ \E k \in 1..Len(s) : s[k] = q[j]
        /\ \A k \in 1..Len(s) : s[k] # s[i] => \E j \in 1..Len(q) : q[j] = s[k]
        /\ \A j, k \in 1..Len(q) : q[j] = q[k] => j = k
    <3>1. q \in Seq(Threads) /\ Omits(q, s, i) BY <1>2, <2>1, <2>5, RemovedOnce, Zenon
    <3> HIDE DEF q
    <3> QED BY <3>1, Zenon DEF Omits
  <2> HIDE DEF q
  <2>9. Split(s, q, w)
    <3>1. \A k \in 1..Len(w) : k = 1 /\ w[k] = s[i] BY <2>3
    <3>2. 1 \in 1..Len(w) BY <2>3
    <3> QED BY <2>1, <2>3, <2>8, <3>1, <3>2, Zenon DEF Split
  <2>10. Unparks(t, b, q, w, label) BY <1>4, <2>3, <2>4, <2>6, <2>7, Zenon DEF Unparks
  <2> QED BY <1>2, <2>3, <2>8, <2>9, <2>10, UnparkKeeps, Zenon DEF s
<1> QED BY <1>3, <1>4, Zenon DEF UnparkOneAt

\* unparkAll takes every thread at the address out of its bucket.
LEMMA UnparkAllKeeps ==
    ASSUME LotInv, NEW t \in Threads, NEW a \in Addresses, NEW label,
           UnparkAllAt(t, a, label),
           pc[t] \notin {"clearSelf", "unparked", "clear", "notify"},
           IsAfter(label), label = "sleep" => parkedAt[t] # Null
    PROVE  LotInv'
<1> DEFINE b == bucketOf[a]
           s == bucket[b]
           isAt == {u \in Threads : address[u] = a}
           others == Threads \ isAt
           q == AllAmong(s, others)
           w == AllAmong(s, isAt)
<1>1. LotTypeOK BY DEF LotInv
<1>2. b \in Buckets /\ s \in Seq(Threads) BY FirstAtMeans
<1>3. q \in Seq(Threads) /\ w \in Seq(Threads) BY <1>2, AllAmongType, Zenon
<1>4. \A j, k \in 1..Len(s) : s[j] = s[k] => j = k BY <1>2, Zenon DEF LotInv, BucketInv
<1>5. /\ bucket' = [bucket EXCEPT ![b] = q]
      /\ leftBy' = [u \in Threads |->
                       IF \E i \in DOMAIN w : w[i] = u THEN "unpark" ELSE leftBy[u]]
      /\ woken' = [woken EXCEPT ![t] = w]
      /\ ret' = [ret EXCEPT ![t] = IF w = <<>> THEN "idle" ELSE label]
      /\ Goto(t, IF w = <<>> THEN label ELSE "clear")
      /\ UNCHANGED <<address, parkedAt, result>>
  BY <1>1, <1>2, Zenon DEF UnparkAllAt, LotTypeOK
<1>6. /\ DOMAIN s = 1..Len(s) /\ DOMAIN q = 1..Len(q) /\ DOMAIN w = 1..Len(w)
      /\ \A k \in 1..Len(s) : s[k] \in Threads
  <2> HIDE DEF s, q, w
  <2> QED BY <1>2, <1>3
<1> HIDE DEF s, isAt, b, others
<1>7. Selects(q, s, others) BY <1>2, AllAmongMembers, Zenon
<1>8. Selects(w, s, isAt) BY <1>2, AllAmongMembers, Zenon
<1>9. \A j, k \in 1..Len(q) : q[j] = q[k] => j = k BY <1>2, <1>4, AllAmongOnce, Zenon
<1>10. \A j, k \in 1..Len(w) : w[j] = w[k] => j = k BY <1>2, <1>4, AllAmongOnce, Zenon
<1> HIDE DEF q, w
<1>13. \A j \in 1..Len(q), i \in 1..Len(w) : q[j] # w[i] BY <1>7, <1>8, Zenon DEF others, Selects
<1>14. \A k \in 1..Len(s) : \/ \E j \in 1..Len(q) : q[j] = s[k]
                            \/ \E j \in 1..Len(w) : w[j] = s[k]
  BY <1>6, <1>7, <1>8, Zenon DEF others, Selects
<1>15. Split(s, q, w) BY <1>7, <1>8, <1>9, <1>10, <1>13, <1>14, Zenon DEF Split, Selects
<1>16. Unparks(t, b, q, w, label) BY <1>5, <1>6, Zenon DEF Unparks
<1> QED BY <1>2, <1>3, <1>15, <1>16, UnparkKeeps, Zenon DEF s

\* Clearing the address of a thread that was taken out keeps the invariant.
LEMMA ClearAddressKeeps ==
    ASSUME LotInv, NEW t \in Threads, ClearAddress(t)
    PROVE  LotInv'
<1> DEFINE v == woken[t][1]
<1>1. LotTypeOK BY Zenon DEF LotInv
<1>2. woken[t] # <<>> /\ woken[t] \in Seq(Threads)
  BY <1>1, Zenon DEF LotInv, UnparkInv, ClearAddress, LotTypeOK
<1>3. v \in Threads /\ Head(woken[t]) = v /\ 1 \in DOMAIN woken[t] BY <1>2
<1>4. 1 \in Uncleared(t) BY <1>3, Zenon DEF Uncleared, ClearAddress
<1>5. \/ leftBy[v] = "unpark" /\ parkedAt[v] # Null
      \/ v \in TimedThreads /\ address[v] = Null
  BY <1>4, Zenon DEF LotInv, UnclearedInv
<1>6. /\ address'[v] = Null /\ \A u \in Threads \ {v} : address'[u] = address[u]
      /\ pc[t] = "clear" /\ pc'[t] = "notify" /\ \A u \in Threads \ {t} : pc'[u] = pc[u]
      /\ UNCHANGED <<bucket, parkedAt, result, leftBy, woken, ret>>
  BY <1>1, <1>3, Zenon DEF ClearAddress, Goto, LotTypeOK
<1>7. LotTypeOK' BY <1>1, <1>3, Zenon DEF LotTypeOK, ClearAddress, Goto
<1> HIDE DEF v
<1>8. ASSUME NEW c \in Buckets PROVE BucketInv(c)'
  <2>1. BucketInv(c) BY Zenon DEF LotInv
  <2>2. \A i \in 1..Len(bucket[c]) : bucket[c][i] \in Threads /\ Queued(bucket[c][i], c)
    BY <1>1, <2>1 DEF LotTypeOK, BucketInv
  <2>3. \A i \in 1..Len(bucket[c]) : bucket[c][i] # v BY <1>5, <2>2, Zenon DEF Queued
  <2> QED BY <1>6, <2>1, <2>2, <2>3, Zenon DEF BucketInv, Queued
<1>9. \A u \in Threads : Uncleared(u)' = Uncleared(u) \ (IF u = t THEN {1} ELSE {})
  BY <1>6, Zenon DEF Uncleared
<1>10. \A u \in Threads : \A i \in Uncleared(u)' : i \in Uncleared(u) /\ woken[u][i] \in Threads \ {v}
  <2> SUFFICES ASSUME NEW u \in Threads, NEW i \in Uncleared(u)'
               PROVE  i \in Uncleared(u) /\ woken[u][i] \in Threads \ {v}
    BY Zenon
  <2>1. i \in Uncleared(u) /\ ~(u = t /\ i = 1) BY <1>9, Zenon
  <2>2. woken[u][i] \in Threads BY <1>1, <2>1 DEF LotTypeOK, Uncleared
  <2>3. woken[u][i] # woken[t][1] BY <1>4, <2>1, Zenon DEF LotInv, UnclearedOnce
  <2> QED BY <2>1, <2>2, <2>3, Zenon DEF v
<1>11. ASSUME NEW u \in Threads PROVE ParkInv(u)' /\ UnparkInv(u)' /\ UnclearedInv(u)'
  <2>1. ParkInv(u) /\ UnparkInv(u) /\ UnclearedInv(u) BY Zenon DEF LotInv
  <2>2. ParkInv(u)' BY <1>6, <2>1, Zenon DEF ParkInv, OnQueue
  <2>3. UnparkInv(u)' BY <1>6, <2>1, Zenon DEF UnparkInv
  <2>4. UnclearedInv(u)' BY <1>6, <1>10, <2>1, Zenon DEF UnclearedInv
  <2> QED BY <2>2, <2>3, <2>4, Zenon
<1>12. UnclearedOnce'
  <2>1. \A u \in Threads : \A i \in Uncleared(u)' : i \in Uncleared(u) BY <1>10, Zenon
  <2>2. woken' = woken BY <1>6, Zenon
  <2> QED BY <2>1, <2>2, FewerUncleared, Zenon DEF LotInv
<1> QED BY <1>7, <1>8, <1>11, <1>12, Zenon DEF LotInv

\* Notifying the thread whose address was cleared settles what was owed to it.
LEMMA NotifyOneKeeps ==
    ASSUME LotInv, NEW t \in Threads, NotifyOne(t)
    PROVE  LotInv'
<1> DEFINE w == woken[t]
           last == Tail(w) = <<>>
<1>1. LotTypeOK BY DEF LotInv
<1>2. w # <<>> /\ w \in Seq(Threads) /\ IsAfter(ret[t]) /\ (ret[t] = "sleep" => parkedAt[t] # Null)
  BY <1>1, Zenon DEF LotInv, UnparkInv, NotifyOne, LotTypeOK
<1>3. /\ Tail(w) \in Seq(Threads) /\ DOMAIN Tail(w) = 1..(Len(w) - 1) /\ DOMAIN w = 1..Len(w)
      /\ Len(w) \in Nat
      /\ \A i \in 1..(Len(w) - 1) : Tail(w)[i] = w[i + 1]
  BY <1>2
<1>4. /\ pc[t] = "notify" /\ pc'[t] = IF last THEN ret[t] ELSE "clear"
      /\ woken'[t] = Tail(w) /\ \A u \in Threads \ {t} : woken'[u] = woken[u]
      /\ \A u \in Threads \ {t} : ret'[u] = ret[u]
      /\ ~last => ret'[t] = ret[t]
      /\ UNCHANGED <<bucket, address, parkedAt, result, leftBy>>
  BY <1>1, Zenon DEF NotifyOne, LotTypeOK
<1>5. \A u \in Threads \ {t} : pc'[u] = pc[u] \/ (pc[u] = "blocked" /\ pc'[u] = "sleep")
  BY <1>1, Zenon DEF NotifyOne, LotTypeOK
<1>6. LotTypeOK'
  <2>1. woken' \in [Threads -> Seq(Threads)] BY <1>1, <1>3, Zenon DEF NotifyOne, LotTypeOK
  <2> QED BY <1>1, <2>1, Zenon DEF NotifyOne, LotTypeOK
<1>7. /\ \A b : BucketInv(b) <=> BucketInv(b)'
      /\ \A u : OnQueue(u) <=> OnQueue(u)'
  BY <1>4, QueuesSame, Zenon
<1>8. \A u \in Threads \ {t} : Uncleared(u)' = Uncleared(u) BY <1>4, <1>5, Zenon DEF Uncleared
<1>9. UNCHANGED <<address, parkedAt, leftBy>> /\ \A u \in Threads \ {t} : woken'[u] = woken[u]
  BY <1>4, Zenon
<1> HIDE DEF w, last
<1>10. \A i \in Uncleared(t)' : i + 1 \in Uncleared(t) /\ i \in Nat /\ woken'[t][i] = woken[t][i + 1]
  BY <1>3, <1>4 DEF Uncleared, w
<1>11. ASSUME NEW u \in Threads PROVE ParkInv(u)' /\ UnparkInv(u)' /\ UnclearedInv(u)'
  <2>1. ParkInv(u) /\ UnparkInv(u) /\ UnclearedInv(u) BY DEF LotInv
  <2>2. ParkInv(u)'
    <3>1. CASE u = t BY <1>2, <1>4, <1>7, <2>1, <3>1, Zenon DEF ParkInv, IsAfter
    <3>2. CASE u # t BY <1>4, <1>5, <1>7, <2>1, <3>2, Zenon DEF ParkInv
    <3> QED BY <3>1, <3>2, Zenon
  <2>3. UnparkInv(u)'
    <3>1. CASE u = t BY <1>2, <1>4, <2>1, <3>1, Zenon DEF UnparkInv, IsAfter, last
    <3>2. CASE u # t BY <1>4, <1>5, <2>1, <3>2, Zenon DEF UnparkInv
    <3> QED BY <3>1, <3>2
  <2>4. UnclearedInv(u)'
    <3>1. CASE u = t BY <1>9, <1>10, <2>1, <3>1 DEF UnclearedInv
    <3>2. CASE u # t BY <1>4, <1>8, <2>1, <3>2 DEF UnclearedInv
    <3> QED BY <3>1, <3>2
  <2> QED BY <2>2, <2>3, <2>4
<1>12. UnclearedOnce'
  <2> SUFFICES ASSUME NEW u \in Threads, NEW v \in Threads,
                      NEW i \in Uncleared(u)', NEW j \in Uncleared(v)',
                      woken'[u][i] = woken'[v][j]
               PROVE  u = v /\ i = j
    BY Zenon DEF UnclearedOnce
  <2>1. CASE u = t /\ v = t BY <1>10, <2>1 DEF LotInv, UnclearedOnce
  <2>2. CASE u # t /\ v # t BY <1>4, <1>8, <2>2 DEF LotInv, UnclearedOnce
  <2>3. CASE u = t /\ v # t BY <1>8, <1>9, <1>10, <2>3 DEF LotInv, UnclearedOnce
  <2>4. CASE u # t /\ v = t BY <1>8, <1>9, <1>10, <2>4 DEF LotInv, UnclearedOnce
  <2> QED BY <2>1, <2>2, <2>3, <2>4, Zenon
<1> QED BY <1>6, <1>7, <1>11, <1>12, Zenon DEF LotInv

\* A thread that timed out takes itself out, unless it was taken out already.
LEMMA DequeueSelfKeeps ==
    ASSUME LotInv, NEW t \in Threads, DequeueSelf(t)
    PROVE  LotInv'
<1> DEFINE b == bucketOf[parkedAt[t]]
           s == bucket[b]
           found == FirstAmong(s, {t})
<1>1. LotTypeOK BY DEF LotInv
<1>2. parkedAt[t] # Null /\ t \in TimedThreads /\ leftBy[t] # "itself"
  BY Zenon DEF LotInv, ParkInv, DequeueSelf
<1>3. b \in Buckets /\ s \in Seq(Threads) /\ DOMAIN s = 1..Len(s)
  BY <1>1, <1>2, ParkingLotAssumption DEF LotTypeOK
<1>4. /\ pc[t] = "dequeueSelf" /\ pc'[t] = "clearSelf"
      /\ \A u \in Threads \ {t} : pc'[u] = pc[u]
      /\ (result'[t] <=> found = {}) /\ \A u \in Threads \ {t} : result'[u] = result[u]
      /\ UNCHANGED <<address, parkedAt, woken, ret>>
  BY <1>1, Zenon DEF DequeueSelf, Goto, LotTypeOK
<1>5. result' \in [Threads -> BOOLEAN] /\ DOMAIN pc' = Threads
  BY <1>1, Zenon DEF DequeueSelf, Goto, LotTypeOK
<1> DEFINE Gone == /\ bucket' \in [Buckets -> Seq(Threads)]
                   /\ leftBy' \in [Threads -> {"nobody", "itself", "unpark"}]
                   /\ (\A c \in Buckets : BucketInv(c))'
                   /\ \A u \in Threads \ {t} : /\ OnQueue(u) => OnQueue(u)'
                                               /\ leftBy'[u] = leftBy[u]
                   /\ leftBy'[t] # "nobody" /\ (result'[t] <=> leftBy'[t] = "unpark")
                   /\ leftBy[t] = "unpark" => leftBy'[t] = "unpark"
<1>6. ASSUME found = {}, UNCHANGED <<bucket, leftBy>> PROVE Gone
  <2>1. ~\E i \in 1..Len(s) : s[i] = t BY <1>3, <1>6, FirstAmongExists, Zenon
  <2>2. ~OnQueue(t) BY <2>1, OnQueueMeans, Zenon
  <2>3. leftBy[t] = "unpark" BY <1>1, <1>2, <2>2, Zenon DEF LotInv, ParkInv, LotTypeOK
  <2>4. /\ \A c : BucketInv(c) <=> BucketInv(c)'
        /\ \A u : OnQueue(u) <=> OnQueue(u)'
    BY <1>4, <1>6, QueuesSame, Zenon
  <2> HIDE DEF found
  <2> QED BY <1>1, <1>4, <1>6, <2>3, <2>4, Zenon DEF LotInv, LotTypeOK
<1>7. ASSUME NEW i \in found,
             bucket' = [bucket EXCEPT ![b] = Removed(@, i)],
             leftBy' = [leftBy EXCEPT ![t] = "itself"]
      PROVE  Gone
  <2> DEFINE q == Removed(s, i)
             G == {t}
  <2>1. i \in 1..Len(s) /\ s[i] = t BY <1>3, Zenon DEF FirstAmong
  <2>2. \A j, k \in 1..Len(s) : s[j] = s[k] => j = k BY <1>3, Zenon DEF LotInv, BucketInv
  <2>3. bucket' = [bucket EXCEPT ![b] = q] BY <1>1, <1>3, <1>7, Zenon DEF LotTypeOK
  <2>4. Queued(t, b) BY <1>3, <2>1 DEF LotInv, BucketInv
  <2>5. leftBy[t] = "nobody" BY <2>4, Zenon DEF Queued
  <2>6. /\ leftBy'[t] = "itself" /\ \A u \in Threads \ G : leftBy'[u] = leftBy[u]
        /\ leftBy' \in [Threads -> {"nobody", "itself", "unpark"}]
    BY <1>1, <1>7, Zenon DEF LotTypeOK
  <2> HIDE DEF s, b
  <2>7. /\ q \in Seq(Threads)
        /\ \A j \in 1..Len(q) : q[j] # s[i] /\ \E k \in 1..Len(s) : s[k] = q[j]
        /\ \A k \in 1..Len(s) : s[k] # s[i] => \E j \in 1..Len(q) : q[j] = s[k]
        /\ \A j, k \in 1..Len(q) : q[j] = q[k] => j = k
    <3>1. q \in Seq(Threads) /\ Omits(q, s, i) BY <1>3, <2>1, <2>2, RemovedOnce, Zenon
    <3> HIDE DEF q
    <3> QED BY <3>1, Zenon DEF Omits
  <2>8. /\ \A j \in 1..Len(q) : q[j] \notin G /\ \E k \in 1..Len(s) : s[k] = q[j]
        /\ \A k \in 1..Len(s) : s[k] \notin G => \E j \in 1..Len(q) : q[j] = s[k]
        /\ \A u \in G : \E k \in 1..Len(s) : s[k] = u
        /\ G \in SUBSET Threads
    BY <2>1, <2>7, Zenon
  <2> HIDE DEF q, G
  <2>9. /\ bucket' \in [Buckets -> Seq(Threads)]
        /\ (\A c \in Buckets : BucketInv(c))'
        /\ \A u \in Threads \ G : OnQueue(u) => OnQueue(u)'
    BY <1>3, <1>4, <2>3, <2>6, <2>7, <2>8, QueueShrinks, Zenon DEF s
  <2>10. ~result'[t] BY <1>4, <1>7, Zenon
  <2> QED BY <2>5, <2>6, <2>9, <2>10, Zenon DEF G
<1>8. Gone BY <1>6, <1>7, Zenon DEF DequeueSelf
<1> HIDE DEF b, s, found
<1>9. LotTypeOK' BY <1>1, <1>4, <1>5, <1>8, Zenon DEF LotTypeOK
<1>10. \A u \in Threads : Uncleared(u)' = Uncleared(u) BY <1>4, Zenon DEF Uncleared
<1>11. ASSUME NEW u \in Threads PROVE ParkInv(u)' /\ UnparkInv(u)' /\ UnclearedInv(u)'
  <2>1. ParkInv(u) /\ UnparkInv(u) /\ UnclearedInv(u) BY DEF LotInv
  <2>2. ParkInv(u)' BY <1>2, <1>4, <1>8, <2>1, Zenon DEF ParkInv
  <2>3. UnparkInv(u)' BY <1>4, <2>1, Zenon DEF UnparkInv
  <2>4. \A i \in Uncleared(u) : woken[u][i] \in Threads BY <1>1 DEF LotTypeOK, Uncleared
  <2>5. UnclearedInv(u)' BY <1>4, <1>8, <1>10, <2>1, <2>4, Zenon DEF UnclearedInv
  <2> QED BY <2>2, <2>3, <2>5
<1>12. UnclearedOnce' BY <1>4, <1>10 DEF LotInv, UnclearedOnce
<1> QED BY <1>8, <1>9, <1>11, <1>12, Zenon DEF LotInv

-----------------------------------------------------------------------------
(* The general client *)

(* A thread that parks with a timeout does it once: what an unpark call    *)
(* writes to a thread that has timed out in the meantime would reach the   *)
(* thread's next park (ParkingLot_late_unpark.cfg).                        *)
TimedParkOnce == \A t \in TimedThreads : MaxParks[t] <= 1

ClientPC == {"idle", "beforeSleep", "sleep", "blocked", "dequeueSelf", "clearSelf",
             "unparked", "clear", "notify"}

ClientPCInv(t) ==
    /\ pc[t] \in ClientPC
    /\ pc[t] = "idle" => parkedAt[t] = Null
    /\ pc[t] = "beforeSleep" => parkedAt[t] # Null
    /\ pc[t] \in {"clear", "notify"} => ret[t] \in {"idle", "sleep"}
    /\ pc[t] \in {"clear", "notify"} /\ ret[t] = "idle" => parkedAt[t] = Null

ParksInv ==
    /\ parks \in [Threads -> Nat]
    /\ \A t \in Threads : parkedAt[t] # Null => parks[t] >= 1
    /\ \A u \in Threads : \A i \in Uncleared(u) : parks[woken[u][i]] >= 1

ClientInv ==
    /\ LotInv
    /\ \A t \in Threads : ClientPCInv(t)
    /\ ParksInv

\* The clients start in the invariant.
LEMMA ClientInitially == ClientInit => ClientInv
<1> SUFFICES ASSUME ClientInit PROVE ClientInv
  BY Zenon
<1>1. LotInv BY LotInitially, Zenon DEF ClientInit
<1>2. \A t \in Threads : ClientPCInv(t) BY Zenon DEF ClientInit, LotInit, ClientPCInv, ClientPC
<1>3. \A t \in Threads : Uncleared(t) = {} BY Zenon DEF ClientInit, LotInit, Uncleared
<1>4. ParksInv BY <1>3, Zenon DEF ClientInit, LotInit, ParksInv
<1> QED BY <1>1, <1>2, <1>4, Zenon DEF ClientInv

(* Whom an unpark call wakes has parked: the threads w come from a queue.  *)
LEMMA WokenHaveParked ==
    ASSUME ClientInv, NEW t \in Threads, NEW a \in Addresses, NEW label,
           UnparkOneAt(t, a, label) \/ UnparkAllAt(t, a, label),
           pc[t] \notin {"clear", "notify"}, IsAfter(label), UNCHANGED parks
    PROVE  ParksInv'
<1> DEFINE b == bucketOf[a]
           s == bucket[b]
<1>1. LotInv /\ LotTypeOK /\ ParksInv BY Zenon DEF ClientInv, LotInv
<1>2. b \in Buckets /\ s \in Seq(Threads) BY <1>1, FirstAtMeans, Zenon
<1>3. UNCHANGED <<address, parkedAt>> BY Zenon DEF UnparkOneAt, UnparkAllAt
<1>4. \A k \in 1..Len(s) : s[k] \in Threads /\ parks[s[k]] >= 1
  <2> SUFFICES ASSUME NEW k \in 1..Len(s) PROVE s[k] \in Threads /\ parks[s[k]] >= 1
    BY Zenon
  <2>1. s[k] \in Threads BY <1>2
  <2>2. Queued(s[k], b) BY <1>1, <1>2, Zenon DEF LotInv, BucketInv
  <2> QED BY <1>1, <2>1, <2>2, Zenon DEF Queued, ParksInv
<1>5. \A u \in Threads \ {t} : woken'[u] = woken[u] /\ pc'[u] = pc[u]
  BY <1>1, Zenon DEF UnparkOneAt, UnparkAllAt, Goto, LotTypeOK
<1>6. \A i \in Uncleared(t)' : parks[woken'[t][i]] >= 1
  <2>1. CASE UnparkOneAt(t, a, label)
    <3>1. CASE FirstAt(a) = {}
      <4>1. pc'[t] = label /\ woken' = woken BY <1>1, <2>1, <3>1, Zenon DEF UnparkOneAt, Goto, LotTypeOK
      <4> QED BY <1>1, <4>1, Zenon DEF Uncleared, IsAfter
    <3>2. CASE FirstAt(a) # {}
      <4>1. PICK i \in FirstAt(a) : woken' = [woken EXCEPT ![t] = <<s[i]>>]
        BY <2>1, <3>2, Zenon DEF UnparkOneAt
      <4>2. woken'[t] = <<s[i]>> BY <1>1, <4>1, Zenon DEF LotTypeOK
      <4>3. i \in 1..Len(s) BY <1>1, FirstAtMeans, Zenon
      <4> HIDE DEF s
      <4> QED BY <1>4, <4>2, <4>3 DEF Uncleared
    <3> QED BY <3>1, <3>2, Zenon
  <2>2. CASE UnparkAllAt(t, a, label)
    <3> DEFINE isAt == {u \in Threads : address[u] = a}
               w == AllAmong(s, isAt)
    <3>1. woken'[t] = w BY <1>1, <2>2, Zenon DEF UnparkAllAt, LotTypeOK
    <3> HIDE DEF s, isAt
    <3>2. s \in Seq(Threads) BY <1>2, Zenon
    <3>3. \A j \in 1..Len(w) : \E k \in 1..Len(s) : s[k] = w[j]
      <4>1. Selects(w, s, isAt) BY <3>2, AllAmongMembers, Zenon
      <4> HIDE DEF w
      <4> QED BY <4>1, Zenon DEF Selects
    <3>4. w \in Seq(Threads) BY <3>2, AllAmongType, Zenon
    <3> HIDE DEF w
    <3>5. DOMAIN w = 1..Len(w) BY <3>4
    <3> QED BY <1>4, <3>1, <3>3, <3>5, Zenon DEF Uncleared
  <2> QED BY <2>1, <2>2, Zenon
<1>7. \A u \in Threads \ {t} : Uncleared(u)' = Uncleared(u) BY <1>5, Zenon DEF Uncleared
<1> QED BY <1>1, <1>3, <1>5, <1>6, <1>7 DEF ParksInv

(* The steps that dequeue nobody, and enqueue nobody, keep ParksInv. *)
LEMMA ParksKept ==
    ASSUME ClientInv, NEW t \in Threads, UNCHANGED parks,
           \A u \in Threads : parkedAt'[u] # Null => parkedAt[u] # Null,
           \A u \in Threads : \A i \in Uncleared(u)' : \E j \in Uncleared(u) : woken'[u][i] = woken[u][j]
    PROVE  ParksInv'
BY DEF ClientInv, ParksInv

\* Every step of the clients keeps it.
LEMMA ClientStep ==
    ASSUME TimedParkOnce
    PROVE  ClientInv /\ [ClientNext]_clientVars => ClientInv'
<1> SUFFICES ASSUME ClientInv, [ClientNext]_clientVars PROVE ClientInv'
  BY Zenon
<1>1. LotInv /\ LotTypeOK /\ ParksInv /\ \A t \in Threads : ParkInv(t) /\ UnparkInv(t) /\ ClientPCInv(t)
  BY Zenon DEF ClientInv, LotInv
<1>2. ASSUME NEW t \in Threads, NEW a \in Addresses, Park(t, a) PROVE ClientInv'
  <2>1. parkedAt[t] = Null BY <1>1, <1>2, Zenon DEF ClientPCInv, Park
  <2>2. \A u \in Threads : \A i \in Uncleared(u) : woken[u][i] # t
    <3> SUFFICES ASSUME NEW u \in Threads, NEW i \in Uncleared(u), woken[u][i] = t PROVE FALSE
      BY Zenon
    <3>1. t \in TimedThreads BY <1>1, <2>1, Zenon DEF LotInv, UnclearedInv
    <3>2. parks[t] >= 1 BY <1>1, Zenon DEF ParksInv
    <3>3. parks[t] < MaxParks[t] /\ MaxParks[t] <= 1 /\ parks[t] \in Nat /\ MaxParks[t] \in Nat
      BY <1>1, <1>2, <3>1, ClientAssumption, Zenon DEF Park, TimedParkOnce, ParksInv
    <3> QED BY <3>2, <3>3
  <2>3. LotInv' BY <1>1, <1>2, <2>1, <2>2, EnqueueKeeps, Zenon DEF Park
  <2>4. /\ pc'[t] = "beforeSleep" /\ parkedAt'[t] = a /\ a # Null /\ parks'[t] = parks[t] + 1
        /\ \A u \in Threads \ {t} : pc'[u] = pc[u] /\ parkedAt'[u] = parkedAt[u] /\ parks'[u] = parks[u]
        /\ ret' = ret /\ woken' = woken /\ pc[t] = "idle"
    BY <1>1, <1>2, ParkingLotAssumption, Zenon DEF Park, EnqueueAt, Goto, LotTypeOK, ParksInv
  <2>5. \A u \in Threads : ClientPCInv(u)' BY <1>1, <2>4, Zenon DEF ClientPCInv, ClientPC
  <2>6. parks' \in [Threads -> Nat] BY <1>1, <1>2 DEF Park, ParksInv
  <2>7. \A u \in Threads : Uncleared(u)' = Uncleared(u) BY <2>4, Zenon DEF Uncleared
  <2>8. \A u \in Threads : \A i \in Uncleared(u) : woken[u][i] \in Threads \ {t}
    BY <1>1, <2>2 DEF LotTypeOK, Uncleared
  <2>9. ParksInv' BY <1>1, <2>4, <2>6, <2>7, <2>8 DEF ParksInv
  <2> QED BY <2>3, <2>5, <2>9, Zenon DEF ClientInv
<1>3. ASSUME NEW t \in Threads, BeforeSleep(t) PROVE ClientInv'
  <2>1. parkedAt[t] # Null BY <1>1, <1>3, Zenon DEF ClientPCInv, BeforeSleep
  <2>2. LotInv' BY <1>1, <1>3, <2>1, LotFrame, Zenon DEF BeforeSleep
  <2>3. /\ pc'[t] = "sleep" /\ pc[t] = "beforeSleep" /\ \A u \in Threads \ {t} : pc'[u] = pc[u]
        /\ ret' = ret /\ woken' = woken /\ parkedAt' = parkedAt /\ parks' = parks
    BY <1>1, <1>3, Zenon DEF BeforeSleep, Goto, LotTypeOK, lotVars
  <2>4. \A u \in Threads : ClientPCInv(u)' BY <1>1, <2>3, Zenon DEF ClientPCInv, ClientPC
  <2>5. \A u \in Threads : Uncleared(u)' = Uncleared(u) BY <2>3, Zenon DEF Uncleared
  <2>6. ParksInv' BY <2>3, <2>5, ParksKept, Zenon
  <2> QED BY <2>2, <2>4, <2>6, Zenon DEF ClientInv
<1>4. ASSUME NEW t \in Threads, NEW a \in Addresses, UnparkOne(t, a) \/ UnparkAll(t, a)
      PROVE  ClientInv'
  <2>1. PICK label \in {"idle", "sleep"} :
            /\ UnparkOneAt(t, a, label) \/ UnparkAllAt(t, a, label)
            /\ label = "idle" => pc[t] = "idle"
            /\ label = "sleep" => pc[t] = "beforeSleep"
    BY <1>4, Zenon DEF UnparkOne, UnparkAll
  <2>2. pc[t] \in {"idle", "beforeSleep"} /\ IsAfter(label) BY <2>1, Zenon DEF IsAfter
  <2>3. (label = "sleep" => parkedAt[t] # Null) /\ (label = "idle" => parkedAt[t] = Null)
    BY <1>1, <2>1, Zenon DEF ClientPCInv
  <2>4. LotInv' BY <1>1, <2>1, <2>2, <2>3, UnparkOneKeeps, UnparkAllKeeps, Zenon
  <2>5. UNCHANGED parks BY <1>4, Zenon DEF UnparkOne, UnparkAll
  <2>6. ParksInv' BY <2>1, <2>2, <2>5, WokenHaveParked, Zenon
  <2>7. /\ \/ pc'[t] = label
           \/ pc'[t] = "clear" /\ ret'[t] = label
        /\ \A u \in Threads \ {t} : pc'[u] = pc[u] /\ ret'[u] = ret[u]
        /\ parkedAt' = parkedAt
    <3>1. CASE UnparkOneAt(t, a, label) BY <1>1, <3>1, Zenon DEF UnparkOneAt, Goto, LotTypeOK
    <3>2. CASE UnparkAllAt(t, a, label)
      <4>1. PICK all : /\ ret' = [ret EXCEPT ![t] = IF all = <<>> THEN "idle" ELSE label]
                       /\ Goto(t, IF all = <<>> THEN label ELSE "clear")
                       /\ UNCHANGED <<address, parkedAt, result>>
        BY <3>2, Zenon DEF UnparkAllAt
      <4> QED BY <1>1, <4>1, Zenon DEF Goto, LotTypeOK
    <3> QED BY <2>1, <3>1, <3>2, Zenon
  <2>8. \A u \in Threads : ClientPCInv(u)' BY <1>1, <2>3, <2>7, Zenon DEF ClientPCInv, ClientPC
  <2> QED BY <2>4, <2>6, <2>8, Zenon DEF ClientInv
<1>5. ASSUME NEW t \in Threads, Progress(t) \/ (WakeUp(t) /\ UNCHANGED parks) PROVE ClientInv'
  <2>1. UNCHANGED parks BY <1>5, Zenon DEF Progress
  <2>2. CASE Sleep(t)
    <3>1. /\ pc'[t] \in {"unparked", "blocked"} /\ pc[t] = "sleep" /\ \A u \in Threads \ {t} : pc'[u] = pc[u]
          /\ ret' = ret /\ woken' = woken /\ parkedAt' = parkedAt
      BY <1>1, <2>2, Zenon DEF Sleep, Goto, LotTypeOK
    <3>2. \A u \in Threads : ClientPCInv(u)' BY <1>1, <3>1, Zenon DEF ClientPCInv, ClientPC
    <3>3. \A u \in Threads : Uncleared(u)' = Uncleared(u) BY <3>1, Zenon DEF Uncleared
    <3>4. ParksInv' BY <2>1, <3>1, <3>3, ParksKept, Zenon
    <3> QED BY <1>1, <2>2, <3>2, <3>4, SleepKeeps, Zenon DEF ClientInv
  <2>3. CASE TimedOut(t) \/ WakeUp(t)
    <3>1. /\ pc'[t] \in {"dequeueSelf", "sleep"} /\ pc[t] \in {"sleep", "blocked"}
          /\ \A u \in Threads \ {t} : pc'[u] = pc[u]
          /\ ret' = ret /\ woken' = woken /\ parkedAt' = parkedAt
      BY <1>1, <2>3, Zenon DEF TimedOut, WakeUp, Goto, LotTypeOK, lotVars
    <3>2. \A u \in Threads : ClientPCInv(u)' BY <1>1, <3>1, Zenon DEF ClientPCInv, ClientPC
    <3>3. \A u \in Threads : Uncleared(u)' = Uncleared(u) BY <3>1, Zenon DEF Uncleared
    <3>4. ParksInv' BY <2>1, <3>1, <3>3, ParksKept, Zenon
    <3> QED BY <1>1, <2>3, <3>2, <3>4, TimedOutKeeps, WakeUpKeeps, Zenon DEF ClientInv
  <2>4. CASE DequeueSelf(t) \/ ClearSelf(t)
    <3>1. /\ pc'[t] \in {"clearSelf", "unparked"} /\ pc[t] \in {"dequeueSelf", "clearSelf"}
          /\ \A u \in Threads \ {t} : pc'[u] = pc[u]
          /\ ret' = ret /\ woken' = woken /\ parkedAt' = parkedAt
      BY <1>1, <2>4, Zenon DEF DequeueSelf, ClearSelf, Goto, LotTypeOK
    <3>2. \A u \in Threads : ClientPCInv(u)' BY <1>1, <3>1, Zenon DEF ClientPCInv, ClientPC
    <3>3. \A u \in Threads : Uncleared(u)' = Uncleared(u) BY <3>1, Zenon DEF Uncleared
    <3>4. ParksInv' BY <2>1, <3>1, <3>3, ParksKept, Zenon
    <3> QED BY <1>1, <2>4, <3>2, <3>4, DequeueSelfKeeps, ClearSelfKeeps, Zenon DEF ClientInv
  <2>5. CASE ParkReturn(t, "idle")
    <3>1. /\ pc'[t] = "idle" /\ pc[t] = "unparked" /\ parkedAt'[t] = Null
          /\ \A u \in Threads \ {t} : pc'[u] = pc[u] /\ parkedAt'[u] = parkedAt[u]
          /\ ret' = ret /\ woken' = woken
      BY <1>1, <2>5, Zenon DEF ParkReturn, Goto, LotTypeOK
    <3>2. \A u \in Threads : ClientPCInv(u)' BY <1>1, <3>1, Zenon DEF ClientPCInv, ClientPC
    <3>3. \A u \in Threads : Uncleared(u)' = Uncleared(u) BY <3>1, Zenon DEF Uncleared
    <3>4. ParksInv' BY <2>1, <3>1, <3>3, ParksKept, Zenon
    <3>5. "idle" \notin LotPC BY Zenon DEF LotPC
    <3> QED BY <1>1, <2>5, <3>2, <3>4, <3>5, ParkReturnKeeps, Zenon DEF ClientInv
  <2>6. CASE ClearAddress(t)
    <3>1. /\ pc'[t] = "notify" /\ pc[t] = "clear"
          /\ \A u \in Threads \ {t} : pc'[u] = pc[u]
          /\ ret' = ret /\ woken' = woken /\ parkedAt' = parkedAt
      BY <1>1, <2>6, Zenon DEF ClearAddress, Goto, LotTypeOK
    <3>2. \A u \in Threads : ClientPCInv(u)' BY <1>1, <3>1, Zenon DEF ClientPCInv, ClientPC
    <3>3. \A u \in Threads : Uncleared(u)' \subseteq Uncleared(u) BY <3>1, Zenon DEF Uncleared
    <3>4. ParksInv' BY <2>1, <3>1, <3>3, ParksKept, Zenon
    <3> QED BY <1>1, <2>6, <3>2, <3>4, ClearAddressKeeps DEF ClientInv
  <2>7. CASE NotifyOne(t)
    <3>1. /\ pc'[t] \in {ret[t], "clear"} /\ (pc'[t] = "clear" => ret'[t] = ret[t] \/ ret[t] = "clear")
          /\ \A u \in Threads \ {t} : \/ pc'[u] = pc[u]
                                      \/ pc[u] = "blocked" /\ pc'[u] = "sleep"
          /\ \A u \in Threads \ {t} : ret'[u] = ret[u] /\ woken'[u] = woken[u]
          /\ woken'[t] = Tail(woken[t])
          /\ parkedAt' = parkedAt /\ pc[t] = "notify"
      BY <1>1, <2>7, Zenon DEF NotifyOne, LotTypeOK
    <3>2. \A u \in Threads : ClientPCInv(u)' BY <1>1, <3>1, Zenon DEF ClientPCInv, ClientPC
    <3>3. \A u \in Threads \ {t} : Uncleared(u)' = Uncleared(u) BY <3>1, Zenon DEF Uncleared
    <3>4. woken[t] \in Seq(Threads) /\ woken[t] # <<>> BY <1>1, <3>1, Zenon DEF UnparkInv, LotTypeOK
    <3>5. \A i \in Uncleared(t)' : i + 1 \in Uncleared(t) /\ woken'[t][i] = woken[t][i + 1]
      BY <3>1, <3>4 DEF Uncleared
    <3>6. \A u \in Threads : \A i \in Uncleared(u)' : \E j \in Uncleared(u) : woken'[u][i] = woken[u][j]
      <4>1. \A i \in Uncleared(t)' : \E j \in Uncleared(t) : woken'[t][i] = woken[t][j]
        BY <3>5, Zenon
      <4>2. ASSUME NEW u \in Threads \ {t}
            PROVE  \A i \in Uncleared(u)' : \E j \in Uncleared(u) : woken'[u][i] = woken[u][j]
        <5>1. woken'[u] = woken[u] /\ Uncleared(u)' = Uncleared(u) BY <3>1, <3>3, Zenon
        <5> QED BY <5>1, Zenon
      <4> QED BY <4>1, <4>2, Zenon
    <3>7. ParksInv' BY <2>1, <3>1, <3>6, ParksKept, Zenon
    <3> QED BY <1>1, <2>7, <3>2, <3>7, NotifyOneKeeps DEF ClientInv
  <2> QED BY <1>5, <2>2, <2>3, <2>4, <2>5, <2>6, <2>7, Zenon DEF Progress
<1>6. ASSUME UNCHANGED clientVars PROVE ClientInv'
  <2>1. UNCHANGED <<bucket, address, parkedAt, result, leftBy, woken, ret, pc, parks>>
    BY <1>6, Zenon DEF clientVars, lotVars
  <2>2. \A t \in Threads : ClientPCInv(t)' BY <2>1, Zenon DEF ClientInv, ClientPCInv
  <2>3. ParksInv' BY <2>1, Zenon DEF ClientInv, ParksInv, Uncleared
  <2>4. LotTypeOK' BY <2>1, Zenon DEF ClientInv, LotInv, LotTypeOK
  <2>5. \A b \in Buckets : BucketInv(b)' BY <2>1, Zenon DEF ClientInv, LotInv, BucketInv, Queued
  <2>6. \A t \in Threads : ParkInv(t)' BY <2>1 DEF ClientInv, LotInv, ParkInv, OnQueue
  <2>7. \A t \in Threads : UnparkInv(t)' /\ UnclearedInv(t)'
    BY <2>1, Zenon DEF ClientInv, LotInv, UnparkInv, UnclearedInv, Uncleared
  <2>8. UnclearedOnce'
    <3>1. \A t \in Threads : Uncleared(t)' = Uncleared(t) BY <2>1, Zenon DEF Uncleared
    <3>2. woken' = woken BY <2>1, Zenon
    <3> QED BY <3>1, <3>2, FewerUncleared, Zenon DEF ClientInv, LotInv
  <2> QED BY <2>2, <2>3, <2>4, <2>5, <2>6, <2>7, <2>8, Zenon DEF ClientInv, LotInv
<1> QED BY <1>2, <1>3, <1>4, <1>5, <1>6, Zenon DEF ClientNext

(* The inductive invariant, for every set of threads and any hashing of    *)
(* addresses to buckets.                                                   *)
THEOREM ClientInvariance ==
    ASSUME TimedParkOnce
    PROVE  ClientSpec => []ClientInv
<1>1. ClientInv /\ [ClientNext]_clientVars => ClientInv' BY ClientStep, Zenon
<1> QED BY <1>1, ClientInitially, PTL DEF ClientSpec

(* QueuesAreSound: Bucket::enqueue() and every walk of a bucket find each  *)
(* queued thread once and in the bucket of the address it parks at.        *)
THEOREM QueuesStaySound ==
    ASSUME TimedParkOnce
    PROVE  ClientSpec => []QueuesAreSound
<1>1. ClientInv => QueuesAreSound BY SoundFromInv, Zenon DEF ClientInv
<1> QED BY <1>1, ClientInvariance, PTL

(* ReturnsTheTruth: parkConditionally() returns true exactly if an unpark  *)
(* call took the thread off its queue, also when that call races with the  *)
(* thread's timeout.                                                       *)
THEOREM ParkReturnsTheTruth ==
    ASSUME TimedParkOnce
    PROVE  ClientSpec => []ReturnsTheTruth
<1>1. ASSUME ClientInv PROVE ReturnsTheTruth
  <2> SUFFICES ASSUME NEW t \in Threads, pc[t] = "unparked"
               PROVE  ~OnQueue(t) /\ (result[t] <=> leftBy[t] = "unpark")
    BY Zenon DEF ReturnsTheTruth
  <2>1. LotInv /\ ParkInv(t) BY <1>1, Zenon DEF ClientInv, LotInv
  <2>2. address[t] = Null /\ parkedAt[t] # Null /\ (result[t] <=> leftBy[t] = "unpark")
    BY <2>1, Zenon DEF ParkInv
  <2>3. ~OnQueue(t) BY <2>1, <2>2, OnQueueMeans, Zenon DEF Queued
  <2> QED BY <2>2, <2>3, Zenon
<1> QED BY <1>1, ClientInvariance, PTL

-----------------------------------------------------------------------------
(* The buckets implement one FIFO queue per address *)

(* How t stands with parkConditionally(), without a look at pc. *)
Standing(t) ==
    IF parkedAt[t] = Null THEN "out"
    ELSE IF leftBy[t] = "nobody" THEN "parked"
    ELSE IF leftBy[t] = "unpark" THEN "unparked" ELSE "timedOut"

\* The status that the refinement mapping gives a thread is its standing.
LEMMA StatusIsStanding == LotInv => \A t \in Threads : Status(t) = Standing(t)
<1> SUFFICES ASSUME LotInv, NEW t \in Threads PROVE Status(t) = Standing(t)
  BY Zenon
<1>1. ParkInv(t) /\ leftBy[t] \in {"nobody", "itself", "unpark"} BY Zenon DEF LotInv, LotTypeOK
<1>2. CASE parkedAt[t] = Null BY <1>2, Zenon DEF Status, Standing
<1>3. CASE parkedAt[t] # Null /\ pc[t] = "unparked"
  <2>1. leftBy[t] # "nobody" /\ (result[t] <=> leftBy[t] = "unpark") BY <1>1, <1>3, Zenon DEF ParkInv
  <2>2. CASE result[t] BY <1>3, <2>1, <2>2, Zenon DEF Status, Standing
  <2>3. CASE ~result[t] BY <1>3, <2>1, <2>3, Zenon DEF Status, Standing
  <2> QED BY <2>2, <2>3, Zenon
<1>4. CASE parkedAt[t] # Null /\ pc[t] # "unparked"
  BY <1>1, <1>4, Zenon DEF Status, Standing
<1> QED BY <1>2, <1>3, <1>4, Zenon

\* The same in the next state.
LEMMA StandingNext == (LotInv => \A t \in Threads : Status(t) = Standing(t))'
BY StatusIsStanding, PTL

queues == [a \in Addresses |-> QueuedAt(a)]
statuses == [t \in Threads |-> Status(t)]

\* The queue at an address is a sequence of threads.
LEMMA QueuedAtType ==
    ASSUME LotInv, NEW a \in Addresses
    PROVE  /\ QueuedAt(a) \in Seq(Threads) /\ bucketOf[a] \in Buckets
           /\ bucket[bucketOf[a]] \in Seq(Threads)
<1>1. bucketOf[a] \in Buckets /\ bucket[bucketOf[a]] \in Seq(Threads) BY FirstAtMeans, Zenon
<1> QED BY <1>1, AllAmongType, Zenon DEF QueuedAt

(* A write to the address of a thread that is on no queue changes none. *)
LEMMA QueuedAtKept ==
    ASSUME LotInv, bucket' = bucket,
           \A u \in Threads : OnQueue(u) => address'[u] = address[u],
           NEW a \in Addresses
    PROVE  QueuedAt(a)' = QueuedAt(a)
<1> DEFINE s == bucket[bucketOf[a]]
           V == {t \in Threads : address[t] = a}
           W == {t \in Threads : address'[t] = a}
<1>1. bucketOf[a] \in Buckets /\ s \in Seq(Threads) BY QueuedAtType, Zenon
<1>2. DOMAIN s = 1..Len(s) BY <1>1
<1>3. \A i \in DOMAIN s : s[i] \in Threads /\ OnQueue(s[i])
  BY <1>1 DEF OnQueue
<1>4. \A i \in DOMAIN s : s[i] \in V <=> s[i] \in W BY <1>3, Zenon
<1>5. QueuedAt(a) = AllAmong(s, V) /\ QueuedAt(a)' = AllAmong(s, W) BY Zenon DEF QueuedAt
<1> HIDE DEF s, V, W
<1>6. AllAmong(s, V) = AllAmong(s, W) BY <1>1, <1>4, AllAmongAgree, Zenon
<1> QED BY <1>5, <1>6, Zenon

\* A step that changes no queue and no standing is a stutter of the abstract
\* queues.
LEMMA StepStutters ==
    ASSUME LotInv, LotInv',
           \A a \in Addresses : QueuedAt(a)' = QueuedAt(a),
           \A t \in Threads : Standing(t)' = Standing(t)
    PROVE  UNCHANGED <<queues, statuses>>
<1>1. \A t \in Threads : Status(t)' = Status(t) BY StatusIsStanding, StandingNext, Zenon
<1> QED BY <1>1, Zenon DEF queues, statuses

\* Enqueueing implements the abstract Park.
LEMMA ParkImplements ==
    ASSUME LotInv, LotInv', NEW t \in Threads, NEW a \in Addresses,
           EnqueueAt(t, a), parkedAt[t] = Null
    PROVE  PQ!Park(t, a)
<1>1. LotTypeOK BY Zenon DEF LotInv
<1>2. /\ address'[t] = a /\ parkedAt'[t] = a /\ leftBy'[t] = "nobody" /\ a # Null
      /\ \A u \in Threads \ {t} : /\ address'[u] = address[u] /\ parkedAt'[u] = parkedAt[u]
                                  /\ leftBy'[u] = leftBy[u]
  BY <1>1, ParkingLotAssumption, Zenon DEF LotTypeOK, EnqueueAt
<1>3. statuses[t] = "out" /\ Status(t)' = "parked" /\ \A u \in Threads \ {t} : Status(u)' = Status(u)
  <2>1. \A u \in Threads : Status(u) = Standing(u) BY StatusIsStanding, Zenon
  <2>2. \A u \in Threads : Status(u)' = Standing(u)' BY StandingNext, Zenon
  <2> QED BY <1>2, <2>1, <2>2 DEF Standing, statuses
<1>4. statuses' = [statuses EXCEPT ![t] = "parked"] BY <1>3, Zenon DEF statuses
<1>5. ASSUME NEW x \in Addresses
      PROVE  QueuedAt(x)' = IF x = a THEN Append(QueuedAt(x), t) ELSE QueuedAt(x)
  <2> DEFINE b == bucketOf[x]
             s == bucket[b]
             V == {u \in Threads : address[u] = x}
             W == {u \in Threads : address'[u] = x}
  <2>1. b \in Buckets /\ s \in Seq(Threads) /\ bucketOf[a] \in Buckets BY QueuedAtType, Zenon
  <2>2. DOMAIN s = 1..Len(s) BY <2>1
  <2>3. \A i \in DOMAIN s : s[i] \in Threads /\ s[i] # t
    <3> SUFFICES ASSUME NEW i \in 1..Len(s) PROVE s[i] \in Threads /\ s[i] # t
      BY <2>2, Zenon
    <3>1. s[i] \in Threads BY <2>1
    <3>2. Queued(s[i], b) BY <2>1, Zenon DEF LotInv, BucketInv
    <3> QED BY <3>1, <3>2, Zenon DEF Queued
  <2>4. \A i \in DOMAIN s : s[i] \in V <=> s[i] \in W BY <1>2, <2>3, Zenon
  <2>5. bucket'[b] = IF b = bucketOf[a] THEN Append(s, t) ELSE s
    BY <1>1, <2>1, Zenon DEF EnqueueAt, LotTypeOK
  <2>6. QueuedAt(x) = AllAmong(s, V) /\ QueuedAt(x)' = AllAmong(bucket'[b], W) BY Zenon DEF QueuedAt
  <2>7. t \in W <=> x = a BY <1>2, Zenon
  <2> HIDE DEF s, b, V, W
  <2>8. AllAmong(s, W) = AllAmong(s, V) BY <2>1, <2>4, AllAmongAgree, Zenon
  <2>9. AllAmong(Append(s, t), W) = IF t \in W THEN Append(AllAmong(s, W), t) ELSE AllAmong(s, W)
    BY <2>1, AllAmongAppend, Zenon
  <2>10. CASE x = a BY <2>5, <2>6, <2>7, <2>8, <2>9, <2>10, Zenon DEF b
  <2>11. CASE x # a BY <2>5, <2>6, <2>7, <2>8, <2>9, <2>11, Zenon
  <2> QED BY <2>10, <2>11, Zenon
<1>6. queues' = [queues EXCEPT ![a] = Append(@, t)]
  <2>1. queues[a] = QueuedAt(a) BY Zenon DEF queues
  <2> HIDE DEF QueuedAt
  <2> QED BY <1>5, <2>1, Zenon DEF queues
<1> QED BY <1>3, <1>4, <1>6, Zenon DEF PQ!Park, queues, statuses

(* A thread leaves a queue: what the queues of the addresses become.       *)
LEMMA OneLeaves ==
    ASSUME LotInv, NEW b \in Buckets, NEW i \in 1..Len(bucket[b]), NEW x \in Addresses,
           bucket' = [bucket EXCEPT ![b] = Removed(@, i)], UNCHANGED address
    PROVE  /\ address[bucket[b][i]] # x \/ bucketOf[x] # b => QueuedAt(x)' = QueuedAt(x)
           /\ address[bucket[b][i]] = x /\ bucketOf[x] = b =>
                  \E k \in 1..Len(QueuedAt(x)) :
                      /\ QueuedAt(x)[k] = bucket[b][i]
                      /\ QueuedAt(x)' = Removed(QueuedAt(x), k)
                      /\ i \in FirstAt(x) => k = 1
<1> DEFINE s == bucket[b]
           V == {u \in Threads : address[u] = x}
<1>1. s \in Seq(Threads) /\ bucket' = [bucket EXCEPT ![b] = Removed(s, i)]
  BY Zenon DEF LotInv, LotTypeOK
<1>2. bucket'[b] = Removed(s, i) /\ \A c \in Buckets \ {b} : bucket'[c] = bucket[c]
  BY <1>1, Zenon DEF LotInv, LotTypeOK
<1>3. bucketOf[x] \in Buckets BY ParkingLotAssumption, Zenon
<1>4. QueuedAt(x) = AllAmong(bucket[bucketOf[x]], V) /\ QueuedAt(x)' = AllAmong(bucket'[bucketOf[x]], V)
  BY Zenon DEF QueuedAt
<1>5. CASE bucketOf[x] # b
  BY <1>2, <1>3, <1>4, <1>5, Zenon
<1>6. CASE bucketOf[x] = b
  <2>1. QueuedAt(x) = AllAmong(s, V) /\ QueuedAt(x)' = AllAmong(Removed(s, i), V)
    BY <1>2, <1>4, <1>6, Zenon
  <2>2. s[i] \in Threads BY <1>1
  <2>3. s[i] \in V <=> address[s[i]] = x BY <2>2, Zenon
  <2>4. i \in FirstAt(x) => \A j \in 1..(i - 1) : s[j] \notin V
    BY <1>6, Zenon DEF FirstAt, FirstAmong
  <2> HIDE DEF s, V
  <2>5. s[i] \notin V => AllAmong(Removed(s, i), V) = AllAmong(s, V)
    BY <1>1, AllAmongRemoved, Zenon DEF s
  <2>6. s[i] \in V => \E k \in 1..Len(AllAmong(s, V)) :
                          /\ AllAmong(s, V)[k] = s[i]
                          /\ AllAmong(Removed(s, i), V) = Removed(AllAmong(s, V), k)
                          /\ (\A j \in 1..(i - 1) : s[j] \notin V) => k = 1
    <3>1. i \in 1..Len(s) BY Zenon DEF s
    <3> QED BY <1>1, <3>1, AllAmongRemoved
  <2>7. address[s[i]] # x => QueuedAt(x)' = QueuedAt(x) BY <2>1, <2>3, <2>5, Zenon
  <2>8. ASSUME address[s[i]] = x
        PROVE  \E k \in 1..Len(QueuedAt(x)) :
                   /\ QueuedAt(x)[k] = s[i]
                   /\ QueuedAt(x)' = Removed(QueuedAt(x), k)
                   /\ i \in FirstAt(x) => k = 1
    <3>1. PICK k \in 1..Len(AllAmong(s, V)) :
              /\ AllAmong(s, V)[k] = s[i]
              /\ AllAmong(Removed(s, i), V) = Removed(AllAmong(s, V), k)
              /\ (\A j \in 1..(i - 1) : s[j] \notin V) => k = 1
      BY <2>3, <2>6, <2>8, Zenon
    <3>2. i \in FirstAt(x) => k = 1 BY <2>4, <3>1, Zenon
    <3>3. k \in 1..Len(QueuedAt(x)) /\ QueuedAt(x)[k] = s[i] /\ QueuedAt(x)' = Removed(QueuedAt(x), k)
      BY <2>1, <3>1, Zenon
    <3> QED BY <3>2, <3>3, Zenon
  <2> QED BY <1>6, <2>7, <2>8, Zenon DEF s
<1> QED BY <1>5, <1>6, Zenon

\* Taking a thread out of a bucket leaves the queues at the other addresses as
\* they are.
LEMMA OthersStay ==
    ASSUME LotInv, NEW b \in Buckets, NEW i \in 1..Len(bucket[b]), NEW x \in Addresses,
           bucket' = [bucket EXCEPT ![b] = Removed(@, i)], UNCHANGED address,
           address[bucket[b][i]] # x
    PROVE  QueuedAt(x)' = QueuedAt(x)
<1>1. address[bucket[b][i]] # x \/ bucketOf[x] # b => QueuedAt(x)' = QueuedAt(x)
  BY OneLeaves, ZenonT(60)
<1> QED BY <1>1, Zenon

\* unparkOne implements the abstract UnparkOne, or finds nobody and stutters.
LEMMA UnparkOneImplements ==
    ASSUME LotInv, LotInv', NEW t \in Threads, NEW a \in Addresses, NEW label,
           UnparkOneAt(t, a, label)
    PROVE  PQ!UnparkOne(a) \/ UNCHANGED <<queues, statuses>>
<1> DEFINE b == bucketOf[a]
           s == bucket[b]
           A == QueuedAt(a)
<1>1. LotTypeOK BY Zenon DEF LotInv
<1>2. b \in Buckets /\ s \in Seq(Threads) /\ A \in Seq(Threads) BY QueuedAtType, Zenon
<1>3. CASE FirstAt(a) = {}
  <2>1. UNCHANGED <<bucket, address, parkedAt, leftBy>> BY <1>3, Zenon DEF UnparkOneAt
  <2>2. \A x \in Addresses : QueuedAt(x)' = QueuedAt(x) BY <2>1, Zenon DEF QueuedAt
  <2>3. \A u \in Threads : Standing(u)' = Standing(u) BY <2>1, Zenon DEF Standing
  <2> QED BY <2>2, <2>3, StepStutters, Zenon
<1>4. CASE FirstAt(a) # {}
  <2>1. PICK i \in FirstAt(a) : /\ bucket' = [bucket EXCEPT ![b] = Removed(@, i)]
                                /\ leftBy' = [leftBy EXCEPT ![s[i]] = "unpark"]
    BY <1>4, Zenon DEF UnparkOneAt
  <2>2. i \in 1..Len(s) /\ s[i] \in Threads /\ address[s[i]] = a BY FirstAtMeans, Zenon
  <2>3. UNCHANGED <<address, parkedAt>> BY Zenon DEF UnparkOneAt
  <2>4. Queued(s[i], b) BY <1>2, <2>2, Zenon DEF LotInv, BucketInv
  <2>5. leftBy'[s[i]] = "unpark" /\ \A u \in Threads \ {s[i]} : leftBy'[u] = leftBy[u]
    BY <1>1, <2>1, <2>2, Zenon DEF LotTypeOK
  <2>6. parkedAt[s[i]] # Null BY <2>4, Zenon DEF Queued
  <2>7. i \in 1..Len(bucket[b]) /\ address[bucket[b][i]] = a /\ bucketOf[a] = b BY <2>2, Zenon
  <2> HIDE DEF b
  <2>8. PICK k \in 1..Len(QueuedAt(a)) : /\ QueuedAt(a)[k] = bucket[b][i]
                                         /\ QueuedAt(a)' = Removed(QueuedAt(a), k)
                                         /\ i \in FirstAt(a) => k = 1
    BY <1>2, <2>1, <2>3, <2>7, OneLeaves, Zenon
  <2>9. ASSUME NEW x \in Addresses \ {a} PROVE QueuedAt(x)' = QueuedAt(x)
    <3>1. x \in Addresses /\ address[bucket[b][i]] # x BY <2>7, Zenon
    <3> QED BY <1>2, <2>1, <2>3, <2>7, <3>1, OthersStay, Zenon
  <2>10. PICK v \in Threads : v = s[i] BY <2>2, Zenon
  <2>11. leftBy'[v] = "unpark" /\ parkedAt[v] # Null
        /\ \A u \in Threads \ {v} : leftBy'[u] = leftBy[u]
    BY <2>5, <2>6, <2>10, Zenon
  <2>12. k \in 1..Len(A) /\ k = 1 /\ A[1] = v /\ QueuedAt(a)' = Removed(A, 1) BY <2>1, <2>8, <2>10, Zenon
  <2> HIDE DEF A, s
  <2>13. A # <<>> /\ Head(A) = v /\ QueuedAt(a)' = Tail(A)
    <3>1. A # <<>> BY <1>2, <2>12
    <3> QED BY <1>2, <2>12, <3>1, RemovedFirst, Zenon
  <2>14. Status(v)' = "unparked" /\ \A u \in Threads \ {v} : Status(u)' = Status(u)
    <3>1. \A u \in Threads : Status(u) = Standing(u) BY StatusIsStanding, Zenon
    <3>2. \A u \in Threads : Status(u)' = Standing(u)' BY StandingNext, Zenon
    <3> QED BY <2>3, <2>11, <3>1, <3>2, Zenon DEF Standing
  <2>15. queues[a] = A BY Zenon DEF queues, A
  <2>16. queues' = [queues EXCEPT ![a] = Tail(@)] BY <2>9, <2>13, <2>15, Zenon DEF queues
  <2>17. statuses' = [statuses EXCEPT ![v] = "unparked"] BY <2>11, <2>14, Zenon DEF statuses
  <2>18. PQ!UnparkOne(a) BY <2>13, <2>15, <2>16, <2>17, Zenon DEF PQ!UnparkOne, queues, statuses
  <2> QED BY <2>18, Zenon
<1> QED BY <1>3, <1>4, Zenon

\* unparkAll implements the abstract UnparkAll, or finds nobody and stutters.
LEMMA UnparkAllImplements ==
    ASSUME LotInv, LotInv', NEW t \in Threads, NEW a \in Addresses, NEW label,
           UnparkAllAt(t, a, label)
    PROVE  PQ!UnparkAll(a) \/ UNCHANGED <<queues, statuses>>
<1> DEFINE b == bucketOf[a]
           s == bucket[b]
           isAt == {u \in Threads : address[u] = a}
           others == Threads \ isAt
           A == QueuedAt(a)
<1>1. LotTypeOK BY DEF LotInv
<1>2. b \in Buckets /\ s \in Seq(Threads) /\ A \in Seq(Threads) BY QueuedAtType
<1>3. A = AllAmong(s, isAt) BY Zenon DEF QueuedAt
<1>4. /\ bucket' = [bucket EXCEPT ![b] = AllAmong(s, others)]
      /\ leftBy' = [u \in Threads |->
                       IF \E i \in DOMAIN A : A[i] = u THEN "unpark" ELSE leftBy[u]]
      /\ UNCHANGED <<address, parkedAt>>
  BY <1>1, <1>2, <1>3, Zenon DEF UnparkAllAt, LotTypeOK
<1>5. bucket'[b] = AllAmong(s, others) /\ \A c \in Buckets \ {b} : bucket'[c] = bucket[c]
  BY <1>1, <1>2, <1>4, Zenon DEF LotTypeOK
<1>6. ASSUME NEW x \in Addresses PROVE QueuedAt(x)' = IF x = a THEN <<>> ELSE QueuedAt(x)
  <2> DEFINE V == {u \in Threads : address[u] = x}
  <2>1. QueuedAt(x) = AllAmong(bucket[bucketOf[x]], V) /\ QueuedAt(x)' = AllAmong(bucket'[bucketOf[x]], V)
    BY <1>4, Zenon DEF QueuedAt
  <2>2. bucketOf[x] \in Buckets BY ParkingLotAssumption, Zenon
  <2>3. CASE bucketOf[x] # b BY <1>5, <2>1, <2>2, <2>3, Zenon
  <2>4. CASE bucketOf[x] = b
    <3>1. QueuedAt(x) = AllAmong(s, V) /\ QueuedAt(x)' = AllAmong(AllAmong(s, others), V)
      BY <1>5, <2>1, <2>4, Zenon
    <3>2. others \cap V = IF x = a THEN {} ELSE V BY Zenon
    <3> HIDE DEF s, others, V
    <3>3. QueuedAt(x)' = AllAmong(s, others \cap V) BY <1>2, <3>1, AllAmongTwice
    <3>4. AllAmong(s, {}) = <<>> BY <1>2, AllAmongNone, Zenon
    <3>5. CASE x = a BY <3>2, <3>3, <3>4, <3>5, Zenon
    <3>6. CASE x # a BY <3>1, <3>2, <3>3, <3>6, Zenon
    <3> QED BY <3>5, <3>6, Zenon
  <2> QED BY <2>3, <2>4, Zenon
<1>7. queues[a] = A BY Zenon DEF queues
<1> HIDE DEF A, s, b, isAt, others
<1>8. queues' = [queues EXCEPT ![a] = <<>>] BY <1>6, Zenon DEF queues
<1>9. \A u \in Threads : Status(u)' = IF \E i \in DOMAIN A : A[i] = u THEN "unparked" ELSE Status(u)
  <2>1. \A u \in Threads : Status(u) = Standing(u) BY StatusIsStanding, Zenon
  <2>2. \A u \in Threads : Status(u)' = Standing(u)' BY StandingNext, Zenon
  <2>3. ASSUME NEW u \in Threads, \E i \in DOMAIN A : A[i] = u PROVE parkedAt[u] # Null
    <3>1. \A j \in 1..Len(A) : \E k \in 1..Len(s) : s[k] = A[j]
      <4>1. Selects(A, s, isAt) BY <1>2, <1>3, AllAmongMembers, Zenon
      <4> QED BY <4>1, Zenon DEF Selects
    <3>2. DOMAIN A = 1..Len(A) BY <1>2
    <3>3. PICK k \in 1..Len(s) : s[k] = u BY <2>3, <3>1, <3>2, Zenon
    <3>4. Queued(u, b) BY <1>2, <3>3, Zenon DEF LotInv, BucketInv, s
    <3> QED BY <3>4, Zenon DEF Queued
  <2> QED BY <1>4, <2>1, <2>2, <2>3, Zenon DEF Standing
<1>10. statuses' = [u \in Threads |->
                       IF \E i \in DOMAIN queues[a] : queues[a][i] = u
                       THEN "unparked" ELSE statuses[u]]
  BY <1>7, <1>9, Zenon DEF statuses
<1>11. CASE A # <<>> BY <1>7, <1>8, <1>10, <1>11, Zenon DEF PQ!UnparkAll, queues, statuses
<1>12. CASE A = <<>>
  <2>1. queues' = queues BY <1>7, <1>8, <1>12, Zenon DEF queues
  <2>2. ~\E i \in DOMAIN A : TRUE BY <1>12
  <2>3. \A u \in Threads : Status(u)' = Status(u) BY <1>9, <2>2, Zenon
  <2> QED BY <2>1, <2>3, Zenon DEF statuses
<1> QED BY <1>11, <1>12, Zenon

\* Dequeueing oneself implements the abstract TimeOut, or loses the race and
\* stutters.
LEMMA DequeueSelfImplements ==
    ASSUME LotInv, LotInv', NEW t \in Threads, DequeueSelf(t)
    PROVE  PQ!TimeOut(t) \/ UNCHANGED <<queues, statuses>>
<1> DEFINE a == parkedAt[t]
           b == bucketOf[a]
           s == bucket[b]
<1>1. LotTypeOK BY Zenon DEF LotInv
<1>2. a # Null /\ a \in Addresses /\ t \in TimedThreads
  <2>1. ParkInv(t) BY Zenon DEF LotInv
  <2> QED BY <1>1, <2>1, Zenon DEF ParkInv, DequeueSelf, LotTypeOK
<1>3. b \in Buckets /\ s \in Seq(Threads) /\ QueuedAt(a) \in Seq(Threads) BY <1>2, QueuedAtType, Zenon
<1>4. UNCHANGED <<address, parkedAt>> BY Zenon DEF DequeueSelf
<1>5. CASE UNCHANGED <<bucket, leftBy>>
  <2>1. \A x \in Addresses : QueuedAt(x)' = QueuedAt(x) BY <1>4, <1>5, Zenon DEF QueuedAt
  <2>2. \A u \in Threads : Standing(u)' = Standing(u) BY <1>4, <1>5, Zenon DEF Standing
  <2> QED BY <2>1, <2>2, StepStutters, Zenon
<1>6. ASSUME NEW i \in FirstAmong(s, {t}),
             bucket' = [bucket EXCEPT ![b] = Removed(@, i)],
             leftBy' = [leftBy EXCEPT ![t] = "itself"]
      PROVE  PQ!TimeOut(t)
  <2>1. i \in 1..Len(s) /\ s[i] = t BY <1>3 DEF FirstAmong
  <2>2. Queued(t, b)
    <3>1. BucketInv(b) BY <1>3, Zenon DEF LotInv
    <3> QED BY <2>1, <3>1, Zenon DEF BucketInv
  <2>3. address[t] = a /\ leftBy[t] = "nobody" BY <2>2, Zenon DEF Queued
  <2>4. PICK x \in Addresses : x = a BY <1>2, Zenon
  <2>5. PICK c \in Buckets : c = b BY <1>3, Zenon
  <2>6. i \in 1..Len(bucket[c]) /\ bucket[c][i] = t /\ address[t] = x /\ bucketOf[x] = c
    BY <2>1, <2>3, <2>4, <2>5, Zenon
  <2>7. bucket' = [bucket EXCEPT ![c] = Removed(@, i)] BY <1>6, <2>5, Zenon
  <2>8. PICK k \in 1..Len(QueuedAt(x)) :
            QueuedAt(x)[k] = t /\ QueuedAt(x)' = Removed(QueuedAt(x), k)
    BY <1>4, <2>6, <2>7, OneLeaves, Zenon
  <2>9. ASSUME NEW y \in Addresses \ {x} PROVE QueuedAt(y)' = QueuedAt(y)
    <3>1. y \in Addresses /\ address[bucket[c][i]] # y BY <2>6, Zenon
    <3> QED BY <1>4, <2>6, <2>7, <3>1, OthersStay, Zenon
  <2>10. queues[x] = QueuedAt(x) /\ k \in DOMAIN queues[x] /\ queues[x][k] = t
    <3>1. queues[x] = QueuedAt(x) BY Zenon DEF queues
    <3>2. QueuedAt(x) \in Seq(Threads) BY <1>3, <2>4, Zenon
    <3>3. k \in DOMAIN QueuedAt(x) BY <3>2
    <3> QED BY <2>8, <3>1, <3>3, Zenon
  <2>11. queues' = [queues EXCEPT ![x] = Removed(@, k)] BY <2>8, <2>9, <2>10, Zenon DEF queues
  <2>12. statuses[t] = "parked" /\ statuses' = [statuses EXCEPT ![t] = "timedOut"]
    <3>1. \A u \in Threads : Status(u) = Standing(u) BY StatusIsStanding, Zenon
    <3>2. \A u \in Threads : Status(u)' = Standing(u)' BY StandingNext, Zenon
    <3>3. leftBy'[t] = "itself" /\ \A u \in Threads \ {t} : leftBy'[u] = leftBy[u]
      BY <1>1, <1>6, Zenon DEF LotTypeOK
    <3>4. Status(t) = "parked" /\ Status(t)' = "timedOut" /\ \A u \in Threads \ {t} : Status(u)' = Status(u)
      BY <1>2, <1>4, <2>3, <3>1, <3>2, <3>3, Zenon DEF Standing
    <3> QED BY <3>4, Zenon DEF statuses
  <2>13. \E y \in Addresses : \E j \in DOMAIN queues[y] :
             queues[y][j] = t /\ queues' = [queues EXCEPT ![y] = PQ!Removed(@, j)]
    <3>1. Removed(queues[x], k) = PQ!Removed(queues[x], k) BY Zenon DEF Removed, PQ!Removed
    <3> QED BY <2>10, <2>11, <3>1, Zenon
  <2> QED BY <1>2, <2>12, <2>13, Zenon DEF PQ!TimeOut, queues, statuses
<1> QED BY <1>5, <1>6, Zenon DEF DequeueSelf

\* Returning from a park implements the abstract Return.
LEMMA ReturnImplements ==
    ASSUME LotInv, LotInv', NEW t \in Threads, NEW label, ParkReturn(t, label)
    PROVE  PQ!Return(t)
<1>1. LotTypeOK /\ ParkInv(t) BY Zenon DEF LotInv
<1>2. parkedAt[t] # Null /\ leftBy[t] # "nobody" BY <1>1, Zenon DEF ParkInv, ParkReturn
<1>3. /\ parkedAt'[t] = Null
      /\ \A u \in Threads \ {t} : parkedAt'[u] = parkedAt[u] /\ leftBy'[u] = leftBy[u]
      /\ UNCHANGED <<bucket, address>>
  BY <1>1, Zenon DEF ParkReturn, LotTypeOK
<1>4. UNCHANGED queues BY <1>3, Zenon DEF queues, QueuedAt
<1>5. \A u \in Threads : Status(u) = Standing(u) BY StatusIsStanding, Zenon
<1>6. \A u \in Threads : Status(u)' = Standing(u)' BY StandingNext, Zenon
<1>7. /\ Status(t) \in {"unparked", "timedOut"} /\ Status(t)' = "out"
      /\ \A u \in Threads \ {t} : Status(u)' = Status(u)
  BY <1>2, <1>3, <1>5, <1>6, Zenon DEF Standing
<1>8. statuses[t] \in {"unparked", "timedOut"} /\ statuses' = [statuses EXCEPT ![t] = "out"]
  BY <1>7, Zenon DEF statuses
<1> QED BY <1>4, <1>8, Zenon DEF PQ!Return, queues, statuses

\* After a step of the clients the lot's part of the invariant holds again.
LEMMA ClientInvNext == ASSUME TimedParkOnce PROVE ClientInv /\ [ClientNext]_clientVars => LotInv'
BY ClientStep, Zenon DEF ClientInv

(* The buckets implement ParkingQueues, whatever addresses share them:     *)
(* every step of the client is a step of one FIFO queue per address, or    *)
(* changes nothing there.                                                  *)
THEOREM ImplementsParkingQueues ==
    ASSUME TimedParkOnce
    PROVE  ClientSpec => PQ!SafeSpec
<1>1. ClientInit => PQ!Init
  <2> SUFFICES ASSUME ClientInit PROVE PQ!Init
    BY Zenon
  <2>1. LotInv BY ClientInitially, Zenon DEF ClientInv
  <2>2. \A u \in Threads : Status(u) = "out"
    BY <2>1, StatusIsStanding, Zenon DEF Standing, ClientInit, LotInit
  <2>3. \A a \in Addresses : QueuedAt(a) = <<>>
    <3> SUFFICES ASSUME NEW a \in Addresses PROVE QueuedAt(a) = <<>>
      BY Zenon
    <3> DEFINE W == {t \in Threads : address[t] = a}
    <3>1. bucket[bucketOf[a]] = <<>> BY ParkingLotAssumption, Zenon DEF ClientInit, LotInit
    <3> HIDE DEF W
    <3>2. AllAmong(<<>>, W) = <<>> BY AllAmongEmpty, Zenon
    <3> QED BY <3>1, <3>2, Zenon DEF QueuedAt, W
  <2> QED BY <2>2, <2>3, Zenon DEF PQ!Init
<1>2. ClientInv /\ [ClientNext]_clientVars => [PQ!Next]_PQ!vars
  <2> SUFFICES ASSUME ClientInv, [ClientNext]_clientVars
               PROVE  PQ!Next \/ UNCHANGED <<queues, statuses>>
    BY Zenon DEF PQ!vars, queues, statuses
  <2>1. LotInv /\ LotInv' BY ClientInvNext, Zenon DEF ClientInv
  <2>2. LotTypeOK /\ \A t \in Threads : ParkInv(t) /\ ClientPCInv(t) BY Zenon DEF ClientInv, LotInv
  <2>3. ASSUME UNCHANGED <<bucket, leftBy, parkedAt>>,
               \A u \in Threads : OnQueue(u) => address'[u] = address[u]
        PROVE  UNCHANGED <<queues, statuses>>
    <3>1. \A a \in Addresses : QueuedAt(a)' = QueuedAt(a) BY <2>1, <2>3, QueuedAtKept, Zenon
    <3>2. \A u \in Threads : Standing(u)' = Standing(u) BY <2>3, Zenon DEF Standing
    <3> QED BY <2>1, <3>1, <3>2, StepStutters, Zenon
  <2>4. ASSUME NEW t \in Threads, NEW a \in Addresses, Park(t, a) PROVE PQ!Next
    <3>1. parkedAt[t] = Null BY <2>2, <2>4, Zenon DEF Park, ClientPCInv
    <3>2. PQ!Park(t, a) BY <2>1, <2>4, <3>1, ParkImplements, Zenon DEF Park
    <3> QED BY <3>2, Zenon DEF PQ!Next
  <2>5. ASSUME NEW t \in Threads, NEW a \in Addresses, UnparkOne(t, a)
        PROVE  PQ!Next \/ UNCHANGED <<queues, statuses>>
    <3>1. PQ!UnparkOne(a) \/ UNCHANGED <<queues, statuses>>
      BY <2>1, <2>5, UnparkOneImplements, Zenon DEF UnparkOne
    <3> QED BY <3>1, Zenon DEF PQ!Next
  <2>6. ASSUME NEW t \in Threads, NEW a \in Addresses, UnparkAll(t, a)
        PROVE  PQ!Next \/ UNCHANGED <<queues, statuses>>
    <3>1. PQ!UnparkAll(a) \/ UNCHANGED <<queues, statuses>>
      BY <2>1, <2>6, UnparkAllImplements DEF UnparkAll
    <3> QED BY <3>1, Zenon DEF PQ!Next
  <2>7. ASSUME NEW t \in Threads, DequeueSelf(t) PROVE PQ!Next \/ UNCHANGED <<queues, statuses>>
    <3>1. PQ!TimeOut(t) \/ UNCHANGED <<queues, statuses>> BY <2>1, <2>7, DequeueSelfImplements, Zenon
    <3> QED BY <3>1, Zenon DEF PQ!Next
  <2>8. ASSUME NEW t \in Threads, ParkReturn(t, "idle") PROVE PQ!Next
    <3>1. PQ!Return(t) BY <2>1, <2>8, ReturnImplements, Zenon
    <3> QED BY <3>1, Zenon DEF PQ!Next
  <2>9. ASSUME NEW t \in Threads,
               BeforeSleep(t) \/ Sleep(t) \/ TimedOut(t) \/ WakeUp(t) \/ NotifyOne(t)
        PROVE  UNCHANGED <<queues, statuses>>
    <3>1. UNCHANGED <<bucket, leftBy, parkedAt, address>>
      BY <2>9, Zenon DEF BeforeSleep, Sleep, TimedOut, WakeUp, NotifyOne, lotVars
    <3> QED BY <2>3, <3>1, Zenon
  <2>10. ASSUME NEW t \in Threads, ClearSelf(t) PROVE UNCHANGED <<queues, statuses>>
    <3>1. UNCHANGED <<bucket, leftBy, parkedAt>> /\ \A u \in Threads \ {t} : address'[u] = address[u]
      BY <2>2, <2>10, Zenon DEF ClearSelf, LotTypeOK
    <3>2. leftBy[t] # "nobody" BY <2>2, <2>10, Zenon DEF ParkInv, ClearSelf
    <3>3. ~OnQueue(t) BY <2>1, <3>2, OnQueueMeans, Zenon DEF Queued
    <3> QED BY <2>3, <3>1, <3>3, Zenon
  <2>11. ASSUME NEW t \in Threads, ClearAddress(t) PROVE UNCHANGED <<queues, statuses>>
    <3>1. woken[t] # <<>> /\ woken[t] \in Seq(Threads)
      BY <2>1, <2>2, <2>11, Zenon DEF LotInv, UnparkInv, ClearAddress, LotTypeOK
    <3>2. PICK v \in Threads : v = woken[t][1] BY <3>1
    <3>3. Head(woken[t]) = v /\ 1 \in Uncleared(t) BY <2>11, <3>1, <3>2 DEF Uncleared, ClearAddress
    <3>4. leftBy[v] = "unpark" \/ address[v] = Null
      BY <2>1, <3>2, <3>3, Zenon DEF LotInv, UnclearedInv
    <3>5. ~OnQueue(v) BY <2>1, <3>4, OnQueueMeans, Zenon DEF Queued
    <3>6. UNCHANGED <<bucket, leftBy, parkedAt>> /\ \A u \in Threads \ {v} : address'[u] = address[u]
      BY <2>2, <2>11, <3>3, Zenon DEF ClearAddress, LotTypeOK
    <3> QED BY <2>3, <3>5, <3>6, Zenon
  <2>12. ASSUME UNCHANGED clientVars PROVE UNCHANGED <<queues, statuses>>
    <3>1. UNCHANGED <<bucket, leftBy, parkedAt, address>> BY <2>12, Zenon DEF clientVars, lotVars
    <3> QED BY <2>3, <3>1, Zenon
  <2> QED BY <2>4, <2>5, <2>6, <2>7, <2>8, <2>9, <2>10, <2>11, <2>12, Zenon DEF ClientNext, Progress
<1> QED BY <1>1, <1>2, ClientInvariance, PTL DEF ClientSpec, PQ!SafeSpec
=============================================================================
