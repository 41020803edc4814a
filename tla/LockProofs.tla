----------------------------- MODULE LockProofs -----------------------------
(***************************************************************************)
(* Proofs about Lock and Condition over the ParkingLot, for any number of  *)
(* threads and Locks and any hashing of their addresses: the parked bit    *)
(* and m_hasWaiters never hide a queued thread, no wait returns without a  *)
(* notification, and each Lock is a mutex.  The lemmas about the steps of  *)
(* the parking lot are ParkingLotProofs'.                                  *)
(***************************************************************************)
EXTENDS LockClient, ParkingLotProofs

LockTypeOK ==
    /\ m_byte \in [Locks -> Byte]
    /\ lock \in [Threads -> Locks]
    /\ currentByteValue \in [Threads -> Byte]
    /\ spinCount \in [Threads -> Nat]
    /\ m_hasWaiters \in BOOLEAN

(* Where a thread that is not parked may be. *)
OutsidePC == {"idle", "holding", "slowLoad", "slowCAS", "setParked", "park", "relock",
              "notifyOne", "notifyAll", "unparkAll"}

(* What t is parked at, and where its unpark call goes on, at each place. *)
PlaceInv(t) ==
    /\ pc[t] \in OutsidePC \cup {"beforeSleep", "unlockLoad", "unlockCAS", "unparkOne",
                                 "sleep", "blocked", "unparked", "clear", "notify"}
    /\ parkedAt[t] \in {Null, Cond, lock[t]}
    /\ pc[t] \in OutsidePC => parkedAt[t] = Null
    /\ pc[t] = "beforeSleep" => parkedAt[t] = Cond
    /\ pc[t] \in {"unlockLoad", "unlockCAS", "unparkOne", "clear", "notify"} =>
           parkedAt[t] \in {Null, Cond}
    /\ pc[t] \in {"clear", "notify"} => (ret[t] = "sleep" <=> parkedAt[t] = Cond)
    /\ pc[t] \in {"notifyOne", "notifyAll", "unparkAll"} => ret[t] \in {"idle", "holding"}
    /\ pc[t] \in {"clear", "notify"} => ret[t] \in {"idle", "holding", "sleep"}
    /\ pc[t] \notin {"notifyOne", "notifyAll", "unparkAll", "clear", "notify"} => ret[t] = "idle"

Holding(t) == pc[t] \in HoldingPC \/ ret[t] = "holding"

(* The holder of a Lock is alone, and its Lock's byte says that it is held. *)
HolderInv ==
    /\ \A t \in Threads : Holding(t) => m_byte[lock[t]].isHeld
    /\ \A t, u \in Threads : Holding(t) /\ Holding(u) /\ lock[t] = lock[u] => t = u
    /\ \A t \in Threads : pc[t] = "slowCAS" => ~currentByteValue[t].isHeld

LockInv ==
    /\ LotInv
    /\ LockTypeOK
    /\ \A t \in Threads : PlaceInv(t)
    /\ HolderInv
    /\ ParkedBitIsSet
    /\ HasWaitersIsHonest

-----------------------------------------------------------------------------
\* The initial states satisfy the invariant.
LEMMA LockInitially == Init => LockInv
<1> SUFFICES ASSUME Init PROVE LockInv
  BY Zenon
<1>1. LotInv BY LotInitially, Zenon DEF Init
<1>2. LockTypeOK BY Zenon DEF Init, LockInit, ConditionInit, LockTypeOK, Byte, Zero
<1>3. \A t \in Threads : PlaceInv(t) BY Zenon DEF Init, LotInit, PlaceInv, OutsidePC
<1>4. HolderInv BY Zenon DEF Init, LotInit, HolderInv, Holding, HoldingPC
<1>5. \A t \in Threads, a \in Addresses : ~IsQueuedAt(t, a)
  BY ParkingLotAssumption, Zenon DEF Init, LotInit, IsQueuedAt
<1>6. ParkedBitIsSet BY <1>5, LockAssumption, Zenon DEF Init, ParkedBitIsSet
<1>7. HasWaitersIsHonest BY <1>5, ConditionAssumption, Zenon DEF HasWaitersIsHonest, Waits
<1> QED BY <1>1, <1>2, <1>3, <1>4, <1>6, <1>7, Zenon DEF LockInv

(* Nobody joins a queue. *)
NobodyParks ==
    \A u \in Threads, x \in Addresses : IsQueuedAt(u, x)' => IsQueuedAt(u, x)

(* The step is t's own: all that may happen to another thread is that a    *)
(* notification wakes it up from its sleep.                                *)
OthersKeep(t) == \A u \in Threads \ {t} :
    /\ pc'[u] = pc[u] \/ (pc[u] = "blocked" /\ pc'[u] = "sleep")
    /\ ret'[u] = ret[u] /\ lock'[u] = lock[u] /\ parkedAt'[u] = parkedAt[u]
    /\ currentByteValue'[u] = currentByteValue[u]

\* A step of t that keeps the others where they are keeps what their places
\* say.
LEMMA OthersPlaces ==
    ASSUME LockInv, NEW t \in Threads, OthersKeep(t)
    PROVE  \A u \in Threads \ {t} : PlaceInv(u)'
<1> SUFFICES ASSUME NEW u \in Threads \ {t} PROVE PlaceInv(u)'
  BY Zenon
<1>1. PlaceInv(u) BY Zenon DEF LockInv
<1> QED BY <1>1, Zenon DEF PlaceInv, OthersKeep, OutsidePC

\* Such a step changes nobody else's hold on a lock.
LEMMA OthersHold ==
    ASSUME NEW t \in Threads, OthersKeep(t)
    PROVE  \A u \in Threads \ {t} : Holding(u)' <=> Holding(u)
BY Zenon DEF OthersKeep, Holding, HoldingPC

\* A step that leaves buckets and addresses alone parks nobody.
LEMMA QueuesKept ==
    ASSUME UNCHANGED <<bucket, address>>
    PROVE  NobodyParks
BY Zenon DEF NobodyParks, IsQueuedAt

\* A step that parks nobody and leaves m_hasWaiters alone keeps it honest,
\* unless it is the step of a thread about to unpark everybody.
LEMMA HonestKept ==
    ASSUME HasWaitersIsHonest, NEW t \in Threads, OthersKeep(t), NobodyParks,
           m_hasWaiters' = m_hasWaiters, pc[t] # "unparkAll"
    PROVE  HasWaitersIsHonest'
<1> SUFFICES ASSUME ~m_hasWaiters', NEW u \in Threads, Waits(u)'
             PROVE  \E v \in Threads : pc'[v] = "unparkAll"
  BY Zenon DEF HasWaitersIsHonest
<1>1. Waits(u) BY ConditionAssumption, Zenon DEF Waits, NobodyParks
<1>2. PICK v \in Threads : pc[v] = "unparkAll" BY <1>1, Zenon DEF HasWaitersIsHonest
<1>3. v # t /\ pc'[v] = "unparkAll" BY <1>2, Zenon DEF OthersKeep
<1> QED BY <1>3, Zenon

(* A step that neither takes nor gives a Lock, nor writes a byte. *)
LEMMA QuietStep ==
    ASSUME LockInv, NEW t \in Threads, OthersKeep(t), NobodyParks,
           UNCHANGED <<m_byte, m_hasWaiters>>,
           lock' \in [Threads -> Locks],
           Holding(t)' => Holding(t) /\ lock'[t] = lock[t],
           pc'[t] = "slowCAS" => ~currentByteValue'[t].isHeld,
           pc'[t] = "unparkOne" => m_byte[lock'[t]] = HeldAndParked,
           pc[t] # "unparkAll"
    PROVE  HolderInv' /\ ParkedBitIsSet' /\ HasWaitersIsHonest'
<1>1. HolderInv /\ ParkedBitIsSet /\ HasWaitersIsHonest /\ LockTypeOK BY Zenon DEF LockInv
<1>2. \A u \in Threads : Holding(u)' => Holding(u) /\ lock'[u] = lock[u] BY OthersHold, Zenon DEF OthersKeep
<1>3. HolderInv'
  <2>1. (\A u \in Threads : Holding(u) => m_byte[lock[u]].isHeld)' BY <1>1, <1>2, Zenon DEF HolderInv
  <2>2. (\A u, v \in Threads : Holding(u) /\ Holding(v) /\ lock[u] = lock[v] => u = v)'
    BY <1>1, <1>2, Zenon DEF HolderInv
  <2>3. (\A u \in Threads : pc[u] = "slowCAS" => ~currentByteValue[u].isHeld)'
    BY <1>1, Zenon DEF HolderInv, OthersKeep
  <2> QED BY <2>1, <2>2, <2>3, Zenon DEF HolderInv
<1>4. ParkedBitIsSet'
  <2>1. (\A a \in Locks, u \in Threads : IsQueuedAt(u, a) => m_byte[a].hasParked)'
    BY <1>1, LockAssumption, Zenon DEF ParkedBitIsSet, NobodyParks
  <2>2. (\A u \in Threads : pc[u] = "unparkOne" => m_byte[lock[u]] = HeldAndParked)'
    BY <1>1 DEF ParkedBitIsSet, OthersKeep
  <2> QED BY <2>1, <2>2, Zenon DEF ParkedBitIsSet
<1>5. HasWaitersIsHonest' BY <1>1, HonestKept, Zenon
<1> QED BY <1>3, <1>4, <1>5, Zenon

(* A step that takes lock'[t], which nobody held, and leaves its parked    *)
(* bit as it was.                                                          *)
LEMMA TakingStep ==
    ASSUME LockInv, NEW t \in Threads, NEW a \in Locks, OthersKeep(t),
           UNCHANGED <<bucket, address, m_hasWaiters, ret>>,
           ~m_byte[a].isHeld,
           m_byte' = [m_byte EXCEPT ![a] = [m_byte[a] EXCEPT !.isHeld = TRUE]],
           lock' \in [Threads -> Locks], lock'[t] = a, pc'[t] = "holding", pc[t] # "unparkAll"
    PROVE  HolderInv' /\ ParkedBitIsSet' /\ HasWaitersIsHonest'
<1>1. HolderInv /\ ParkedBitIsSet /\ HasWaitersIsHonest /\ LockTypeOK BY Zenon DEF LockInv
<1>2. \A u \in Threads \ {t} : (Holding(u)' <=> Holding(u)) /\ lock'[u] = lock[u]
  BY OthersHold, Zenon DEF OthersKeep
<1>3. /\ m_byte'[a].isHeld /\ m_byte'[a].hasParked = m_byte[a].hasParked
      /\ \A x \in Locks \ {a} : m_byte'[x] = m_byte[x]
  BY <1>1, Zenon DEF LockTypeOK, Byte
<1>4. \A u \in Threads \ {t} : Holding(u) => lock[u] # a BY <1>1, Zenon DEF HolderInv
<1>5. HolderInv'
  <2>1. (\A u \in Threads : Holding(u) => m_byte[lock[u]].isHeld)'
    BY <1>1, <1>2, <1>3, <1>4, Zenon DEF HolderInv, LockTypeOK
  <2>2. (\A u, v \in Threads : Holding(u) /\ Holding(v) /\ lock[u] = lock[v] => u = v)'
    BY <1>1, <1>2, <1>4, Zenon DEF HolderInv
  <2>3. (\A u \in Threads : pc[u] = "slowCAS" => ~currentByteValue[u].isHeld)'
    BY <1>1, Zenon DEF HolderInv, OthersKeep
  <2> QED BY <2>1, <2>2, <2>3, Zenon DEF HolderInv
<1>6. ParkedBitIsSet'
  <2>1. (\A x \in Locks, u \in Threads : IsQueuedAt(u, x) => m_byte[x].hasParked)'
    BY <1>1, <1>3 DEF ParkedBitIsSet, IsQueuedAt
  <2>2. ASSUME NEW u \in Threads, pc'[u] = "unparkOne" PROVE m_byte'[lock'[u]] = HeldAndParked
    <3>1. u # t /\ pc[u] = "unparkOne" BY <2>2, Zenon DEF OthersKeep
    <3>2. Holding(u) BY <3>1, Zenon DEF Holding, HoldingPC
    <3> QED BY <1>1, <1>2, <1>3, <1>4, <3>1, <3>2 DEF ParkedBitIsSet, LockTypeOK
  <2> QED BY <2>1, <2>2, Zenon DEF ParkedBitIsSet
<1>7. HasWaitersIsHonest' BY <1>1, HonestKept, QueuesKept, Zenon
<1> QED BY <1>5, <1>6, <1>7, Zenon

(* A step that gives up lock[t], and whoever stays queued there finds the  *)
(* parked bit set.                                                         *)
LEMMA ReleasingStep ==
    ASSUME LockInv, NEW t \in Threads, NEW byte \in Byte, OthersKeep(t), NobodyParks,
           UNCHANGED <<lock, m_hasWaiters>>,
           Holding(t), ~Holding(t)',
           m_byte' = [m_byte EXCEPT ![lock[t]] = byte],
           (\E u \in Threads : IsQueuedAt(u, lock[t])') => byte.hasParked,
           pc[t] # "unparkAll", pc'[t] \notin {"slowCAS", "unparkOne"}
    PROVE  HolderInv' /\ ParkedBitIsSet' /\ HasWaitersIsHonest'
<1> DEFINE a == lock[t]
<1>1. HolderInv /\ ParkedBitIsSet /\ HasWaitersIsHonest /\ LockTypeOK BY Zenon DEF LockInv
<1>2. \A u \in Threads \ {t} : (Holding(u)' <=> Holding(u)) BY OthersHold, Zenon
<1>3. a \in Locks /\ m_byte'[a] = byte /\ \A x \in Locks \ {a} : m_byte'[x] = m_byte[x]
  BY <1>1, Zenon DEF LockTypeOK
<1>4. \A u \in Threads \ {t} : Holding(u) => lock[u] # a BY <1>1, Zenon DEF HolderInv
<1> HIDE DEF a
<1>5. HolderInv'
  <2>1. (\A u \in Threads : Holding(u) => m_byte[lock[u]].isHeld)'
    BY <1>1, <1>2, <1>3, <1>4, Zenon DEF HolderInv, LockTypeOK
  <2>2. (\A u, v \in Threads : Holding(u) /\ Holding(v) /\ lock[u] = lock[v] => u = v)'
    BY <1>1, <1>2, Zenon DEF HolderInv
  <2>3. (\A u \in Threads : pc[u] = "slowCAS" => ~currentByteValue[u].isHeld)'
    BY <1>1, Zenon DEF HolderInv, OthersKeep
  <2> QED BY <2>1, <2>2, <2>3, Zenon DEF HolderInv
<1>6. ParkedBitIsSet'
  <2>1. ASSUME NEW x \in Locks, NEW u \in Threads, IsQueuedAt(u, x)' PROVE m_byte'[x].hasParked
    <3>1. CASE x = a BY <1>3, <2>1, <3>1, Zenon DEF a
    <3>2. CASE x # a BY <1>1, <1>3, <2>1, <3>2, LockAssumption, Zenon DEF ParkedBitIsSet, NobodyParks
    <3> QED BY <3>1, <3>2, Zenon
  <2>2. ASSUME NEW u \in Threads, pc'[u] = "unparkOne" PROVE m_byte'[lock'[u]] = HeldAndParked
    <3>1. u # t /\ pc[u] = "unparkOne" BY <2>2, Zenon DEF OthersKeep
    <3>2. Holding(u) BY <3>1, Zenon DEF Holding, HoldingPC
    <3> QED BY <1>1, <1>3, <1>4, <3>1, <3>2, Zenon DEF ParkedBitIsSet, LockTypeOK
  <2> QED BY <2>1, <2>2, Zenon DEF ParkedBitIsSet
<1>7. HasWaitersIsHonest' BY <1>1, HonestKept, Zenon
<1> QED BY <1>5, <1>6, <1>7, Zenon
(* What unparkOne() leaves at its address, and what it tells its callback. *)
LEMMA UnparkOneLeaves ==
    ASSUME LotInv, NEW t \in Threads, NEW a \in Addresses, NEW label, UnparkOneAt(t, a, label)
    PROVE  /\ NobodyParks
           /\ (\E u \in Threads : IsQueuedAt(u, a)') => MayHaveMoreThreads(a)
<1> DEFINE b == bucketOf[a]
           s == bucket[b]
<1>1. b \in Buckets /\ s \in Seq(Threads) BY FirstAtMeans, Zenon
<1>2. UNCHANGED address BY Zenon DEF UnparkOneAt
<1>3. CASE FirstAt(a) = {}
  <2>1. UNCHANGED <<bucket, address>> BY <1>2, <1>3, Zenon DEF UnparkOneAt
  <2>2. ASSUME NEW u \in Threads, IsQueuedAt(u, a)' PROVE FALSE
    <3> DEFINE W == {v \in Threads : address[v] = a}
    <3>1. FirstAmong(s, W) = {} BY <1>3, Zenon DEF FirstAt
    <3>2. u \in W /\ \E i \in 1..Len(s) : s[i] = u BY <1>1, <2>1, <2>2 DEF IsQueuedAt
    <3> HIDE DEF W, s
    <3> QED BY <1>1, <3>1, <3>2, FirstAmongExists
  <2> QED BY <2>1, <2>2, QueuesKept, Zenon
<1>4. CASE FirstAt(a) # {}
  <2>1. PICK i \in FirstAt(a) : bucket' = [bucket EXCEPT ![b] = Removed(s, i)]
    BY <1>4, Zenon DEF UnparkOneAt
  <2>2. i \in 1..Len(s) BY FirstAtMeans, Zenon
  <2>3. bucket'[b] = Removed(s, i) /\ \A c \in Buckets \ {b} : bucket'[c] = bucket[c]
    BY <1>1, <2>1, Zenon DEF LotInv, LotTypeOK
  <2>4. DOMAIN s = 1..Len(s) BY <1>1
  <2>5. MayHaveMoreThreads(a) <=> Len(s) > 1 BY <1>4, Zenon DEF MayHaveMoreThreads
  <2> HIDE DEF s
  <2>6. /\ Removed(s, i) \in Seq(Threads) /\ Len(Removed(s, i)) = Len(s) - 1
        /\ \A j \in DOMAIN Removed(s, i) : \E k \in DOMAIN s : Removed(s, i)[j] = s[k]
    BY <1>1, <2>2, RemovedElements, RemovedKeeps, Zenon
  <2>7. ASSUME NEW u \in Threads, NEW x \in Addresses, IsQueuedAt(u, x)'
        PROVE  IsQueuedAt(u, x) /\ (x = a => Len(s) > 1)
    <3>1. bucketOf[x] \in Buckets BY ParkingLotAssumption, Zenon
    <3>2. CASE bucketOf[x] # b BY <1>2, <2>3, <2>7, <3>1, <3>2, Zenon DEF IsQueuedAt
    <3>3. CASE bucketOf[x] = b
      <4>1. PICK j \in DOMAIN Removed(s, i) : Removed(s, i)[j] = u
        BY <2>3, <2>7, <3>3, Zenon DEF IsQueuedAt
      <4>2. \E k \in DOMAIN s : s[k] = u BY <2>6, <4>1, Zenon
      <4>3. Len(s) > 1 BY <1>1, <2>2, <2>6, <4>1
      <4>4. address[u] = x BY <1>2, <2>7, Zenon DEF IsQueuedAt
      <4> QED BY <3>3, <4>2, <4>3, <4>4, Zenon DEF IsQueuedAt, s
    <3> QED BY <3>2, <3>3, Zenon
  <2> QED BY <2>5, <2>7, Zenon DEF NobodyParks
<1> QED BY <1>3, <1>4, Zenon

(* unparkAll() leaves nobody at its address. *)
LEMMA UnparkAllLeaves ==
    ASSUME LotInv, NEW t \in Threads, NEW a \in Addresses, NEW label, UnparkAllAt(t, a, label)
    PROVE  /\ NobodyParks
           /\ \A u \in Threads : ~IsQueuedAt(u, a)'
<1> DEFINE b == bucketOf[a]
           s == bucket[b]
           others == Threads \ {u \in Threads : address[u] = a}
<1>1. b \in Buckets /\ s \in Seq(Threads) BY FirstAtMeans
<1>2. UNCHANGED address /\ bucket' = [bucket EXCEPT ![b] = AllAmong(s, others)]
  BY Zenon DEF UnparkAllAt
<1>3. bucket'[b] = AllAmong(s, others) /\ \A c \in Buckets \ {b} : bucket'[c] = bucket[c]
  BY <1>1, <1>2, Zenon DEF LotInv, LotTypeOK
<1>4. \A u \in others : address[u] # a BY Zenon
<1> HIDE DEF s, others
<1>5. \A u : (\E k \in DOMAIN AllAmong(s, others) : AllAmong(s, others)[k] = u)
             => u \in others /\ \E k \in DOMAIN s : s[k] = u
  <2>1. \A u : (\E k \in DOMAIN AllAmong(s, others) : AllAmong(s, others)[k] = u)
               <=> u \in others /\ \E k \in DOMAIN s : s[k] = u
    BY <1>1, AllAmongElements
  <2> QED BY <2>1, Zenon
<1>6. ASSUME NEW u \in Threads, NEW x \in Addresses, IsQueuedAt(u, x)'
      PROVE  IsQueuedAt(u, x) /\ x # a
  <2>1. bucketOf[x] \in Buckets BY ParkingLotAssumption, Zenon
  <2>2. CASE bucketOf[x] # b BY <1>2, <1>3, <1>6, <2>1, <2>2, Zenon DEF IsQueuedAt
  <2>3. CASE bucketOf[x] = b
    <3>1. \E k \in DOMAIN AllAmong(s, others) : AllAmong(s, others)[k] = u
      BY <1>3, <1>6, <2>3, Zenon DEF IsQueuedAt
    <3>2. u \in others /\ \E k \in DOMAIN s : s[k] = u BY <1>5, <3>1, Zenon
    <3>3. address[u] = x BY <1>2, <1>6, Zenon DEF IsQueuedAt
    <3> QED BY <1>4, <2>3, <3>2, <3>3, Zenon DEF IsQueuedAt, s
  <2> QED BY <2>2, <2>3, Zenon
<1> QED BY <1>6, Zenon DEF NobodyParks

(* Whom an enqueue puts where. *)
LEMMA EnqueueAdds ==
    ASSUME LotInv, NEW t \in Threads, NEW a \in Addresses, EnqueueAt(t, a), parkedAt[t] = Null
    PROVE  \A u \in Threads, x \in Addresses :
               IsQueuedAt(u, x)' => IsQueuedAt(u, x) \/ (u = t /\ x = a)
<1> SUFFICES ASSUME NEW u \in Threads, NEW x \in Addresses, IsQueuedAt(u, x)'
             PROVE  IsQueuedAt(u, x) \/ (u = t /\ x = a)
  BY Zenon
<1> DEFINE b == bucketOf[a]
           s == bucket[b]
<1>1. b \in Buckets /\ s \in Seq(Threads) /\ bucketOf[x] \in Buckets
  BY FirstAtMeans, ParkingLotAssumption, Zenon
<1>2. /\ bucket'[b] = Append(s, t) /\ \A c \in Buckets \ {b} : bucket'[c] = bucket[c]
      /\ address'[t] = a /\ \A v \in Threads \ {t} : address'[v] = address[v]
  BY <1>1, Zenon DEF EnqueueAt, LotInv, LotTypeOK
<1>3. CASE u = t BY <1>2, <1>3, Zenon DEF IsQueuedAt
<1>4. CASE u # t
  <2>1. CASE bucketOf[x] # b BY <1>1, <1>2, <1>4, <2>1, Zenon DEF IsQueuedAt
  <2>2. CASE bucketOf[x] = b
    <3>1. PICK k \in DOMAIN Append(s, t) : Append(s, t)[k] = u BY <1>2, <2>2, Zenon DEF IsQueuedAt
    <3> HIDE DEF s
    <3>2. k \in DOMAIN s /\ s[k] = u BY <1>1, <1>4, <3>1
    <3> QED BY <1>2, <1>4, <2>2, <3>2, Zenon DEF IsQueuedAt, s
  <2> QED BY <2>1, <2>2, Zenon
<1> QED BY <1>3, <1>4, Zenon
-----------------------------------------------------------------------------
(* The two bits are all there is to a byte. *)
LEMMA ByteBits ==
    ASSUME NEW p \in Byte
    PROVE  /\ [p EXCEPT !.isHeld = TRUE] \in Byte
           /\ [p EXCEPT !.hasParked = TRUE] \in Byte
           /\ p = Zero => ~p.isHeld /\ [p EXCEPT !.isHeld = TRUE] = Held
           /\ p = HeldAndParked => [p EXCEPT !.hasParked = TRUE] = HeldAndParked
<1> DEFINE h == [p EXCEPT !.isHeld = TRUE]
           k == [p EXCEPT !.hasParked = TRUE]
<1>1. \A x, y \in Byte : x.isHeld = y.isHeld /\ x.hasParked = y.hasParked => x = y BY DEF Byte
<1>2. h \in Byte /\ h.isHeld = TRUE /\ h.hasParked = p.hasParked BY Zenon DEF Byte
<1>3. k \in Byte /\ k.hasParked = TRUE /\ k.isHeld = p.isHeld BY Zenon DEF Byte
<1>4. Held \in Byte /\ Held.isHeld = TRUE /\ Held.hasParked = FALSE BY Zenon DEF Byte, Held
<1>5. HeldAndParked \in Byte /\ HeldAndParked.isHeld = TRUE /\ HeldAndParked.hasParked = TRUE
  BY Zenon DEF Byte, HeldAndParked
<1>6. Zero.isHeld = FALSE /\ Zero.hasParked = FALSE BY Zenon DEF Zero
<1> HIDE DEF h, k
<1>7. p = Zero => ~p.isHeld /\ h = Held BY <1>1, <1>2, <1>4, <1>6, Zenon
<1>8. p = HeldAndParked => k = HeldAndParked BY <1>1, <1>3, <1>5, Zenon
<1> QED BY <1>2, <1>3, <1>7, <1>8, Zenon DEF h, k

\* The parts of the invariant make up the whole.
LEMMA Assemble ==
    ASSUME LockInv, NEW t \in Threads, OthersKeep(t), LotInv', LockTypeOK', PlaceInv(t)',
           HolderInv' /\ ParkedBitIsSet' /\ HasWaitersIsHonest'
    PROVE  LockInv'
<1>1. \A u \in Threads \ {t} : PlaceInv(u)' BY OthersPlaces, Zenon
<1> QED BY <1>1, Zenon DEF LockInv

(* A thread moves on without touching the parking lot or a byte. *)
LEMMA MoveKeeps ==
    ASSUME LockInv, NEW t \in Threads, NEW label, UNCHANGED lotVars, Goto(t, label),
           UNCHANGED <<m_byte, m_hasWaiters>>,
           lock' \in [Threads -> Locks], currentByteValue' \in [Threads -> Byte],
           spinCount' \in [Threads -> Nat],
           \A u \in Threads \ {t} : lock'[u] = lock[u] /\ currentByteValue'[u] = currentByteValue[u],
           pc[t] \notin {"clearSelf", "unparked", "clear", "notify", "unparkAll"},
           label \notin {"clearSelf", "unparked", "clear", "notify", "dequeueSelf"},
           label \in {"sleep", "blocked"} => parkedAt[t] # Null,
           PlaceInv(t)',
           label \in HoldingPC => pc[t] \in HoldingPC,
           Holding(t) => lock'[t] = lock[t],
           label = "slowCAS" => ~currentByteValue'[t].isHeld,
           label = "unparkOne" => m_byte[lock'[t]] = HeldAndParked
    PROVE  LockInv'
<1>1. LotInv /\ LotTypeOK /\ LockTypeOK BY Zenon DEF LockInv, LotInv
<1>2. LotInv' BY <1>1, LotFrame, Zenon
<1>3. /\ pc'[t] = label /\ \A u \in Threads \ {t} : pc'[u] = pc[u]
      /\ UNCHANGED <<bucket, address, parkedAt, ret>>
  BY <1>1, Zenon DEF Goto, lotVars, LotTypeOK
<1>4. OthersKeep(t) BY <1>3, Zenon DEF OthersKeep
<1>5. LockTypeOK' BY <1>1, Zenon DEF LockTypeOK
<1>6. Holding(t)' => Holding(t) /\ lock'[t] = lock[t] BY <1>3, Zenon DEF Holding
<1>7. HolderInv' /\ ParkedBitIsSet' /\ HasWaitersIsHonest' BY <1>3, <1>4, <1>6, QuietStep, QueuesKept, Zenon
<1> QED BY <1>2, <1>4, <1>5, <1>7, Assemble, Zenon

\* lock(): the fast compare-and-swap fails.
LEMMA LockFastFailKeeps ==
    ASSUME LockInv, NEW t \in Threads, NEW a \in Locks, NEW from \in {"idle", "relock"},
           LockFastFail(t, a, from), UNCHANGED m_hasWaiters
    PROVE  LockInv'
<1> USE DEF LockFastFail
<1>1. LotTypeOK /\ LockTypeOK /\ PlaceInv(t) BY Zenon DEF LockInv, LotInv
<1>2. ~Holding(t) BY <1>1, Zenon DEF PlaceInv, Holding, HoldingPC
<1>3. lock' \in [Threads -> Locks] /\ \A u \in Threads \ {t} : lock'[u] = lock[u] BY <1>1, Zenon DEF LockTypeOK
<1>4. PlaceInv(t)' BY <1>1, Zenon DEF PlaceInv, OutsidePC, Goto, LotTypeOK, lotVars
<1> QED BY <1>1, <1>2, <1>3, <1>4, MoveKeeps, Zenon DEF LockTypeOK, HoldingPC

\* lockSlow(): the byte is read.
LEMMA SlowLoadKeeps ==
    ASSUME LockInv, NEW t \in Threads, SlowLoad(t), UNCHANGED m_hasWaiters
    PROVE  LockInv'
<1>1. LotTypeOK /\ LockTypeOK /\ PlaceInv(t) BY Zenon DEF LockInv, LotInv
<1>2. pc[t] = "slowLoad" /\ UNCHANGED <<lotVars, m_byte, lock>> BY Zenon DEF SlowLoad
<1>3. PICK label \in {"slowLoad", "park", "setParked", "slowCAS"} :
          /\ Goto(t, label)
          /\ label = "slowCAS" => ~m_byte[lock[t]].isHeld
          /\ spinCount' \in [Threads -> Nat]
  BY <1>1 DEF SlowLoad, SpinOrPark, LockTypeOK
<1>4. currentByteValue' = [currentByteValue EXCEPT ![t] = m_byte[lock[t]]] BY Zenon DEF SlowLoad
<1>5. /\ currentByteValue' \in [Threads -> Byte] /\ currentByteValue'[t] = m_byte[lock[t]]
      /\ \A u \in Threads \ {t} : currentByteValue'[u] = currentByteValue[u]
  BY <1>1, <1>4, Zenon DEF LockTypeOK
<1>6. PlaceInv(t)' BY <1>1, <1>2, <1>3, Zenon DEF PlaceInv, OutsidePC, Goto, LotTypeOK, lotVars
<1> QED BY <1>1, <1>2, <1>3, <1>5, <1>6, MoveKeeps, Zenon DEF LockTypeOK, HoldingPC

\* lockSlow(): the compare-and-swap that barges in fails.
LEMMA BargeInFailKeeps ==
    ASSUME LockInv, NEW t \in Threads, BargeInFail(t), UNCHANGED m_hasWaiters
    PROVE  LockInv'
<1>1. LotTypeOK /\ LockTypeOK /\ PlaceInv(t) BY DEF LockInv, LotInv
<1>2. pc[t] = "slowCAS" /\ UNCHANGED <<lotVars, m_byte, lock, currentByteValue>> BY Zenon DEF BargeInFail
<1>3. PICK label \in {"slowLoad", "park", "setParked"} :
          Goto(t, label) /\ spinCount' \in [Threads -> Nat]
  BY <1>1 DEF BargeInFail, SpinOrPark, LockTypeOK
<1>4. PlaceInv(t)' BY <1>1, <1>2, <1>3, Zenon DEF PlaceInv, OutsidePC, Goto, LotTypeOK, lotVars
<1> QED BY <1>1, <1>2, <1>3, <1>4, MoveKeeps, Zenon DEF LockTypeOK, HoldingPC

\* lockSlow(): the parked bit could not be set, or the validation refused the
\* park.
LEMMA RetryKeeps ==
    ASSUME LockInv, NEW t \in Threads, UNCHANGED m_hasWaiters,
           \/ SetParkedFail(t)
           \/ CompareAndPark(t) /\ ~Validate(m_byte[lock[t]])
    PROVE  LockInv'
<1>1. LotTypeOK /\ LockTypeOK /\ PlaceInv(t) BY Zenon DEF LockInv, LotInv
<1>2. /\ pc[t] \in {"setParked", "park"} /\ Goto(t, "slowLoad")
      /\ UNCHANGED <<lotVars, m_byte, lock, spinCount>>
      /\ UNCHANGED currentByteValue \/ ForgetByte(t)
  BY Zenon DEF SetParkedFail, CompareAndPark, byteVars
<1>3. /\ currentByteValue' \in [Threads -> Byte]
      /\ \A u \in Threads \ {t} : currentByteValue'[u] = currentByteValue[u]
  <2>1. Zero \in Byte BY Zenon DEF Byte, Zero
  <2> QED BY <1>1, <1>2, <2>1, Zenon DEF LockTypeOK, ForgetByte
<1>4. PlaceInv(t)' BY <1>1, <1>2, Zenon DEF PlaceInv, OutsidePC, Goto, LotTypeOK, lotVars
<1> QED BY <1>1, <1>2, <1>3, <1>4, MoveKeeps, Zenon DEF LockTypeOK, HoldingPC

\* unlock(): a compare-and-swap fails, or unlockSlow() reads the byte.
LEMMA UnlockMoveKeeps ==
    ASSUME LockInv, NEW t \in Threads, UNCHANGED m_hasWaiters,
           \/ \E from \in {"holding", "beforeSleep"} : UnlockFastFail(t, from)
           \/ UnlockLoad(t) \/ UnlockCASFail(t)
    PROVE  LockInv'
<1>1. LotTypeOK /\ LockTypeOK /\ PlaceInv(t) /\ HolderInv BY Zenon DEF LockInv, LotInv
<1>2. UNCHANGED <<lotVars, byteVars>> BY Zenon DEF UnlockFastFail, UnlockLoad, UnlockCASFail
<1>3. pc[t] \in {"holding", "beforeSleep", "unlockLoad", "unlockCAS"}
  BY Zenon DEF UnlockFastFail, UnlockLoad, UnlockCASFail
<1>4. m_byte[lock[t]] \in Byte /\ m_byte[lock[t]].isHeld
  BY <1>1, <1>3, Zenon DEF LockTypeOK, HolderInv, Holding, HoldingPC
<1>5. m_byte[lock[t]] # Held => m_byte[lock[t]] = HeldAndParked
  BY <1>4, Zenon DEF Byte, Held, HeldAndParked
<1>6. PICK label \in {"unlockLoad", "unlockCAS", "unparkOne"} :
          /\ Goto(t, label)
          /\ label = "unparkOne" => m_byte[lock[t]] = HeldAndParked
  BY <1>5, Zenon DEF UnlockFastFail, UnlockLoad, UnlockCASFail
<1>7. PlaceInv(t)' BY <1>1, <1>2, <1>3, <1>6, Zenon DEF PlaceInv, OutsidePC, Goto, LotTypeOK, lotVars, byteVars
<1> QED BY <1>1, <1>2, <1>3, <1>6, <1>7, MoveKeeps, Zenon DEF LockTypeOK, HoldingPC, byteVars
-----------------------------------------------------------------------------
(* The steps of the parking lot that a thread takes inside its call. *)

\* A parked thread goes to sleep or wakes up.
LEMMA SleepStepKeeps ==
    ASSUME LockInv, NEW t \in Threads, Sleep(t) \/ WakeUp(t), UNCHANGED <<byteVars, m_hasWaiters>>
    PROVE  LockInv'
<1>1. LotInv /\ LotTypeOK /\ LockTypeOK /\ PlaceInv(t) BY Zenon DEF LockInv, LotInv
<1>2. LotInv' BY <1>1, SleepKeeps, WakeUpKeeps, Zenon
<1>3. UNCHANGED <<bucket, address, parkedAt, ret, m_byte, lock, currentByteValue, spinCount>>
  BY Zenon DEF Sleep, WakeUp, lotVars, byteVars
<1>4. /\ pc[t] \in {"sleep", "blocked"} /\ pc'[t] \in {"sleep", "blocked", "unparked"}
      /\ \A u \in Threads \ {t} : pc'[u] = pc[u]
  BY <1>1, Zenon DEF Sleep, WakeUp, Goto, LotTypeOK
<1>5. OthersKeep(t) BY <1>3, <1>4, Zenon DEF OthersKeep
<1>6. LockTypeOK' BY <1>1, <1>3, Zenon DEF LockTypeOK
<1>7. PlaceInv(t)' BY <1>1, <1>3, <1>4, Zenon DEF PlaceInv, OutsidePC
<1>8. ~Holding(t)' BY <1>1, <1>3, <1>4, Zenon DEF PlaceInv, Holding, HoldingPC
<1>9. HolderInv' /\ ParkedBitIsSet' /\ HasWaitersIsHonest'
  BY <1>1, <1>3, <1>4, <1>5, <1>8, QuietStep, QueuesKept, Zenon DEF LockTypeOK
<1> QED BY <1>2, <1>5, <1>6, <1>7, <1>9, Assemble, Zenon

\* A thread returns from its park.
LEMMA ReturnKeeps ==
    ASSUME LockInv, NEW t \in Threads, Return(t), UNCHANGED <<byteVars, m_hasWaiters>>
    PROVE  LockInv'
<1> DEFINE label == IF parkedAt[t] = Cond THEN "relock" ELSE "slowLoad"
<1>1. LotInv /\ LotTypeOK /\ LockTypeOK /\ PlaceInv(t) BY Zenon DEF LockInv, LotInv
<1>2. ParkReturn(t, label) /\ label \in {"relock", "slowLoad"} BY Zenon DEF Return
<1> HIDE DEF label
<1>3. label \notin LotPC BY <1>2, Zenon DEF LotPC
<1>4. LotInv' BY <1>1, <1>2, <1>3, ParkReturnKeeps, Zenon
<1>5. UNCHANGED <<bucket, address, ret, m_byte, lock, currentByteValue, spinCount>>
  BY <1>2, Zenon DEF ParkReturn, byteVars
<1>6. /\ pc[t] = "unparked" /\ pc'[t] = label /\ parkedAt'[t] = Null
      /\ \A u \in Threads \ {t} : pc'[u] = pc[u] /\ parkedAt'[u] = parkedAt[u]
  BY <1>1, <1>2, Zenon DEF ParkReturn, Goto, LotTypeOK
<1>7. OthersKeep(t) BY <1>5, <1>6, Zenon DEF OthersKeep
<1>8. LockTypeOK' BY <1>1, <1>5, Zenon DEF LockTypeOK
<1>9. PlaceInv(t)' BY <1>1, <1>2, <1>5, <1>6, Zenon DEF PlaceInv, OutsidePC
<1>10. ~Holding(t)' BY <1>1, <1>2, <1>5, <1>6, Zenon DEF PlaceInv, Holding, HoldingPC
<1>11. HolderInv' /\ ParkedBitIsSet' /\ HasWaitersIsHonest'
  BY <1>1, <1>2, <1>5, <1>6, <1>7, <1>10, QuietStep, QueuesKept, Zenon DEF LockTypeOK
<1> QED BY <1>4, <1>7, <1>8, <1>9, <1>11, Assemble, Zenon

\* An unparking thread clears an address.
LEMMA ClearAddressStepKeeps ==
    ASSUME LockInv, NEW t \in Threads, ClearAddress(t), UNCHANGED <<byteVars, m_hasWaiters>>
    PROVE  LockInv'
<1>1. LotInv /\ LotTypeOK /\ LockTypeOK /\ PlaceInv(t) BY Zenon DEF LockInv, LotInv
<1>2. LotInv' BY <1>1, ClearAddressKeeps, Zenon
<1>3. UNCHANGED <<bucket, parkedAt, ret, m_byte, lock, currentByteValue, spinCount>>
  BY Zenon DEF ClearAddress, byteVars
<1>4. /\ pc[t] = "clear" /\ pc'[t] = "notify" /\ \A u \in Threads \ {t} : pc'[u] = pc[u]
      /\ \A u \in Threads : address'[u] \in {address[u], Null}
  BY <1>1, Zenon DEF ClearAddress, Goto, LotTypeOK
<1>5. OthersKeep(t) BY <1>3, <1>4, Zenon DEF OthersKeep
<1>6. LockTypeOK' BY <1>1, <1>3, Zenon DEF LockTypeOK
<1>7. PlaceInv(t)' BY <1>1, <1>3, <1>4, Zenon DEF PlaceInv, OutsidePC
<1>8. Holding(t)' => Holding(t) BY <1>3, <1>4, Zenon DEF Holding, HoldingPC
<1>9. NobodyParks
  <2> SUFFICES ASSUME NEW u \in Threads, NEW x \in Addresses, IsQueuedAt(u, x)' PROVE IsQueuedAt(u, x)
    BY Zenon DEF NobodyParks
  <2>1. address[u] = x BY <1>4, ParkingLotAssumption, Zenon DEF IsQueuedAt
  <2> QED BY <1>3, <2>1, Zenon DEF IsQueuedAt
<1>10. HolderInv' /\ ParkedBitIsSet' /\ HasWaitersIsHonest'
  BY <1>1, <1>3, <1>4, <1>5, <1>8, <1>9, QuietStep, Zenon DEF LockTypeOK
<1> QED BY <1>2, <1>5, <1>6, <1>7, <1>10, Assemble, Zenon

\* An unparking thread notifies the one whose address it cleared.
LEMMA NotifyOneStepKeeps ==
    ASSUME LockInv, NEW t \in Threads, NotifyOne(t), UNCHANGED <<byteVars, m_hasWaiters>>
    PROVE  LockInv'
<1>1. LotInv /\ LotTypeOK /\ LockTypeOK /\ PlaceInv(t) BY DEF LockInv, LotInv
<1>2. LotInv' BY <1>1, NotifyOneKeeps
<1>3. UNCHANGED <<bucket, address, parkedAt, m_byte, lock, currentByteValue, spinCount>>
  BY Zenon DEF NotifyOne, byteVars
<1>4. /\ pc[t] = "notify"
      /\ \/ pc'[t] = ret[t] /\ ret'[t] = "idle"
         \/ pc'[t] = "clear" /\ ret'[t] = ret[t]
      /\ \A u \in Threads \ {t} : /\ pc'[u] = pc[u] \/ (pc[u] = "blocked" /\ pc'[u] = "sleep")
                                  /\ ret'[u] = ret[u]
  BY <1>1, Zenon DEF NotifyOne, LotTypeOK
<1>5. OthersKeep(t) BY <1>3, <1>4, Zenon DEF OthersKeep
<1>6. LockTypeOK' BY <1>1, <1>3 DEF LockTypeOK
<1>7. PlaceInv(t)' BY <1>1, <1>3, <1>4, ParkingLotAssumption, ConditionAssumption, Zenon DEF PlaceInv, OutsidePC
<1>8. Holding(t)' => Holding(t) BY <1>1, <1>3, <1>4, Zenon DEF Holding, HoldingPC, PlaceInv
<1>9. pc'[t] \notin {"slowCAS", "unparkOne"} BY <1>1, <1>4, Zenon DEF PlaceInv
<1>10. HolderInv' /\ ParkedBitIsSet' /\ HasWaitersIsHonest'
  BY <1>1, <1>3, <1>4, <1>5, <1>8, <1>9, QuietStep, QueuesKept, Zenon DEF LockTypeOK
<1> QED BY <1>2, <1>5, <1>6, <1>7, <1>10, Assemble

\* notifyOne() and notifyAll() find m_hasWaiters set.
LEMMA BeginNotifyKeeps ==
    ASSUME LockInv, NEW t \in Threads, NEW label \in {"notifyOne", "notifyAll"}, BeginNotify(t, label)
    PROVE  LockInv'
<1>1. LotInv /\ LotTypeOK /\ LockTypeOK /\ PlaceInv(t) BY Zenon DEF LockInv, LotInv
<1>2. UNCHANGED <<bucket, address, parkedAt, result, leftBy, woken, m_byte, lock, currentByteValue, spinCount,
                  m_hasWaiters>>
  BY Zenon DEF BeginNotify, byteVars
<1>3. /\ pc[t] \in {"idle", "holding"} /\ Goto(t, label) /\ ret'[t] = pc[t]
      /\ DOMAIN ret' = Threads /\ \A u \in Threads \ {t} : ret'[u] = ret[u]
  BY <1>1, Zenon DEF BeginNotify, LotTypeOK
<1>4. LotInv' BY <1>1, <1>2, <1>3, LotMove, Zenon
<1>5. pc'[t] = label /\ \A u \in Threads \ {t} : pc'[u] = pc[u] BY <1>1, <1>3, Zenon DEF Goto, LotTypeOK
<1>6. OthersKeep(t) BY <1>2, <1>3, <1>5, Zenon DEF OthersKeep
<1>7. LockTypeOK' BY <1>1, <1>2, Zenon DEF LockTypeOK
<1>8. PlaceInv(t)' BY <1>1, <1>2, <1>3, <1>5, Zenon DEF PlaceInv, OutsidePC
<1>9. Holding(t)' => Holding(t) BY <1>1, <1>3, <1>5, Zenon DEF Holding, HoldingPC, PlaceInv
<1>10. HolderInv' /\ ParkedBitIsSet' /\ HasWaitersIsHonest'
  BY <1>1, <1>2, <1>3, <1>5, <1>6, <1>9, QuietStep, QueuesKept, Zenon DEF LockTypeOK
<1> QED BY <1>4, <1>6, <1>7, <1>8, <1>10, Assemble, Zenon

-----------------------------------------------------------------------------
(* The steps that take or give up a Lock. *)

\* Any compare-and-swap that sets the held bit of a free lock.
LEMMA TakeKeeps ==
    ASSUME LockInv, NEW t \in Threads, NEW a \in Locks, UNCHANGED m_hasWaiters,
           pc[t] \in {"idle", "relock", "slowCAS"}, Goto(t, "holding"), UNCHANGED lotVars,
           ~m_byte[a].isHeld,
           m_byte' = [m_byte EXCEPT ![a] = [m_byte[a] EXCEPT !.isHeld = TRUE]],
           lock' = [lock EXCEPT ![t] = a],
           UNCHANGED currentByteValue \/ ForgetByte(t), spinCount' \in [Threads -> Nat]
    PROVE  LockInv'
<1>1. LotInv /\ LotTypeOK /\ LockTypeOK /\ PlaceInv(t) BY Zenon DEF LockInv, LotInv
<1>2. LotInv' BY <1>1, LotFrame, Zenon
<1>3. /\ pc'[t] = "holding" /\ \A u \in Threads \ {t} : pc'[u] = pc[u]
      /\ UNCHANGED <<bucket, address, parkedAt, ret>>
  BY <1>1, Zenon DEF Goto, lotVars, LotTypeOK
<1>4. lock' \in [Threads -> Locks] /\ lock'[t] = a /\ \A u \in Threads \ {t} : lock'[u] = lock[u]
  BY <1>1, Zenon DEF LockTypeOK
<1>5. /\ currentByteValue' \in [Threads -> Byte]
      /\ \A u \in Threads \ {t} : currentByteValue'[u] = currentByteValue[u]
  <2>1. Zero \in Byte BY Zenon DEF Byte, Zero
  <2> QED BY <1>1, <2>1, Zenon DEF LockTypeOK, ForgetByte
<1>6. OthersKeep(t) BY <1>3, <1>4, <1>5, Zenon DEF OthersKeep
<1>7. LockTypeOK'
  <2>1. [m_byte[a] EXCEPT !.isHeld = TRUE] \in Byte BY <1>1, Zenon DEF LockTypeOK, Byte
  <2> QED BY <1>1, <1>4, <1>5, <2>1, Zenon DEF LockTypeOK
<1>8. PlaceInv(t)' BY <1>1, <1>3, Zenon DEF PlaceInv, OutsidePC
<1>9. HolderInv' /\ ParkedBitIsSet' /\ HasWaitersIsHonest' BY <1>3, <1>4, <1>6, TakingStep, Zenon
<1> QED BY <1>2, <1>6, <1>7, <1>8, <1>9, Assemble, Zenon

\* The three places that take a lock.
LEMMA TakingKeeps ==
    ASSUME LockInv, NEW t \in Threads, UNCHANGED m_hasWaiters,
           \/ \E a \in Locks : \/ \E from \in {"idle", "relock"} : LockFast(t, a, from)
                               \/ TryLock(t, a)
           \/ BargeIn(t)
    PROVE  LockInv'
<1>1. LockTypeOK /\ HolderInv BY Zenon DEF LockInv
<1>2. ASSUME NEW a \in Locks, NEW from \in {"idle", "relock"}, LockFast(t, a, from) PROVE LockInv'
  <2>1. ~m_byte[a].isHeld /\ [m_byte[a] EXCEPT !.isHeld = TRUE] = Held
    <3>1. m_byte[a] = Zero /\ m_byte[a] \in Byte BY <1>1, <1>2, Zenon DEF LockFast, LockTypeOK
    <3> QED BY <3>1, ByteBits, Zenon
  <2> QED BY <1>1, <1>2, <2>1, TakeKeeps, Zenon DEF LockFast, Store, LockTypeOK
<1>3. ASSUME NEW a \in Locks, TryLock(t, a) PROVE LockInv'
  BY <1>1, <1>3, TakeKeeps, Zenon DEF TryLock, Store, LockTypeOK
<1>4. ASSUME BargeIn(t) PROVE LockInv'
  <2>1. PICK a \in Locks : a = lock[t] BY <1>1, Zenon DEF LockTypeOK
  <2>2. lock' = [lock EXCEPT ![t] = a] BY <1>1, <1>4, <2>1, Zenon DEF LockTypeOK, BargeIn
  <2>3. pc[t] = "slowCAS" /\ ~m_byte[a].isHeld BY <1>1, <1>4, <2>1, Zenon DEF BargeIn, HolderInv
  <2>4. m_byte' = [m_byte EXCEPT ![a] = [m_byte[a] EXCEPT !.isHeld = TRUE]]
    BY <1>4, <2>1, Zenon DEF BargeIn, Store
  <2>5. spinCount' \in [Threads -> Nat] BY <1>1, <1>4, Zenon DEF BargeIn, LockTypeOK
  <2> QED BY <1>4, <2>2, <2>3, <2>4, <2>5, TakeKeeps, Zenon DEF BargeIn
<1> QED BY <1>2, <1>3, <1>4, Zenon
\* The compare-and-swaps that release a lock without unparking.
LEMMA UnlockKeeps ==
    ASSUME LockInv, NEW t \in Threads, UNCHANGED m_hasWaiters,
           (\E from \in {"holding", "beforeSleep"} : UnlockFast(t, from)) \/ UnlockCAS(t)
    PROVE  LockInv'
<1> DEFINE label == AfterUnlock(t)
<1>1. LotInv /\ LotTypeOK /\ LockTypeOK /\ PlaceInv(t) /\ ParkedBitIsSet BY Zenon DEF LockInv, LotInv
<1>2. /\ pc[t] \in {"holding", "beforeSleep", "unlockCAS"} /\ Goto(t, label)
      /\ m_byte[lock[t]] = Held /\ m_byte' = [m_byte EXCEPT ![lock[t]] = Zero]
      /\ UNCHANGED <<lotVars, lock, currentByteValue, spinCount>>
  BY Zenon DEF UnlockFast, UnlockCAS, Store
<1>3. label \in {"idle", "sleep"} /\ (label = "sleep" <=> parkedAt[t] # Null) BY Zenon DEF AfterUnlock
<1> HIDE DEF label
<1>4. LotInv' BY <1>1, <1>2, <1>3, LotFrame, Zenon
<1>5. /\ pc'[t] = label /\ \A u \in Threads \ {t} : pc'[u] = pc[u]
      /\ UNCHANGED <<bucket, address, parkedAt, ret>>
  BY <1>1, <1>2, Zenon DEF Goto, lotVars, LotTypeOK
<1>6. OthersKeep(t) BY <1>2, <1>5, Zenon DEF OthersKeep
<1>7. Zero \in Byte /\ lock[t] \in Locks BY <1>1, Zenon DEF Byte, Zero, LockTypeOK
<1>8. LockTypeOK' BY <1>1, <1>2, <1>7, Zenon DEF LockTypeOK
<1>9. PlaceInv(t)' BY <1>1, <1>2, <1>3, <1>5, Zenon DEF PlaceInv, OutsidePC
<1>10. Holding(t) /\ ~Holding(t)' BY <1>1, <1>2, <1>3, <1>5, Zenon DEF PlaceInv, Holding, HoldingPC
<1>11. NobodyParks BY <1>5, QueuesKept, Zenon
<1>12. ~\E u \in Threads : IsQueuedAt(u, lock[t])'
  <2>1. ~m_byte[lock[t]].hasParked BY <1>2 DEF Held
  <2>2. \A u \in Threads : ~IsQueuedAt(u, lock[t]) BY <1>1, <1>7, <2>1, Zenon DEF ParkedBitIsSet
  <2> QED BY <1>2, <1>5, <2>2, Zenon DEF IsQueuedAt
<1>13. HolderInv' /\ ParkedBitIsSet' /\ HasWaitersIsHonest'
  BY <1>2, <1>3, <1>5, <1>6, <1>7, <1>10, <1>11, <1>12, ReleasingStep, Zenon
<1> QED BY <1>4, <1>6, <1>8, <1>9, <1>13, Assemble, Zenon

(* The effect of an unpark call's critical section on its caller. *)
LEMMA UnparkOneMoves ==
    ASSUME LotInv, NEW t \in Threads, NEW a \in Addresses, NEW label,
           UnparkOneAt(t, a, label) \/ UnparkAllAt(t, a, label)
    PROVE  /\ \/ pc'[t] = label /\ ret'[t] = "idle"
              \/ pc'[t] = "clear" /\ ret'[t] = label
           /\ \A u \in Threads \ {t} : pc'[u] = pc[u] /\ ret'[u] = ret[u]
           /\ UNCHANGED <<address, parkedAt>>
<1>1. LotTypeOK BY Zenon DEF LotInv
<1>2. CASE UnparkOneAt(t, a, label) BY <1>1, <1>2, Zenon DEF UnparkOneAt, Goto, LotTypeOK
<1>3. CASE UnparkAllAt(t, a, label)
  <2>1. PICK all : /\ ret' = [ret EXCEPT ![t] = IF all = <<>> THEN "idle" ELSE label]
                   /\ Goto(t, IF all = <<>> THEN label ELSE "clear")
                   /\ UNCHANGED <<address, parkedAt, result>>
    BY <1>3, Zenon DEF UnparkAllAt
  <2> QED BY <1>1, <2>1, Zenon DEF Goto, LotTypeOK
<1> QED BY <1>2, <1>3, Zenon

\* unlockSlow(): the byte is written in unparkOne's callback, under the
\* bucket's lock.
LEMMA UnlockUnparkKeeps ==
    ASSUME LockInv, NEW t \in Threads, UnlockUnpark(t), UNCHANGED m_hasWaiters
    PROVE  LockInv'
<1> DEFINE label == AfterUnlock(t)
           byte == UnlockedByte(MayHaveMoreThreads(lock[t]))
<1>1. LotInv /\ LotTypeOK /\ LockTypeOK /\ PlaceInv(t) BY Zenon DEF LockInv, LotInv
<1>2. PICK a \in Locks : a = lock[t] BY <1>1, Zenon DEF LockTypeOK
<1>3. /\ pc[t] = "unparkOne" /\ UnparkOneAt(t, a, label)
      /\ m_byte' = [m_byte EXCEPT ![lock[t]] = byte]
      /\ UNCHANGED <<lock, currentByteValue, spinCount>>
  BY <1>2, Zenon DEF UnlockUnpark, Store
<1>4. label \in {"idle", "sleep"} /\ (label = "sleep" <=> parkedAt[t] # Null) BY Zenon DEF AfterUnlock
<1>5. byte \in Byte /\ (MayHaveMoreThreads(a) => byte.hasParked)
  BY <1>2, Zenon DEF UnlockedByte, Byte, Zero, Parked
<1> HIDE DEF label, byte
<1>6. a \in Addresses /\ IsAfter(label) BY <1>4, LockAssumption, Zenon DEF IsAfter
<1>7. LotInv' BY <1>1, <1>3, <1>4, <1>6, UnparkOneKeeps, Zenon
<1>8. /\ \/ pc'[t] = label /\ ret'[t] = "idle"
         \/ pc'[t] = "clear" /\ ret'[t] = label
      /\ \A u \in Threads \ {t} : pc'[u] = pc[u] /\ ret'[u] = ret[u]
      /\ UNCHANGED <<address, parkedAt>>
  BY <1>1, <1>3, <1>6, UnparkOneMoves, Zenon
<1>9. OthersKeep(t) BY <1>3, <1>8, Zenon DEF OthersKeep
<1>10. LockTypeOK' BY <1>1, <1>3, <1>5, Zenon DEF LockTypeOK
<1>11. PlaceInv(t)'
  BY <1>1, <1>3, <1>4, <1>8, ParkingLotAssumption, ConditionAssumption, Zenon DEF PlaceInv, OutsidePC
<1>12. Holding(t) /\ ~Holding(t)' BY <1>1, <1>3, <1>4, <1>8, Zenon DEF PlaceInv, Holding, HoldingPC
<1>13. NobodyParks /\ ((\E u \in Threads : IsQueuedAt(u, a)') => MayHaveMoreThreads(a))
  BY <1>1, <1>3, <1>6, UnparkOneLeaves, Zenon
<1>14. (\E u \in Threads : IsQueuedAt(u, lock[t])') => byte.hasParked
  BY <1>2, <1>3, <1>5, <1>13, Zenon
<1>15. pc'[t] \notin {"slowCAS", "unparkOne"} BY <1>4, <1>8, Zenon
<1>16. HolderInv' /\ ParkedBitIsSet' /\ HasWaitersIsHonest'
  BY <1>3, <1>5, <1>9, <1>12, <1>13, <1>14, <1>15, ReleasingStep, Zenon
<1> QED BY <1>7, <1>9, <1>10, <1>11, <1>16, Assemble, Zenon

-----------------------------------------------------------------------------
(* The steps that write a byte and neither take nor give up a Lock. *)

\* lockSlow(): the parked bit is set.
LEMMA SetParkedKeeps ==
    ASSUME LockInv, NEW t \in Threads, SetParked(t), UNCHANGED m_hasWaiters
    PROVE  LockInv'
<1>1. LotInv /\ LotTypeOK /\ LockTypeOK /\ PlaceInv(t) /\ HolderInv /\ ParkedBitIsSet /\ HasWaitersIsHonest
  BY Zenon DEF LockInv, LotInv
<1>2. PICK a \in Locks : a = lock[t] BY <1>1, Zenon DEF LockTypeOK
<1>3. /\ pc[t] = "setParked" /\ Goto(t, "park") /\ ForgetByte(t)
      /\ m_byte' = [m_byte EXCEPT ![a] = [m_byte[a] EXCEPT !.hasParked = TRUE]]
      /\ UNCHANGED <<lotVars, lock, spinCount>>
  BY <1>2, Zenon DEF SetParked, Store
<1>4. LotInv' BY <1>1, <1>3, LotFrame, Zenon
<1>5. /\ pc'[t] = "park" /\ \A u \in Threads \ {t} : pc'[u] = pc[u]
      /\ UNCHANGED <<bucket, address, parkedAt, ret>>
  BY <1>1, <1>3, Zenon DEF Goto, lotVars, LotTypeOK
<1>6. /\ currentByteValue' \in [Threads -> Byte]
      /\ \A u \in Threads \ {t} : currentByteValue'[u] = currentByteValue[u]
  <2>1. Zero \in Byte BY Zenon DEF Byte, Zero
  <2> QED BY <1>1, <1>3, <2>1, Zenon DEF LockTypeOK, ForgetByte
<1>7. OthersKeep(t) BY <1>3, <1>5, <1>6, Zenon DEF OthersKeep
<1>8. [m_byte[a] EXCEPT !.hasParked = TRUE] \in Byte BY <1>1, Zenon DEF LockTypeOK, Byte
<1>9. LockTypeOK' BY <1>1, <1>3, <1>6, <1>8, Zenon DEF LockTypeOK
<1>10. PlaceInv(t)' BY <1>1, <1>3, <1>5, Zenon DEF PlaceInv, OutsidePC
<1>11. /\ m_byte'[a].hasParked /\ m_byte'[a].isHeld = m_byte[a].isHeld
       /\ m_byte[a] = HeldAndParked => m_byte'[a] = HeldAndParked
       /\ \A x \in Locks \ {a} : m_byte'[x] = m_byte[x]
  <2>1. m_byte[a] = HeldAndParked => [m_byte[a] EXCEPT !.hasParked = TRUE] = HeldAndParked
    <3>1. m_byte[a] \in Byte BY <1>1, Zenon DEF LockTypeOK
    <3> QED BY <3>1, ByteBits, Zenon
  <2> QED BY <1>1, <1>3, <2>1, Zenon DEF LockTypeOK, Byte
<1>12. \A u \in Threads : Holding(u)' <=> Holding(u)
  BY <1>3, <1>5, <1>7, OthersHold, Zenon DEF Holding, HoldingPC
<1>13. HolderInv'
  <2>1. (\A u \in Threads : Holding(u) => m_byte[lock[u]].isHeld)'
    BY <1>1, <1>3, <1>11, <1>12, Zenon DEF HolderInv, LockTypeOK
  <2>2. (\A u, v \in Threads : Holding(u) /\ Holding(v) /\ lock[u] = lock[v] => u = v)'
    BY <1>1, <1>3, <1>12, Zenon DEF HolderInv
  <2>3. (\A u \in Threads : pc[u] = "slowCAS" => ~currentByteValue[u].isHeld)'
    BY <1>1, <1>5, <1>6, Zenon DEF HolderInv
  <2> QED BY <2>1, <2>2, <2>3, Zenon DEF HolderInv
<1>14. ParkedBitIsSet'
  <2>1. (\A x \in Locks, u \in Threads : IsQueuedAt(u, x) => m_byte[x].hasParked)'
    BY <1>1, <1>5, <1>11 DEF ParkedBitIsSet, IsQueuedAt
  <2>2. (\A u \in Threads : pc[u] = "unparkOne" => m_byte[lock[u]] = HeldAndParked)'
    BY <1>1, <1>3, <1>5, <1>11 DEF ParkedBitIsSet, LockTypeOK
  <2> QED BY <2>1, <2>2, Zenon DEF ParkedBitIsSet
<1>15. HasWaitersIsHonest' BY <1>1, <1>3, <1>5, <1>7, HonestKept, QueuesKept, Zenon
<1> QED BY <1>4, <1>7, <1>9, <1>10, <1>13, <1>14, <1>15, Assemble, Zenon
(* A thread that is not parked is not about to be notified either: nobody  *)
(* has a timeout here.                                                     *)
LEMMA NobodyWakes ==
    ASSUME LotInv, NEW t \in Threads, parkedAt[t] = Null
    PROVE  \A u \in Threads : \A i \in Uncleared(u) : woken[u][i] # t
<1> SUFFICES ASSUME NEW u \in Threads, NEW i \in Uncleared(u), woken[u][i] = t PROVE FALSE
  BY Zenon
<1>1. UnclearedInv(u) BY Zenon DEF LotInv
<1> QED BY <1>1, LockClientAssumption, Zenon DEF UnclearedInv

\* lockSlow(): the validation accepts and the thread is enqueued.
LEMMA ParkKeeps ==
    ASSUME LockInv, NEW t \in Threads, CompareAndPark(t), Validate(m_byte[lock[t]]), UNCHANGED m_hasWaiters
    PROVE  LockInv'
<1>1. LotInv /\ LotTypeOK /\ LockTypeOK /\ PlaceInv(t) /\ HolderInv /\ ParkedBitIsSet /\ HasWaitersIsHonest
  BY Zenon DEF LockInv, LotInv
<1>2. PICK a \in Locks : a = lock[t] BY <1>1, Zenon DEF LockTypeOK
<1>3. /\ pc[t] = "park" /\ EnqueueAt(t, a) /\ Goto(t, "sleep") /\ ForgetByte(t)
      /\ UNCHANGED <<m_byte, lock, spinCount>> /\ m_byte[a] = HeldAndParked
  BY <1>2, Zenon DEF CompareAndPark, Validate
<1>4. a \in Addresses /\ a # Null /\ a # Cond /\ parkedAt[t] = Null
  BY <1>1, <1>3, LockAssumption, ConditionAssumption, ParkingLotAssumption, Zenon DEF PlaceInv, OutsidePC
<1>5. LotInv' BY <1>1, <1>3, <1>4, NobodyWakes, EnqueueKeeps, Zenon
<1>6. /\ pc'[t] = "sleep" /\ parkedAt'[t] = a /\ ret' = ret
      /\ \A u \in Threads \ {t} : pc'[u] = pc[u] /\ parkedAt'[u] = parkedAt[u]
  BY <1>1, <1>3, Zenon DEF EnqueueAt, Goto, LotTypeOK
<1>7. /\ currentByteValue' \in [Threads -> Byte]
      /\ \A u \in Threads \ {t} : currentByteValue'[u] = currentByteValue[u]
  <2>1. Zero \in Byte BY Zenon DEF Byte, Zero
  <2> QED BY <1>1, <1>3, <2>1, Zenon DEF LockTypeOK, ForgetByte
<1>8. OthersKeep(t) BY <1>3, <1>6, <1>7, Zenon DEF OthersKeep
<1>9. LockTypeOK' BY <1>1, <1>3, <1>7, Zenon DEF LockTypeOK
<1>10. PlaceInv(t)' BY <1>1, <1>2, <1>3, <1>4, <1>6, Zenon DEF PlaceInv, OutsidePC
<1>11. \A u \in Threads : Holding(u)' => Holding(u)
  BY <1>1, <1>3, <1>6, <1>8, OthersHold, Zenon DEF Holding, HoldingPC
<1>12. HolderInv'
  <2>1. (\A u \in Threads : Holding(u) => m_byte[lock[u]].isHeld)' BY <1>1, <1>3, <1>11, Zenon DEF HolderInv
  <2>2. (\A u, v \in Threads : Holding(u) /\ Holding(v) /\ lock[u] = lock[v] => u = v)'
    BY <1>1, <1>3, <1>11, Zenon DEF HolderInv
  <2>3. (\A u \in Threads : pc[u] = "slowCAS" => ~currentByteValue[u].isHeld)'
    BY <1>1, <1>6, <1>7, Zenon DEF HolderInv
  <2> QED BY <2>1, <2>2, <2>3, Zenon DEF HolderInv
<1>13. \A u \in Threads, x \in Addresses : IsQueuedAt(u, x)' => IsQueuedAt(u, x) \/ (u = t /\ x = a)
  BY <1>1, <1>3, <1>4, EnqueueAdds, Zenon
<1>14. ParkedBitIsSet'
  <2>1. (\A x \in Locks, u \in Threads : IsQueuedAt(u, x) => m_byte[x].hasParked)'
    <3>1. m_byte[a].hasParked BY <1>3 DEF HeldAndParked
    <3> QED BY <1>1, <1>3, <1>13, <3>1, LockAssumption, Zenon DEF ParkedBitIsSet
  <2>2. (\A u \in Threads : pc[u] = "unparkOne" => m_byte[lock[u]] = HeldAndParked)'
    BY <1>1, <1>3, <1>6, Zenon DEF ParkedBitIsSet
  <2> QED BY <2>1, <2>2, Zenon DEF ParkedBitIsSet
<1>15. HasWaitersIsHonest'
  <2> SUFFICES ASSUME ~m_hasWaiters', NEW u \in Threads, Waits(u)'
               PROVE  \E v \in Threads : pc'[v] = "unparkAll"
    BY Zenon DEF HasWaitersIsHonest
  <2>1. Waits(u) BY <1>4, <1>13, ConditionAssumption, Zenon DEF Waits
  <2>2. PICK v \in Threads : pc[v] = "unparkAll" BY <1>1, <2>1, Zenon DEF HasWaitersIsHonest
  <2>3. pc'[v] = "unparkAll" BY <1>3, <1>6, <2>2, Zenon
  <2> QED BY <2>3, Zenon
<1> QED BY <1>5, <1>8, <1>9, <1>10, <1>12, <1>14, <1>15, Assemble, Zenon

\* wait(): m_hasWaiters is set in the validation and the thread is enqueued.
LEMMA WaitKeeps ==
    ASSUME LockInv, NEW t \in Threads, Wait(t)
    PROVE  LockInv'
<1>1. LotInv /\ LotTypeOK /\ LockTypeOK /\ PlaceInv(t) /\ HolderInv /\ ParkedBitIsSet BY Zenon DEF LockInv, LotInv
<1>2. /\ pc[t] = "holding" /\ EnqueueAt(t, Cond) /\ Goto(t, "beforeSleep")
      /\ UNCHANGED <<m_byte, lock, currentByteValue, spinCount>> /\ m_hasWaiters' = TRUE
  BY Zenon DEF Wait, byteVars
<1>3. Cond \in Addresses /\ Cond # Null /\ Cond \notin Locks /\ parkedAt[t] = Null
  BY <1>1, <1>2, ConditionAssumption, ParkingLotAssumption, Zenon DEF PlaceInv, OutsidePC
<1>4. LotInv' BY <1>1, <1>2, <1>3, NobodyWakes, EnqueueKeeps, Zenon
<1>5. /\ pc'[t] = "beforeSleep" /\ parkedAt'[t] = Cond /\ ret' = ret
      /\ \A u \in Threads \ {t} : pc'[u] = pc[u] /\ parkedAt'[u] = parkedAt[u]
  BY <1>1, <1>2, Zenon DEF EnqueueAt, Goto, LotTypeOK
<1>6. OthersKeep(t) BY <1>2, <1>5, Zenon DEF OthersKeep
<1>7. LockTypeOK' BY <1>1, <1>2, Zenon DEF LockTypeOK
<1>8. PlaceInv(t)' BY <1>1, <1>2, <1>5, Zenon DEF PlaceInv, OutsidePC
<1>9. \A u \in Threads : Holding(u)' <=> Holding(u)
  BY <1>2, <1>5, <1>6, OthersHold, Zenon DEF Holding, HoldingPC
<1>10. HolderInv'
  <2>1. (\A u \in Threads : Holding(u) => m_byte[lock[u]].isHeld)' BY <1>1, <1>2, <1>9, Zenon DEF HolderInv
  <2>2. (\A u, v \in Threads : Holding(u) /\ Holding(v) /\ lock[u] = lock[v] => u = v)'
    BY <1>1, <1>2, <1>9, Zenon DEF HolderInv
  <2>3. (\A u \in Threads : pc[u] = "slowCAS" => ~currentByteValue[u].isHeld)'
    BY <1>1, <1>2, <1>5, Zenon DEF HolderInv
  <2> QED BY <2>1, <2>2, <2>3, Zenon DEF HolderInv
<1>11. \A u \in Threads, x \in Addresses : IsQueuedAt(u, x)' => IsQueuedAt(u, x) \/ (u = t /\ x = Cond)
  BY <1>1, <1>2, <1>3, EnqueueAdds, Zenon
<1>12. ParkedBitIsSet'
  <2>1. (\A x \in Locks, u \in Threads : IsQueuedAt(u, x) => m_byte[x].hasParked)'
    BY <1>1, <1>2, <1>3, <1>11, LockAssumption, Zenon DEF ParkedBitIsSet
  <2>2. (\A u \in Threads : pc[u] = "unparkOne" => m_byte[lock[u]] = HeldAndParked)'
    BY <1>1, <1>2, <1>5, Zenon DEF ParkedBitIsSet
  <2> QED BY <2>1, <2>2, Zenon DEF ParkedBitIsSet
<1>13. HasWaitersIsHonest' BY <1>2, Zenon DEF HasWaitersIsHonest
<1> QED BY <1>4, <1>6, <1>7, <1>8, <1>10, <1>12, <1>13, Assemble, Zenon

(* What a step that leaves the Locks alone keeps of them, also when it     *)
(* writes m_hasWaiters.                                                    *)
LEMMA LocksKept ==
    ASSUME LockInv, NEW t \in Threads, OthersKeep(t), NobodyParks,
           UNCHANGED <<m_byte, lock, currentByteValue>>,
           Holding(t)' => Holding(t), pc'[t] \notin {"slowCAS", "unparkOne"}
    PROVE  HolderInv' /\ ParkedBitIsSet'
<1>1. HolderInv /\ ParkedBitIsSet BY Zenon DEF LockInv
<1>2. \A u \in Threads : Holding(u)' => Holding(u) BY OthersHold, Zenon
<1>3. HolderInv'
  <2>1. (\A u \in Threads : Holding(u) => m_byte[lock[u]].isHeld)' BY <1>1, <1>2, Zenon DEF HolderInv
  <2>2. (\A u, v \in Threads : Holding(u) /\ Holding(v) /\ lock[u] = lock[v] => u = v)'
    BY <1>1, <1>2, Zenon DEF HolderInv
  <2>3. (\A u \in Threads : pc[u] = "slowCAS" => ~currentByteValue[u].isHeld)'
    BY <1>1, Zenon DEF HolderInv, OthersKeep
  <2> QED BY <2>1, <2>2, <2>3, Zenon DEF HolderInv
<1>4. ParkedBitIsSet'
  <2>1. (\A a \in Locks, u \in Threads : IsQueuedAt(u, a) => m_byte[a].hasParked)'
    BY <1>1, LockAssumption, Zenon DEF ParkedBitIsSet, NobodyParks
  <2>2. (\A u \in Threads : pc[u] = "unparkOne" => m_byte[lock[u]] = HeldAndParked)'
    BY <1>1, Zenon DEF ParkedBitIsSet, OthersKeep
  <2> QED BY <2>1, <2>2, Zenon DEF ParkedBitIsSet
<1> QED BY <1>3, <1>4, Zenon

\* notifyAll(): m_hasWaiters is cleared before everybody is unparked.
LEMMA NotifyStoreFalseKeeps ==
    ASSUME LockInv, NEW t \in Threads, NotifyStoreFalse(t)
    PROVE  LockInv'
<1>1. LotInv /\ LotTypeOK /\ LockTypeOK /\ PlaceInv(t) BY Zenon DEF LockInv, LotInv
<1>2. /\ pc[t] = "notifyAll" /\ Goto(t, "unparkAll") /\ m_hasWaiters' = FALSE
      /\ UNCHANGED <<lotVars, m_byte, lock, currentByteValue, spinCount>>
  BY Zenon DEF NotifyStoreFalse, byteVars
<1>3. LotInv' BY <1>1, <1>2, LotFrame, Zenon
<1>4. /\ pc'[t] = "unparkAll" /\ \A u \in Threads \ {t} : pc'[u] = pc[u]
      /\ UNCHANGED <<bucket, address, parkedAt, ret>>
  BY <1>1, <1>2, Zenon DEF Goto, lotVars, LotTypeOK
<1>5. OthersKeep(t) BY <1>2, <1>4, Zenon DEF OthersKeep
<1>6. LockTypeOK' BY <1>1, <1>2, Zenon DEF LockTypeOK
<1>7. PlaceInv(t)' BY <1>1, <1>2, <1>4, Zenon DEF PlaceInv, OutsidePC
<1>8. Holding(t)' => Holding(t) BY <1>4, Zenon DEF Holding, HoldingPC
<1>9. HolderInv' /\ ParkedBitIsSet' BY <1>2, <1>4, <1>5, <1>8, LocksKept, QueuesKept, Zenon
<1>10. HasWaitersIsHonest' BY <1>4, Zenon DEF HasWaitersIsHonest
<1> QED BY <1>3, <1>5, <1>6, <1>7, <1>9, <1>10, Assemble, Zenon

\* notifyOne() and notifyAll() unpark.
LEMMA NotifyUnparkKeeps ==
    ASSUME LockInv, NEW t \in Threads, NotifyUnparkOne(t) \/ NotifyUnparkAll(t)
    PROVE  LockInv'
<1> DEFINE label == ret[t]
<1>1. LotInv /\ LotTypeOK /\ LockTypeOK /\ PlaceInv(t) /\ HasWaitersIsHonest BY Zenon DEF LockInv, LotInv
<1>2. /\ pc[t] \in {"notifyOne", "unparkAll"}
      /\ UnparkOneAt(t, Cond, label) \/ UnparkAllAt(t, Cond, label)
      /\ UNCHANGED <<m_byte, lock, currentByteValue, spinCount>>
  BY Zenon DEF NotifyUnparkOne, NotifyUnparkAll, byteVars
<1>3. label \in {"idle", "holding"} /\ parkedAt[t] = Null BY <1>1, <1>2, Zenon DEF PlaceInv, OutsidePC
<1>4. Cond \in Addresses /\ Cond # Null /\ IsAfter(label)
  BY <1>3, ConditionAssumption, ParkingLotAssumption, Zenon DEF IsAfter
<1>5. Holding(t) <=> label = "holding" BY <1>2, Zenon DEF Holding, HoldingPC
<1> HIDE DEF label
<1>6. LotInv' BY <1>1, <1>2, <1>3, <1>4, UnparkOneKeeps, UnparkAllKeeps, Zenon
<1>7. /\ \/ pc'[t] = label /\ ret'[t] = "idle"
         \/ pc'[t] = "clear" /\ ret'[t] = label
      /\ \A u \in Threads \ {t} : pc'[u] = pc[u] /\ ret'[u] = ret[u]
      /\ UNCHANGED <<address, parkedAt>>
  BY <1>1, <1>2, <1>4, UnparkOneMoves, Zenon
<1>8. OthersKeep(t) BY <1>2, <1>7, Zenon DEF OthersKeep
<1>9. LockTypeOK' BY <1>1, <1>2, Zenon DEF LockTypeOK, NotifyUnparkOne, NotifyUnparkAll, HasWaitersAfter, MayHaveMoreThreads
<1>10. PlaceInv(t)' BY <1>1, <1>2, <1>3, <1>4, <1>7, Zenon DEF PlaceInv, OutsidePC
<1>11. Holding(t)' => Holding(t) BY <1>3, <1>5, <1>7, Zenon DEF Holding, HoldingPC
<1>12. NobodyParks BY <1>1, <1>2, <1>4, UnparkOneLeaves, UnparkAllLeaves, Zenon
<1>13. HolderInv' /\ ParkedBitIsSet' BY <1>2, <1>3, <1>7, <1>8, <1>11, <1>12, LocksKept, Zenon
<1>14. CASE NotifyUnparkOne(t)
  <2>1. pc[t] = "notifyOne" /\ UnparkOneAt(t, Cond, label) BY <1>14, Zenon DEF NotifyUnparkOne, label
  <2>2. m_hasWaiters' = HasWaitersAfter(MayHaveMoreThreads(Cond)) BY <1>14, Zenon DEF NotifyUnparkOne
  <2>3. (\E u \in Threads : IsQueuedAt(u, Cond)') => MayHaveMoreThreads(Cond)
    BY <1>1, <1>4, <2>1, UnparkOneLeaves, Zenon
  <2>4. HasWaitersIsHonest'
    <3>1. CASE m_hasWaiters BY <2>2, <2>3, <3>1, Zenon DEF HasWaitersIsHonest, HasWaitersAfter, Waits
    <3>2. CASE ~m_hasWaiters
      <4>1. m_hasWaiters' = m_hasWaiters BY <1>1, <2>2, <3>2, Zenon DEF HasWaitersAfter, LockTypeOK
      <4> QED BY <1>1, <1>8, <1>12, <2>1, <4>1, HonestKept, Zenon
    <3> QED BY <3>1, <3>2, Zenon
  <2> QED BY <1>6, <1>8, <1>9, <1>10, <1>13, <2>4, Assemble, Zenon
<1>15. CASE NotifyUnparkAll(t)
  <2>1. UnparkAllAt(t, Cond, label) BY <1>15, Zenon DEF NotifyUnparkAll, label
  <2>2. \A u \in Threads : ~IsQueuedAt(u, Cond)' BY <1>1, <1>4, <2>1, UnparkAllLeaves, Zenon
  <2>3. HasWaitersIsHonest' BY <2>2, Zenon DEF HasWaitersIsHonest, Waits
  <2> QED BY <1>6, <1>8, <1>9, <1>10, <1>13, <2>3, Assemble
<1> QED BY <1>14, <1>15, Zenon

-----------------------------------------------------------------------------
\* Every step keeps the invariant.
LEMMA LockStepKeeps == LockInv /\ [Next]_vars => LockInv'
<1> SUFFICES ASSUME LockInv, [Next]_vars PROVE LockInv'
  BY Zenon
<1>1. ASSUME NEW t \in Threads, CallLock(t) PROVE LockInv'
  BY <1>1, LockFastFailKeeps, TakingKeeps, Zenon DEF CallLock
<1>2. ASSUME NEW t \in Threads, LockStep(t) PROVE LockInv'
  <2>1. lock[t] \in Locks BY Zenon DEF LockInv, LockTypeOK
  <2>2. CASE Relock(t) BY <1>2, <2>1, <2>2, LockFastFailKeeps, TakingKeeps, Zenon DEF Relock, LockStep
  <2>3. CASE CompareAndPark(t) BY <1>2, <2>3, ParkKeeps, RetryKeeps, Zenon DEF LockStep
  <2>4. CASE SlowLoad(t) BY <1>2, <2>4, SlowLoadKeeps, Zenon DEF LockStep
  <2>5. CASE BargeIn(t) BY <1>2, <2>5, TakingKeeps, Zenon DEF LockStep
  <2>6. CASE BargeInFail(t) BY <1>2, <2>6, BargeInFailKeeps, Zenon DEF LockStep
  <2>7. CASE SetParked(t) BY <1>2, <2>7, SetParkedKeeps, Zenon DEF LockStep
  <2>8. CASE SetParkedFail(t) BY <1>2, <2>8, RetryKeeps, Zenon DEF LockStep
  <2> QED BY <1>2, <2>2, <2>3, <2>4, <2>5, <2>6, <2>7, <2>8, Zenon DEF LockStep
<1>3. ASSUME NEW t \in Threads, UnlockStep(t) PROVE LockInv'
  BY <1>3, UnlockMoveKeeps, UnlockKeeps, UnlockUnparkKeeps, Zenon DEF UnlockStep
<1>4. ASSUME NEW t \in Threads, LotStep(t) PROVE LockInv'
  BY <1>4, SleepStepKeeps, ReturnKeeps, ClearAddressStepKeeps, NotifyOneStepKeeps, Zenon DEF LotStep
<1>5. ASSUME NEW t \in Threads, NotifyStep(t) PROVE LockInv'
  BY <1>5, NotifyUnparkKeeps, NotifyStoreFalseKeeps, Zenon DEF NotifyStep
<1>6. ASSUME NEW t \in Threads, WakeUp(t) /\ UNCHANGED <<byteVars, m_hasWaiters>> PROVE LockInv'
  BY <1>6, SleepStepKeeps, Zenon
<1>7. ASSUME UNCHANGED vars PROVE LockInv'
  <2>1. UNCHANGED <<bucket, address, parkedAt, result, leftBy, woken, ret, pc, m_byte, lock, currentByteValue,
                    spinCount, m_hasWaiters>>
    BY <1>7, Zenon DEF vars, lotVars, byteVars
  <2>2. LotInv'
    <3>1. LotTypeOK' BY <2>1, Zenon DEF LockInv, LotInv, LotTypeOK
    <3>2. \A b \in Buckets : BucketInv(b)' BY <2>1, Zenon DEF LockInv, LotInv, BucketInv, Queued
    <3>3. \A t \in Threads : ParkInv(t)' /\ UnparkInv(t)'
      BY <2>1 DEF LockInv, LotInv, ParkInv, OnQueue, UnparkInv
    <3>4. \A t \in Threads : Uncleared(t)' = Uncleared(t) BY <2>1, Zenon DEF Uncleared
    <3>5. \A t \in Threads : UnclearedInv(t)' BY <2>1, <3>4, Zenon DEF LockInv, LotInv, UnclearedInv
    <3>6. UnclearedOnce' BY <2>1, <3>4 DEF LockInv, LotInv, UnclearedOnce
    <3> QED BY <3>1, <3>2, <3>3, <3>5, <3>6, Zenon DEF LotInv
  <2>3. LockTypeOK' BY <2>1, Zenon DEF LockInv, LockTypeOK
  <2>4. \A t \in Threads : PlaceInv(t)' BY <2>1, Zenon DEF LockInv, PlaceInv
  <2>5. HolderInv' BY <2>1, Zenon DEF LockInv, HolderInv, Holding
  <2>6. \A t, a : IsQueuedAt(t, a)' <=> IsQueuedAt(t, a)
    BY <2>1, Zenon DEF IsQueuedAt
  <2>7. ParkedBitIsSet' BY <2>1, <2>6, Zenon DEF LockInv, ParkedBitIsSet
  <2>8. HasWaitersIsHonest' BY <2>1, <2>6, Zenon DEF LockInv, HasWaitersIsHonest, Waits
  <2> QED BY <2>2, <2>3, <2>4, <2>5, <2>7, <2>8, Zenon DEF LockInv
<1> QED BY <1>1, <1>2, <1>3, <1>4, <1>5, <1>6, <1>7, WaitKeeps, BeginNotifyKeeps DEF Next

(* The inductive invariant, for every set of threads and Locks and any     *)
(* hashing of their addresses to buckets.                                  *)
THEOREM LockInvariance == Spec => []LockInv
BY LockInitially, LockStepKeeps, PTL DEF Spec

(* ParkedBitIsSet: while a thread is queued at a Lock the parked bit is    *)
(* set, so the next unlock() takes the slow path and unparks it.           *)
THEOREM NobodyIsForgotten == Spec => []ParkedBitIsSet
<1>1. LockInv => ParkedBitIsSet BY Zenon DEF LockInv
<1> QED BY <1>1, LockInvariance, PTL

(* HasWaitersIsHonest: the fast path of notifyOne() and notifyAll() loses  *)
(* no notification.                                                        *)
THEOREM NoLostNotification == Spec => []HasWaitersIsHonest
<1>1. LockInv => HasWaitersIsHonest BY Zenon DEF LockInv
<1> QED BY <1>1, LockInvariance, PTL

(* NoSpuriousWakeup: waitUntil() returns only after a notification.        *)
THEOREM WaitsEndByNotification == Spec => []NoSpuriousWakeup
<1>1. ASSUME LockInv PROVE NoSpuriousWakeup
  <2> SUFFICES ASSUME NEW t \in Threads, pc[t] = "unparked"
               PROVE  ~Waits(t) /\ (result[t] => leftBy[t] = "unpark")
    BY Zenon DEF NoSpuriousWakeup
  <2>1. ParkInv(t) BY <1>1, Zenon DEF LockInv, LotInv
  <2>2. address[t] = Null /\ (result[t] <=> leftBy[t] = "unpark") BY <2>1, Zenon DEF ParkInv
  <2> QED BY <2>2, ConditionAssumption, ParkingLotAssumption, Zenon DEF Waits, IsQueuedAt
<1> QED BY <1>1, LockInvariance, PTL
-----------------------------------------------------------------------------
(* One holder at a time, also across a wait and its relock. *)
MutualExclusion ==
    \A a \in Locks : \A t, u \in Threads : Holds(t, a) /\ Holds(u, a) => t = u

(* A Lock excludes: what LockHolder and every critical section rely on. *)
THEOREM LocksExclude == Spec => []MutualExclusion
<1>1. LockInv => MutualExclusion BY Zenon DEF LockInv, HolderInv, MutualExclusion, Holds, Holding
<1> QED BY <1>1, LockInvariance, PTL

(* Each Lock as a Mutex. *)
Mutual(a) == INSTANCE Mutex WITH holder <- Holder(a), asking <- Asking(a)

Asks(t, a) == pc[t] \in AskingPC /\ lock[t] = a /\ parkedAt[t] # Cond

\* The holder that the refinement mapping names is the thread that holds the
\* lock.
LEMMA HolderIs ==
    ASSUME NEW a \in Locks
    PROVE  /\ LockInv => \A t \in Threads : Holds(t, a) => Holder(a) = t
           /\ (\A t \in Threads : ~Holds(t, a)) => Holder(a) = Null
<1>1. ASSUME LockInv, NEW t \in Threads, Holds(t, a) PROVE Holder(a) = t
  <2>1. \A u \in Threads : Holds(u, a) => u = t BY <1>1, Zenon DEF LockInv, HolderInv, Holds, Holding
  <2> QED BY <1>1, <2>1, Zenon DEF Holder
<1>2. ASSUME \A t \in Threads : ~Holds(t, a) PROVE Holder(a) = Null BY <1>2, Zenon DEF Holder
<1> QED BY <1>1, <1>2, Zenon

\* The same in the next state.
LEMMA HolderIsNext ==
    ASSUME NEW a \in Locks
    PROVE  (/\ LockInv => \A t \in Threads : Holds(t, a) => Holder(a) = t
            /\ (\A t \in Threads : ~Holds(t, a)) => Holder(a) = Null)'
BY HolderIs, PTL

(* What a step of t may do to the mutex a. *)
MutexMove(t, a) ==
    \/ (Holds(t, a)' <=> Holds(t, a)) /\ (Asks(t, a)' <=> Asks(t, a))
    \/ ~Holds(t, a) /\ ~Holds(t, a)' /\ ~Asks(t, a) /\ Asks(t, a)'
    \/ ~m_byte[a].isHeld /\ Holds(t, a)' /\ ~Asks(t, a)'
    \/ Holds(t, a) /\ ~Holds(t, a)' /\ (Asks(t, a)' <=> Asks(t, a))

\* A move of one thread with respect to one lock is a step, or a stutter, of a
\* mutex.
LEMMA MoveImplements ==
    ASSUME LockInv, LockInv', NEW t \in Threads, NEW a \in Locks, OthersKeep(t), MutexMove(t, a)
    PROVE  [Mutual(a)!Next]_<<Holder(a), Asking(a)>>
<1>1. \A u \in Threads \ {t} : (Holds(u, a)' <=> Holds(u, a)) /\ (Asks(u, a)' <=> Asks(u, a))
  BY OthersHold, Zenon DEF OthersKeep, Holds, Holding, Asks, AskingPC
<1>2. Asking(a) = {u \in Threads : Asks(u, a)} /\ Asking(a)' = {u \in Threads : Asks(u, a)'}
  BY Zenon DEF Asking, Asks
<1>3. \A u \in Threads : (Holds(u, a) => Holder(a) = u) /\ (Holds(u, a)' => Holder(a)' = u)
  BY HolderIs, HolderIsNext, Zenon
<1>4. /\ (\A u \in Threads : ~Holds(u, a)) => Holder(a) = Null
      /\ (\A u \in Threads : ~Holds(u, a)') => Holder(a)' = Null
  BY HolderIs, HolderIsNext, Zenon
<1>5. \A u \in Threads : Holds(u, a) => m_byte[a].isHeld BY Zenon DEF LockInv, HolderInv, Holds, Holding
<1>6. ASSUME Holds(t, a)' <=> Holds(t, a) PROVE Holder(a)' = Holder(a)
  <2>1. CASE \E u \in Threads : Holds(u, a) BY <1>1, <1>3, <1>6, <2>1, Zenon
  <2>2. CASE \A u \in Threads : ~Holds(u, a) BY <1>1, <1>4, <1>6, <2>2, Zenon
  <2> QED BY <2>1, <2>2, Zenon
<1>7. ASSUME Asks(t, a)' <=> Asks(t, a) PROVE Asking(a)' = Asking(a) BY <1>1, <1>2, <1>7, Zenon
<1>8. CASE (Holds(t, a)' <=> Holds(t, a)) /\ (Asks(t, a)' <=> Asks(t, a)) BY <1>6, <1>7, <1>8, Zenon
<1>9. CASE ~Holds(t, a) /\ ~Holds(t, a)' /\ ~Asks(t, a) /\ Asks(t, a)'
  <2>1. Holder(a)' = Holder(a) BY <1>6, <1>9, Zenon
  <2>2. t # Holder(a)
    <3>1. CASE \E u \in Threads : Holds(u, a) BY <1>3, <1>9, <3>1, Zenon
    <3>2. CASE \A u \in Threads : ~Holds(u, a) BY <1>4, <3>2, ParkingLotAssumption, Zenon
    <3> QED BY <3>1, <3>2, Zenon
  <2>3. t \notin Asking(a) /\ Asking(a)' = Asking(a) \cup {t} BY <1>1, <1>2, <1>9, Zenon
  <2> QED BY <2>1, <2>2, <2>3, Zenon DEF Mutual!Next, Mutual!Ask
<1>10. CASE ~m_byte[a].isHeld /\ Holds(t, a)' /\ ~Asks(t, a)'
  <2>1. Holder(a) = Null BY <1>4, <1>5, <1>10, Zenon
  <2>2. Holder(a)' = t BY <1>3, <1>10, Zenon
  <2>3. Asking(a)' = Asking(a) \ {t} BY <1>1, <1>2, <1>10, Zenon
  <2> QED BY <2>1, <2>2, <2>3, Zenon DEF Mutual!Next, Mutual!Acquire
<1>11. CASE Holds(t, a) /\ ~Holds(t, a)' /\ (Asks(t, a)' <=> Asks(t, a))
  <2>1. Holder(a) = t BY <1>3, <1>11, Zenon
  <2>2. \A u \in Threads \ {t} : ~Holds(u, a) BY <1>3, <1>11, Zenon
  <2>3. Holder(a)' = Null BY <1>1, <1>4, <1>11, <2>2, Zenon
  <2> QED BY <1>7, <1>11, <2>1, <2>3, Zenon DEF Mutual!Next, Mutual!Release
<1> QED BY <1>8, <1>9, <1>10, <1>11, Zenon DEF MutexMove

(* A step that moves t from one place of a call to another. *)
LEMMA CallMoves ==
    ASSUME LockInv, NEW t \in Threads, UNCHANGED <<lock, ret>>,
           DOMAIN pc' = Threads, \A u \in Threads \ {t} : pc'[u] = pc[u],
           \A u \in Threads \ {t} : currentByteValue'[u] = currentByteValue[u],
           \A u \in Threads \ {t} : parkedAt'[u] = parkedAt[u],
           (pc'[t] \in HoldingPC <=> pc[t] \in HoldingPC),
           (pc'[t] \in AskingPC /\ parkedAt'[t] # Cond <=> pc[t] \in AskingPC /\ parkedAt[t] # Cond)
    PROVE  OthersKeep(t) /\ \A a \in Locks : MutexMove(t, a)
BY Zenon DEF OthersKeep, MutexMove, Holds, Asks
\* The steps of lock() are such moves.
LEMMA LockingMoves ==
    ASSUME LockInv, NEW t \in Threads, CallLock(t) \/ LockStep(t)
    PROVE  OthersKeep(t) /\ \A a \in Locks : MutexMove(t, a)
<1>1. LotTypeOK /\ LockTypeOK /\ PlaceInv(t) /\ HolderInv BY Zenon DEF LockInv, LotInv
<1>2. ASSUME NEW a \in Locks, NEW from \in {"idle", "relock"}, LockFast(t, a, from) \/ TryLock(t, a)
      PROVE  OthersKeep(t) /\ \A x \in Locks : MutexMove(t, x)
  <2>1. /\ pc[t] \in {"idle", "relock"} /\ pc'[t] = "holding" /\ \A u \in Threads \ {t} : pc'[u] = pc[u]
        /\ lock'[t] = a /\ \A u \in Threads \ {t} : lock'[u] = lock[u]
        /\ UNCHANGED <<ret, parkedAt, currentByteValue>>
    BY <1>1, <1>2, Zenon DEF LockFast, TryLock, Goto, LotTypeOK, LockTypeOK, lotVars
  <2>2. ~m_byte[a].isHeld BY <1>2 DEF LockFast, TryLock, Zero
  <2>3. ret[t] = "idle" BY <1>1, <2>1, Zenon DEF PlaceInv
  <2>4. OthersKeep(t) BY <2>1, Zenon DEF OthersKeep
  <2>5. MutexMove(t, a) BY <2>1, <2>2, Zenon DEF MutexMove, Holds, Asks, HoldingPC, AskingPC
  <2>6. \A x \in Locks \ {a} : MutexMove(t, x)
    BY <2>1, <2>3, Zenon DEF MutexMove, Holds, Asks, HoldingPC, AskingPC
  <2> QED BY <2>4, <2>5, <2>6, Zenon
<1>3. ASSUME NEW a \in Locks, NEW from \in {"idle", "relock"}, LockFastFail(t, a, from)
      PROVE  OthersKeep(t) /\ \A x \in Locks : MutexMove(t, x)
  <2>1. /\ pc[t] \in {"idle", "relock"} /\ pc'[t] = "slowLoad" /\ \A u \in Threads \ {t} : pc'[u] = pc[u]
        /\ lock'[t] = a /\ \A u \in Threads \ {t} : lock'[u] = lock[u]
        /\ UNCHANGED <<ret, parkedAt, currentByteValue>>
    BY <1>1, <1>3, Zenon DEF LockFastFail, Goto, LotTypeOK, LockTypeOK, lotVars
  <2>2. ret[t] = "idle" /\ parkedAt[t] # Cond
    BY <1>1, <2>1, ParkingLotAssumption, ConditionAssumption, Zenon DEF PlaceInv, OutsidePC
  <2>3. OthersKeep(t) BY <2>1, Zenon DEF OthersKeep
  <2>4. MutexMove(t, a) BY <2>1, <2>2, Zenon DEF MutexMove, Holds, Asks, HoldingPC, AskingPC
  <2>5. \A x \in Locks \ {a} : MutexMove(t, x)
    BY <2>1, <2>2, Zenon DEF MutexMove, Holds, Asks, HoldingPC, AskingPC
  <2> QED BY <2>3, <2>4, <2>5
<1>4. CASE BargeIn(t)
  <2>1. /\ pc[t] = "slowCAS" /\ pc'[t] = "holding" /\ \A u \in Threads \ {t} : pc'[u] = pc[u]
        /\ \A u \in Threads \ {t} : currentByteValue'[u] = currentByteValue[u]
        /\ UNCHANGED <<ret, parkedAt, lock>>
    BY <1>1, <1>4, Zenon DEF BargeIn, Goto, ForgetByte, LotTypeOK, LockTypeOK, lotVars
  <2>2. ~m_byte[lock[t]].isHeld BY <1>1, <1>4, Zenon DEF BargeIn, HolderInv
  <2>3. ret[t] = "idle" BY <1>1, <2>1, Zenon DEF PlaceInv
  <2>4. OthersKeep(t) BY <2>1, Zenon DEF OthersKeep
  <2>5. \A x \in Locks : MutexMove(t, x)
    BY <2>1, <2>2, <2>3, Zenon DEF MutexMove, Holds, Asks, HoldingPC, AskingPC
  <2> QED BY <2>4, <2>5, Zenon
<1>5. CASE SlowLoad(t) \/ BargeInFail(t) \/ SetParked(t) \/ SetParkedFail(t) \/ CompareAndPark(t)
  <2>1. /\ pc[t] \in {"slowLoad", "slowCAS", "setParked", "park"}
        /\ \E label \in {"slowLoad", "slowCAS", "setParked", "park", "sleep"} : Goto(t, label)
    BY <1>5, Zenon DEF SlowLoad, BargeInFail, SetParked, SetParkedFail, CompareAndPark, SpinOrPark
  <2>2. UNCHANGED <<lock, ret>> /\ \A u \in Threads \ {t} : currentByteValue'[u] = currentByteValue[u]
    BY <1>1, <1>5, Zenon DEF SlowLoad, BargeInFail, SetParked, SetParkedFail, CompareAndPark, ForgetByte,
                      EnqueueAt, lotVars, byteVars, LockTypeOK
  <2>3. parkedAt[t] = Null BY <1>1, <2>1, Zenon DEF PlaceInv, OutsidePC
  <2>4. parkedAt'[t] # Cond /\ \A u \in Threads \ {t} : parkedAt'[u] = parkedAt[u]
    <3>1. UNCHANGED parkedAt \/ parkedAt' = [parkedAt EXCEPT ![t] = lock[t]]
      BY <1>5, Zenon DEF SlowLoad, BargeInFail, SetParked, SetParkedFail, CompareAndPark, EnqueueAt, lotVars
    <3>2. lock[t] # Cond /\ Null # Cond
      BY <1>1, ConditionAssumption, ParkingLotAssumption DEF LockTypeOK
    <3> QED BY <1>1, <2>3, <3>1, <3>2, Zenon DEF LotTypeOK
  <2>5. /\ DOMAIN pc' = Threads /\ \A u \in Threads \ {t} : pc'[u] = pc[u]
        /\ pc'[t] \in {"slowLoad", "slowCAS", "setParked", "park", "sleep"}
    BY <1>1, <2>1, Zenon DEF Goto, LotTypeOK
  <2>6. parkedAt[t] # Cond BY <2>3, ConditionAssumption, ParkingLotAssumption, Zenon
  <2> QED BY <2>1, <2>2, <2>4, <2>5, <2>6, CallMoves, Zenon DEF HoldingPC, AskingPC
<1>6. lock[t] \in Locks BY <1>1, Zenon DEF LockTypeOK
<1> QED BY <1>2, <1>3, <1>4, <1>5, <1>6, Zenon DEF CallLock, LockStep, Relock

\* So are the steps of unlock(),
LEMMA UnlockingMoves ==
    ASSUME LockInv, NEW t \in Threads, UnlockStep(t)
    PROVE  OthersKeep(t) /\ \A a \in Locks : MutexMove(t, a)
<1>1. LotInv /\ LotTypeOK /\ LockTypeOK /\ PlaceInv(t) BY DEF LockInv, LotInv
<1>2. UNCHANGED <<lock, currentByteValue>>
  BY Zenon DEF UnlockStep, UnlockFast, UnlockFastFail, UnlockLoad, UnlockCAS, UnlockCASFail, UnlockUnpark, byteVars
<1>3. pc[t] \in {"holding", "beforeSleep", "unlockLoad", "unlockCAS", "unparkOne"}
  BY Zenon DEF UnlockStep, UnlockFast, UnlockFastFail, UnlockLoad, UnlockCAS, UnlockCASFail, UnlockUnpark
<1>4. CASE UnlockUnpark(t) \/ UnlockCAS(t) \/ \E from \in {"holding", "beforeSleep"} : UnlockFast(t, from)
  <2> DEFINE label == AfterUnlock(t)
  <2>1. label \in {"idle", "sleep"} /\ (label = "sleep" <=> parkedAt[t] # Null) BY Zenon DEF AfterUnlock
  <2>2. /\ \/ pc'[t] = label /\ ret'[t] = "idle"
           \/ pc'[t] = "clear" /\ ret'[t] = label
        /\ \A u \in Threads \ {t} : pc'[u] = pc[u] /\ ret'[u] = ret[u]
        /\ UNCHANGED parkedAt
    <3>1. CASE UnlockUnpark(t)
      <4>1. PICK a \in Addresses : a = lock[t] BY <1>1, LockAssumption, Zenon DEF LockTypeOK
      <4>2. UnparkOneAt(t, a, label) BY <3>1, <4>1, Zenon DEF UnlockUnpark
      <4> HIDE DEF label
      <4> QED BY <1>1, <4>2, UnparkOneMoves, Zenon
    <3>2. CASE UnlockCAS(t) \/ \E from \in {"holding", "beforeSleep"} : UnlockFast(t, from)
      <4>1. Goto(t, label) /\ UNCHANGED lotVars BY <3>2, Zenon DEF UnlockCAS, UnlockFast
      <4>2. ret[t] = "idle" BY <1>1, <1>3, Zenon DEF PlaceInv
      <4> HIDE DEF label
      <4> QED BY <1>1, <4>1, <4>2, Zenon DEF Goto, lotVars, LotTypeOK
    <3> QED BY <1>4, <3>1, <3>2, Zenon
  <2> HIDE DEF label
  <2>3. OthersKeep(t) BY <1>2, <2>2, Zenon DEF OthersKeep
  <2>4. parkedAt[t] \in {Null, Cond} BY <1>1, <1>3, Zenon DEF PlaceInv, OutsidePC
  <2>5. ~(pc'[t] \in HoldingPC \/ ret'[t] = "holding") BY <2>1, <2>2, Zenon DEF HoldingPC
  <2>6. ~(pc'[t] \in AskingPC /\ parkedAt'[t] # Cond) BY <2>1, <2>2, <2>4, Zenon DEF AskingPC
  <2>7. pc[t] \in HoldingPC /\ pc[t] \notin AskingPC BY <1>3, Zenon DEF HoldingPC, AskingPC
  <2>8. \A a \in Locks : MutexMove(t, a) BY <1>2, <2>5, <2>6, <2>7, Zenon DEF MutexMove, Holds, Asks
  <2> QED BY <2>3, <2>8, Zenon
<1>5. CASE UnlockLoad(t) \/ UnlockCASFail(t) \/ \E from \in {"holding", "beforeSleep"} : UnlockFastFail(t, from)
  <2>1. \E label \in {"unlockLoad", "unlockCAS", "unparkOne"} : Goto(t, label)
    BY <1>5, Zenon DEF UnlockLoad, UnlockCASFail, UnlockFastFail
  <2>2. UNCHANGED <<parkedAt, ret>> BY <1>5, Zenon DEF UnlockLoad, UnlockCASFail, UnlockFastFail, lotVars
  <2>3. /\ DOMAIN pc' = Threads /\ \A u \in Threads \ {t} : pc'[u] = pc[u]
        /\ pc'[t] \in {"unlockLoad", "unlockCAS", "unparkOne"}
    BY <1>1, <2>1, Zenon DEF Goto, LotTypeOK
  <2> QED BY <1>2, <1>3, <2>2, <2>3, CallMoves, Zenon DEF HoldingPC, AskingPC
<1> QED BY <1>4, <1>5, Zenon DEF UnlockStep

\* the steps inside the parking lot,
LEMMA LotMoves ==
    ASSUME LockInv, NEW t \in Threads,
           LotStep(t) \/ (WakeUp(t) /\ UNCHANGED <<byteVars, m_hasWaiters>>)
    PROVE  OthersKeep(t) /\ \A a \in Locks : MutexMove(t, a)
<1>1. LotInv /\ LotTypeOK /\ LockTypeOK /\ PlaceInv(t) BY Zenon DEF LockInv, LotInv
<1>2. UNCHANGED <<lock, currentByteValue>> BY Zenon DEF LotStep, byteVars
<1>3. CASE Sleep(t) \/ WakeUp(t)
  <2>1. /\ pc[t] \in {"sleep", "blocked"} /\ \E label \in {"sleep", "blocked", "unparked"} : Goto(t, label)
        /\ UNCHANGED <<parkedAt, ret>>
    BY <1>3, Zenon DEF Sleep, WakeUp, lotVars
  <2>2. /\ DOMAIN pc' = Threads /\ \A u \in Threads \ {t} : pc'[u] = pc[u]
        /\ pc'[t] \in {"sleep", "blocked", "unparked"}
    BY <1>1, <2>1, Zenon DEF Goto, LotTypeOK
  <2> QED BY <1>2, <2>1, <2>2, CallMoves, Zenon DEF HoldingPC, AskingPC
<1>4. CASE Return(t)
  <2>1. /\ pc[t] = "unparked" /\ UNCHANGED ret
        /\ Goto(t, IF parkedAt[t] = Cond THEN "relock" ELSE "slowLoad")
        /\ parkedAt' = [parkedAt EXCEPT ![t] = Null]
    BY <1>4, Zenon DEF Return, ParkReturn
  <2>2. /\ DOMAIN pc' = Threads /\ \A u \in Threads \ {t} : pc'[u] = pc[u] /\ parkedAt'[u] = parkedAt[u]
        /\ pc'[t] = (IF parkedAt[t] = Cond THEN "relock" ELSE "slowLoad")
        /\ parkedAt'[t] = Null
    BY <1>1, <2>1, Zenon DEF Goto, LotTypeOK
  <2>3. Null # Cond BY ConditionAssumption, ParkingLotAssumption, Zenon
  <2> QED BY <1>2, <2>1, <2>2, <2>3, CallMoves, Zenon DEF HoldingPC, AskingPC
<1>5. CASE ClearAddress(t)
  <2>1. pc[t] = "clear" /\ Goto(t, "notify") /\ UNCHANGED <<parkedAt, ret>> BY <1>5, Zenon DEF ClearAddress
  <2>2. DOMAIN pc' = Threads /\ pc'[t] = "notify" /\ \A u \in Threads \ {t} : pc'[u] = pc[u]
    BY <1>1, <2>1, Zenon DEF Goto, LotTypeOK
  <2> QED BY <1>2, <2>1, <2>2, CallMoves, Zenon DEF HoldingPC, AskingPC
<1>6. CASE NotifyOne(t)
  <2>1. /\ pc[t] = "notify" /\ UNCHANGED parkedAt
        /\ \/ pc'[t] = ret[t] /\ ret'[t] = "idle"
           \/ pc'[t] = "clear" /\ ret'[t] = ret[t]
        /\ \A u \in Threads \ {t} : /\ pc'[u] = pc[u] \/ (pc[u] = "blocked" /\ pc'[u] = "sleep")
                                    /\ ret'[u] = ret[u]
    BY <1>1, <1>6, Zenon DEF NotifyOne, LotTypeOK
  <2>2. ret[t] \in {"idle", "holding", "sleep"} /\ (ret[t] = "sleep" => parkedAt[t] = Cond)
    BY <1>1, <2>1, Zenon DEF PlaceInv
  <2>3. OthersKeep(t) BY <1>2, <2>1, Zenon DEF OthersKeep
  <2>4. \A a \in Locks : MutexMove(t, a)
    BY <1>2, <2>1, <2>2, Zenon DEF MutexMove, Holds, Asks, HoldingPC, AskingPC
  <2> QED BY <2>3, <2>4, Zenon
<1> QED BY <1>3, <1>4, <1>5, <1>6, Zenon DEF LotStep

\* and the steps of the condition.
LEMMA ConditionMoves ==
    ASSUME LockInv, NEW t \in Threads,
           \/ Wait(t) \/ BeginNotify(t, "notifyOne") \/ BeginNotify(t, "notifyAll")
           \/ NotifyStep(t)
    PROVE  OthersKeep(t) /\ \A a \in Locks : MutexMove(t, a)
<1>1. LotInv /\ LotTypeOK /\ LockTypeOK /\ PlaceInv(t) BY Zenon DEF LockInv, LotInv
<1>2. UNCHANGED <<lock, currentByteValue>>
  BY Zenon DEF Wait, BeginNotify, NotifyStep, NotifyUnparkOne, NotifyStoreFalse, NotifyUnparkAll, byteVars
<1>3. CASE Wait(t)
  <2>1. /\ pc[t] = "holding" /\ UNCHANGED ret /\ Goto(t, "beforeSleep")
        /\ parkedAt' = [parkedAt EXCEPT ![t] = Cond]
    BY <1>3, Zenon DEF Wait, EnqueueAt
  <2>2. /\ DOMAIN pc' = Threads /\ \A u \in Threads \ {t} : pc'[u] = pc[u] /\ parkedAt'[u] = parkedAt[u]
        /\ pc'[t] = "beforeSleep" /\ parkedAt'[t] = Cond
    BY <1>1, <2>1, Zenon DEF Goto, LotTypeOK
  <2> QED BY <1>2, <2>1, <2>2, CallMoves, Zenon DEF HoldingPC, AskingPC
<1>4. CASE BeginNotify(t, "notifyOne") \/ BeginNotify(t, "notifyAll")
  <2>1. /\ pc[t] \in {"idle", "holding"} /\ UNCHANGED parkedAt
        /\ ret'[t] = pc[t] /\ pc'[t] \in {"notifyOne", "notifyAll"}
        /\ \A u \in Threads \ {t} : pc'[u] = pc[u] /\ ret'[u] = ret[u]
    BY <1>1, <1>4, Zenon DEF BeginNotify, Goto, LotTypeOK
  <2>2. ret[t] = "idle" BY <1>1, <2>1, Zenon DEF PlaceInv
  <2>3. OthersKeep(t) BY <1>2, <2>1, Zenon DEF OthersKeep
  <2>4. \A a \in Locks : MutexMove(t, a)
    BY <1>2, <2>1, <2>2, Zenon DEF MutexMove, Holds, Asks, HoldingPC, AskingPC
  <2> QED BY <2>3, <2>4, Zenon
<1>5. CASE NotifyStoreFalse(t)
  <2>1. pc[t] = "notifyAll" /\ Goto(t, "unparkAll") /\ UNCHANGED <<parkedAt, ret>>
    BY <1>5, Zenon DEF NotifyStoreFalse, lotVars
  <2>2. DOMAIN pc' = Threads /\ pc'[t] = "unparkAll" /\ \A u \in Threads \ {t} : pc'[u] = pc[u]
    BY <1>1, <2>1, Zenon DEF Goto, LotTypeOK
  <2> QED BY <1>2, <2>1, <2>2, CallMoves, Zenon DEF HoldingPC, AskingPC
<1>6. CASE NotifyUnparkOne(t) \/ NotifyUnparkAll(t)
  <2>1. PICK label : label = ret[t] BY Zenon
  <2>2. /\ pc[t] \in {"notifyOne", "unparkAll"}
        /\ UnparkOneAt(t, Cond, label) \/ UnparkAllAt(t, Cond, label)
    BY <1>6, <2>1, Zenon DEF NotifyUnparkOne, NotifyUnparkAll
  <2>3. label \in {"idle", "holding"} BY <1>1, <2>1, <2>2, Zenon DEF PlaceInv
  <2>4. /\ \/ pc'[t] = label /\ ret'[t] = "idle"
           \/ pc'[t] = "clear" /\ ret'[t] = label
        /\ \A u \in Threads \ {t} : pc'[u] = pc[u] /\ ret'[u] = ret[u]
        /\ UNCHANGED <<address, parkedAt>>
    BY <1>1, <2>2, ConditionAssumption, UnparkOneMoves, Zenon
  <2>5. OthersKeep(t) BY <1>2, <2>4, Zenon DEF OthersKeep
  <2>6. \A a \in Locks : MutexMove(t, a)
    BY <1>2, <2>1, <2>2, <2>3, <2>4, Zenon DEF MutexMove, Holds, Asks, HoldingPC, AskingPC
  <2> QED BY <2>5, <2>6
<1> QED BY <1>3, <1>4, <1>5, <1>6, Zenon DEF NotifyStep

(* Each Lock implements Mutex: lock(), tryLock() and the relock of a wait  *)
(* acquire it only when it is free, and unlock(), fast or slow, is the one *)
(* thing that frees it.                                                    *)
THEOREM LocksAreMutexes ==
    ASSUME NEW a \in Locks
    PROVE  Spec => Mutual(a)!SafeSpec
<1>1. Init => Mutual(a)!Init
  <2> SUFFICES ASSUME Init PROVE Mutual(a)!Init
    BY Zenon
  <2>1. \A t \in Threads : ~Holds(t, a) BY Zenon DEF Init, LotInit, Holds, HoldingPC
  <2>2. Holder(a) = Null BY <2>1, HolderIs, Zenon
  <2>3. Asking(a) = {} BY Zenon DEF Init, Asking, AskingPC
  <2> QED BY <2>2, <2>3, Zenon DEF Mutual!Init
<1>2. LockInv /\ LockInv' /\ [Next]_vars => [Mutual(a)!Next]_<<Holder(a), Asking(a)>>
  <2> SUFFICES ASSUME LockInv, LockInv', [Next]_vars
               PROVE  [Mutual(a)!Next]_<<Holder(a), Asking(a)>>
    BY Zenon
  <2>1. ASSUME NEW t \in Threads,
               \/ CallLock(t) \/ Wait(t)
               \/ BeginNotify(t, "notifyOne") \/ BeginNotify(t, "notifyAll")
               \/ LockStep(t) \/ UnlockStep(t) \/ LotStep(t) \/ NotifyStep(t)
               \/ WakeUp(t) /\ UNCHANGED <<byteVars, m_hasWaiters>>
        PROVE  [Mutual(a)!Next]_<<Holder(a), Asking(a)>>
    <3>1. OthersKeep(t) /\ MutexMove(t, a)
      <4>1. CASE CallLock(t) \/ LockStep(t) BY <4>1, LockingMoves, Zenon
      <4>2. CASE UnlockStep(t) BY <4>2, UnlockingMoves, Zenon
      <4>3. CASE LotStep(t) \/ (WakeUp(t) /\ UNCHANGED <<byteVars, m_hasWaiters>>) BY <4>3, LotMoves, Zenon
      <4>4. CASE \/ Wait(t) \/ BeginNotify(t, "notifyOne") \/ BeginNotify(t, "notifyAll")
                 \/ NotifyStep(t)
        BY <4>4, ConditionMoves, Zenon
      <4> QED BY <2>1, <4>1, <4>2, <4>3, <4>4, Zenon
    <3> QED BY <3>1, MoveImplements, Zenon
  <2>2. CASE UNCHANGED vars
    <3>1. UNCHANGED <<pc, lock, ret, parkedAt>> BY <2>2, Zenon DEF vars, lotVars, byteVars
    <3>2. \A t \in Threads : (Holds(t, a)' <=> Holds(t, a)) BY <3>1, Zenon DEF Holds
    <3>3. Asking(a)' = Asking(a) BY <3>1, Zenon DEF Asking
    <3>4. Holder(a)' = Holder(a)
      <4>1. CASE \E t \in Threads : Holds(t, a) BY <3>2, <4>1, HolderIs, HolderIsNext, Zenon
      <4>2. CASE \A t \in Threads : ~Holds(t, a) BY <3>2, <4>2, HolderIs, HolderIsNext, Zenon
      <4> QED BY <4>1, <4>2, Zenon
    <3> QED BY <3>3, <3>4, Zenon
  <2> QED BY <2>1, <2>2, Zenon DEF Next
<1> QED BY <1>1, <1>2, LockInvariance, PTL DEF Spec, Mutual!SafeSpec, Mutual!vars
=============================================================================
