------------------------------ MODULE WordLock ------------------------------
(***************************************************************************)
(* WTF::WordLock (Source/WTF/wtf/WordLock.h and WordLock.cpp): an adaptive *)
(* mutex in one machine word.  The word holds two bits, isLockedBit and    *)
(* isQueueLockedBit, and a pointer to the ThreadData at the head of an     *)
(* intrusive FIFO queue of parked threads.  The second bit is a spinlock   *)
(* that protects the queue.                                                *)
(*                                                                         *)
(* One action is one access to m_word, to a ThreadData's parkingLock       *)
(* critical section, or to the queue links while the queue spinlock is     *)
(* held.  A compareExchangeWeak is two actions, its success and its        *)
(* failure; the failure is also possible while the word has the expected   *)
(* value when WeakCASFails is TRUE (load-linked/store-conditional          *)
(* machines such as the PowerPC).                                          *)
(***************************************************************************)
EXTENDS Naturals, FiniteSets, Sequences

CONSTANTS Threads,       \* the threads that use the lock
          Null,          \* the null ThreadData pointer
          SpinLimit,     \* spinLimit of lockSlow(): 40 in the code
          WeakCASFails   \* whether a weak CAS may fail spuriously

ASSUME WordLockAssumption ==
    /\ IsFiniteSet(Threads) /\ Null \notin Threads
    /\ SpinLimit \in Nat
    /\ WeakCASFails \in BOOLEAN

VARIABLES m_word,            \* the lock word
          shouldPark,        \* ThreadData::shouldPark
          nextInQueue,       \* ThreadData::nextInQueue
          queueTail,         \* ThreadData::queueTail
          pc,                \* where each thread is
          currentWordValue,  \* the local of lockSlow() and unlockSlow()
          spinCount          \* the local of lockSlow()

vars == <<m_word, shouldPark, nextInQueue, queueTail, pc, currentWordValue,
          spinCount>>

ThreadDataPtr == Threads \cup {Null}

Word == [isLocked : BOOLEAN, isQueueLocked : BOOLEAN, head : ThreadDataPtr]

(* The words the code writes as 0 and as isLockedBit. *)
ZeroWord == [isLocked |-> FALSE, isQueueLocked |-> FALSE, head |-> Null]
LockedWord == [isLocked |-> TRUE, isQueueLocked |-> FALSE, head |-> Null]

PC == {"idle", "slowLoad", "slowCAS", "reload", "queueCAS", "enqueue",
       "publish", "park", "waiting", "holding", "unlockLoad", "unlockCAS",
       "dequeueCAS", "dequeue", "release", "clear", "unpark", "notify"}

Init ==
    /\ m_word = ZeroWord
    /\ shouldPark = [t \in Threads |-> FALSE]
    /\ nextInQueue = [t \in Threads |-> Null]
    /\ queueTail = [t \in Threads |-> Null]
    /\ pc = [t \in Threads |-> "idle"]
    /\ currentWordValue = [t \in Threads |-> ZeroWord]
    /\ spinCount = [t \in Threads |-> 0]

Goto(t, label) == pc' = [pc EXCEPT ![t] = label]

LoadWord(t) == currentWordValue' = [currentWordValue EXCEPT ![t] = m_word]

(* compareExchangeWeak(expected, desired) as seen by its caller. *)
CASFails(expected) == m_word # expected \/ WeakCASFails

queues == <<shouldPark, nextInQueue, queueTail>>

-----------------------------------------------------------------------------
(* lock(): the inlined fast path. *)

LockFast(t) ==
    /\ pc[t] = "idle"
    /\ m_word = ZeroWord
    /\ m_word' = LockedWord
    /\ Goto(t, "holding")
    /\ UNCHANGED <<queues, currentWordValue, spinCount>>

LockFastFail(t) ==
    /\ pc[t] = "idle"
    /\ CASFails(ZeroWord)
    /\ Goto(t, "slowLoad")
    /\ spinCount' = [spinCount EXCEPT ![t] = 0]
    /\ UNCHANGED <<m_word, queues, currentWordValue>>

-----------------------------------------------------------------------------
(* lockSlow() *)

(* If there is no queue and the thread has not spun too much it spins      *)
(* around again; otherwise it goes on to put itself on the queue.          *)
SpinOrQueue(t, word) ==
    \/ /\ word.head = Null /\ spinCount[t] < SpinLimit
       /\ spinCount' = [spinCount EXCEPT ![t] = @ + 1]
       /\ Goto(t, "slowLoad")
    \/ /\ ~(word.head = Null /\ spinCount[t] < SpinLimit)
       /\ Goto(t, "reload")
       /\ UNCHANGED spinCount

SlowLoad(t) ==
    /\ pc[t] = "slowLoad"
    /\ LoadWord(t)
    /\ IF m_word.isLocked
       THEN SpinOrQueue(t, m_word)
       ELSE Goto(t, "slowCAS") /\ UNCHANGED spinCount
    /\ UNCHANGED <<m_word, queues>>

(* Mutant: the slow path stores the word instead of comparing first. *)
SlowAcquireBlindly(t) ==
    /\ pc[t] = "slowCAS"
    /\ m_word' = [m_word EXCEPT !.isLocked = TRUE]
    /\ Goto(t, "holding")
    /\ UNCHANGED <<queues, currentWordValue, spinCount>>

SlowAcquire(t) ==
    /\ pc[t] = "slowCAS"
    /\ m_word = currentWordValue[t]
    /\ m_word' = [m_word EXCEPT !.isLocked = TRUE]
    /\ Goto(t, "holding")
    /\ UNCHANGED <<queues, currentWordValue, spinCount>>

SlowAcquireFail(t) ==
    /\ pc[t] = "slowCAS"
    /\ CASFails(currentWordValue[t])
    /\ SpinOrQueue(t, currentWordValue[t])
    /\ UNCHANGED <<m_word, queues, currentWordValue>>

(* Mutant: the reload no longer checks that the WordLock is still held. *)
QueueLockIsFree(word) == ~word.isQueueLocked

(* We proceed only if the queue lock is not held and the WordLock is. *)
MayTakeQueueLock(word) == word.isLocked /\ ~word.isQueueLocked

Reload(t) ==
    /\ pc[t] = "reload"
    /\ LoadWord(t)
    /\ Goto(t, IF MayTakeQueueLock(m_word) THEN "queueCAS" ELSE "slowLoad")
    /\ UNCHANGED <<m_word, queues, spinCount>>

TakeQueueLock(t) ==
    /\ pc[t] = "queueCAS"
    /\ m_word = currentWordValue[t]
    /\ m_word' = [m_word EXCEPT !.isQueueLocked = TRUE]
    /\ Goto(t, "enqueue")
    /\ UNCHANGED <<queues, currentWordValue, spinCount>>

TakeQueueLockFail(t) ==
    /\ pc[t] = "queueCAS"
    /\ CASFails(currentWordValue[t])
    /\ Goto(t, "slowLoad")
    /\ UNCHANGED <<m_word, queues, currentWordValue, spinCount>>

(* Append t to the queue headed by `head', or make t the queue head. *)
LinkAtTail(t, head) ==
    IF head = Null
    THEN /\ queueTail' = [queueTail EXCEPT ![t] = t]
         /\ UNCHANGED nextInQueue
    ELSE /\ nextInQueue' = [nextInQueue EXCEPT ![queueTail[head]] = t]
         /\ queueTail' = [queueTail EXCEPT ![head] = t]

Enqueue(t) ==
    /\ pc[t] = "enqueue"
    /\ shouldPark' = [shouldPark EXCEPT ![t] = TRUE]
    /\ LinkAtTail(t, currentWordValue[t].head)
    /\ LoadWord(t)
    /\ Goto(t, "publish")
    /\ UNCHANGED <<m_word, spinCount>>

(* The word stored to release the queue lock after t has been linked. *)
PublishedWord(t, word) ==
    [word EXCEPT !.isQueueLocked = FALSE,
                 !.head = IF word.head = Null THEN t ELSE @]

Publish(t) ==
    /\ pc[t] = "publish"
    /\ m_word' = PublishedWord(t, currentWordValue[t])
    /\ Goto(t, "park")
    /\ UNCHANGED <<queues, currentWordValue, spinCount>>

(* while (me->shouldPark) parkingCondition.wait(locker), the test made     *)
(* holding parkingLock, which wait() releases atomically.                  *)
Park(t) ==
    /\ pc[t] = "park"
    /\ Goto(t, IF shouldPark[t] THEN "waiting" ELSE "slowLoad")
    /\ UNCHANGED <<m_word, queues, currentWordValue, spinCount>>

(* std::condition_variable may wake a waiter without a notification. *)
SpuriousWakeup(t) ==
    /\ pc[t] = "waiting"
    /\ Goto(t, "park")
    /\ UNCHANGED <<m_word, queues, currentWordValue, spinCount>>

-----------------------------------------------------------------------------
(* unlock(): the inlined fast path. *)

UnlockFast(t) ==
    /\ pc[t] = "holding"
    /\ m_word = LockedWord
    /\ m_word' = ZeroWord
    /\ Goto(t, "idle")
    /\ UNCHANGED <<queues, currentWordValue, spinCount>>

UnlockFastFail(t) ==
    /\ pc[t] = "holding"
    /\ CASFails(LockedWord)
    /\ Goto(t, "unlockLoad")
    /\ UNCHANGED <<m_word, queues, currentWordValue, spinCount>>

-----------------------------------------------------------------------------
(* unlockSlow() *)

(* What unlockSlow() does next with the word it has loaded. *)
UnlockStep(word) ==
    CASE word = LockedWord  -> "unlockCAS"
      [] word.isQueueLocked -> "unlockLoad"
      [] OTHER              -> "dequeueCAS"

UnlockLoad(t) ==
    /\ pc[t] = "unlockLoad"
    /\ LoadWord(t)
    /\ Goto(t, UnlockStep(m_word))
    /\ UNCHANGED <<m_word, queues, spinCount>>

UnlockRelease(t) ==
    /\ pc[t] = "unlockCAS"
    /\ m_word = LockedWord
    /\ m_word' = ZeroWord
    /\ Goto(t, "idle")
    /\ UNCHANGED <<queues, currentWordValue, spinCount>>

UnlockReleaseFail(t) ==
    /\ pc[t] = "unlockCAS"
    /\ CASFails(LockedWord)
    /\ Goto(t, "unlockLoad")
    /\ UNCHANGED <<m_word, queues, currentWordValue, spinCount>>

UnlockTakeQueue(t) ==
    /\ pc[t] = "dequeueCAS"
    /\ m_word = currentWordValue[t]
    /\ m_word' = [m_word EXCEPT !.isQueueLocked = TRUE]
    /\ Goto(t, "dequeue")
    /\ UNCHANGED <<queues, currentWordValue, spinCount>>

UnlockTakeQueueFail(t) ==
    /\ pc[t] = "dequeueCAS"
    /\ CASFails(currentWordValue[t])
    /\ Goto(t, "unlockLoad")
    /\ UNCHANGED <<m_word, queues, currentWordValue, spinCount>>

(* Mutant: the new queue head is not told where the tail is. *)
TailNotHandedOver(head) == queueTail

(* The thread after the queue head takes on the queue head's duties. *)
HandOverTail(head) ==
    LET newQueueHead == nextInQueue[head]
    IN  IF newQueueHead = Null
        THEN queueTail
        ELSE [queueTail EXCEPT ![newQueueHead] = queueTail[head]]

Dequeue(t) ==
    /\ pc[t] = "dequeue"
    /\ LoadWord(t)
    /\ queueTail' = HandOverTail(m_word.head)
    /\ Goto(t, "release")
    /\ UNCHANGED <<m_word, shouldPark, nextInQueue, spinCount>>

(* Mutant: the new queue head is not installed. *)
ReleasedWithoutHead(newQueueHead) == ZeroWord

(* Releases the WordLock and the queue lock and installs the new head. *)
ReleasedWord(newQueueHead) ==
    [isLocked |-> FALSE, isQueueLocked |-> FALSE, head |-> newQueueHead]

Release(t) ==
    /\ pc[t] = "release"
    /\ m_word' = ReleasedWord(nextInQueue[currentWordValue[t].head])
    /\ Goto(t, "clear")
    /\ UNCHANGED <<queues, currentWordValue, spinCount>>

(* From here on `currentWordValue[t].head' is the local queueHead: the     *)
(* thread that unlockSlow() has dequeued and still has to wake up.         *)
Clear(t) ==
    /\ pc[t] = "clear"
    /\ LET queueHead == currentWordValue[t].head
       IN  /\ nextInQueue' = [nextInQueue EXCEPT ![queueHead] = Null]
           /\ queueTail' = [queueTail EXCEPT ![queueHead] = Null]
    /\ Goto(t, "unpark")
    /\ UNCHANGED <<m_word, shouldPark, currentWordValue, spinCount>>

Unpark(t) ==
    /\ pc[t] = "unpark"
    /\ shouldPark' = [shouldPark EXCEPT ![currentWordValue[t].head] = FALSE]
    /\ Goto(t, "notify")
    /\ UNCHANGED <<m_word, nextInQueue, queueTail, currentWordValue, spinCount>>

(* Mutant: shouldPark is cleared but nobody is notified. *)
NotifyNobody(t) ==
    /\ pc[t] = "notify"
    /\ Goto(t, "idle")
    /\ UNCHANGED <<m_word, queues, currentWordValue, spinCount>>

Notify(t) ==
    /\ pc[t] = "notify"
    /\ LET queueHead == currentWordValue[t].head
       IN  pc' = [u \in Threads |->
                     CASE u = t                                   -> "idle"
                       [] u = queueHead /\ pc[u] = "waiting"      -> "park"
                       [] OTHER                                   -> pc[u]]
    /\ UNCHANGED <<m_word, queues, currentWordValue, spinCount>>

-----------------------------------------------------------------------------
(* The steps of a call to lock() that has been made. *)
LockStep(t) ==
    \/ SlowLoad(t) \/ SlowAcquire(t) \/ SlowAcquireFail(t)
    \/ Reload(t) \/ TakeQueueLock(t) \/ TakeQueueLockFail(t)
    \/ Enqueue(t) \/ Publish(t) \/ Park(t) \/ SpuriousWakeup(t)

UnlockStepOf(t) ==
    \/ UnlockFast(t) \/ UnlockFastFail(t)
    \/ UnlockLoad(t) \/ UnlockRelease(t) \/ UnlockReleaseFail(t)
    \/ UnlockTakeQueue(t) \/ UnlockTakeQueueFail(t)
    \/ Dequeue(t) \/ Release(t) \/ Clear(t) \/ Unpark(t) \/ Notify(t)

Next == \E t \in Threads :
    LockFast(t) \/ LockFastFail(t) \/ LockStep(t) \/ UnlockStepOf(t)

Spec == Init /\ [][Next]_vars

(* Every thread that is inside lock() or unlock(), or holds the lock, keeps *)
(* running; a thread outside need never call lock() again, and a sleeper is *)
(* not owed a spurious wakeup.  A weak CAS may fail spuriously, but a loop  *)
(* that keeps retrying it while it can succeed does not fail for ever.      *)
CASSuccess(t) ==
    \/ SlowAcquire(t) \/ TakeQueueLock(t)
    \/ UnlockFast(t) \/ UnlockRelease(t) \/ UnlockTakeQueue(t)

ThreadProgress(t) ==
    \/ SlowLoad(t) \/ SlowAcquire(t) \/ SlowAcquireFail(t)
    \/ Reload(t) \/ TakeQueueLock(t) \/ TakeQueueLockFail(t)
    \/ Enqueue(t) \/ Publish(t) \/ Park(t) \/ UnlockStepOf(t)

Fairness == \A t \in Threads : WF_vars(ThreadProgress(t)) /\ SF_vars(CASSuccess(t))

FairSpec == Spec /\ Fairness

-----------------------------------------------------------------------------
(* The word, the ThreadDatas and the locals stay within their types: above *)
(* all lockSlow() queues instead of spinning past its spin limit.          *)
TypeOK ==
    /\ m_word \in Word
    /\ shouldPark \in [Threads -> BOOLEAN]
    /\ nextInQueue \in [Threads -> ThreadDataPtr]
    /\ queueTail \in [Threads -> ThreadDataPtr]
    /\ pc \in [Threads -> PC]
    /\ currentWordValue \in [Threads -> Word]
    /\ spinCount \in [Threads -> 0..SpinLimit]

HoldingPC == {"holding", "unlockLoad", "unlockCAS", "dequeueCAS", "dequeue",
              "release"}
QueuePC == {"enqueue", "publish", "dequeue", "release"}

Holds(t) == pc[t] \in HoldingPC
OwnsQueue(t) == pc[t] \in QueuePC

(* Two threads are never both between a return from lock() and the store   *)
(* with which unlock() gives the WordLock up.                              *)
MutualExclusion == \A t, u \in Threads : Holds(t) /\ Holds(u) => t = u

(* The ASSERTs on the word: the queue spinlock has one owner, it is only   *)
(* held while the WordLock itself is, and isLockedBit is set exactly while *)
(* some thread has the WordLock.                                           *)
BitsTellTheTruth ==
    /\ m_word.isLocked <=> \E t \in Threads : Holds(t)
    /\ m_word.isQueueLocked <=> \E t \in Threads : OwnsQueue(t)
    /\ \A t, u \in Threads : OwnsQueue(t) /\ OwnsQueue(u) => t = u
    /\ m_word.isQueueLocked => m_word.isLocked

WordIsGoodAt(t) ==
    LET word == currentWordValue[t]
    IN  /\ pc[t] = "slowCAS" => ~word.isLocked /\ ~word.isQueueLocked
        /\ pc[t] = "queueCAS" => word.isLocked /\ ~word.isQueueLocked
        /\ pc[t] = "dequeueCAS" =>
               word.isLocked /\ ~word.isQueueLocked /\ word.head # Null
        /\ pc[t] = "enqueue" => m_word = [word EXCEPT !.isQueueLocked = TRUE]
        /\ pc[t] \in {"publish", "release"} => word = m_word
        /\ pc[t] \in {"dequeue", "release"} => m_word.head # Null
        /\ pc[t] \in {"clear", "unpark", "notify"} => word.head # Null

(* What a thread still knows about the word from the value it loaded: the  *)
(* conditions it tested before a CAS, and that nobody else writes the word *)
(* while it owns the queue.  These are the ASSERTs on currentWordValue in  *)
(* lockSlow() and unlockSlow().                                            *)
LoadedWordIsGood == \A t \in Threads : WordIsGoodAt(t)

(* q is the queue as the links have it: the threads met on the way from    *)
(* the head along nextInQueue.                                             *)
IsQueue(q) ==
    /\ q = <<>> <=> m_word.head = Null
    /\ q # <<>> => q[1] = m_word.head /\ nextInQueue[q[Len(q)]] = Null
    /\ \A i \in 1..(Len(q) - 1) : nextInQueue[q[i]] = q[i + 1]

(* A list that ends has no more nodes than there are threads. *)
Lists == UNION {[1..n -> Threads] : n \in 0..Cardinality(Threads)}

Queue == IF \E q \in Lists : IsQueue(q) THEN CHOOSE q \in Lists : IsQueue(q) ELSE <<>>

(* Whenever the queue spinlock is free the queue is a list: the links end, *)
(* no thread is on it twice, every thread on it has been told to park, and *)
(* the head's queueTail, which the next thread will append to, is its last *)
(* node.                                                                   *)
QueueIsList ==
    m_word.isQueueLocked \/
    /\ IsQueue(Queue)
    /\ \A i, j \in DOMAIN Queue : Queue[i] = Queue[j] => i = j
    /\ \A i \in DOMAIN Queue : shouldPark[Queue[i]]
    /\ m_word.head # Null => queueTail[m_word.head] = Queue[Len(Queue)]

(* The queue changes only by one thread joining at the tail or by the head *)
(* leaving: no unlock ever wakes a thread before one that queued earlier.  *)
QueueIsFIFO ==
    [][\/ Queue' = Queue
       \/ \E t \in Threads : Queue' = Append(Queue, t)
       \/ Queue # <<>> /\ Queue' = Tail(Queue)]_vars

(* A thread that parks on the WordLock gets to contend for it again,       *)
(* although others may keep barging in ahead of it.                        *)
SleepersWake ==
    \A t \in Threads : pc[t] \in {"park", "waiting"} ~> pc[t] = "slowLoad"

(* The threads inside lockSlow(). *)
AskingPC == {"slowLoad", "slowCAS", "reload", "queueCAS", "enqueue", "publish",
             "park", "waiting"}

Asking == {t \in Threads : pc[t] \in AskingPC}

Holder == IF \E t \in Threads : Holds(t) THEN CHOOSE t \in Threads : Holds(t) ELSE Null

M == INSTANCE Mutex WITH holder <- Holder, asking <- Asking

(* The WordLock is a mutex: at most one holder, and if it is free while    *)
(* threads are in lockSlow() one of them gets it.                          *)
IsMutex == M!Spec
=============================================================================
