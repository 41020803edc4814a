----------------------------- MODULE LockClient -----------------------------
(***************************************************************************)
(* Threads that lock and unlock Locks, for ever and in any order, one at a *)
(* time, and that wait on a Condition and notify it: Lock and Condition    *)
(* composed over one ParkingLot.  Nobody waits with a timeout.             *)
(***************************************************************************)
EXTENDS Condition

ASSUME LockClientAssumption == TimedThreads = {}

vars == <<lotVars, pc, byteVars, m_hasWaiters>>

Init ==
    /\ LotInit
    /\ LockInit
    /\ ConditionInit
    /\ pc = [t \in Threads |-> "idle"]

CallLock(t) ==
    /\ \E a \in Locks : LockFast(t, a, "idle") \/ LockFastFail(t, a, "idle") \/ TryLock(t, a)
    /\ UNCHANGED m_hasWaiters

(* The steps of a call to lock() that is under way. *)
LockStep(t) ==
    /\ \/ SlowLoad(t) \/ BargeIn(t) \/ BargeInFail(t)
       \/ SetParked(t) \/ SetParkedFail(t) \/ CompareAndPark(t) \/ Relock(t)
    /\ UNCHANGED m_hasWaiters

UnlockStep(t) ==
    /\ \/ \E from \in {"holding", "beforeSleep"} :
              UnlockFast(t, from) \/ UnlockFastFail(t, from)
       \/ UnlockLoad(t) \/ UnlockCAS(t) \/ UnlockCASFail(t) \/ UnlockUnpark(t)
    /\ UNCHANGED m_hasWaiters

LotStep(t) ==
    /\ Sleep(t) \/ Return(t) \/ ClearAddress(t) \/ NotifyOne(t)
    /\ UNCHANGED <<byteVars, m_hasWaiters>>

NotifyStep(t) == NotifyUnparkOne(t) \/ NotifyStoreFalse(t) \/ NotifyUnparkAll(t)

Next == \E t \in Threads :
    \/ CallLock(t) \/ Wait(t)
    \/ BeginNotify(t, "notifyOne") \/ BeginNotify(t, "notifyAll")
    \/ LockStep(t) \/ UnlockStep(t) \/ LotStep(t) \/ NotifyStep(t)
    \/ WakeUp(t) /\ UNCHANGED <<byteVars, m_hasWaiters>>

Spec == Init /\ [][Next]_vars

(* A thread inside a call, or holding a Lock, keeps running, and does not  *)
(* go on waiting and notifying for ever without unlocking; a loop that     *)
(* keeps retrying a weak CAS that can succeed does not fail for ever.      *)
(* Nobody is owed a call to notify.                                        *)
CASSuccess(t) ==
    /\ \/ BargeIn(t) \/ SetParked(t) \/ UnlockCAS(t)
       \/ UnlockFast(t, "holding") \/ UnlockFast(t, "beforeSleep")
    /\ UNCHANGED m_hasWaiters

Fairness == \A t \in Threads :
    /\ WF_vars(LockStep(t) \/ UnlockStep(t) \/ LotStep(t) \/ NotifyStep(t))
    /\ SF_vars(CASSuccess(t))

FairSpec == Spec /\ Fairness

-----------------------------------------------------------------------------
(* Between lock() and unlock(), also while a wait begins and while the     *)
(* holder notifies.                                                        *)
HoldingPC == {"holding", "beforeSleep", "unlockLoad", "unlockCAS", "unparkOne"}

Holds(t, a) == lock[t] = a /\ (pc[t] \in HoldingPC \/ ret[t] = "holding")

(* The threads in the queue of a's bucket that are parked at a. *)
IsQueuedAt(t, a) ==
    /\ \E i \in DOMAIN bucket[bucketOf[a]] : bucket[bucketOf[a]][i] = t
    /\ address[t] = a

(* A thread is never parked behind the back of unlock(): while it is in    *)
(* the queue the parked bit is set, so the next unlock goes to the queue.  *)
(* This is the race that unparkOne()'s callback is there to avoid.  A      *)
(* callback that finds both bits set is what unlockSlow() asserts.         *)
ParkedBitIsSet ==
    /\ \A a \in Locks, t \in Threads : IsQueuedAt(t, a) => m_byte[a].hasParked
    /\ \A t \in Threads : pc[t] = "unparkOne" => m_byte[lock[t]] = HeldAndParked

(* Everyone parked at a Lock is unparked some day, barging or not. *)
ParkedGetUnparked ==
    \A t \in Threads :
        pc[t] \in {"sleep", "blocked"} /\ parkedAt[t] \in Locks ~> pc[t] = "slowLoad"

-----------------------------------------------------------------------------
AskingPC == {"slowLoad", "slowCAS", "setParked", "park", "sleep", "blocked", "unparked"}

(* The threads inside the slow path of lock(). *)
Asking(a) == {t \in Threads : pc[t] \in AskingPC /\ lock[t] = a /\ parkedAt[t] # Cond}

Holder(a) == IF \E t \in Threads : Holds(t, a)
             THEN CHOOSE t \in Threads : Holds(t, a) ELSE Null

-----------------------------------------------------------------------------
Waits(t) == IsQueuedAt(t, Cond)

(* No notification is lost to the fast path: a notify that reads FALSE in  *)
(* m_hasWaiters while somebody waits is excused by a notifyAll() that has  *)
(* stored FALSE and has yet to unpark everyone.                            *)
HasWaitersIsHonest ==
    ~m_hasWaiters /\ (\E t \in Threads : Waits(t)) =>
        \E u \in Threads : pc[u] = "unparkAll"

(* Condition.h: "No spurious wake-up: in order for this to return before   *)
(* the timeout, some notifyOne() or notifyAll() call must have happened."  *)
NoSpuriousWakeup ==
    \A t \in Threads : pc[t] = "unparked" /\ parkedAt[t] = Cond =>
        /\ ~Waits(t)
        /\ result[t] => leftBy[t] = "unpark"

(* Once notifyAll() has seen that there are waiters, everyone who waits at *)
(* that time is woken.                                                     *)
NotifyAllWakesEveryone ==
    \A t \in Threads :
        Waits(t) /\ (\E u \in Threads : pc[u] = "notifyAll") ~> pc[t] = "unparked"
=============================================================================
