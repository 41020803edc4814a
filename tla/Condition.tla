------------------------------ MODULE Condition ------------------------------
(***************************************************************************)
(* WTF::ConditionBase (Source/WTF/wtf/Condition.h) used with WTF::Lock: a  *)
(* condition variable in one byte, m_hasWaiters, whose address is the      *)
(* ParkingLot queue of its waiters.  Threads wait on it while they hold a  *)
(* Lock, and notify with or without holding one.                           *)
(*                                                                         *)
(* The forms of wait that take a predicate are loops of a client around    *)
(* waitUntil().  A timeout that has already passed makes waitUntil() an    *)
(* unlock() and a lock(), which clients do here anyway.                    *)
(***************************************************************************)
EXTENDS Lock

CONSTANTS Cond,      \* the Condition; it stands for the address of its byte
          Waiters,   \* the threads that wait
          Notifiers  \* the threads that notify

ASSUME ConditionAssumption ==
    /\ Cond \in Addresses \ Locks
    /\ Waiters \subseteq Threads
    /\ Notifiers \subseteq Threads

VARIABLE m_hasWaiters

ConditionInit == m_hasWaiters = FALSE

-----------------------------------------------------------------------------
(* waitUntil() *)

(* The validation function sets m_hasWaiters with the bucket locked. *)
Wait(t) ==
    /\ t \in Waiters
    /\ pc[t] = "holding"
    /\ m_hasWaiters' = TRUE
    /\ EnqueueAt(t, Cond)
    /\ Goto(t, "beforeSleep")
    /\ UNCHANGED byteVars

(* parkConditionally() returns to waitUntil(), or to lockSlow(). *)
Return(t) == ParkReturn(t, IF parkedAt[t] = Cond THEN "relock" ELSE "slowLoad")

Relock(t) == LockFast(t, lock[t], "relock") \/ LockFastFail(t, lock[t], "relock")

-----------------------------------------------------------------------------
(* notifyOne() and notifyAll().  With nobody waiting they change nothing.  *)

BeginNotify(t, label) ==
    /\ t \in Notifiers
    /\ pc[t] \in {"idle", "holding"}
    /\ m_hasWaiters
    /\ ret' = [ret EXCEPT ![t] = pc[t]]
    /\ Goto(t, label)
    /\ UNCHANGED <<bucket, address, parkedAt, result, leftBy, woken, byteVars, m_hasWaiters>>

(* Mutant of HasWaitersAfter: notifyOne() leaves nobody. *)
NoWaitersAfter(mayHaveMoreThreads) == FALSE

(* What notifyOne()'s callback leaves in m_hasWaiters. *)
HasWaitersAfter(mayHaveMoreThreads) == m_hasWaiters /\ mayHaveMoreThreads

NotifyUnparkOne(t) ==
    /\ pc[t] = "notifyOne"
    /\ UnparkOneAt(t, Cond, ret[t])
    /\ m_hasWaiters' = HasWaitersAfter(MayHaveMoreThreads(Cond))
    /\ UNCHANGED byteVars

NotifyStoreFalse(t) ==
    /\ pc[t] = "notifyAll"
    /\ m_hasWaiters' = FALSE
    /\ Goto(t, "unparkAll")
    /\ UNCHANGED <<lotVars, byteVars>>

(* Mutant of NotifyUnparkAll: notifyAll() unparks one. *)
NotifyAllUnparksOne(t) ==
    /\ pc[t] = "unparkAll"
    /\ UnparkOneAt(t, Cond, ret[t])
    /\ UNCHANGED <<byteVars, m_hasWaiters>>

NotifyUnparkAll(t) ==
    /\ pc[t] = "unparkAll"
    /\ UnparkAllAt(t, Cond, ret[t])
    /\ UNCHANGED <<byteVars, m_hasWaiters>>
==============================================================================
