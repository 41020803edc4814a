-------------------------------- MODULE Lock --------------------------------
(***************************************************************************)
(* WTF::LockBase (Source/WTF/wtf/Lock.h and Lock.cpp): an adaptive mutex   *)
(* in one byte.  isHeldBit says that some thread has the Lock, and         *)
(* hasParkedBit that there may be threads in the ParkingLot queue of the   *)
(* byte's address, so that unlock() has to go there.  A thread uses one    *)
(* Lock at a time here; the Locks interact when their addresses share a    *)
(* bucket of the ParkingLot.                                               *)
(*                                                                         *)
(* One action is one access to m_byte or one step of the ParkingLot.       *)
(***************************************************************************)
EXTENDS ParkingLot

CONSTANTS Locks,         \* the Locks; a Lock stands for the address of its byte
          SpinLimit,     \* spinLimit of lockSlow(): 40 in the code
          WeakCASFails   \* whether a weak CAS may fail spuriously

ASSUME LockAssumption ==
    /\ Locks \subseteq Addresses
    /\ SpinLimit \in Nat
    /\ WeakCASFails \in BOOLEAN

VARIABLES m_byte,            \* the byte of each Lock
          lock,              \* the Lock that each thread is locking or unlocking
          currentByteValue,  \* the local of lockSlow()
          spinCount          \* the local of lockSlow()

byteVars == <<m_byte, lock, currentByteValue, spinCount>>

Byte == [isHeld : BOOLEAN, hasParked : BOOLEAN]

(* The byte values 0, isHeldBit, hasParkedBit and isHeldBit | hasParkedBit. *)
Zero == [isHeld |-> FALSE, hasParked |-> FALSE]
Held == [isHeld |-> TRUE, hasParked |-> FALSE]
Parked == [isHeld |-> FALSE, hasParked |-> TRUE]
HeldAndParked == [isHeld |-> TRUE, hasParked |-> TRUE]

LockPC == {"slowLoad", "slowCAS", "setParked", "park", "holding", "unlockLoad",
           "unlockCAS", "unparkOne"}

LockInit ==
    /\ m_byte = [a \in Locks |-> Zero]
    /\ lock \in [Threads -> Locks]
    /\ currentByteValue = [t \in Threads |-> Zero]
    /\ spinCount = [t \in Threads |-> 0]

Store(a, byte) == m_byte' = [m_byte EXCEPT ![a] = byte]

(* A local that is not read again has the value Zero, or 0. *)
ForgetByte(t) == currentByteValue' = [currentByteValue EXCEPT ![t] = Zero]

(* compareExchangeWeak(expected, desired) as seen by its caller. *)
CASFails(a, expected) == m_byte[a] # expected \/ WeakCASFails

-----------------------------------------------------------------------------
(* lock(), called at `from', and tryLock(): the inlined fast paths.  A     *)
(* tryLock() that returns false changes nothing.                           *)

LockFast(t, a, from) ==
    /\ pc[t] = from
    /\ m_byte[a] = Zero
    /\ Store(a, Held)
    /\ lock' = [lock EXCEPT ![t] = a]
    /\ Goto(t, "holding")
    /\ UNCHANGED <<lotVars, currentByteValue, spinCount>>

LockFastFail(t, a, from) ==
    /\ pc[t] = from
    /\ CASFails(a, Zero)
    /\ lock' = [lock EXCEPT ![t] = a]
    /\ Goto(t, "slowLoad")
    /\ UNCHANGED <<lotVars, m_byte, currentByteValue, spinCount>>

TryLock(t, a) ==
    /\ pc[t] = "idle"
    /\ ~m_byte[a].isHeld
    /\ Store(a, [m_byte[a] EXCEPT !.isHeld = TRUE])
    /\ lock' = [lock EXCEPT ![t] = a]
    /\ Goto(t, "holding")
    /\ UNCHANGED <<lotVars, currentByteValue, spinCount>>

-----------------------------------------------------------------------------
(* lockSlow() *)

(* Once the attempt to barge in has failed: spin around if nobody is       *)
(* parked and we have not spun too much; else set the parked bit if it is  *)
(* not set yet, and park.                                                  *)
SpinOrPark(t, byte) ==
    \/ /\ ~byte.hasParked /\ spinCount[t] < SpinLimit
       /\ spinCount' = [spinCount EXCEPT ![t] = @ + 1]
       /\ Goto(t, "slowLoad")
    \/ /\ ~(~byte.hasParked /\ spinCount[t] < SpinLimit)
       /\ Goto(t, IF byte.hasParked THEN "park" ELSE "setParked")
       /\ UNCHANGED spinCount

SlowLoad(t) ==
    /\ pc[t] = "slowLoad"
    /\ LET byte == m_byte[lock[t]]
       IN  /\ currentByteValue' = [currentByteValue EXCEPT ![t] = byte]
           /\ \/ byte.isHeld /\ SpinOrPark(t, byte)
              \/ ~byte.isHeld /\ Goto(t, "slowCAS") /\ UNCHANGED spinCount
    /\ UNCHANGED <<lotVars, m_byte, lock>>

(* Mutant of BargeIn: a store where the CAS is. *)
BargeInBlindly(t) ==
    /\ pc[t] = "slowCAS"
    /\ Store(lock[t], [currentByteValue[t] EXCEPT !.isHeld = TRUE])
    /\ ForgetByte(t)
    /\ spinCount' = [spinCount EXCEPT ![t] = 0]
    /\ Goto(t, "holding")
    /\ UNCHANGED <<lotVars, lock>>

BargeIn(t) ==
    /\ pc[t] = "slowCAS"
    /\ m_byte[lock[t]] = currentByteValue[t]
    /\ Store(lock[t], [currentByteValue[t] EXCEPT !.isHeld = TRUE])
    /\ ForgetByte(t)
    /\ spinCount' = [spinCount EXCEPT ![t] = 0]
    /\ Goto(t, "holding")
    /\ UNCHANGED <<lotVars, lock>>

BargeInFail(t) ==
    /\ pc[t] = "slowCAS"
    /\ CASFails(lock[t], currentByteValue[t])
    /\ SpinOrPark(t, currentByteValue[t])
    /\ UNCHANGED <<lotVars, m_byte, lock, currentByteValue>>

SetParked(t) ==
    /\ pc[t] = "setParked"
    /\ m_byte[lock[t]] = currentByteValue[t]
    /\ Store(lock[t], [currentByteValue[t] EXCEPT !.hasParked = TRUE])
    /\ ForgetByte(t)
    /\ Goto(t, "park")
    /\ UNCHANGED <<lotVars, lock, spinCount>>

SetParkedFail(t) ==
    /\ pc[t] = "setParked"
    /\ CASFails(lock[t], currentByteValue[t])
    /\ Goto(t, "slowLoad")
    /\ UNCHANGED <<lotVars, byteVars>>

(* The validation function of compareAndPark(): its load of the byte is    *)
(* made with the bucket locked.                                            *)
Validate(byte) == byte = HeldAndParked

CompareAndPark(t) ==
    /\ pc[t] = "park"
    /\ \/ /\ Validate(m_byte[lock[t]])
          /\ EnqueueAt(t, lock[t])
          /\ Goto(t, "sleep")
       \/ /\ ~Validate(m_byte[lock[t]])
          /\ Goto(t, "slowLoad")
          /\ UNCHANGED lotVars
    /\ ForgetByte(t)
    /\ UNCHANGED <<m_byte, lock, spinCount>>

-----------------------------------------------------------------------------
(* unlock() and unlockSlow().  Afterwards the thread is outside, or, when  *)
(* it unlocks in the beforeSleep() of a Condition's wait, goes to sleep.   *)

AfterUnlock(t) == IF parkedAt[t] = Null THEN "idle" ELSE "sleep"

UnlockFast(t, from) ==
    /\ pc[t] = from
    /\ m_byte[lock[t]] = Held
    /\ Store(lock[t], Zero)
    /\ Goto(t, AfterUnlock(t))
    /\ UNCHANGED <<lotVars, lock, currentByteValue, spinCount>>

UnlockFastFail(t, from) ==
    /\ pc[t] = from
    /\ CASFails(lock[t], Held)
    /\ Goto(t, "unlockLoad")
    /\ UNCHANGED <<lotVars, byteVars>>

UnlockLoad(t) ==
    /\ pc[t] = "unlockLoad"
    /\ Goto(t, IF m_byte[lock[t]] = Held THEN "unlockCAS" ELSE "unparkOne")
    /\ UNCHANGED <<lotVars, byteVars>>

UnlockCAS(t) ==
    /\ pc[t] = "unlockCAS"
    /\ m_byte[lock[t]] = Held
    /\ Store(lock[t], Zero)
    /\ Goto(t, AfterUnlock(t))
    /\ UNCHANGED <<lotVars, lock, currentByteValue, spinCount>>

UnlockCASFail(t) ==
    /\ pc[t] = "unlockCAS"
    /\ CASFails(lock[t], Held)
    /\ Goto(t, "unlockLoad")
    /\ UNCHANGED <<lotVars, byteVars>>

(* Mutant of UnlockedByte: the parked bit is always cleared. *)
AlwaysZero(mayHaveMoreThreads) == Zero

(* The byte that the callback of unparkOne() stores with the bucket locked. *)
UnlockedByte(mayHaveMoreThreads) == IF mayHaveMoreThreads THEN Parked ELSE Zero

UnlockUnpark(t) ==
    /\ pc[t] = "unparkOne"
    /\ UnparkOneAt(t, lock[t], AfterUnlock(t))
    /\ Store(lock[t], UnlockedByte(MayHaveMoreThreads(lock[t])))
    /\ UNCHANGED <<lock, currentByteValue, spinCount>>
=============================================================================
