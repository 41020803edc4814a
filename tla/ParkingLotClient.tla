-------------------------- MODULE ParkingLotClient --------------------------
(***************************************************************************)
(* The parking lot under its most general client: every thread parks and   *)
(* unparks at any address, also from inside beforeSleep(), as the comments *)
(* in ParkingLot.h allow.                                                  *)
(***************************************************************************)
EXTENDS ParkingLot

CONSTANT MaxParks   \* bound: how often each thread parks

ASSUME ClientAssumption == MaxParks \in [Threads -> Nat]

VARIABLE parks      \* how often each thread has parked

clientVars == <<lotVars, pc, parks>>

ClientInit ==
    /\ LotInit
    /\ pc = [t \in Threads |-> "idle"]
    /\ parks = [t \in Threads |-> 0]

(* A park whose validation returns false changes nothing. *)
Park(t, a) ==
    /\ pc[t] = "idle" /\ parks[t] < MaxParks[t]
    /\ EnqueueAt(t, a)
    /\ Goto(t, "beforeSleep")
    /\ parks' = [parks EXCEPT ![t] = @ + 1]

BeforeSleep(t) ==
    /\ pc[t] = "beforeSleep"
    /\ Goto(t, "sleep")
    /\ UNCHANGED <<lotVars, parks>>

(* unparkOne() and unparkAll() from outside and from beforeSleep(). *)
UnparkOne(t, a) ==
    /\ \/ pc[t] = "idle" /\ UnparkOneAt(t, a, "idle")
       \/ pc[t] = "beforeSleep" /\ UnparkOneAt(t, a, "sleep")
    /\ UNCHANGED parks

UnparkAll(t, a) ==
    /\ \/ pc[t] = "idle" /\ UnparkAllAt(t, a, "idle")
       \/ pc[t] = "beforeSleep" /\ UnparkAllAt(t, a, "sleep")
    /\ UNCHANGED parks

Progress(t) ==
    /\ \/ Sleep(t) \/ TimedOut(t) \/ DequeueSelf(t) \/ ClearSelf(t)
       \/ ParkReturn(t, "idle") \/ ClearAddress(t) \/ NotifyOne(t)
    /\ UNCHANGED parks

ClientNext == \E t \in Threads :
    \/ \E a \in Addresses : Park(t, a) \/ UnparkOne(t, a) \/ UnparkAll(t, a)
    \/ BeforeSleep(t) \/ Progress(t)
    \/ WakeUp(t) /\ UNCHANGED parks

ClientSpec == ClientInit /\ [][ClientNext]_clientVars

(* A thread inside a call of the parking lot keeps running; nobody is owed *)
(* a call to unparkOne(), a timeout or a spurious wakeup.                  *)
FairClientSpec ==
    ClientSpec /\ \A t \in Threads : WF_clientVars(BeforeSleep(t)) /\ WF_clientVars(Progress(t))

-----------------------------------------------------------------------------
OnQueue(t) == \E b \in Buckets : \E i \in DOMAIN bucket[b] : bucket[b][i] = t

(* A queued thread is on the queue once, in the bucket of the address it   *)
(* parks at, and nobody has taken it off: what every walk of a bucket and  *)
(* the assertions of Bucket::enqueue() rely on.                            *)
QueuesAreSound ==
    \A b \in Buckets : \A i \in DOMAIN bucket[b] :
        LET t == bucket[b][i]
        IN  /\ parkedAt[t] # Null /\ bucketOf[parkedAt[t]] = b
            /\ address[t] = parkedAt[t]
            /\ leftBy[t] = "nobody"
            /\ \A c \in Buckets : \A j \in DOMAIN bucket[c] :
                   bucket[c][j] = t => c = b /\ j = i

(* ParkingLot.h: the thread sleeps "so long as the thread continues to be  *)
(* on the queue and the timeout hasn't fired", and parkConditionally()     *)
(* "returns true if we actually got unparked or false if the timeout was   *)
(* hit".                                                                   *)
ReturnsTheTruth ==
    \A t \in Threads : pc[t] = "unparked" =>
        /\ ~OnQueue(t)
        /\ result[t] <=> leftBy[t] = "unpark"

(* A dequeued thread returns from parkConditionally(). *)
UnparkedReturns ==
    \A t \in Threads : leftBy[t] = "unpark" ~> pc[t] = "unparked"

-----------------------------------------------------------------------------
(* The threads queued at an address, first come first. *)
QueuedAt(a) == AllAmong(bucket[bucketOf[a]], {t \in Threads : address[t] = a})

Status(t) ==
    IF parkedAt[t] = Null THEN "out"
    ELSE IF pc[t] = "unparked" THEN (IF result[t] THEN "unparked" ELSE "timedOut")
    ELSE CASE leftBy[t] = "nobody" -> "parked"
           [] leftBy[t] = "unpark" -> "unparked"
           [] leftBy[t] = "itself" -> "timedOut"

PQ == INSTANCE ParkingQueues WITH
          waiters <- [a \in Addresses |-> QueuedAt(a)],
          status <- [t \in Threads |-> Status(t)]

(* Addresses that share a bucket do not disturb each other: the buckets    *)
(* behave like one FIFO queue per address, and what parkConditionally()    *)
(* returns agrees with how the thread left its queue.                      *)
IsParkingQueues == PQ!Spec
=============================================================================
