---------------------------- MODULE ParkingQueues ----------------------------
(***************************************************************************)
(* What ParkingLot.h promises: one FIFO queue of threads per address.  A   *)
(* thread that parks joins the queue of its address; unparkOne() releases  *)
(* the first thread of a queue and unparkAll() all of them; a thread with  *)
(* a timeout may leave by itself.  Whoever has left its queue returns from *)
(* parkConditionally(), with true exactly if it was unparked.              *)
(***************************************************************************)
EXTENDS Queues

CONSTANTS Threads, Addresses, TimedThreads

VARIABLES waiters,  \* the queue of each address
          status    \* where each thread stands with parkConditionally()

vars == <<waiters, status>>

Init ==
    /\ waiters = [a \in Addresses |-> <<>>]
    /\ status = [t \in Threads |-> "out"]

Park(t, a) ==
    /\ status[t] = "out"
    /\ status' = [status EXCEPT ![t] = "parked"]
    /\ waiters' = [waiters EXCEPT ![a] = Append(@, t)]

UnparkOne(a) ==
    /\ waiters[a] # <<>>
    /\ status' = [status EXCEPT ![Head(waiters[a])] = "unparked"]
    /\ waiters' = [waiters EXCEPT ![a] = Tail(@)]

UnparkAll(a) ==
    /\ waiters[a] # <<>>
    /\ status' = [t \in Threads |->
                     IF \E i \in DOMAIN waiters[a] : waiters[a][i] = t
                     THEN "unparked" ELSE status[t]]
    /\ waiters' = [waiters EXCEPT ![a] = <<>>]

TimeOut(t) ==
    /\ t \in TimedThreads /\ status[t] = "parked"
    /\ status' = [status EXCEPT ![t] = "timedOut"]
    /\ \E a \in Addresses : \E i \in DOMAIN waiters[a] :
           waiters[a][i] = t /\ waiters' = [waiters EXCEPT ![a] = Removed(@, i)]

Return(t) ==
    /\ status[t] \in {"unparked", "timedOut"}
    /\ status' = [status EXCEPT ![t] = "out"]
    /\ UNCHANGED waiters

Next ==
    \/ \E t \in Threads : TimeOut(t) \/ Return(t) \/ \E a \in Addresses : Park(t, a)
    \/ \E a \in Addresses : UnparkOne(a) \/ UnparkAll(a)

SafeSpec == Init /\ [][Next]_vars

Spec == SafeSpec /\ \A t \in Threads : WF_vars(Return(t))
==============================================================================
