---------------------------- MODULE MCParkingLot ----------------------------
(* Two addresses that collide in one bucket. *)
EXTENDS ParkingLotClient, TLC

CONSTANTS a1, a2, b1

Colliding == (a1 :> b1) @@ (a2 :> b1)

(* How often the threads park: those with a timeout once, or like others.  *)
TimedOnce == [t \in Threads |-> IF t \in TimedThreads THEN 1 ELSE 2]
Twice == [t \in Threads |-> 2]
=============================================================================
