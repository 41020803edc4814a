-------------------------- MODULE MCParkingLotTable --------------------------
(* Two addresses that collide in the small table and not in the big one.   *)
EXTENDS ParkingLotTable, TLC

CONSTANTS a1, a2

Hash == (a1 :> 1) @@ (a2 :> 2)

Symmetry == Permutations(Threads)
==============================================================================
