---------------------------- MODULE MCMainLoop -------------------------------
(***************************************************************************)
(* Model checking of MainLoop.                                             *)
(***************************************************************************)
EXTENDS MainLoop, TLC

CONSTANTS w1, w2, m1, m2

==============================================================================
