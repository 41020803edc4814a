------------------------------- MODULE MCLock -------------------------------
(* Two Locks and a Condition whose bytes hash to the same bucket, the      *)
(* Condition with or without users.                                        *)
EXTENDS LockClient, TLC

CONSTANTS a1, a2, b1

TwoLocks == (a1 :> b1) @@ (a2 :> b1) @@ (Cond :> b1)
OneLock == (a1 :> b1) @@ (Cond :> b1)

M == INSTANCE Mutex WITH holder <- Holder(a1), asking <- Asking(a1)

(* Each Lock is a mutex: one holder at a time, and if it is free while     *)
(* threads are inside lockSlow() one of them gets it.                      *)
IsMutex == M!Spec
=============================================================================
