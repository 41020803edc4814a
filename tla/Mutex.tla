-------------------------------- MODULE Mutex --------------------------------
(***************************************************************************)
(* What a WTF mutex promises its callers, whatever its algorithm: a thread *)
(* asks for it, one thread at a time has it, and if it stays free while    *)
(* some thread is asking, one of those that ask gets it.  There is no      *)
(* promise of which one: both WTF mutexes let a newcomer barge in.         *)
(***************************************************************************)
CONSTANTS Threads, Null

VARIABLES holder,    \* the thread that has the mutex, or Null
          asking     \* the threads inside a slow call to lock()

vars == <<holder, asking>>

Init == holder = Null /\ asking = {}

Ask(t) ==
    /\ t # holder /\ t \notin asking
    /\ asking' = asking \cup {t}
    /\ UNCHANGED holder

(* An uncontended lock() acquires the mutex without asking first. *)
Acquire(t) ==
    /\ holder = Null
    /\ holder' = t
    /\ asking' = asking \ {t}

Release(t) ==
    /\ holder = t
    /\ holder' = Null
    /\ UNCHANGED asking

Next == \E t \in Threads : Ask(t) \/ Acquire(t) \/ Release(t)

Grant == \E t \in asking : Acquire(t)

SafeSpec == Init /\ [][Next]_vars

Spec == SafeSpec /\ WF_vars(Grant)
==============================================================================
