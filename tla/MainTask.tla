------------------------------ MODULE MainTask -------------------------------
(***************************************************************************)
(* The main task of the browser as the other tasks see it: exec signals.   *)
(* A signal is a bit: sending one that is set already changes nothing.     *)
(***************************************************************************)
CONSTANTS Main,   \* the main task
          None    \* no task, no time

VARIABLES signals,  \* the signals pending at the main task
          mstask    \* the main task, or None after methodstack_cleanup()

SignalMain(bits) == signals' = signals \cup bits

(* Signal(mstask, ...): lost when mstask is NULL. *)
SignalMstask(bits) == signals' = IF mstask = Main THEN signals \cup bits ELSE signals

WakeTimer == SignalMstask({"CTRL_E"})
==============================================================================
