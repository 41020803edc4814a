----------------------------- MODULE MainThread ------------------------------
(***************************************************************************)
(* The queue of functions that other threads send to the main thread       *)
(* (Source/WTF/wtf/MainThread.cpp, wtf/mui/MainThreadMUI.cpp), as steps    *)
(* for MainLoop to compose.  A function is known by the id of its          *)
(* Invocation.  The queue's mutex is a Lock (module Lock), so each of its  *)
(* critical sections is one step.                                          *)
(***************************************************************************)
EXTENDS MainTask, Naturals, Functions, Queues

VARIABLES invocationQueue,
          g_functionid,
          callbacksPaused

queueVars == <<invocationQueue, g_functionid, callbacksPaused>>

QueueInit ==
    /\ invocationQueue = <<>>
    /\ g_functionid = 0
    /\ callbacksPaused = FALSE

ScheduleDispatchFunctionsOnMainThread == WakeTimer

(* The critical section of callOnMainThread() and of                       *)
(* callOnMainThreadReturningJobID(); its caller schedules if it has found  *)
(* the queue empty.                                                        *)
AppendInvocation ==
    /\ g_functionid' = g_functionid + 1
    /\ invocationQueue' = Append(invocationQueue, g_functionid')
    /\ UNCHANGED callbacksPaused

NeedToSchedule == invocationQueue = <<>>

RemoveFromMainThreadByJobID(id) ==
    /\ IF id \in Range(invocationQueue)
       THEN \E i \in DOMAIN invocationQueue :
                invocationQueue[i] = id /\ invocationQueue' = Removed(invocationQueue, i)
       ELSE UNCHANGED invocationQueue
    /\ IF invocationQueue' = <<>> THEN ScheduleDispatchFunctionsOnMainThread ELSE UNCHANGED signals
    /\ UNCHANGED <<g_functionid, callbacksPaused>>

(* Mutant: unpausing does not schedule. *)
PauseSilently(paused) ==
    /\ callbacksPaused # paused
    /\ callbacksPaused' = paused
    /\ UNCHANGED <<signals, invocationQueue, g_functionid>>

SetMainThreadCallbacksPaused(paused) ==
    /\ callbacksPaused # paused
    /\ callbacksPaused' = paused
    /\ IF paused THEN UNCHANGED signals ELSE ScheduleDispatchFunctionsOnMainThread
    /\ UNCHANGED <<invocationQueue, g_functionid>>

(* dispatchFunctionsFromMainThread() takes the next function and calls it. *)
TakeFirst ==
    /\ invocationQueue # <<>>
    /\ invocationQueue' = Tail(invocationQueue)
    /\ UNCHANGED <<g_functionid, callbacksPaused>>
==============================================================================
