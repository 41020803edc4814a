------------------------------ MODULE MainLoop -------------------------------
(***************************************************************************)
(* The event loop of the Odyssey Web Browser: main_loop()                  *)
(* (Tools/OdysseyWebBrowser/main.cpp) and OWBApp_WebKitEvents              *)
(* (Source/WebKit/mui/Api/MorphOS/appclass.cpp), with everything that has  *)
(* work for the main task: functions from other threads (MainThread),      *)
(* methods pushed by other tasks (MethodStack) and timers (SharedTimer).   *)
(*                                                                         *)
(* The code of the application runs in the main task while it handles      *)
(* input, performs a method, calls a function or fires a timer; there it   *)
(* may do any of the operations of `ClientStep'.                           *)
(* There is one window with one browser in it: closing the last window     *)
(* quits (OWBWindow_Close).                                                *)
(***************************************************************************)
EXTENDS SharedTimer, MainThread, MethodStack

CONSTANTS MaxJobs,    \* bound: how many functions are sent to the main thread
          MaxPushes,  \* bound: how many methods other tasks push
          MaxOps      \* bound: how many operations the application makes

ASSUME MainLoopAssumption == {MaxJobs, MaxPushes, MaxOps} \subseteq Nat

VARIABLES pc,        \* where the main task is
          stack,     \* where it goes on when the call it is in returns
          running,   \* the local of main_loop(); is_quitting is its negation
          mark,      \* history: the pushes made before the main task's own one
          ops,       \* the operations the application has made
          workerPC

loopVars == <<pc, stack, running, mark, ops, workerPC>>

vars == <<signals, mstask, timerVars, queueVars, stackVars, loopVars>>

Init ==
    /\ signals = {} /\ mstask = Main
    /\ TimerInit /\ QueueInit /\ StackInit
    /\ pc = "input" /\ stack = <<>>
    /\ running = TRUE
    /\ mark = 0 /\ ops = 0
    /\ workerPC = [w \in Workers |-> "idle"]

(* The parts of the state that a step of one component leaves alone. *)
KeepTask == UNCHANGED <<signals, mstask>>
KeepTimers == UNCHANGED timerVars
KeepQueue == UNCHANGED queueVars
KeepStack == UNCHANGED stackVars
KeepLoop == UNCHANGED <<running, mark, ops, workerPC>>

Goto(label) == pc' = label /\ UNCHANGED stack
Call(label, rets) == pc' = label /\ stack' = rets \o stack
Return == pc' = Head(stack) /\ stack' = Tail(stack)

-----------------------------------------------------------------------------
(* main_loop() *)

(* NewInput has handled some input; if there is more it returns no signals *)
(* to wait for, and the loop does not wait.                                *)
NewInput(waits) ==
    /\ pc = "input"
    /\ Call("check", IF waits THEN <<"wait">> ELSE <<"check", "input">>)
    /\ KeepTask /\ KeepTimers /\ KeepQueue /\ KeepStack /\ KeepLoop

NewInputQuit ==
    /\ pc = "input"
    /\ running' = FALSE
    /\ Call("check", <<"check", "dispose">>)
    /\ UNCHANGED <<signals, mstask, mark, ops, workerPC>>
    /\ KeepTimers /\ KeepQueue /\ KeepStack

(* OWBApp_WebKitEvents: fireWebKitThreadEvents(), which returns at once    *)
(* when the callbacks are paused, and then fireWebKitTimerEvents().        *)
WebKitEvents == IF callbacksPaused THEN "fire" ELSE "dispatch"

WaitMask == {"input", "CTRL_C", "CTRL_E", "CTRL_F"}

Wait ==
    LET got == signals \cap WaitMask
    IN  /\ pc = "wait" /\ got # {}
        /\ signals' = signals \ WaitMask
        /\ running' = ("CTRL_C" \notin got)
        /\ LET next == IF running' THEN "input" ELSE "dispose"
           IN  IF "CTRL_E" \in got
               THEN Call(WebKitEvents, <<"check", next>>)
               ELSE Call("check", <<next>>)
    /\ UNCHANGED <<mstask, mark, ops, workerPC>>
    /\ KeepTimers /\ KeepQueue /\ KeepStack

(* methodstack_check() *)
CheckEmpty ==
    /\ pc = "check" /\ methodlist = <<>>
    /\ Return
    /\ KeepTask /\ KeepTimers /\ KeepQueue /\ KeepStack /\ KeepLoop

CheckMethod ==
    /\ pc = "check"
    /\ RemHead
    /\ Goto("method")
    /\ KeepTask /\ KeepTimers /\ KeepQueue /\ KeepLoop

MethodReturns ==
    /\ pc = "method"
    /\ ReplyMsg
    /\ IF Head(current).not_empty THEN Goto("check") ELSE Return
    /\ KeepTask /\ KeepTimers /\ KeepQueue /\ KeepLoop

-----------------------------------------------------------------------------
(* dispatchFunctionsFromMainThread() *)
DispatchEmpty ==
    /\ pc = "dispatch" /\ invocationQueue = <<>>
    /\ Goto("fire")
    /\ KeepTask /\ KeepTimers /\ KeepQueue /\ KeepStack /\ KeepLoop

DispatchFunction ==
    /\ pc = "dispatch"
    /\ TakeFirst
    /\ Goto("function")
    /\ KeepTask /\ KeepTimers /\ KeepStack /\ KeepLoop

(* Mutant: the rest of the queue is forgotten after a long function. *)
FunctionReturnsForgetting(tooLong) ==
    /\ pc = "function"
    /\ Goto(IF tooLong THEN "fire" ELSE "dispatch")
    /\ KeepTask /\ KeepTimers /\ KeepQueue /\ KeepStack /\ KeepLoop

(* The function returns, perhaps after more than maxRunLoopSuspensionTime. *)
FunctionReturns(tooLong) ==
    /\ pc = "function"
    /\ IF tooLong
       THEN ScheduleDispatchFunctionsOnMainThread /\ Goto("fire")
       ELSE UNCHANGED signals /\ Goto("dispatch")
    /\ UNCHANGED mstask /\ KeepTimers /\ KeepQueue /\ KeepStack /\ KeepLoop

(* fireTimerIfNeeded(): sharedTimerFiredInternal() *)
SharedTimerFired ==
    /\ pc = "fire"
    /\ IF m_firingTimers
       THEN Return /\ KeepTimers
       ELSE BeginFiring /\ Goto("firing")
    /\ KeepTask /\ KeepQueue /\ KeepStack /\ KeepLoop

FireTimer ==
    /\ pc = "firing"
    /\ FireFirst
    /\ Goto("fired")
    /\ KeepTask /\ KeepQueue /\ KeepStack /\ KeepLoop

(* fired() returns, perhaps after more than maxDurationOfFiringTimers. *)
FiredReturns(tooLong) ==
    /\ pc = "fired"
    /\ Goto(IF tooLong \/ ~m_firingTimers THEN "endFiring" ELSE "firing")
    /\ KeepTask /\ KeepTimers /\ KeepQueue /\ KeepStack /\ KeepLoop

SharedTimerDone ==
    /\ pc = "endFiring" \/ (pc = "firing" /\ ~FirstIsDue)
    /\ EndFiring
    /\ Return
    /\ KeepTask /\ KeepQueue /\ KeepStack /\ KeepLoop

-----------------------------------------------------------------------------
(* After the loop: destroy_application() disposes of the application       *)
(* object, whose OM_DISPOSE flushes the methods once its windows are gone, *)
(* and cleans up the methods.  TimerDelete() is called at exit.            *)
DisposeObject ==
    /\ pc = "dispose"
    /\ Flush
    /\ Goto("disposed")
    /\ KeepTask /\ KeepTimers /\ KeepQueue /\ KeepLoop

DestroyApplication ==
    /\ pc = "disposed"
    /\ Cleanup
    /\ Goto("exit")
    /\ UNCHANGED signals /\ KeepTimers /\ KeepQueue /\ KeepLoop

TimerDelete ==
    /\ pc = "exit"
    /\ timerSignals' = timerSignals \cup {"Term"}
    /\ Goto("deleting")
    /\ UNCHANGED <<signals, mstask, threadTimersVars, Interval, timerTaskVars>>
    /\ KeepQueue /\ KeepStack /\ KeepLoop

TimerDeleted ==
    /\ pc = "deleting" /\ "TaskSig" \in signals
    /\ signals' = signals \ {"TaskSig"}
    /\ Goto("gone")
    /\ UNCHANGED mstask /\ KeepTimers /\ KeepQueue /\ KeepStack /\ KeepLoop

-----------------------------------------------------------------------------
(* What the application does in the main task. *)

ClientPoints == {"input", "method", "function", "fired", "own", "dispose", "disposed"}

Op ==
    /\ pc \in ClientPoints /\ ops < MaxOps
    /\ ops' = ops + 1
    /\ UNCHANGED <<running, workerPC>>

ClientStartTimer(m, time, repeat) ==
    /\ Op
    /\ StartTimer(m, time, repeat)
    /\ Goto(pc)
    /\ UNCHANGED mark /\ KeepTask /\ KeepQueue /\ KeepStack

ClientStopTimer(m) ==
    /\ Op
    /\ StopTimer(m)
    /\ Goto(pc)
    /\ UNCHANGED mark /\ KeepTask /\ KeepQueue /\ KeepStack

ClientNestedEventLoop ==
    /\ Op /\ pc = "fired"
    /\ FireTimersInNestedEventLoop
    /\ Goto(pc)
    /\ UNCHANGED mark /\ KeepTask /\ KeepQueue /\ KeepStack

(* callOnMainThread() in the main thread: nobody else takes from the queue. *)
ClientCallOnMainThread ==
    /\ Op /\ g_functionid < MaxJobs
    /\ AppendInvocation
    /\ IF NeedToSchedule THEN ScheduleDispatchFunctionsOnMainThread ELSE UNCHANGED signals
    /\ Goto(pc)
    /\ UNCHANGED <<mstask, mark>> /\ KeepTimers /\ KeepStack

ClientRemoveJob(id) ==
    /\ Op
    /\ RemoveFromMainThreadByJobID(id)
    /\ Goto(pc)
    /\ UNCHANGED <<mstask, mark>> /\ KeepTimers /\ KeepStack

ClientPause ==
    /\ Op
    /\ SetMainThreadCallbacksPaused(TRUE)
    /\ Goto(pc)
    /\ UNCHANGED <<mstask, mark>> /\ KeepTimers /\ KeepStack

ClientUnpause ==
    /\ pc \in ClientPoints
    /\ SetMainThreadCallbacksPaused(FALSE)
    /\ Goto(pc)
    /\ UNCHANGED mstask /\ KeepTimers /\ KeepStack /\ KeepLoop

(* Mutant: the main task's own method goes first. *)
ClientPushAtOnce ==
    /\ Op /\ "own" \notin Range(stack) /\ pc # "own"
    /\ mark' = pushes
    /\ Call("own", <<pc>>)
    /\ KeepTask /\ KeepTimers /\ KeepQueue /\ KeepStack

(* methodstack_push() or methodstack_push_sync() in the main task: it      *)
(* performs the waiting methods and then its own.                          *)
ClientPush ==
    /\ Op /\ "own" \notin Range(stack) /\ pc # "own"
    /\ mark' = pushes
    /\ Call("check", <<"own", pc>>)
    /\ KeepTask /\ KeepTimers /\ KeepQueue /\ KeepStack

OwnMethodReturns ==
    /\ pc = "own"
    /\ mark' = 0
    /\ Return
    /\ UNCHANGED <<running, ops, workerPC>>
    /\ KeepTask /\ KeepTimers /\ KeepQueue /\ KeepStack

ClientStep ==
    \/ \E m \in Timers : ClientStopTimer(m) \/
           \E time \in Time, repeat \in {0, MaxTime} : ClientStartTimer(m, time, repeat)
    \/ \E id \in 1..MaxJobs : ClientRemoveJob(id)
    \/ ClientNestedEventLoop \/ ClientCallOnMainThread \/ ClientPause \/ ClientUnpause
    \/ ClientPush

-----------------------------------------------------------------------------
(* The other tasks. *)

WorkerGoto(w, label) ==
    /\ workerPC' = [workerPC EXCEPT ![w] = label]
    /\ UNCHANGED <<pc, stack, running, mark, ops>>

WorkerCall(w) ==
    /\ workerPC[w] = "idle" /\ g_functionid < MaxJobs
    /\ AppendInvocation
    /\ WorkerGoto(w, IF NeedToSchedule THEN "schedule" ELSE "idle")
    /\ KeepTask /\ KeepTimers /\ KeepStack

WorkerSchedule(w) ==
    /\ workerPC[w] = "schedule"
    /\ ScheduleDispatchFunctionsOnMainThread
    /\ WorkerGoto(w, "idle")
    /\ UNCHANGED mstask /\ KeepTimers /\ KeepQueue /\ KeepStack

WorkerPush(w) ==
    /\ workerPC[w] = "idle" /\ pushes < MaxPushes
    /\ AddTail(w, FALSE)
    /\ WorkerGoto(w, "idle")
    /\ KeepTask /\ KeepTimers /\ KeepQueue

WorkerPushSync(w) ==
    /\ workerPC[w] = "idle" /\ pushes < MaxPushes
    /\ AddTail(w, TRUE)
    /\ WorkerGoto(w, "signal")
    /\ KeepTask /\ KeepTimers /\ KeepQueue

WorkerSignal(w) ==
    /\ workerPC[w] = "signal"
    /\ SignalMstask({"CTRL_F"})
    /\ WorkerGoto(w, "waitPort")
    /\ UNCHANGED mstask /\ KeepTimers /\ KeepQueue /\ KeepStack

WorkerReply(w) ==
    /\ workerPC[w] = "waitPort"
    /\ GetReply(w)
    /\ WorkerGoto(w, "idle")
    /\ KeepTask /\ KeepTimers /\ KeepQueue

(* The user, and CTRL-C from a shell.  Only Wait() looks at these signals, *)
(* so it is enough to send them to a task that waits.                      *)
Input(bit) ==
    /\ pc = "wait" /\ bit \notin signals
    /\ SignalMain({bit})
    /\ UNCHANGED mstask /\ KeepTimers /\ KeepQueue /\ KeepStack /\ UNCHANGED loopVars

-----------------------------------------------------------------------------
MainStep ==
    \/ \E b \in BOOLEAN : NewInput(b) \/ FunctionReturns(b) \/ FiredReturns(b)
    \/ Wait \/ CheckEmpty \/ CheckMethod \/ MethodReturns
    \/ DispatchEmpty \/ DispatchFunction
    \/ SharedTimerFired \/ FireTimer \/ SharedTimerDone
    \/ OwnMethodReturns
    \/ DisposeObject \/ DestroyApplication \/ TimerDelete \/ TimerDeleted

TimerStep ==
    /\ TimerTask
    /\ UNCHANGED mstask /\ KeepQueue /\ KeepStack /\ UNCHANGED loopVars

ClockStep ==
    /\ RequestCompletes \/ Tick
    /\ UNCHANGED mstask /\ KeepQueue /\ KeepStack /\ UNCHANGED loopVars

WorkerStep(w) == WorkerSchedule(w) \/ WorkerSignal(w) \/ WorkerReply(w)

Next ==
    \/ MainStep \/ NewInputQuit \/ ClientStep \/ TimerStep \/ ClockStep
    \/ \E w \in Workers :
           WorkerStep(w) \/ WorkerCall(w) \/ WorkerPush(w) \/ WorkerPushSync(w)
    \/ \E bit \in {"input", "CTRL_C"} : Input(bit)

Spec == Init /\ [][Next]_vars

(* The main task, the timer task and the clock run; a worker in a call     *)
(* goes on; input does not keep the main loop from waiting for ever.       *)
(* Nobody is owed input, or an operation of the application.               *)
FairSpec ==
    /\ Spec
    /\ WF_vars(MainStep) /\ SF_vars(NewInput(TRUE))
    /\ WF_vars(TimerStep) /\ WF_vars(ClockStep)
    /\ \A w \in Workers : WF_vars(WorkerStep(w))

-----------------------------------------------------------------------------
(* When the main task goes to Wait() with functions in the queue and the   *)
(* callbacks not paused, then SIGBREAKF_CTRL_E is pending or some thread   *)
(* is about to send it: callOnMainThread() signals only for a queue that   *)
(* it has found empty, so nobody would signal again.                       *)
NoStrandedJob ==
    pc = "wait" /\ invocationQueue # <<>> /\ ~callbacksPaused =>
        "CTRL_E" \in signals \/ \E w \in Workers : workerPC[w] = "schedule"

(* A function in the queue is called some day, or removed by its job id,   *)
(* unless the callbacks are paused or the browser quits.                   *)
EveryJobRuns ==
    \A id \in 1..MaxJobs :
        id \in Range(invocationQueue) ~>
            id \notin Range(invocationQueue) \/ callbacksPaused \/ ~running

(* methodstack_push_sync() returns to a task that called it before         *)
(* methodstack_cleanup() was done, also when the browser quits meanwhile.  *)
SyncPushReturns ==
    \A w \in Workers :
        workerPC[w] = "signal" /\ mstask = Main ~> workerPC[w] = "idle"

(* "Completes all the waiting methods in the stack before ourself" (the    *)
(* comment at methodstack_push_sync()): when the main task performs a      *)
(* method no older one waits, also when it is the main task's own and when *)
(* the push is made by a method that is being performed.                   *)
WaitingMethodsFirst ==
    \A m \in Range(methodlist) :
        /\ \A i \in DOMAIN current : current[i].method.id < m.id
        /\ pc = "own" => mark < m.id

(* When the main task goes to Wait() with timers in the heap, somebody     *)
(* will wake it: SIGBREAKF_CTRL_E is pending, or the timer task has been   *)
(* told to start a request, or is at one.  A Stop that overtakes a Start   *)
(* at the timer task must not leave the heap unattended.                   *)
NoStrandedTimer ==
    pc = "wait" /\ m_timerHeap # <<>> =>
        \/ "CTRL_E" \in signals
        \/ "Start" \in timerSignals
        \/ timerPC \in {"inner", "delayStart"}

(* A timer whose fire time has come fires some day, unless it is stopped   *)
(* or started anew or the browser quits: whatever Start, Stop and Timer    *)
(* signals cross at the timer task.                                        *)
TimersFire ==
    \A m \in Timers :
        InHeap(m) /\ remaining[m] = 0 ~> ~InHeap(m) \/ remaining[m] > 0 \/ ~running

(* TimerDelete(), which waits for the timer task to end, returns.  (It may *)
(* not: a Term that is taken together with a Start is forgotten.)          *)
TimerThreadEnds == pc = "deleting" ~> pc = "gone"
==============================================================================
