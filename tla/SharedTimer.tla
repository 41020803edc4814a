----------------------------- MODULE SharedTimer -----------------------------
(***************************************************************************)
(* The timers of the main thread: WebCore::ThreadTimers and TimerBase      *)
(* (Source/WebCore/platform/ThreadTimers.cpp and Timer.cpp) on top of the  *)
(* one shared timer of the MUI port (platform/mui/SharedTimerMorphOS.cpp), *)
(* a task of its own that the main thread talks to by exec signals.        *)
(* Signals are bits: sending one that is already set changes nothing, and  *)
(* Wait() takes all the bits of its mask at once.                          *)
(*                                                                         *)
(* A time is the number of clock ticks until it comes, 0 once it is past.  *)
(* The heap is the sequence of its timers in the order of                  *)
(* TimerHeapLessThanFunction.  These are steps for MainLoop to compose.    *)
(***************************************************************************)
EXTENDS MainTask, Naturals, Functions, Queues

CONSTANTS Timers,
          MaxTime    \* bound: the longest interval, in ticks

ASSUME SharedTimerAssumption == MaxTime \in Nat /\ None \notin Nat

Time == 0..MaxTime

VARIABLES m_timerHeap,
          remaining,     \* m_nextFireTime of the timers in the heap
          m_repeatInterval,
          m_firingTimers,
          m_pendingSharedTimerFireTime,
          due,           \* local: the timers with m_nextFireTime <= fireTime
          timerSignals,  \* the signals pending at the timer task
          timerPC,       \* where the timer task is
          Interval,      \* TimerHandle::Interval
          request        \* the timer.device request in progress: ticks left, or None

threadTimersVars == <<m_timerHeap, remaining, m_repeatInterval, m_firingTimers,
                      m_pendingSharedTimerFireTime, due>>
handleVars == <<timerSignals, Interval>>
timerTaskVars == <<timerPC, request>>
timerVars == <<threadTimersVars, handleVars, timerTaskVars>>

TimerInit ==
    /\ m_timerHeap = <<>>
    /\ remaining = [m \in Timers |-> 0]
    /\ m_repeatInterval = [m \in Timers |-> 0]
    /\ m_firingTimers = FALSE
    /\ m_pendingSharedTimerFireTime = None
    /\ due = {}
    /\ timerSignals = {}
    /\ timerPC = "outer"
    /\ Interval = 0
    /\ request = None

InHeap(m) == m \in Range(m_timerHeap)

-----------------------------------------------------------------------------
(* ThreadTimers *)

(* setSharedTimerFireInterval() truncates to microseconds, and clips at    *)
(* one millisecond: the request may end a little before the fire time.     *)
IntervalInUS(time) == {time} \cup {i \in Time : i + 1 = time}

StopSharedTimer ==
    /\ timerSignals' = timerSignals \cup {"Stop"}
    /\ m_pendingSharedTimerFireTime' = None
    /\ UNCHANGED Interval

StartSharedTimer(time) ==
    /\ m_pendingSharedTimerFireTime' = time
    /\ Interval' \in IntervalInUS(time)
    /\ timerSignals' = timerSignals \cup {"Start"}

(* Reads the heap, the fire times and m_firingTimers as the caller leaves  *)
(* them, and the pending fire time that it passes.                         *)
UpdateSharedTimer(pending) ==
    IF m_firingTimers' \/ m_timerHeap' = <<>>
    THEN StopSharedTimer
    ELSE LET nextFireTime == remaining'[m_timerHeap'[1]]
         IN  IF pending = 0 /\ nextFireTime = 0
             THEN /\ m_pendingSharedTimerFireTime' = pending
                  /\ UNCHANGED handleVars
             ELSE StartSharedTimer(nextFireTime)

(* The heap with m in its place among timers with the given fire times:    *)
(* after those that fire at the same time.                                 *)
Inserted(heap, m, times) ==
    LET after == {u \in Timers : times[u] > times[m]}
    IN  AllAmong(heap, Timers \ after) \o <<m>> \o AllAmong(heap, after)

Without(heap, m) == AllAmong(heap, Timers \ {m})

(* TimerBase::setNextFireTime() to a time that is not the old one (None is *)
(* the time 0), called with heap `old'.                                    *)
SetNextFireTime(m, time, old) ==
    /\ remaining' = [remaining EXCEPT ![m] = IF time = None THEN 0 ELSE time]
    /\ m_timerHeap' = IF time = None THEN Without(old, m)
                      ELSE Inserted(Without(old, m), m, remaining')
    /\ IF \/ old # <<>> /\ old[1] = m
          \/ m_timerHeap' # <<>> /\ m_timerHeap'[1] = m
       THEN UpdateSharedTimer(m_pendingSharedTimerFireTime)
       ELSE UNCHANGED <<m_pendingSharedTimerFireTime, handleVars>>

(* TimerBase::start() and stop(), on the main thread. *)
StartTimer(m, time, repeat) ==
    /\ m_repeatInterval' = [m_repeatInterval EXCEPT ![m] = repeat]
    /\ due' = due \ {m}
    /\ UNCHANGED <<m_firingTimers, timerTaskVars>>
    /\ SetNextFireTime(m, time, m_timerHeap)

StopTimer(m) ==
    /\ InHeap(m)
    /\ m_repeatInterval' = [m_repeatInterval EXCEPT ![m] = 0]
    /\ due' = due \ {m}
    /\ UNCHANGED <<m_firingTimers, timerTaskVars>>
    /\ SetNextFireTime(m, None, m_timerHeap)

(* sharedTimerFiredInternal() up to its loop.  The re-entrancy check is    *)
(* the caller's guard.                                                     *)
BeginFiring ==
    /\ m_firingTimers' = TRUE
    /\ m_pendingSharedTimerFireTime' = None
    /\ due' = {m \in Range(m_timerHeap) : remaining[m] = 0}
    /\ UNCHANGED <<m_timerHeap, remaining, m_repeatInterval, handleVars, timerTaskVars>>

FirstIsDue == m_timerHeap # <<>> /\ m_timerHeap[1] \in due

(* The body of the loop up to timer->fired(). *)
FireFirst ==
    LET m == m_timerHeap[1]
    IN  /\ FirstIsDue
        /\ due' = due \ {m}
        /\ UNCHANGED <<m_repeatInterval, m_firingTimers, timerTaskVars>>
        /\ IF m_repeatInterval[m] # 0
           THEN SetNextFireTime(m, m_repeatInterval[m], Tail(m_timerHeap))
           ELSE /\ m_timerHeap' = Tail(m_timerHeap)
                /\ UNCHANGED <<remaining, m_pendingSharedTimerFireTime, handleVars>>

(* Mutant: the shared timer is left as it is. *)
EndFiringOnly ==
    /\ m_firingTimers' = FALSE
    /\ due' = {}
    /\ UNCHANGED <<m_timerHeap, remaining, m_repeatInterval, timerTaskVars,
                   m_pendingSharedTimerFireTime, handleVars>>

(* After the loop. *)
EndFiring ==
    /\ m_firingTimers' = FALSE
    /\ due' = {}
    /\ UNCHANGED <<m_timerHeap, remaining, m_repeatInterval, timerTaskVars>>
    /\ UpdateSharedTimer(m_pendingSharedTimerFireTime)

FireTimersInNestedEventLoop ==
    /\ m_firingTimers' = FALSE
    /\ UNCHANGED <<m_timerHeap, remaining, m_repeatInterval, due, timerTaskVars>>
    /\ UpdateSharedTimer(None)

-----------------------------------------------------------------------------
(* TimerFunc(), the timer task *)

taskUnchanged == <<threadTimersVars, Interval>>

(* AbortIO() and WaitIO(), or DoIO(): the signal of the reply port may be  *)
(* left set behind a request that has been waited for.                     *)
StaleSignal(bits) == timerSignals' \in {bits, bits \cup {"Timer"}}

(* The signals that Wait() with this mask takes. *)
Got(mask) == timerSignals \cap mask

OuterMask == {"Start", "Term"}
InnerMask == {"Timer", "Start", "Stop", "Term"}

OuterStart ==
    /\ timerPC = "outer" /\ "Start" \in Got(OuterMask)
    /\ timerSignals' = timerSignals \ OuterMask
    /\ request' = Interval
    /\ timerPC' = "inner"
    /\ UNCHANGED <<signals, taskUnchanged>>

OuterTerm ==
    /\ timerPC = "outer" /\ Got(OuterMask) = {"Term"}
    /\ timerSignals' = timerSignals \ OuterMask
    /\ timerPC' = "ending"
    /\ UNCHANGED <<signals, taskUnchanged, request>>

InnerTerm ==
    /\ timerPC = "inner" /\ "Term" \in Got(InnerMask)
    /\ timerSignals' = timerSignals \ InnerMask
    /\ timerPC' = "ending"
    /\ UNCHANGED <<signals, taskUnchanged, request>>

(* Mutant: the main task is not told. *)
InnerStopSilently ==
    /\ timerPC = "inner"
    /\ "Stop" \in Got(InnerMask) /\ "Term" \notin Got(InnerMask)
    /\ StaleSignal(timerSignals \ InnerMask)
    /\ request' = None
    /\ timerPC' = "delayStop"
    /\ UNCHANGED <<signals, taskUnchanged>>

InnerStop ==
    /\ timerPC = "inner"
    /\ "Stop" \in Got(InnerMask) /\ "Term" \notin Got(InnerMask)
    /\ StaleSignal(timerSignals \ InnerMask)
    /\ SignalMain({"CTRL_E"})
    /\ request' = None
    /\ timerPC' = "delayStop"
    /\ UNCHANGED taskUnchanged

InnerStart ==
    /\ timerPC = "inner"
    /\ "Start" \in Got(InnerMask) /\ Got(InnerMask) \cap {"Term", "Stop"} = {}
    /\ StaleSignal(timerSignals \ InnerMask)
    /\ request' = None
    /\ timerPC' = "delayStart"
    /\ UNCHANGED <<signals, taskUnchanged>>

(* CheckIO(): the request has completed, or else its signal is a stale one. *)
InnerTimer ==
    /\ timerPC = "inner" /\ Got(InnerMask) = {"Timer"}
    /\ timerSignals' = timerSignals \ InnerMask
    /\ IF request = None
       THEN SignalMain({"CTRL_E"}) /\ timerPC' = "outer"
       ELSE UNCHANGED <<signals, timerPC>>
    /\ UNCHANGED <<taskUnchanged, request>>

(* The short delays "to avoid spamming too much". *)
DelayStop ==
    /\ timerPC = "delayStop"
    /\ StaleSignal(timerSignals)
    /\ timerPC' = "outer"
    /\ UNCHANGED <<signals, taskUnchanged, request>>

DelayStart ==
    /\ timerPC = "delayStart"
    /\ StaleSignal(timerSignals)
    /\ request' = Interval
    /\ timerPC' = "inner"
    /\ UNCHANGED <<signals, taskUnchanged>>

TimerEnds ==
    /\ timerPC = "ending"
    /\ SignalMain({"TaskSig"})
    /\ request' = None
    /\ timerPC' = "ended"
    /\ UNCHANGED <<taskUnchanged, timerSignals>>

TimerTask ==
    \/ OuterStart \/ OuterTerm
    \/ InnerTerm \/ InnerStop \/ InnerStart \/ InnerTimer
    \/ DelayStop \/ DelayStart \/ TimerEnds

-----------------------------------------------------------------------------
(* timer.device completes a request whose time has come. *)
RequestCompletes ==
    /\ request = 0
    /\ request' = None
    /\ timerSignals' = timerSignals \cup {"Timer"}
    /\ UNCHANGED <<signals, taskUnchanged, timerPC>>

Sooner(time) == IF time \in Nat \ {0} THEN time - 1 ELSE time

(* The clock. *)
Tick ==
    /\ \/ \E m \in Range(m_timerHeap) : remaining[m] > 0
       \/ request \in Nat \ {0}
    /\ remaining' = [m \in Timers |-> Sooner(remaining[m])]
    /\ m_pendingSharedTimerFireTime' = Sooner(m_pendingSharedTimerFireTime)
    /\ request' = Sooner(request)
    /\ UNCHANGED <<signals, m_timerHeap, m_repeatInterval, m_firingTimers, due,
                   handleVars, timerPC>>
==============================================================================
