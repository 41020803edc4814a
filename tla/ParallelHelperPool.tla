-------------------------- MODULE ParallelHelperPool --------------------------
(***************************************************************************)
(* The pool of helper threads that JavaScriptCore marks and copies with    *)
(* (Source/WTF/wtf/ParallelHelperPool.cpp).  The pool's m_lock is a Lock   *)
(* and its conditions are Conditions (modules Lock and Condition): what is *)
(* done with the lock held is one step, and a wait is a sleep that a       *)
(* notifyAll() ends.                                                       *)
(*                                                                         *)
(* Each client belongs to a thread of its own that uses it in one of the   *)
(* two "known-good patterns" of ParallelHelperPool.h: it helps with a task *)
(* that knows when it is done, or it tells the task to stop and finishes.  *)
(***************************************************************************)
EXTENDS Naturals, FiniteSets

CONSTANTS Clients, None,
          MaxThreads,  \* bound: the most threads asked of ensureThreads()
          MaxTasks     \* bound: the tasks that each client sets

ASSUME PoolAssumption == /\ MaxThreads \in Nat /\ MaxTasks \in Nat
                         /\ None \notin Clients \X (1 .. MaxTasks)
                         /\ Clients \cap (1 .. MaxThreads) = {}

VARIABLES m_clients,
          m_task,        \* of each client: the number of its task, or 0
          m_numActive,   \* of each client
          m_numThreads,
          m_threads,     \* how many threads the pool has created
          m_isDying,
          clientPC,      \* where the thread of each client is
          tasks,         \* how many tasks each client has set
          mayReturn,     \* is the client's task one that returns (now)?
          asleep,        \* the clients that wait for m_workCompleteCondition
          helperPC,      \* where each thread of the pool is
          claimed        \* the client and the task that each thread runs

poolVars == <<m_clients, m_task, m_numActive, m_numThreads, m_threads, m_isDying,
              clientPC, tasks, mayReturn, asleep, helperPC, claimed>>

Helpers == 1..MaxThreads
Runners == Helpers \cup Clients

PoolInit ==
    /\ m_clients = {}
    /\ m_task = [c \in Clients |-> 0]
    /\ m_numActive = [c \in Clients |-> 0]
    /\ m_numThreads = 0 /\ m_threads = 0
    /\ m_isDying = FALSE
    /\ clientPC = [c \in Clients |-> "none"]
    /\ tasks = [c \in Clients |-> 0]
    /\ mayReturn = [c \in Clients |-> TRUE]
    /\ asleep = {}
    /\ helperPC = [h \in Helpers |-> "none"]
    /\ claimed = [r \in Runners |-> None]

sizeVars == <<m_numThreads, m_threads, m_isDying>>

ClientGoto(c, label) == clientPC' = [clientPC EXCEPT ![c] = label]

HasTask(c) == c \in m_clients /\ m_task[c] # 0

-----------------------------------------------------------------------------
(* didMakeWorkAvailable(): the threads that are missing are created and    *)
(* the idle ones are notified.                                             *)
DidMakeWorkAvailable(numThreads) ==
    LET created == m_threads + 1 .. numThreads
    IN  /\ m_threads' = IF created = {} THEN m_threads ELSE numThreads
        /\ helperPC' = [h \in Helpers |->
               IF h \in created \/ helperPC[h] = "waiting" THEN "look" ELSE helperPC[h]]

(* Mutant: a task that was set before is not brought to the new threads. *)
EnsureThreadsLater(numThreads) ==
    /\ ~m_isDying /\ numThreads >= m_numThreads
    /\ m_numThreads' = numThreads
    /\ UNCHANGED <<m_threads, m_clients, m_task, m_numActive, m_isDying,
                   clientPC, tasks, mayReturn, asleep, helperPC, claimed>>

EnsureThreads(numThreads) ==
    /\ ~m_isDying /\ numThreads >= m_numThreads
    /\ m_numThreads' = numThreads
    /\ IF \E c \in Clients : HasTask(c)
       THEN DidMakeWorkAvailable(numThreads)
       ELSE UNCHANGED <<m_threads, helperPC>>
    /\ UNCHANGED <<m_clients, m_task, m_numActive, m_isDying,
                   clientPC, tasks, mayReturn, asleep, claimed>>

(* getClientWithTask(), at random, and claimTask(). *)
Claim(r, c) ==
    /\ HasTask(c)
    /\ m_numActive' = [m_numActive EXCEPT ![c] = @ + 1]
    /\ claimed' = [claimed EXCEPT ![r] = <<c, m_task[c]>>]

(* Mutant: one client is notified, whichever it is. *)
CompleteNotifyOne(r) ==
    LET c == claimed[r][1]
    IN  /\ m_task' = [m_task EXCEPT ![c] = 0]
        /\ m_numActive' = [m_numActive EXCEPT ![c] = @ - 1]
        /\ asleep' = IF m_numActive[c] = 1 /\ asleep # {}
                     THEN asleep \ {CHOOSE d \in asleep : TRUE} ELSE asleep
        /\ claimed' = [claimed EXCEPT ![r] = None]
        /\ UNCHANGED <<m_clients, sizeVars, tasks, mayReturn>>

(* runTask(): the task has returned in thread r. *)
Complete(r) ==
    LET c == claimed[r][1]
    IN  /\ m_task' = [m_task EXCEPT ![c] = 0]
        /\ m_numActive' = [m_numActive EXCEPT ![c] = @ - 1]
        /\ asleep' = IF m_numActive[c] = 1 THEN {} ELSE asleep
        /\ claimed' = [claimed EXCEPT ![r] = None]
        /\ UNCHANGED <<m_clients, sizeVars, tasks, mayReturn>>

TaskReturns(r) == claimed[r] # None /\ mayReturn[claimed[r][1]]

-----------------------------------------------------------------------------
(* helperThreadBody() *)

HelperLook(h) ==
    /\ helperPC[h] = "look"
    /\ \/ /\ m_isDying
          /\ helperPC' = [helperPC EXCEPT ![h] = "ended"]
          /\ UNCHANGED <<m_numActive, claimed>>
       \/ /\ ~m_isDying
          /\ \E c \in Clients : Claim(h, c)
          /\ helperPC' = [helperPC EXCEPT ![h] = "running"]
       \/ /\ ~m_isDying /\ \A c \in Clients : ~HasTask(c)
          /\ helperPC' = [helperPC EXCEPT ![h] = "waiting"]
          /\ UNCHANGED <<m_numActive, claimed>>
    /\ UNCHANGED <<m_clients, m_task, sizeVars, clientPC, tasks, mayReturn, asleep>>

HelperTaskReturns(h) ==
    /\ helperPC[h] = "running" /\ TaskReturns(h)
    /\ Complete(h)
    /\ helperPC' = [helperPC EXCEPT ![h] = "look"]
    /\ UNCHANGED clientPC

-----------------------------------------------------------------------------
(* ParallelHelperClient *)

ClientCreate(c) ==
    /\ clientPC[c] = "none" /\ ~m_isDying
    /\ m_clients' = m_clients \cup {c}
    /\ ClientGoto(c, "idle")
    /\ UNCHANGED <<m_task, m_numActive, sizeVars, tasks, mayReturn, asleep, helperPC, claimed>>

(* setTask() of a task that knows when it is done, or of one that has to   *)
(* be told.                                                                *)
SetTask(c, knows) ==
    /\ clientPC[c] = "idle" /\ tasks[c] < MaxTasks
    /\ tasks' = [tasks EXCEPT ![c] = @ + 1]
    /\ m_task' = [m_task EXCEPT ![c] = tasks'[c]]
    /\ mayReturn' = [mayReturn EXCEPT ![c] = knows]
    /\ DidMakeWorkAvailable(m_numThreads)
    /\ ClientGoto(c, IF knows THEN "set" ELSE "helped")
    /\ UNCHANGED <<m_clients, m_numActive, m_numThreads, m_isDying, asleep, claimed>>

(* doSomeHelping() of the client: another thread may have done it all. *)
DoSomeHelping(c) ==
    /\ clientPC[c] = "set"
    /\ IF HasTask(c)
       THEN Claim(c, c) /\ ClientGoto(c, "running")
       ELSE ClientGoto(c, "helped") /\ UNCHANGED <<m_numActive, claimed>>
    /\ UNCHANGED <<m_clients, m_task, sizeVars, tasks, mayReturn, asleep, helperPC>>

(* doSomeHelping() of the pool, with the task of any client. *)
PoolDoSomeHelping(c) ==
    /\ clientPC[c] = "idle"
    /\ \E d \in Clients : Claim(c, d)
    /\ ClientGoto(c, "running")
    /\ UNCHANGED <<m_clients, m_task, sizeVars, tasks, mayReturn, asleep, helperPC>>

ClientTaskReturns(c) ==
    /\ clientPC[c] = "running" /\ TaskReturns(c)
    /\ Complete(c)
    /\ ClientGoto(c, IF claimed[c][1] = c THEN "helped" ELSE "idle")
    /\ UNCHANGED helperPC

(* Mutant: any notification will do. *)
FinishLoopOnce(c, label) ==
    IF clientPC[c] = label \/ m_numActive[c] = 0
    THEN /\ ClientGoto(c, IF label = "finishing" THEN "idle" ELSE "none")
         /\ m_clients' = IF label = "finishing" THEN m_clients ELSE m_clients \ {c}
         /\ UNCHANGED asleep
    ELSE /\ ClientGoto(c, label)
         /\ asleep' = asleep \cup {c}
         /\ UNCHANGED m_clients

(* The loop of finish() in finish() and in the destructor, which then      *)
(* removes the client from the pool.                                       *)
FinishLoop(c, label) ==
    IF m_numActive[c] = 0
    THEN /\ ClientGoto(c, IF label = "finishing" THEN "idle" ELSE "none")
         /\ m_clients' = IF label = "finishing" THEN m_clients ELSE m_clients \ {c}
         /\ UNCHANGED asleep
    ELSE /\ ClientGoto(c, label)
         /\ asleep' = asleep \cup {c}
         /\ UNCHANGED m_clients

BeginFinish(c, label) ==
    /\ clientPC[c] \in {"set", "helped"} \/ (clientPC[c] = "idle" /\ label = "destroying")
    /\ m_task' = [m_task EXCEPT ![c] = 0]
    /\ mayReturn' = [mayReturn EXCEPT ![c] = TRUE]
    /\ FinishLoop(c, label)
    /\ UNCHANGED <<m_numActive, sizeVars, tasks, helperPC, claimed>>

FinishAgain(c) ==
    /\ clientPC[c] \in {"finishing", "destroying"} /\ c \notin asleep
    /\ FinishLoop(c, clientPC[c])
    /\ UNCHANGED <<m_task, m_numActive, sizeVars, tasks, mayReturn, helperPC, claimed>>

(* ~ParallelHelperPool(), up to where it waits for its threads: nobody has *)
(* a client of it any more.                                                *)
PoolDestroy ==
    /\ ~m_isDying /\ \A c \in Clients : clientPC[c] = "none"
    /\ m_isDying' = TRUE
    /\ helperPC' = [h \in Helpers |->
                       IF helperPC[h] = "waiting" THEN "look" ELSE helperPC[h]]
    /\ UNCHANGED <<m_clients, m_task, m_numActive, m_numThreads, m_threads,
                   clientPC, tasks, mayReturn, asleep, claimed>>

-----------------------------------------------------------------------------
HelperStep(h) == HelperLook(h) \/ HelperTaskReturns(h)

ClientStep(c) ==
    DoSomeHelping(c) \/ ClientTaskReturns(c) \/ FinishAgain(c)

PoolNext ==
    \/ \E h \in Helpers : HelperStep(h)
    \/ \E c \in Clients :
          \/ ClientStep(c)
          \/ ClientCreate(c) \/ PoolDoSomeHelping(c)
          \/ \E knows \in BOOLEAN : SetTask(c, knows)
          \/ \E label \in {"finishing", "destroying"} : BeginFinish(c, label)
    \/ \E n \in 0..MaxThreads : EnsureThreads(n)
    \/ PoolDestroy

PoolSpec == PoolInit /\ [][PoolNext]_poolVars

(* Threads run, and a task that may return does; nobody has to call        *)
(* anything.                                                               *)
FairPoolSpec ==
    /\ PoolSpec
    /\ \A h \in Helpers : WF_poolVars(HelperStep(h))
    /\ \A c \in Clients : WF_poolVars(ClientStep(c))

-----------------------------------------------------------------------------
(* "That method will clear the task and wait for any threads running the   *)
(* last set task to finish" (ParallelHelperPool.h): when finish() or the   *)
(* destructor has returned, no thread runs a task of the client, so that   *)
(* the next setTask() cannot meet an old task: "No new task could have     *)
(* been installed, since we were still active" (runTask()).                *)
FinishWaitsForAll ==
    \A r \in Runners : claimed[r] # None =>
        LET c == claimed[r][1]
        IN  /\ c \in m_clients
            /\ m_task[c] \in {0, claimed[r][2]}
            /\ r # c => clientPC[c] \in {"set", "helped", "running", "finishing", "destroying"}

(* "So long as any client has a task, all threads in the pool will         *)
(* continue running the available tasks" (ParallelHelperPool.h): none of   *)
(* them sleeps in waitForClientWithTask() and all that ensureThreads() was *)
(* asked for are there.                                                    *)
EveryoneHelps ==
    (\E c \in Clients : HasTask(c)) =>
        /\ m_threads = m_numThreads
        /\ \A h \in Helpers : helperPC[h] # "waiting"

(* What waits returns: finish() and the client's destructor, although all  *)
(* clients sleep on one m_workCompleteCondition, and the pool's destructor *)
(* finds that its threads end.                                             *)
WaitsReturn ==
    /\ \A c \in Clients :
          clientPC[c] \in {"finishing", "destroying"} ~>
              clientPC[c] \notin {"finishing", "destroying"}
    /\ m_isDying ~> \A h \in Helpers : helperPC[h] \in {"none", "ended"}
===============================================================================
