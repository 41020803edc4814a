------------------------- MODULE WordLockPoolProofs -------------------------
(***************************************************************************)
(* Proofs about the two parts of WTF that need no ParkingLot here.         *)
(*                                                                         *)
(* The pool: what it promises to any number of clients with any number of  *)
(* threads.                                                                *)
(*                                                                         *)
(* WordLock, for any set of threads, any spin limit and with or without    *)
(* spurious failures of the weak CAS: the lock word's bits say who has the *)
(* lock and who has its queue, at most one thread has either, every step is *)
(* a step of the abstract Mutex or changes nothing in it, and the links of *)
(* the ThreadDatas are a list in which threads wait in the order of their  *)
(* arrival.                                                                *)
(***************************************************************************)
EXTENDS WordLock, ParallelHelperPool, QueueLemmas, FiniteSetTheorems

-----------------------------------------------------------------------------
(* The pool of helper threads.                                             *)
Claims == Clients \X (1 .. MaxTasks)

Types ==
    /\ m_clients \subseteq Clients
    /\ m_task \in [Clients -> 0 .. MaxTasks]
    /\ m_numActive \in [Clients -> Nat]
    /\ m_numThreads \in Nat /\ m_threads \in Nat /\ m_threads <= m_numThreads
    /\ clientPC \in [Clients -> {"none", "idle", "set", "helped", "running",
                                 "finishing", "destroying"}]
    /\ tasks \in [Clients -> 0 .. MaxTasks]
    /\ helperPC \in [Helpers -> {"none", "look", "waiting", "running", "ended"}]
    /\ claimed \in [Runners -> Claims \cup {None}]

\* The threads that run a task of c.
On(c) == {r \in Runners : claimed[r] # None /\ claimed[r][1] = c}

\* Who runs a task is where it runs it, and who was not created runs nothing.
RunnersRun ==
    /\ \A h \in Helpers : h > m_threads => helperPC[h] = "none"
    /\ \A h \in Helpers : claimed[h] # None <=> helperPC[h] = "running"
    /\ \A c \in Clients : claimed[c] # None <=> clientPC[c] = "running"

\* m_numActive counts the threads that run a task of the client.
ActiveCounted == \A c \in Clients : IsFiniteSet(On(c)) /\ m_numActive[c] = Cardinality(On(c))

\* The thread of c is between its setTask() and the end of its finish().
Busy(c) == \/ clientPC[c] \in {"set", "helped", "finishing", "destroying"}
           \/ clientPC[c] = "running" /\ claimed[c][1] = c

TasksOfBusy ==
    /\ \A c \in Clients : ~Busy(c) => m_task[c] = 0 /\ On(c) = {}
    /\ \A c \in Clients : clientPC[c] \in {"finishing", "destroying"} => m_task[c] = 0
    /\ m_clients = {c \in Clients : clientPC[c] # "none"}

\* Nobody runs a task that is not the last one.
NoOldTask == \A r \in Runners :
    claimed[r] # None => m_task[claimed[r][1]] \in {0, claimed[r][2]}

PoolIInv == /\ Types /\ RunnersRun /\ ActiveCounted /\ TasksOfBusy /\ NoOldTask
            /\ EveryoneHelps

\* A client is no thread of the pool, and no claim is None.
LEMMA Apart == /\ \A c \in Clients : c \notin Helpers
               /\ \A c \in Clients, t \in 1 .. MaxTasks : <<c, t>> \in Claims /\ <<c, t>> # None
               /\ Helpers \subseteq Runners /\ Clients \subseteq Runners
BY PoolAssumption DEF Helpers, Runners, Claims

\* The invariant says what finish() promises: a client with a task that runs
\* is busy.
LEMMA Promises == PoolIInv => FinishWaitsForAll
<1> SUFFICES ASSUME PoolIInv, NEW r \in Runners, claimed[r] # None
             PROVE  LET c == claimed[r][1]
                    IN  /\ c \in m_clients
                        /\ m_task[c] \in {0, claimed[r][2]}
                        /\ r # c => clientPC[c] \in {"set", "helped", "running",
                                                     "finishing", "destroying"}
  BY Zenon DEF FinishWaitsForAll
<1>1. PICK c \in Clients : claimed[r][1] = c BY Zenon DEF PoolIInv, Types, Claims
<1>2. r \in On(c) BY <1>1, Zenon DEF On
<1>3. Busy(c) BY <1>2, Zenon DEF PoolIInv, TasksOfBusy
<1>4. c \in m_clients BY <1>3, Zenon DEF PoolIInv, TasksOfBusy, Busy
<1>5. m_task[c] \in {0, claimed[r][2]} BY <1>1, Zenon DEF PoolIInv, NoOldTask
<1> QED BY <1>1, <1>3, <1>4, <1>5, Zenon DEF Busy

\* A new pool satisfies the invariant.
LEMMA InitPoolIInv == PoolInit => PoolIInv
<1> SUFFICES ASSUME PoolInit PROVE PoolIInv
  BY Zenon
<1>1. Types BY PoolAssumption DEF PoolInit, Types
<1>2. \A c : On(c) = {} BY Zenon DEF PoolInit, On
<1>3. RunnersRun BY Apart, Zenon DEF PoolInit, RunnersRun
<1>4. ActiveCounted BY <1>2, FS_EmptySet, Zenon DEF PoolInit, ActiveCounted
<1>5. TasksOfBusy BY <1>2, Zenon DEF PoolInit, TasksOfBusy
<1>6. NoOldTask BY Zenon DEF PoolInit, NoOldTask
<1>7. EveryoneHelps BY Zenon DEF PoolInit, EveryoneHelps, HasTask
<1> QED BY <1>1, <1>3, <1>4, <1>5, <1>6, <1>7, Zenon DEF PoolIInv

\* A thread that runs nothing takes the task of c.
LEMMA ClaimCounts ==
    ASSUME PoolIInv, NEW r \in Runners, NEW c \in Clients, claimed[r] = None, Claim(r, c)
    PROVE  /\ m_task[c] \in 1 .. MaxTasks
           /\ claimed' \in [Runners -> Claims \cup {None}]
           /\ claimed'[r] = <<c, m_task[c]>> /\ claimed'[r] # None
           /\ \A q \in Runners \ {r} : claimed'[q] = claimed[q]
           /\ m_numActive' \in [Clients -> Nat]
           /\ On(c)' = On(c) \cup {r}
           /\ \A d \in Clients \ {c} : On(d)' = On(d)
           /\ ActiveCounted'
           /\ Busy(c)
<1>1. /\ c \in m_clients /\ m_task[c] # 0
      /\ m_numActive' = [m_numActive EXCEPT ![c] = @ + 1]
      /\ claimed' = [claimed EXCEPT ![r] = <<c, m_task[c]>>]
  BY Zenon DEF Claim, HasTask
<1>2. Types /\ ActiveCounted /\ TasksOfBusy BY Zenon DEF PoolIInv
<1>3. m_task[c] \in 1 .. MaxTasks BY <1>1, <1>2, PoolAssumption DEF Types
<1>4. <<c, m_task[c]>> \in Claims /\ <<c, m_task[c]>> # None BY <1>3, Apart, Zenon
<1>5. /\ claimed' \in [Runners -> Claims \cup {None}]
      /\ claimed'[r] = <<c, m_task[c]>>
      /\ \A q \in Runners \ {r} : claimed'[q] = claimed[q]
  BY <1>1, <1>2, <1>4, Zenon DEF Types
<1>6. claimed'[r][1] = c BY <1>5
<1>7. On(c)' = On(c) \cup {r} BY <1>4, <1>5, <1>6, Zenon DEF On
<1>8. \A d \in Clients \ {c} : On(d)' = On(d) BY <1>4, <1>5, <1>6, Zenon DEF On
<1>9. r \notin On(c) BY Zenon DEF On
<1>10. m_numActive' \in [Clients -> Nat] BY <1>1, <1>2 DEF Types
<1>11. ActiveCounted'
  <2> SUFFICES ASSUME NEW d \in Clients
               PROVE  IsFiniteSet(On(d)') /\ m_numActive'[d] = Cardinality(On(d)')
    BY Zenon DEF ActiveCounted
  <2>1. IsFiniteSet(On(d)) /\ m_numActive[d] = Cardinality(On(d)) BY <1>2, Zenon DEF ActiveCounted
  <2>2. CASE d = c
    <3>1. IsFiniteSet(On(c) \cup {r}) /\ Cardinality(On(c) \cup {r}) = Cardinality(On(c)) + 1
      BY <1>9, <2>1, <2>2, FS_AddElement, Zenon
    <3> QED BY <1>1, <1>2, <1>7, <2>1, <2>2, <3>1, Zenon DEF Types
  <2>3. CASE d # c BY <1>1, <1>2, <1>8, <2>1, <2>3, Zenon DEF Types
  <2> QED BY <2>2, <2>3, Zenon
<1>12. Busy(c) BY <1>1, <1>2, Zenon DEF TasksOfBusy
<1> QED BY <1>3, <1>4, <1>5, <1>7, <1>8, <1>10, <1>11, <1>12, Zenon

\* The task returns in thread r: RELEASE_ASSERT(m_numActive) holds.
LEMMA CompleteCounts ==
    ASSUME PoolIInv, NEW r \in Runners, claimed[r] # None, Complete(r)
    PROVE  \E c \in Clients :
           /\ claimed[r][1] = c
           /\ m_numActive[c] >= 1
           /\ m_task' = [m_task EXCEPT ![c] = 0]
           /\ claimed' \in [Runners -> Claims \cup {None}]
           /\ claimed'[r] = None
           /\ \A q \in Runners \ {r} : claimed'[q] = claimed[q]
           /\ m_numActive' \in [Clients -> Nat]
           /\ \A d \in Clients : On(d)' = On(d) \ {r}
           /\ ActiveCounted'
           /\ Busy(c)
<1>1. Types /\ ActiveCounted /\ TasksOfBusy BY Zenon DEF PoolIInv
<1>2. PICK c \in Clients : claimed[r][1] = c BY <1>1, Zenon DEF Types, Claims
<1>3. /\ m_task' = [m_task EXCEPT ![c] = 0]
      /\ m_numActive' = [m_numActive EXCEPT ![c] = @ - 1]
      /\ claimed' = [claimed EXCEPT ![r] = None]
  BY <1>2, Zenon DEF Complete
<1>4. /\ claimed' \in [Runners -> Claims \cup {None}]
      /\ claimed'[r] = None
      /\ \A q \in Runners \ {r} : claimed'[q] = claimed[q]
  BY <1>1, <1>3, Zenon DEF Types
<1>5. \A d \in Clients : On(d)' = On(d) \ {r} BY <1>4 DEF On
<1>6. r \in On(c) /\ \A d \in Clients \ {c} : r \notin On(d) BY <1>2, Zenon DEF On
<1>7. IsFiniteSet(On(c)) /\ m_numActive[c] = Cardinality(On(c)) /\ m_numActive[c] \in Nat
  BY <1>1, Zenon DEF ActiveCounted, Types
<1>8. m_numActive[c] >= 1 BY <1>6, <1>7, FS_EmptySet
<1>9. m_numActive' \in [Clients -> Nat] BY <1>1, <1>3, <1>8 DEF Types
<1>10. ActiveCounted'
  <2> SUFFICES ASSUME NEW d \in Clients
               PROVE  IsFiniteSet(On(d)') /\ m_numActive'[d] = Cardinality(On(d)')
    BY Zenon DEF ActiveCounted
  <2>1. IsFiniteSet(On(d)) /\ m_numActive[d] = Cardinality(On(d)) BY <1>1, Zenon DEF ActiveCounted
  <2>2. CASE d = c
    <3>1. IsFiniteSet(On(c) \ {r}) /\ Cardinality(On(c) \ {r}) = Cardinality(On(c)) - 1
      BY <1>6, <1>7, FS_RemoveElement, Zenon
    <3> QED BY <1>1, <1>3, <1>5, <1>7, <2>2, <3>1, Zenon DEF Types
  <2>3. CASE d # c
    <3>1. r \notin On(d) BY <1>6, <2>3, Zenon
    <3>2. On(d)' = On(d) BY <3>1, <1>5, Zenon
    <3> QED BY <1>1, <1>3, <2>1, <2>3, <3>2, Zenon DEF Types
  <2> QED BY <2>2, <2>3, Zenon
<1>11. Busy(c) BY <1>1, <1>6, Zenon DEF TasksOfBusy
<1> QED BY <1>2, <1>3, <1>4, <1>5, <1>8, <1>9, <1>10, <1>11, Zenon

\* Steps that start and end no task.
LEMMA SameClaims ==
    ASSUME PoolIInv, UNCHANGED <<m_numActive, claimed>>
    PROVE  ActiveCounted' /\ \A c \in Clients : On(c)' = On(c)
<1>1. \A c \in Clients : On(c)' = On(c) BY Zenon DEF On
<1> QED BY <1>1, Zenon DEF PoolIInv, ActiveCounted

\* Where the pool creates threads and notifies them, all threads are there and
\* none waits; who runs a task still does.
LEMMA WorkIsMadeAvailable ==
    ASSUME PoolIInv, NEW n \in Nat, m_numThreads <= n, m_numThreads' = n,
           DidMakeWorkAvailable(n)
    PROVE  /\ m_threads' = n
           /\ helperPC' \in [Helpers -> {"none", "look", "waiting", "running", "ended"}]
           /\ \A h \in Helpers : /\ helperPC'[h] # "waiting"
                                 /\ h > n => helperPC'[h] = "none"
                                 /\ helperPC'[h] = "running" <=> helperPC[h] = "running"
           /\ EveryoneHelps'
<1>1. Types /\ RunnersRun BY Zenon DEF PoolIInv
<1>2. m_threads \in Nat /\ m_threads <= n BY <1>1 DEF Types
<1>3. m_threads' = n BY <1>2 DEF DidMakeWorkAvailable
<1>4. \A h \in Helpers : h \in Nat BY DEF Helpers
<1>5. \A h \in Helpers : helperPC'[h] =
         IF h \in m_threads + 1 .. n \/ helperPC[h] = "waiting" THEN "look" ELSE helperPC[h]
  BY Zenon DEF DidMakeWorkAvailable
<1>6. helperPC' \in [Helpers -> {"none", "look", "waiting", "running", "ended"}]
  BY <1>1, Zenon DEF DidMakeWorkAvailable, Types
<1>7. \A h \in Helpers : h > m_threads => helperPC[h] = "none" BY <1>1, Zenon DEF RunnersRun
<1>8. \A h \in Helpers : /\ helperPC'[h] # "waiting"
                         /\ h > n => helperPC'[h] = "none"
                         /\ helperPC'[h] = "running" <=> helperPC[h] = "running"
  BY <1>2, <1>4, <1>5, <1>7
<1>9. EveryoneHelps' BY <1>3, <1>8, Zenon DEF EveryoneHelps
<1> QED BY <1>3, <1>6, <1>8, <1>9, Zenon

-----------------------------------------------------------------------------
(* The threads of the pool.                                                *)

\* A thread of the pool ends, takes a task, or finds none and waits.
LEMMA HelperLookKeeps ==
    ASSUME PoolIInv, NEW h \in Helpers, HelperLook(h)
    PROVE  PoolIInv'
<1>1. Types /\ RunnersRun /\ ActiveCounted /\ TasksOfBusy /\ NoOldTask /\ EveryoneHelps
  BY Zenon DEF PoolIInv
<1>2. /\ helperPC[h] = "look"
      /\ UNCHANGED <<m_clients, m_task, m_numThreads, m_threads, clientPC, tasks>>
  BY Zenon DEF HelperLook, sizeVars
<1>3. h \in Runners /\ claimed[h] = None BY <1>1, <1>2, Apart, Zenon DEF RunnersRun
<1>4. CASE \E to \in {"ended", "waiting"} :
             /\ helperPC' = [helperPC EXCEPT ![h] = to]
             /\ UNCHANGED <<m_numActive, claimed>>
             /\ to = "waiting" => \A c \in Clients : ~HasTask(c)
  <2>1. PICK to \in {"ended", "waiting"} :
             /\ helperPC' = [helperPC EXCEPT ![h] = to]
             /\ UNCHANGED <<m_numActive, claimed>>
             /\ to = "waiting" => \A c \in Clients : ~HasTask(c)
    BY <1>4, Zenon
  <2>2. ActiveCounted' /\ \A c \in Clients : On(c)' = On(c) BY <2>1, SameClaims, Zenon
  <2>3. Types' BY <1>1, <1>2, <2>1, Zenon DEF Types
  <2>4. h \in Nat /\ ~(h > m_threads) BY <1>1, <1>2 DEF RunnersRun, Helpers
  <2>5. RunnersRun' BY <1>1, <1>2, <1>3, <2>1, <2>4, Zenon DEF RunnersRun, Types
  <2>6. TasksOfBusy' BY <1>1, <1>2, <2>1, <2>2, Zenon DEF TasksOfBusy, Busy
  <2>7. NoOldTask' BY <1>1, <1>2, <2>1, Zenon DEF NoOldTask
  <2>8. EveryoneHelps' BY <1>1, <1>2, <2>1, Zenon DEF EveryoneHelps, HasTask, Types
  <2> QED BY <2>2, <2>3, <2>5, <2>6, <2>7, <2>8, Zenon DEF PoolIInv
<1>5. ASSUME NEW c \in Clients, Claim(h, c), helperPC' = [helperPC EXCEPT ![h] = "running"]
      PROVE  PoolIInv'
  <2>1. /\ m_task[c] \in 1 .. MaxTasks
        /\ claimed' \in [Runners -> Claims \cup {None}]
        /\ claimed'[h] = <<c, m_task[c]>> /\ claimed'[h] # None
        /\ \A q \in Runners \ {h} : claimed'[q] = claimed[q]
        /\ m_numActive' \in [Clients -> Nat]
        /\ On(c)' = On(c) \cup {h}
        /\ \A d \in Clients \ {c} : On(d)' = On(d)
        /\ ActiveCounted'
        /\ Busy(c)
    BY <1>3, <1>5, ClaimCounts, Zenon
  <2>2. \A d \in Clients : claimed'[d] = claimed[d] BY <2>1, Apart, Zenon
  <2>3. Types' BY <1>1, <1>2, <1>5, <2>1, Zenon DEF Types
  <2>4. h \in Nat /\ ~(h > m_threads) BY <1>1, <1>2 DEF RunnersRun, Helpers
  <2>5. RunnersRun'
    <3>1. \A g \in Helpers : helperPC'[g] = IF g = h THEN "running" ELSE helperPC[g]
      BY <1>1, <1>5, Zenon DEF Types
    <3>2. \A g \in Helpers \ {h} : claimed'[g] = claimed[g] BY <2>1, Apart, Zenon
    <3> QED BY <1>1, <1>2, <2>1, <2>2, <2>4, <3>1, <3>2, Zenon DEF RunnersRun
  <2>6. \A d \in Clients : Busy(d)' <=> Busy(d) BY <1>2, <2>2, Zenon DEF Busy
  <2>7. TasksOfBusy' BY <1>1, <1>2, <2>1, <2>6, Zenon DEF TasksOfBusy
  <2>8. NoOldTask' BY <1>1, <1>2, <2>1 DEF NoOldTask
  <2>9. EveryoneHelps' BY <1>1, <1>2, <1>5, Zenon DEF EveryoneHelps, HasTask, Types
  <2> QED BY <2>1, <2>3, <2>5, <2>7, <2>8, <2>9, Zenon DEF PoolIInv
<1> QED BY <1>4, <1>5, Zenon DEF HelperLook

\* A thread of the pool ends its part of a task.
LEMMA HelperTaskReturnsKeeps ==
    ASSUME PoolIInv, NEW h \in Helpers, HelperTaskReturns(h)
    PROVE  PoolIInv'
<1>1. Types /\ RunnersRun /\ ActiveCounted /\ TasksOfBusy /\ NoOldTask /\ EveryoneHelps
  BY DEF PoolIInv
<1>2. /\ helperPC[h] = "running" /\ claimed[h] # None /\ Complete(h)
      /\ helperPC' = [helperPC EXCEPT ![h] = "look"]
      /\ UNCHANGED <<m_clients, m_numThreads, m_threads, clientPC, tasks>>
  BY Zenon DEF HelperTaskReturns, TaskReturns, Complete, sizeVars
<1>3. PICK c \in Clients :
           /\ claimed[h][1] = c
           /\ m_numActive[c] >= 1
           /\ m_task' = [m_task EXCEPT ![c] = 0]
           /\ claimed' \in [Runners -> Claims \cup {None}]
           /\ claimed'[h] = None
           /\ \A q \in Runners \ {h} : claimed'[q] = claimed[q]
           /\ m_numActive' \in [Clients -> Nat]
           /\ \A d \in Clients : On(d)' = On(d) \ {h}
           /\ ActiveCounted'
           /\ Busy(c)
  BY <1>2, Apart, CompleteCounts, Zenon
<1>4. \A d \in Clients : m_task'[d] = IF d = c THEN 0 ELSE m_task[d] BY <1>1, <1>3, Zenon DEF Types
<1>5. \A d \in Clients : claimed'[d] = claimed[d] BY <1>3, Apart, Zenon
<1>6. Types' BY <1>1, <1>2, <1>3, PoolAssumption DEF Types
<1>7. h \in Nat /\ ~(h > m_threads) BY <1>1, <1>2 DEF RunnersRun, Helpers
<1>8. RunnersRun'
  <2>1. \A g \in Helpers : helperPC'[g] = IF g = h THEN "look" ELSE helperPC[g]
    BY <1>1, <1>2, Zenon DEF Types
  <2>2. \A g \in Helpers \ {h} : claimed'[g] = claimed[g] BY <1>3, Apart, Zenon
  <2> QED BY <1>1, <1>2, <1>3, <1>5, <1>7, <2>1, <2>2 DEF RunnersRun
<1>9. \A d \in Clients : Busy(d)' <=> Busy(d) BY <1>2, <1>5, Zenon DEF Busy
<1>10. TasksOfBusy' BY <1>1, <1>2, <1>3, <1>4, <1>9, Zenon DEF TasksOfBusy
<1>11. NoOldTask'
  <2> SUFFICES ASSUME NEW q \in Runners, claimed'[q] # None
               PROVE  m_task'[claimed'[q][1]] \in {0, claimed'[q][2]}
    BY Zenon DEF NoOldTask
  <2>1. q # h /\ claimed'[q] = claimed[q] BY <1>3, Zenon
  <2>2. claimed[q][1] \in Clients BY <1>1, <2>1, Zenon DEF Types, Claims
  <2> QED BY <1>1, <1>4, <2>1, <2>2, Zenon DEF NoOldTask
<1>12. EveryoneHelps'
  <2>1. \A d \in Clients : HasTask(d)' => HasTask(d) BY <1>2, <1>4, Zenon DEF HasTask
  <2> QED BY <1>1, <1>2, <2>1, Zenon DEF EveryoneHelps, Types
<1> QED BY <1>3, <1>6, <1>8, <1>10, <1>11, <1>12, Zenon DEF PoolIInv

-----------------------------------------------------------------------------
(* The clients.                                                            *)

\* A new client has no task.
LEMMA ClientCreateKeeps ==
    ASSUME PoolIInv, NEW c \in Clients, ClientCreate(c)
    PROVE  PoolIInv'
<1>1. Types /\ RunnersRun /\ ActiveCounted /\ TasksOfBusy /\ NoOldTask /\ EveryoneHelps
  BY Zenon DEF PoolIInv
<1>2. /\ clientPC[c] = "none" /\ m_clients' = m_clients \cup {c}
      /\ clientPC' = [clientPC EXCEPT ![c] = "idle"]
      /\ UNCHANGED <<m_task, m_numActive, m_numThreads, m_threads, tasks, helperPC, claimed>>
  BY Zenon DEF ClientCreate, ClientGoto, sizeVars
<1>3. \A d \in Clients : clientPC'[d] = IF d = c THEN "idle" ELSE clientPC[d]
  BY <1>1, <1>2, Zenon DEF Types
<1>4. ActiveCounted' /\ \A d \in Clients : On(d)' = On(d) BY <1>2, SameClaims, Zenon
<1>5. Types' BY <1>1, <1>2, Zenon DEF Types
<1>6. RunnersRun' BY <1>1, <1>2, <1>3 DEF RunnersRun
<1>7. \A d \in Clients : Busy(d)' <=> Busy(d) BY <1>2, <1>3 DEF Busy
<1>8. TasksOfBusy' BY <1>1, <1>2, <1>3, <1>4, <1>7 DEF TasksOfBusy
<1>9. NoOldTask' BY <1>1, <1>2, Zenon DEF NoOldTask
<1>10. m_task[c] = 0 BY <1>1, <1>2, Zenon DEF TasksOfBusy, Busy
<1>11. EveryoneHelps' BY <1>1, <1>2, <1>10, Zenon DEF EveryoneHelps, HasTask
<1> QED BY <1>4, <1>5, <1>6, <1>8, <1>9, <1>11, Zenon DEF PoolIInv

\* setTask() meets no thread that still runs an older task.
LEMMA SetTaskKeeps ==
    ASSUME PoolIInv, NEW c \in Clients, NEW knows \in BOOLEAN, SetTask(c, knows)
    PROVE  PoolIInv'
<1>1. Types /\ RunnersRun /\ ActiveCounted /\ TasksOfBusy /\ NoOldTask /\ EveryoneHelps
  BY Zenon DEF PoolIInv
<1>2. PICK label \in {"set", "helped"} : clientPC' = [clientPC EXCEPT ![c] = label]
  BY Zenon DEF SetTask, ClientGoto
<1>3. /\ clientPC[c] = "idle" /\ tasks[c] < MaxTasks
      /\ tasks' = [tasks EXCEPT ![c] = @ + 1]
      /\ m_task' = [m_task EXCEPT ![c] = tasks'[c]]
      /\ DidMakeWorkAvailable(m_numThreads)
      /\ UNCHANGED <<m_clients, m_numActive, m_numThreads, claimed>>
  BY Zenon DEF SetTask
<1>4. m_numThreads \in Nat /\ m_numThreads <= m_numThreads BY <1>1 DEF Types
<1>5. /\ m_threads' = m_numThreads
      /\ helperPC' \in [Helpers -> {"none", "look", "waiting", "running", "ended"}]
      /\ \A h \in Helpers : /\ h > m_numThreads => helperPC'[h] = "none"
                            /\ helperPC'[h] = "running" <=> helperPC[h] = "running"
      /\ EveryoneHelps'
  BY <1>3, <1>4, WorkIsMadeAvailable, Zenon
<1>6. ActiveCounted' /\ \A d \in Clients : On(d)' = On(d) BY <1>3, SameClaims, Zenon
<1>7. tasks'[c] \in 0 .. MaxTasks /\ tasks' \in [Clients -> 0 .. MaxTasks]
  <2>1. tasks[c] \in Nat /\ tasks[c] + 1 \in 0 .. MaxTasks
    BY <1>1, <1>3, PoolAssumption DEF Types
  <2> QED BY <1>1, <1>3, <2>1, Zenon DEF Types
<1>8. Types' BY <1>1, <1>2, <1>3, <1>4, <1>5, <1>7, Zenon DEF Types
<1>9. \A d \in Clients : /\ clientPC'[d] = IF d = c THEN label ELSE clientPC[d]
                         /\ d # c => m_task'[d] = m_task[d]
  BY <1>1, <1>2, <1>3, Zenon DEF Types
<1>10. RunnersRun' BY <1>1, <1>3, <1>5, <1>9, Zenon DEF RunnersRun
<1>11. Busy(c)' /\ \A d \in Clients \ {c} : Busy(d)' <=> Busy(d) BY <1>3, <1>9, Zenon DEF Busy
<1>12. TasksOfBusy' BY <1>1, <1>3, <1>6, <1>9, <1>11, Zenon DEF TasksOfBusy
<1>13. NoOldTask'
  <2> SUFFICES ASSUME NEW q \in Runners, claimed[q] # None
               PROVE  m_task'[claimed[q][1]] \in {0, claimed[q][2]}
    BY <1>3, Zenon DEF NoOldTask
  <2>1. On(c) = {} BY <1>1, <1>3, Zenon DEF TasksOfBusy, Busy
  <2>2. claimed[q][1] \in Clients \ {c} BY <1>1, <2>1, Zenon DEF Types, Claims, On
  <2> QED BY <1>1, <1>9, <2>2, Zenon DEF NoOldTask
<1> QED BY <1>5, <1>6, <1>8, <1>10, <1>12, <1>13, Zenon DEF PoolIInv

\* A client that helps itself or, when idle, another one.
LEMMA ClientClaimKeeps ==
    ASSUME PoolIInv, NEW c \in Clients, NEW d \in Clients, Claim(c, d),
           (clientPC[c] = "set" /\ d = c) \/ clientPC[c] = "idle",
           clientPC' = [clientPC EXCEPT ![c] = "running"],
           UNCHANGED <<m_clients, m_task, sizeVars, tasks, helperPC>>
    PROVE  PoolIInv'
<1>1. Types /\ RunnersRun /\ ActiveCounted /\ TasksOfBusy /\ NoOldTask /\ EveryoneHelps
  BY Zenon DEF PoolIInv
<1>2. c \in Runners /\ claimed[c] = None BY <1>1, Apart, Zenon DEF RunnersRun
<1>3. /\ m_task[d] \in 1 .. MaxTasks
      /\ claimed' \in [Runners -> Claims \cup {None}]
      /\ claimed'[c] = <<d, m_task[d]>> /\ claimed'[c] # None
      /\ \A q \in Runners \ {c} : claimed'[q] = claimed[q]
      /\ m_numActive' \in [Clients -> Nat]
      /\ On(d)' = On(d) \cup {c}
      /\ \A e \in Clients \ {d} : On(e)' = On(e)
      /\ ActiveCounted'
      /\ Busy(d)
  BY <1>2, ClaimCounts, Zenon
<1>4. \A e \in Clients : clientPC'[e] = IF e = c THEN "running" ELSE clientPC[e]
  BY <1>1, Zenon DEF Types
<1>5. \A e \in Clients \ {c} : claimed'[e] = claimed[e] BY <1>3, Apart, Zenon
<1>6. \A h \in Helpers : claimed'[h] = claimed[h] BY <1>3, Apart, Zenon
<1>7. Types' BY <1>1, <1>3, Zenon DEF Types, sizeVars
<1>8. RunnersRun'
  <2>1. /\ \A h \in Helpers : h > m_threads' => helperPC'[h] = "none"
        /\ \A h \in Helpers : claimed'[h] # None <=> helperPC'[h] = "running"
    BY <1>1, <1>6, Zenon DEF RunnersRun, sizeVars
  <2>2. ASSUME NEW e \in Clients PROVE claimed'[e] # None <=> clientPC'[e] = "running"
    <3>1. CASE e = c
      <4>1. clientPC'[e] = "running" BY <1>4, <3>1, Zenon
      <4>2. claimed'[e] # None BY <1>3, <3>1, Zenon
      <4> QED BY <4>1, <4>2, Zenon
    <3>2. CASE e # c
      <4>1. claimed'[e] = claimed[e] /\ clientPC'[e] = clientPC[e] BY <1>4, <1>5, <3>2, Zenon
      <4>2. claimed[e] # None <=> clientPC[e] = "running" BY <1>1, Zenon DEF RunnersRun
      <4> QED BY <4>1, <4>2, Zenon
    <3> QED BY <3>1, <3>2, Zenon
  <2> QED BY <2>1, <2>2, Zenon DEF RunnersRun
<1>9. \A e \in Clients : Busy(e)' <=> Busy(e)
  <2>1. claimed'[c][1] = d BY <1>3
  <2>2. CASE clientPC[c] = "set" /\ d = c BY <1>4, <1>5, <2>1, <2>2, Zenon DEF Busy
  <2>3. CASE clientPC[c] = "idle"
    <3>1. d # c BY <1>3, <2>3, Zenon DEF Busy
    <3> QED BY <1>4, <1>5, <2>1, <2>3, <3>1 DEF Busy
  <2> QED BY <2>2, <2>3, Zenon
<1>10. TasksOfBusy' BY <1>1, <1>3, <1>4, <1>9 DEF TasksOfBusy
<1>11. NoOldTask' BY <1>1, <1>3 DEF NoOldTask
<1>12. EveryoneHelps' BY <1>1, Zenon DEF EveryoneHelps, HasTask, sizeVars
<1> QED BY <1>3, <1>7, <1>8, <1>10, <1>11, <1>12, Zenon DEF PoolIInv

\* doSomeHelping() of the client and of the pool.
LEMMA HelpingKeeps ==
    ASSUME PoolIInv, NEW c \in Clients, DoSomeHelping(c) \/ PoolDoSomeHelping(c)
    PROVE  PoolIInv'
<1>1. Types /\ RunnersRun /\ ActiveCounted /\ TasksOfBusy /\ NoOldTask /\ EveryoneHelps
  BY Zenon DEF PoolIInv
<1>2. CASE PoolDoSomeHelping(c)
  BY <1>2, ClientClaimKeeps, Zenon DEF PoolDoSomeHelping, ClientGoto
<1>3. CASE DoSomeHelping(c) /\ HasTask(c)
  BY <1>3, ClientClaimKeeps, Zenon DEF DoSomeHelping, ClientGoto
<1>4. CASE DoSomeHelping(c) /\ ~HasTask(c)
  <2>1. /\ clientPC[c] = "set" /\ clientPC' = [clientPC EXCEPT ![c] = "helped"]
        /\ UNCHANGED <<m_numActive, claimed, m_clients, m_task, m_numThreads, m_threads,
                       tasks, helperPC>>
    BY <1>4, Zenon DEF DoSomeHelping, ClientGoto, sizeVars
  <2>2. \A d \in Clients : clientPC'[d] = IF d = c THEN "helped" ELSE clientPC[d]
    BY <1>1, <2>1, Zenon DEF Types
  <2>3. ActiveCounted' /\ \A d \in Clients : On(d)' = On(d) BY <2>1, SameClaims, Zenon
  <2>4. Types' BY <1>1, <2>1, Zenon DEF Types
  <2>5. RunnersRun' BY <1>1, <2>1, <2>2 DEF RunnersRun
  <2>6. \A d \in Clients : Busy(d)' <=> Busy(d) BY <2>1, <2>2, Zenon DEF Busy
  <2>7. TasksOfBusy' BY <1>1, <2>1, <2>2, <2>3, <2>6 DEF TasksOfBusy
  <2>8. NoOldTask' BY <1>1, <2>1, Zenon DEF NoOldTask
  <2>9. EveryoneHelps' BY <1>1, <2>1, Zenon DEF EveryoneHelps, HasTask
  <2> QED BY <2>3, <2>4, <2>5, <2>7, <2>8, <2>9, Zenon DEF PoolIInv
<1> QED BY <1>2, <1>3, <1>4, Zenon

\* A client's own thread ends its part of a task.
LEMMA ClientTaskReturnsKeeps ==
    ASSUME PoolIInv, NEW c \in Clients, ClientTaskReturns(c)
    PROVE  PoolIInv'
<1>1. Types /\ RunnersRun /\ ActiveCounted /\ TasksOfBusy /\ NoOldTask /\ EveryoneHelps
  BY DEF PoolIInv
<1>2. /\ clientPC[c] = "running" /\ claimed[c] # None /\ Complete(c)
      /\ clientPC' = [clientPC EXCEPT ![c] = IF claimed[c][1] = c THEN "helped" ELSE "idle"]
      /\ UNCHANGED <<m_clients, m_numThreads, m_threads, tasks, helperPC>>
  BY Zenon DEF ClientTaskReturns, TaskReturns, Complete, ClientGoto, sizeVars
<1>3. PICK d \in Clients :
           /\ claimed[c][1] = d
           /\ m_numActive[d] >= 1
           /\ m_task' = [m_task EXCEPT ![d] = 0]
           /\ claimed' \in [Runners -> Claims \cup {None}]
           /\ claimed'[c] = None
           /\ \A q \in Runners \ {c} : claimed'[q] = claimed[q]
           /\ m_numActive' \in [Clients -> Nat]
           /\ \A e \in Clients : On(e)' = On(e) \ {c}
           /\ ActiveCounted'
           /\ Busy(d)
  BY <1>2, Apart, CompleteCounts, Zenon
<1>4. \A e \in Clients : m_task'[e] = IF e = d THEN 0 ELSE m_task[e] BY <1>1, <1>3, Zenon DEF Types
<1>5. \A e \in Clients \ {c} : claimed'[e] = claimed[e] BY <1>3, Apart, Zenon
<1>6. \A h \in Helpers : claimed'[h] = claimed[h] BY <1>3, Apart, Zenon
<1>7. \A e \in Clients : clientPC'[e] = IF e # c THEN clientPC[e]
                                        ELSE IF d = c THEN "helped" ELSE "idle"
  BY <1>1, <1>2, <1>3, Zenon DEF Types
<1>8. Types' BY <1>1, <1>2, <1>3, PoolAssumption DEF Types
<1>9. RunnersRun' BY <1>1, <1>2, <1>3, <1>5, <1>6, <1>7 DEF RunnersRun
<1>10. \A e \in Clients : Busy(e)' <=> Busy(e)
  BY <1>2, <1>3, <1>5, <1>7 DEF Busy
<1>11. TasksOfBusy' BY <1>1, <1>2, <1>3, <1>4, <1>7, <1>10 DEF TasksOfBusy
<1>12. NoOldTask'
  <2> SUFFICES ASSUME NEW q \in Runners, claimed'[q] # None
               PROVE  m_task'[claimed'[q][1]] \in {0, claimed'[q][2]}
    BY Zenon DEF NoOldTask
  <2>1. q # c /\ claimed'[q] = claimed[q] BY <1>3, Zenon
  <2>2. claimed[q][1] \in Clients BY <1>1, <2>1, Zenon DEF Types, Claims
  <2> QED BY <1>1, <1>4, <2>1, <2>2, Zenon DEF NoOldTask
<1>13. EveryoneHelps'
  <2>1. \A e \in Clients : HasTask(e)' => HasTask(e) BY <1>2, <1>4, Zenon DEF HasTask
  <2> QED BY <1>1, <1>2, <2>1, Zenon DEF EveryoneHelps, Types
<1> QED BY <1>3, <1>8, <1>9, <1>11, <1>12, <1>13, Zenon DEF PoolIInv

\* The loop of finish() lets the client go only when m_numActive is zero: then
\* nobody runs its task.
LEMMA FinishKeeps ==
    ASSUME PoolIInv, NEW c \in Clients, NEW label \in {"finishing", "destroying"},
           Busy(c) \/ (clientPC[c] = "idle" /\ label = "destroying"),
           clientPC[c] # "running",
           m_task' = [m_task EXCEPT ![c] = 0],
           FinishLoop(c, label),
           UNCHANGED <<m_numActive, sizeVars, tasks, helperPC, claimed>>
    PROVE  PoolIInv'
<1>1. Types /\ RunnersRun /\ ActiveCounted /\ TasksOfBusy /\ NoOldTask /\ EveryoneHelps
  BY Zenon DEF PoolIInv
<1>2. ActiveCounted' /\ \A d \in Clients : On(d)' = On(d) BY SameClaims, Zenon
<1>3. \A d \in Clients : m_task'[d] = IF d = c THEN 0 ELSE m_task[d] BY <1>1, Zenon DEF Types
<1>4. PICK next \in {"idle", "none", "finishing", "destroying"} :
         /\ clientPC' = [clientPC EXCEPT ![c] = next]
         /\ m_clients' = IF next = "none" THEN m_clients \ {c} ELSE m_clients
         /\ next \in {"idle", "none"} => m_numActive[c] = 0
  BY Zenon DEF FinishLoop, ClientGoto
<1>5. \A d \in Clients : clientPC'[d] = IF d = c THEN next ELSE clientPC[d]
  BY <1>1, <1>4, Zenon DEF Types
<1>6. next \in {"idle", "none"} => On(c) = {}
  <2>1. IsFiniteSet(On(c)) /\ m_numActive[c] = Cardinality(On(c)) BY <1>1, Zenon DEF ActiveCounted
  <2> QED BY <1>4, <2>1, FS_EmptySet, Zenon
<1>7. Types' BY <1>1, <1>4, PoolAssumption DEF Types, sizeVars
<1>8. RunnersRun' BY <1>1, <1>5, Zenon DEF RunnersRun, sizeVars
<1>9. \A d \in Clients \ {c} : Busy(d)' <=> Busy(d) BY <1>5, Zenon DEF Busy
<1>10. ~Busy(c)' => next \in {"idle", "none"} BY <1>5, Zenon DEF Busy
<1>11. clientPC[c] # "none" BY Zenon DEF Busy
<1>12. m_clients' = {d \in Clients : clientPC'[d] # "none"}
  BY <1>1, <1>4, <1>5, <1>11, Zenon DEF TasksOfBusy
<1>13. TasksOfBusy'
  BY <1>1, <1>2, <1>3, <1>5, <1>6, <1>9, <1>10, <1>12, Zenon DEF TasksOfBusy
<1>14. NoOldTask'
  <2> SUFFICES ASSUME NEW q \in Runners, claimed[q] # None
               PROVE  m_task'[claimed[q][1]] \in {0, claimed[q][2]}
    BY Zenon DEF NoOldTask
  <2>1. claimed[q][1] \in Clients BY <1>1, Zenon DEF Types, Claims
  <2> QED BY <1>1, <1>3, <2>1, Zenon DEF NoOldTask
<1>15. EveryoneHelps'
  <2>1. \A d \in Clients : HasTask(d)' => HasTask(d) BY <1>3, <1>4, Zenon DEF HasTask
  <2> QED BY <1>1, <2>1, Zenon DEF EveryoneHelps, sizeVars
<1> QED BY <1>2, <1>7, <1>8, <1>13, <1>14, <1>15, Zenon DEF PoolIInv

\* finish() and the destructor of a client.
LEMMA FinishStepKeeps ==
    ASSUME PoolIInv, NEW c \in Clients,
           \/ \E label \in {"finishing", "destroying"} : BeginFinish(c, label)
           \/ FinishAgain(c)
    PROVE  PoolIInv'
<1>1. ASSUME NEW label \in {"finishing", "destroying"}, BeginFinish(c, label) PROVE PoolIInv'
  <2>1. /\ Busy(c) \/ (clientPC[c] = "idle" /\ label = "destroying")
        /\ clientPC[c] # "running"
    <3>1. \/ clientPC[c] \in {"set", "helped"}
          \/ clientPC[c] = "idle" /\ label = "destroying"
      BY <1>1, Zenon DEF BeginFinish
    <3> QED BY <3>1, Zenon DEF Busy
  <2>2. /\ m_task' = [m_task EXCEPT ![c] = 0] /\ FinishLoop(c, label)
        /\ UNCHANGED <<m_numActive, sizeVars, tasks, helperPC, claimed>>
    BY <1>1, Zenon DEF BeginFinish
  <2> QED BY <2>1, <2>2, FinishKeeps, Zenon
<1>2. CASE FinishAgain(c)
  <2>1. m_task \in [Clients -> 0 .. MaxTasks] /\ m_task[c] = 0
    BY <1>2, Zenon DEF PoolIInv, Types, TasksOfBusy, FinishAgain
  <2>2. m_task' = [m_task EXCEPT ![c] = 0] BY <1>2, <2>1, Zenon DEF FinishAgain
  <2>3. PICK label \in {"finishing", "destroying"} : clientPC[c] = label
    BY <1>2, Zenon DEF FinishAgain
  <2>4. /\ Busy(c) \/ (clientPC[c] = "idle" /\ label = "destroying")
        /\ clientPC[c] # "running"
    BY <2>3, Zenon DEF Busy
  <2>5. /\ FinishLoop(c, label)
        /\ UNCHANGED <<m_numActive, sizeVars, tasks, helperPC, claimed>>
    BY <1>2, <2>3, Zenon DEF FinishAgain
  <2> QED BY <2>2, <2>4, <2>5, FinishKeeps, Zenon
<1> QED BY <1>1, <1>2, Zenon

-----------------------------------------------------------------------------
(* The pool.                                                               *)

\* ensureThreads() brings new threads to the tasks there are.
LEMMA EnsureThreadsKeeps ==
    ASSUME PoolIInv, NEW n \in 0 .. MaxThreads, EnsureThreads(n)
    PROVE  PoolIInv'
<1>1. Types /\ RunnersRun /\ ActiveCounted /\ TasksOfBusy /\ NoOldTask /\ EveryoneHelps
  BY Zenon DEF PoolIInv
<1>2. /\ n >= m_numThreads /\ m_numThreads' = n /\ n \in Nat
      /\ UNCHANGED <<m_clients, m_task, m_numActive, clientPC, tasks, claimed>>
  BY PoolAssumption DEF EnsureThreads
<1>3. ActiveCounted' /\ \A d \in Clients : On(d)' = On(d) BY <1>2, SameClaims, Zenon
<1>4. TasksOfBusy' /\ NoOldTask' BY <1>1, <1>2, <1>3, Zenon DEF TasksOfBusy, Busy, NoOldTask
<1>5. CASE \E c \in Clients : HasTask(c)
  <2>1. DidMakeWorkAvailable(n) /\ m_numThreads <= n BY <1>1, <1>2, <1>5, Zenon DEF EnsureThreads, Types
  <2>2. /\ m_threads' = n
        /\ helperPC' \in [Helpers -> {"none", "look", "waiting", "running", "ended"}]
        /\ \A h \in Helpers : /\ h > n => helperPC'[h] = "none"
                              /\ helperPC'[h] = "running" <=> helperPC[h] = "running"
        /\ EveryoneHelps'
    BY <1>2, <2>1, WorkIsMadeAvailable, Zenon
  <2>3. Types' BY <1>1, <1>2, <2>2 DEF Types
  <2>4. RunnersRun' BY <1>1, <1>2, <2>2, Zenon DEF RunnersRun
  <2> QED BY <1>3, <1>4, <2>2, <2>3, <2>4, Zenon DEF PoolIInv
<1>6. CASE ~ \E c \in Clients : HasTask(c)
  <2>1. UNCHANGED <<m_threads, helperPC>> BY <1>6, Zenon DEF EnsureThreads
  <2>2. Types' BY <1>1, <1>2, <2>1 DEF Types
  <2>3. RunnersRun' BY <1>1, <1>2, <2>1, Zenon DEF RunnersRun
  <2>4. EveryoneHelps' BY <1>2, <1>6, Zenon DEF EveryoneHelps, HasTask
  <2> QED BY <1>3, <1>4, <2>2, <2>3, <2>4, Zenon DEF PoolIInv
<1> QED BY <1>5, <1>6, Zenon

\* The destructor of the pool only wakes its threads.
LEMMA PoolDestroyKeeps ==
    ASSUME PoolIInv, PoolDestroy
    PROVE  PoolIInv'
<1>1. Types /\ RunnersRun /\ ActiveCounted /\ TasksOfBusy /\ NoOldTask /\ EveryoneHelps
  BY Zenon DEF PoolIInv
<1>2. UNCHANGED <<m_clients, m_task, m_numActive, m_numThreads, m_threads, clientPC, tasks,
                  claimed>>
  BY Zenon DEF PoolDestroy
<1>3. \A h \in Helpers :
         helperPC'[h] = IF helperPC[h] = "waiting" THEN "look" ELSE helperPC[h]
  BY Zenon DEF PoolDestroy
<1>4. ActiveCounted' /\ \A d \in Clients : On(d)' = On(d) BY <1>2, SameClaims, Zenon
<1>5. TasksOfBusy' /\ NoOldTask' BY <1>1, <1>2, <1>4, Zenon DEF TasksOfBusy, Busy, NoOldTask
<1>6. Types' BY <1>1, <1>2, Zenon DEF Types, PoolDestroy
<1>7. RunnersRun' BY <1>1, <1>2, <1>3, Zenon DEF RunnersRun
<1>8. EveryoneHelps' BY <1>1, <1>2, <1>3, Zenon DEF EveryoneHelps, HasTask
<1> QED BY <1>4, <1>5, <1>6, <1>7, <1>8, Zenon DEF PoolIInv

-----------------------------------------------------------------------------
\* Every step keeps the invariant.
LEMMA NextKeeps == PoolIInv /\ [PoolNext]_poolVars => PoolIInv'
<1> SUFFICES ASSUME PoolIInv, [PoolNext]_poolVars PROVE PoolIInv'
  BY Zenon
<1>1. ASSUME NEW h \in Helpers, HelperStep(h) PROVE PoolIInv'
  BY <1>1, HelperLookKeeps, HelperTaskReturnsKeeps, Zenon DEF HelperStep
<1>2. ASSUME NEW c \in Clients, ClientStep(c) PROVE PoolIInv'
  BY <1>2, HelpingKeeps, ClientTaskReturnsKeeps, FinishStepKeeps, Zenon DEF ClientStep
<1>3. ASSUME NEW c \in Clients, ClientCreate(c) \/ PoolDoSomeHelping(c) PROVE PoolIInv'
  BY <1>3, ClientCreateKeeps, HelpingKeeps, Zenon
<1>4. CASE UNCHANGED poolVars
  <2>1. ActiveCounted' /\ \A d \in Clients : On(d)' = On(d) BY <1>4, SameClaims, Zenon DEF poolVars
  <2>2. Types' BY <1>4, Zenon DEF PoolIInv, Types, poolVars
  <2>3. RunnersRun' BY <1>4, Zenon DEF PoolIInv, RunnersRun, poolVars
  <2>4. TasksOfBusy' /\ NoOldTask' BY <1>4, <2>1, Zenon DEF PoolIInv, TasksOfBusy, Busy, NoOldTask, poolVars
  <2>5. EveryoneHelps' BY <1>4, Zenon DEF PoolIInv, EveryoneHelps, HasTask, poolVars
  <2> QED BY <2>1, <2>2, <2>3, <2>4, <2>5, Zenon DEF PoolIInv
<1> QED BY <1>1, <1>2, <1>3, <1>4, SetTaskKeeps, FinishStepKeeps, EnsureThreadsKeeps,
           PoolDestroyKeeps
       , Zenon DEF PoolNext

\* The invariant holds throughout.
LEMMA PoolInvariance == PoolSpec => []PoolIInv
BY InitPoolIInv, NextKeeps, PTL DEF PoolSpec

\* For any number of clients, threads and tasks: when finish() or the destructor
\* of a client has returned, no thread runs a task of it any more, so no thread
\* runs a task other than the last one set.
THEOREM FinishWaits == PoolSpec => []FinishWaitsForAll
BY PoolInvariance, Promises, PTL

\* While a client has a task, all threads that ensureThreads() asked for exist,
\* and none of them sleeps.
THEOREM AllThreadsHelp == PoolSpec => []EveryoneHelps
<1>1. PoolIInv => EveryoneHelps BY Zenon DEF PoolIInv
<1> QED BY <1>1, PoolInvariance, PTL

-----------------------------------------------------------------------------
(* The lock.                                                               *)
(* The inductive invariant.  Mutual exclusion rests on the bits telling    *)
(* who holds the lock and the queue, and the bits on what each thread      *)
(* still knows of the word it has loaded.                                  *)
IInv == TypeOK /\ MutualExclusion /\ BitsTellTheTruth /\ LoadedWordIsGood

(* The constructor's word, with no thread inside, satisfies the invariant. *)
LEMMA InitIInv == Init => IInv
  BY WordLockAssumption
     DEF Init, IInv, TypeOK, MutualExclusion, BitsTellTheTruth, LoadedWordIsGood,
         WordIsGoodAt, Word, ZeroWord, ThreadDataPtr, PC, Holds, OwnsQueue,
         HoldingPC, QueuePC

(* Another thread's view of the word survives a step of t, because t       *)
(* writes the word only while no other thread owns the queue.              *)
LEMMA OthersKeepTheirView ==
    ASSUME LoadedWordIsGood, NEW t \in Threads, NEW u \in Threads \ {t},
           \/ pc'[u] = pc[u]
           \/ pc[u] = "waiting" /\ pc'[u] = "park",
           currentWordValue'[u] = currentWordValue[u],
           m_word' = m_word \/ ~OwnsQueue(u)
    PROVE  WordIsGoodAt(u)'
<1>1. WordIsGoodAt(u)
  BY Zenon DEF LoadedWordIsGood
<1>2. CASE pc[u] = "waiting" /\ pc'[u] = "park"
  BY <1>2, Zenon DEF WordIsGoodAt
<1>3. CASE pc'[u] = pc[u] /\ m_word' = m_word
  BY <1>1, <1>3, Zenon DEF WordIsGoodAt
<1>4. CASE pc'[u] = pc[u] /\ ~OwnsQueue(u)
  BY <1>1, <1>4, Zenon DEF WordIsGoodAt, OwnsQueue, QueuePC
<1> QED
  BY <1>2, <1>3, <1>4, Zenon

(* A step that neither writes the word nor changes who has the lock or the *)
(* queue can only disturb what its own thread knows.                       *)
LEMMA QuietStep ==
    ASSUME IInv, TypeOK', NEW t \in Threads, m_word' = m_word,
           \A u \in Threads \ {t} :
               /\ \/ pc'[u] = pc[u]
                  \/ pc[u] = "waiting" /\ pc'[u] = "park"
               /\ currentWordValue'[u] = currentWordValue[u],
           Holds(t)' <=> Holds(t),
           OwnsQueue(t)' <=> OwnsQueue(t),
           WordIsGoodAt(t)'
    PROVE  IInv'
<1>1. \A u \in Threads : (Holds(u)' <=> Holds(u)) /\ (OwnsQueue(u)' <=> OwnsQueue(u))
  BY Zenon DEF Holds, OwnsQueue, HoldingPC, QueuePC
<1>2. MutualExclusion' /\ BitsTellTheTruth'
  BY <1>1, Zenon DEF IInv, MutualExclusion, BitsTellTheTruth
<1>3. LoadedWordIsGood'
  BY OthersKeepTheirView, Zenon DEF IInv, LoadedWordIsGood
<1> QED
  BY <1>2, <1>3, Zenon DEF IInv

(* A step of t that writes the word while no other thread owns the queue.  *)
LEMMA WritingStep ==
    ASSUME IInv, TypeOK', NEW t \in Threads,
           \A u \in Threads \ {t} : /\ pc'[u] = pc[u]
                                    /\ currentWordValue'[u] = currentWordValue[u]
                                    /\ ~Holds(u) \/ ~Holds(t)'
                                    /\ ~OwnsQueue(u),
           m_word'.isLocked <=> Holds(t)' \/ \E u \in Threads \ {t} : Holds(u),
           m_word'.isQueueLocked <=> OwnsQueue(t)',
           m_word'.isQueueLocked => m_word'.isLocked,
           WordIsGoodAt(t)'
    PROVE  IInv'
<1>1. \A u \in Threads \ {t} : (Holds(u)' <=> Holds(u)) /\ ~OwnsQueue(u)'
  BY Zenon DEF Holds, OwnsQueue
<1>2. MutualExclusion'
  BY <1>1, Zenon DEF IInv, MutualExclusion
<1>3. BitsTellTheTruth'
  BY <1>1, Zenon DEF BitsTellTheTruth
<1>4. LoadedWordIsGood'
  BY OthersKeepTheirView, Zenon DEF IInv, LoadedWordIsGood
<1> QED
  BY <1>2, <1>3, <1>4, Zenon DEF IInv

(* Every step of every thread preserves the invariant. *)
LEMMA NextIInv == IInv /\ [Next]_vars => IInv'
<1> SUFFICES ASSUME IInv, [Next]_vars PROVE IInv'
  OBVIOUS
<1>0. TypeOK /\ MutualExclusion /\ BitsTellTheTruth /\ \A t \in Threads : WordIsGoodAt(t)
  BY Zenon DEF IInv, LoadedWordIsGood
<1> USE WordLockAssumption DEF ThreadDataPtr, PC, Word, Goto, LoadWord, queues
<1>1. ASSUME NEW t \in Threads, LockFast(t) PROVE IInv'
  <2>1. TypeOK'
    BY <1>0, <1>1, Zenon DEF LockFast, TypeOK, WordIsGoodAt, ZeroWord, LockedWord
  <2>2. ~m_word.isLocked /\ ~m_word.isQueueLocked
    BY <1>0, <1>1, Zenon DEF LockFast, WordIsGoodAt, BitsTellTheTruth, Holds, HoldingPC, OwnsQueue, QueuePC, ZeroWord, LockedWord
  <2>3. \A u \in Threads \ {t} : /\ pc'[u] = pc[u]
                                 /\ currentWordValue'[u] = currentWordValue[u]
    BY <1>0, <1>1, Zenon DEF LockFast, TypeOK
  <2>4. \A u \in Threads \ {t} : (~Holds(u) \/ ~Holds(t)') /\ ~OwnsQueue(u)
    BY <1>0, <1>1, <2>2, Zenon DEF LockFast, TypeOK, MutualExclusion, BitsTellTheTruth, Holds, HoldingPC
  <2>5. /\ m_word'.isLocked <=> Holds(t)' \/ \E u \in Threads \ {t} : Holds(u)
        /\ m_word'.isQueueLocked <=> OwnsQueue(t)'
        /\ m_word'.isQueueLocked => m_word'.isLocked
    BY <1>0, <1>1, <2>2, Zenon DEF LockFast, TypeOK, MutualExclusion, BitsTellTheTruth, WordIsGoodAt, ZeroWord, LockedWord,
       Holds, HoldingPC, OwnsQueue, QueuePC
  <2>6. WordIsGoodAt(t)'
    BY <1>0, <1>1, Zenon DEF LockFast, TypeOK, WordIsGoodAt
  <2> QED
    BY <2>1, <2>3, <2>4, <2>5, <2>6, WritingStep, Zenon
<1>2. ASSUME NEW t \in Threads, LockFastFail(t) PROVE IInv'
  <2>1. TypeOK'
    BY <1>0, <1>2 DEF LockFastFail, TypeOK, WordIsGoodAt
  <2>2. /\ m_word' = m_word
        /\ \A u \in Threads \ {t} :
               /\ pc'[u] = pc[u] \/ (pc[u] = "waiting" /\ pc'[u] = "park")
               /\ currentWordValue'[u] = currentWordValue[u]
    BY <1>0, <1>2, Zenon DEF LockFastFail, TypeOK
  <2>3. (Holds(t)' <=> Holds(t)) /\ (OwnsQueue(t)' <=> OwnsQueue(t))
    BY <1>0, <1>2, Zenon DEF LockFastFail, TypeOK, Holds, HoldingPC, OwnsQueue, QueuePC
  <2>4. WordIsGoodAt(t)'
    BY <1>0, <1>2, Zenon DEF LockFastFail, TypeOK, WordIsGoodAt, BitsTellTheTruth, Holds, HoldingPC
  <2> QED
    BY <2>1, <2>2, <2>3, <2>4, QuietStep, Zenon
<1>3. ASSUME NEW t \in Threads, SlowLoad(t) PROVE IInv'
  <2>1. TypeOK'
    BY <1>0, <1>3 DEF SlowLoad, SpinOrQueue, TypeOK, WordIsGoodAt
  <2>2. /\ m_word' = m_word
        /\ \A u \in Threads \ {t} :
               /\ pc'[u] = pc[u] \/ (pc[u] = "waiting" /\ pc'[u] = "park")
               /\ currentWordValue'[u] = currentWordValue[u]
    BY <1>0, <1>3, Zenon DEF SlowLoad, SpinOrQueue, TypeOK
  <2>3. (Holds(t)' <=> Holds(t)) /\ (OwnsQueue(t)' <=> OwnsQueue(t))
    BY <1>0, <1>3, Zenon DEF SlowLoad, SpinOrQueue, TypeOK, Holds, HoldingPC, OwnsQueue, QueuePC
  <2>4. WordIsGoodAt(t)'
    BY <1>0, <1>3 DEF SlowLoad, SpinOrQueue, TypeOK, WordIsGoodAt, BitsTellTheTruth, Holds, HoldingPC
  <2> QED
    BY <2>1, <2>2, <2>3, <2>4, QuietStep
<1>4. ASSUME NEW t \in Threads, SlowAcquire(t) PROVE IInv'
  <2>1. TypeOK'
    BY <1>0, <1>4, Zenon DEF SlowAcquire, TypeOK, WordIsGoodAt
  <2>2. ~m_word.isLocked /\ ~m_word.isQueueLocked
    BY <1>0, <1>4, Zenon DEF SlowAcquire, WordIsGoodAt, BitsTellTheTruth, Holds, HoldingPC, OwnsQueue, QueuePC
  <2>3. \A u \in Threads \ {t} : /\ pc'[u] = pc[u]
                                 /\ currentWordValue'[u] = currentWordValue[u]
    BY <1>0, <1>4, Zenon DEF SlowAcquire, TypeOK
  <2>4. \A u \in Threads \ {t} : (~Holds(u) \/ ~Holds(t)') /\ ~OwnsQueue(u)
    BY <1>0, <1>4, <2>2, Zenon DEF SlowAcquire, TypeOK, MutualExclusion, BitsTellTheTruth, Holds, HoldingPC
  <2>5. /\ m_word'.isLocked <=> Holds(t)' \/ \E u \in Threads \ {t} : Holds(u)
        /\ m_word'.isQueueLocked <=> OwnsQueue(t)'
        /\ m_word'.isQueueLocked => m_word'.isLocked
    BY <1>0, <1>4, <2>2, Zenon DEF SlowAcquire, TypeOK, MutualExclusion, BitsTellTheTruth, WordIsGoodAt,
       Holds, HoldingPC, OwnsQueue, QueuePC
  <2>6. WordIsGoodAt(t)'
    BY <1>0, <1>4, Zenon DEF SlowAcquire, TypeOK, WordIsGoodAt
  <2> QED
    BY <2>1, <2>3, <2>4, <2>5, <2>6, WritingStep
<1>5. ASSUME NEW t \in Threads, SlowAcquireFail(t) PROVE IInv'
  <2>1. TypeOK'
    BY <1>0, <1>5 DEF SlowAcquireFail, SpinOrQueue, TypeOK, WordIsGoodAt
  <2>2. /\ m_word' = m_word
        /\ \A u \in Threads \ {t} :
               /\ pc'[u] = pc[u] \/ (pc[u] = "waiting" /\ pc'[u] = "park")
               /\ currentWordValue'[u] = currentWordValue[u]
    BY <1>0, <1>5, Zenon DEF SlowAcquireFail, SpinOrQueue, TypeOK
  <2>3. (Holds(t)' <=> Holds(t)) /\ (OwnsQueue(t)' <=> OwnsQueue(t))
    BY <1>0, <1>5, Zenon DEF SlowAcquireFail, SpinOrQueue, TypeOK, Holds, HoldingPC, OwnsQueue, QueuePC
  <2>4. WordIsGoodAt(t)'
    BY <1>0, <1>5, Zenon DEF SlowAcquireFail, SpinOrQueue, TypeOK, WordIsGoodAt, BitsTellTheTruth, Holds, HoldingPC
  <2> QED
    BY <2>1, <2>2, <2>3, <2>4, QuietStep
<1>6. ASSUME NEW t \in Threads, Reload(t) PROVE IInv'
  <2>1. TypeOK'
    BY <1>0, <1>6, Zenon DEF Reload, MayTakeQueueLock, TypeOK, WordIsGoodAt
  <2>2. /\ m_word' = m_word
        /\ \A u \in Threads \ {t} :
               /\ pc'[u] = pc[u] \/ (pc[u] = "waiting" /\ pc'[u] = "park")
               /\ currentWordValue'[u] = currentWordValue[u]
    BY <1>0, <1>6, Zenon DEF Reload, MayTakeQueueLock, TypeOK
  <2>3. (Holds(t)' <=> Holds(t)) /\ (OwnsQueue(t)' <=> OwnsQueue(t))
    BY <1>0, <1>6, Zenon DEF Reload, MayTakeQueueLock, TypeOK, Holds, HoldingPC, OwnsQueue, QueuePC
  <2>4. WordIsGoodAt(t)'
    BY <1>0, <1>6, Zenon DEF Reload, MayTakeQueueLock, TypeOK, WordIsGoodAt, BitsTellTheTruth, Holds, HoldingPC
  <2> QED
    BY <2>1, <2>2, <2>3, <2>4, QuietStep
<1>7. ASSUME NEW t \in Threads, TakeQueueLock(t) PROVE IInv'
  <2>1. TypeOK'
    BY <1>0, <1>7, Zenon DEF TakeQueueLock, TypeOK, WordIsGoodAt
  <2>2. m_word.isLocked /\ ~m_word.isQueueLocked
    BY <1>0, <1>7, Zenon DEF TakeQueueLock, WordIsGoodAt, BitsTellTheTruth, Holds, HoldingPC, OwnsQueue, QueuePC
  <2>3. \A u \in Threads \ {t} : /\ pc'[u] = pc[u]
                                 /\ currentWordValue'[u] = currentWordValue[u]
    BY <1>0, <1>7, Zenon DEF TakeQueueLock, TypeOK
  <2>4. \A u \in Threads \ {t} : (~Holds(u) \/ ~Holds(t)') /\ ~OwnsQueue(u)
    BY <1>0, <1>7, <2>2, Zenon DEF TakeQueueLock, TypeOK, MutualExclusion, BitsTellTheTruth, Holds, HoldingPC
  <2>5. /\ m_word'.isLocked <=> Holds(t)' \/ \E u \in Threads \ {t} : Holds(u)
        /\ m_word'.isQueueLocked <=> OwnsQueue(t)'
        /\ m_word'.isQueueLocked => m_word'.isLocked
    BY <1>0, <1>7, <2>2, Zenon DEF TakeQueueLock, TypeOK, MutualExclusion, BitsTellTheTruth, WordIsGoodAt,
       Holds, HoldingPC, OwnsQueue, QueuePC
  <2>6. WordIsGoodAt(t)'
    BY <1>0, <1>7, Zenon DEF TakeQueueLock, TypeOK, WordIsGoodAt
  <2> QED
    BY <2>1, <2>3, <2>4, <2>5, <2>6, WritingStep
<1>8. ASSUME NEW t \in Threads, TakeQueueLockFail(t) PROVE IInv'
  <2>1. TypeOK'
    BY <1>0, <1>8, Zenon DEF TakeQueueLockFail, TypeOK, WordIsGoodAt
  <2>2. /\ m_word' = m_word
        /\ \A u \in Threads \ {t} :
               /\ pc'[u] = pc[u] \/ (pc[u] = "waiting" /\ pc'[u] = "park")
               /\ currentWordValue'[u] = currentWordValue[u]
    BY <1>0, <1>8, Zenon DEF TakeQueueLockFail, TypeOK
  <2>3. (Holds(t)' <=> Holds(t)) /\ (OwnsQueue(t)' <=> OwnsQueue(t))
    BY <1>0, <1>8, Zenon DEF TakeQueueLockFail, TypeOK, Holds, HoldingPC, OwnsQueue, QueuePC
  <2>4. WordIsGoodAt(t)'
    BY <1>0, <1>8, Zenon DEF TakeQueueLockFail, TypeOK, WordIsGoodAt, BitsTellTheTruth, Holds, HoldingPC
  <2> QED
    BY <2>1, <2>2, <2>3, <2>4, QuietStep
<1>9. ASSUME NEW t \in Threads, Enqueue(t) PROVE IInv'
  <2>1. TypeOK'
    BY <1>0, <1>9 DEF Enqueue, LinkAtTail, TypeOK, WordIsGoodAt
  <2>2. /\ m_word' = m_word
        /\ \A u \in Threads \ {t} :
               /\ pc'[u] = pc[u] \/ (pc[u] = "waiting" /\ pc'[u] = "park")
               /\ currentWordValue'[u] = currentWordValue[u]
    BY <1>0, <1>9, Zenon DEF Enqueue, LinkAtTail, TypeOK
  <2>3. (Holds(t)' <=> Holds(t)) /\ (OwnsQueue(t)' <=> OwnsQueue(t))
    BY <1>0, <1>9, Zenon DEF Enqueue, LinkAtTail, TypeOK, Holds, HoldingPC, OwnsQueue, QueuePC
  <2>4. WordIsGoodAt(t)'
    BY <1>0, <1>9, Zenon DEF Enqueue, LinkAtTail, TypeOK, WordIsGoodAt, BitsTellTheTruth, Holds, HoldingPC
  <2> QED
    BY <2>1, <2>2, <2>3, <2>4, QuietStep
<1>10. ASSUME NEW t \in Threads, Publish(t) PROVE IInv'
  <2>1. TypeOK'
    BY <1>0, <1>10, Zenon DEF Publish, PublishedWord, TypeOK, WordIsGoodAt
  <2>2. m_word.isLocked /\ m_word.isQueueLocked /\ OwnsQueue(t) /\ ~Holds(t)
    BY <1>0, <1>10, Zenon DEF Publish, WordIsGoodAt, BitsTellTheTruth, Holds, HoldingPC, OwnsQueue, QueuePC
  <2>3. \A u \in Threads \ {t} : /\ pc'[u] = pc[u]
                                 /\ currentWordValue'[u] = currentWordValue[u]
    BY <1>0, <1>10, Zenon DEF Publish, TypeOK
  <2>4. \A u \in Threads \ {t} : (~Holds(u) \/ ~Holds(t)') /\ ~OwnsQueue(u)
    BY <1>0, <1>10, <2>2, Zenon DEF Publish, TypeOK, MutualExclusion, BitsTellTheTruth, Holds, HoldingPC
  <2>5. /\ m_word'.isLocked <=> Holds(t)' \/ \E u \in Threads \ {t} : Holds(u)
        /\ m_word'.isQueueLocked <=> OwnsQueue(t)'
        /\ m_word'.isQueueLocked => m_word'.isLocked
    BY <1>0, <1>10, <2>2 DEF Publish, PublishedWord, TypeOK, MutualExclusion, BitsTellTheTruth, WordIsGoodAt,
       Holds, HoldingPC, OwnsQueue, QueuePC
  <2>6. WordIsGoodAt(t)'
    BY <1>0, <1>10, Zenon DEF Publish, PublishedWord, TypeOK, WordIsGoodAt
  <2> QED
    BY <2>1, <2>3, <2>4, <2>5, <2>6, WritingStep
<1>11. ASSUME NEW t \in Threads, Park(t) PROVE IInv'
  <2>1. TypeOK'
    BY <1>0, <1>11, Zenon DEF Park, TypeOK, WordIsGoodAt
  <2>2. /\ m_word' = m_word
        /\ \A u \in Threads \ {t} :
               /\ pc'[u] = pc[u] \/ (pc[u] = "waiting" /\ pc'[u] = "park")
               /\ currentWordValue'[u] = currentWordValue[u]
    BY <1>0, <1>11, Zenon DEF Park, TypeOK
  <2>3. (Holds(t)' <=> Holds(t)) /\ (OwnsQueue(t)' <=> OwnsQueue(t))
    BY <1>0, <1>11, Zenon DEF Park, TypeOK, Holds, HoldingPC, OwnsQueue, QueuePC
  <2>4. WordIsGoodAt(t)'
    BY <1>0, <1>11, Zenon DEF Park, TypeOK, WordIsGoodAt, BitsTellTheTruth, Holds, HoldingPC
  <2> QED
    BY <2>1, <2>2, <2>3, <2>4, QuietStep
<1>12. ASSUME NEW t \in Threads, SpuriousWakeup(t) PROVE IInv'
  <2>1. TypeOK'
    BY <1>0, <1>12, Zenon DEF SpuriousWakeup, TypeOK, WordIsGoodAt
  <2>2. /\ m_word' = m_word
        /\ \A u \in Threads \ {t} :
               /\ pc'[u] = pc[u] \/ (pc[u] = "waiting" /\ pc'[u] = "park")
               /\ currentWordValue'[u] = currentWordValue[u]
    BY <1>0, <1>12, Zenon DEF SpuriousWakeup, TypeOK
  <2>3. (Holds(t)' <=> Holds(t)) /\ (OwnsQueue(t)' <=> OwnsQueue(t))
    BY <1>0, <1>12, Zenon DEF SpuriousWakeup, TypeOK, Holds, HoldingPC, OwnsQueue, QueuePC
  <2>4. WordIsGoodAt(t)'
    BY <1>0, <1>12, Zenon DEF SpuriousWakeup, TypeOK, WordIsGoodAt, BitsTellTheTruth, Holds, HoldingPC
  <2> QED
    BY <2>1, <2>2, <2>3, <2>4, QuietStep
<1>13. ASSUME NEW t \in Threads, UnlockFast(t) PROVE IInv'
  <2>1. TypeOK'
    BY <1>0, <1>13, Zenon DEF UnlockFast, TypeOK, WordIsGoodAt, ZeroWord, LockedWord
  <2>2. Holds(t) /\ ~m_word.isQueueLocked
    BY <1>0, <1>13, Zenon DEF UnlockFast, WordIsGoodAt, BitsTellTheTruth, Holds, HoldingPC, OwnsQueue, QueuePC, ZeroWord, LockedWord
  <2>3. \A u \in Threads \ {t} : /\ pc'[u] = pc[u]
                                 /\ currentWordValue'[u] = currentWordValue[u]
    BY <1>0, <1>13, Zenon DEF UnlockFast, TypeOK
  <2>4. \A u \in Threads \ {t} : (~Holds(u) \/ ~Holds(t)') /\ ~OwnsQueue(u)
    BY <1>0, <1>13, <2>2, Zenon DEF UnlockFast, TypeOK, MutualExclusion, BitsTellTheTruth, Holds, HoldingPC
  <2>5. /\ m_word'.isLocked <=> Holds(t)' \/ \E u \in Threads \ {t} : Holds(u)
        /\ m_word'.isQueueLocked <=> OwnsQueue(t)'
        /\ m_word'.isQueueLocked => m_word'.isLocked
    BY <1>0, <1>13, <2>2 DEF UnlockFast, TypeOK, MutualExclusion, BitsTellTheTruth, WordIsGoodAt, ZeroWord, LockedWord,
       Holds, HoldingPC, OwnsQueue, QueuePC
  <2>6. WordIsGoodAt(t)'
    BY <1>0, <1>13, Zenon DEF UnlockFast, TypeOK, WordIsGoodAt
  <2> QED
    BY <2>1, <2>3, <2>4, <2>5, <2>6, WritingStep
<1>14. ASSUME NEW t \in Threads, UnlockFastFail(t) PROVE IInv'
  <2>1. TypeOK'
    BY <1>0, <1>14, Zenon DEF UnlockFastFail, TypeOK, WordIsGoodAt
  <2>2. /\ m_word' = m_word
        /\ \A u \in Threads \ {t} :
               /\ pc'[u] = pc[u] \/ (pc[u] = "waiting" /\ pc'[u] = "park")
               /\ currentWordValue'[u] = currentWordValue[u]
    BY <1>0, <1>14, Zenon DEF UnlockFastFail, TypeOK
  <2>3. (Holds(t)' <=> Holds(t)) /\ (OwnsQueue(t)' <=> OwnsQueue(t))
    BY <1>0, <1>14, Zenon DEF UnlockFastFail, TypeOK, Holds, HoldingPC, OwnsQueue, QueuePC
  <2>4. WordIsGoodAt(t)'
    BY <1>0, <1>14 DEF UnlockFastFail, TypeOK, WordIsGoodAt, BitsTellTheTruth, Holds, HoldingPC
  <2> QED
    BY <2>1, <2>2, <2>3, <2>4, QuietStep
<1>15. ASSUME NEW t \in Threads, UnlockLoad(t) PROVE IInv'
  <2>1. TypeOK'
    BY <1>0, <1>15, Zenon DEF UnlockLoad, UnlockStep, TypeOK, WordIsGoodAt
  <2>2. /\ m_word' = m_word
        /\ \A u \in Threads \ {t} :
               /\ pc'[u] = pc[u] \/ (pc[u] = "waiting" /\ pc'[u] = "park")
               /\ currentWordValue'[u] = currentWordValue[u]
    BY <1>0, <1>15, Zenon DEF UnlockLoad, UnlockStep, TypeOK
  <2>3. (Holds(t)' <=> Holds(t)) /\ (OwnsQueue(t)' <=> OwnsQueue(t))
    BY <1>0, <1>15, Zenon DEF UnlockLoad, UnlockStep, TypeOK, Holds, HoldingPC, OwnsQueue, QueuePC
  <2>4. WordIsGoodAt(t)'
    BY <1>0, <1>15 DEF UnlockLoad, UnlockStep, TypeOK, WordIsGoodAt, BitsTellTheTruth, ZeroWord, LockedWord, Holds, HoldingPC
  <2> QED
    BY <2>1, <2>2, <2>3, <2>4, QuietStep
<1>16. ASSUME NEW t \in Threads, UnlockRelease(t) PROVE IInv'
  <2>1. TypeOK'
    BY <1>0, <1>16, Zenon DEF UnlockRelease, TypeOK, WordIsGoodAt, ZeroWord, LockedWord
  <2>2. Holds(t) /\ ~m_word.isQueueLocked
    BY <1>0, <1>16, Zenon DEF UnlockRelease, WordIsGoodAt, BitsTellTheTruth, Holds, HoldingPC, OwnsQueue, QueuePC, ZeroWord, LockedWord
  <2>3. \A u \in Threads \ {t} : /\ pc'[u] = pc[u]
                                 /\ currentWordValue'[u] = currentWordValue[u]
    BY <1>0, <1>16, Zenon DEF UnlockRelease, TypeOK
  <2>4. \A u \in Threads \ {t} : (~Holds(u) \/ ~Holds(t)') /\ ~OwnsQueue(u)
    BY <1>0, <1>16, <2>2, Zenon DEF UnlockRelease, TypeOK, MutualExclusion, BitsTellTheTruth, Holds, HoldingPC
  <2>5. /\ m_word'.isLocked <=> Holds(t)' \/ \E u \in Threads \ {t} : Holds(u)
        /\ m_word'.isQueueLocked <=> OwnsQueue(t)'
        /\ m_word'.isQueueLocked => m_word'.isLocked
    BY <1>0, <1>16, <2>2 DEF UnlockRelease, TypeOK, MutualExclusion, BitsTellTheTruth, WordIsGoodAt, ZeroWord, LockedWord,
       Holds, HoldingPC, OwnsQueue, QueuePC
  <2>6. WordIsGoodAt(t)'
    BY <1>0, <1>16, Zenon DEF UnlockRelease, TypeOK, WordIsGoodAt
  <2> QED
    BY <2>1, <2>3, <2>4, <2>5, <2>6, WritingStep
<1>17. ASSUME NEW t \in Threads, UnlockReleaseFail(t) PROVE IInv'
  <2>1. TypeOK'
    BY <1>0, <1>17, Zenon DEF UnlockReleaseFail, TypeOK, WordIsGoodAt
  <2>2. /\ m_word' = m_word
        /\ \A u \in Threads \ {t} :
               /\ pc'[u] = pc[u] \/ (pc[u] = "waiting" /\ pc'[u] = "park")
               /\ currentWordValue'[u] = currentWordValue[u]
    BY <1>0, <1>17, Zenon DEF UnlockReleaseFail, TypeOK
  <2>3. (Holds(t)' <=> Holds(t)) /\ (OwnsQueue(t)' <=> OwnsQueue(t))
    BY <1>0, <1>17, Zenon DEF UnlockReleaseFail, TypeOK, Holds, HoldingPC, OwnsQueue, QueuePC
  <2>4. WordIsGoodAt(t)'
    BY <1>0, <1>17 DEF UnlockReleaseFail, TypeOK, WordIsGoodAt, BitsTellTheTruth, Holds, HoldingPC
  <2> QED
    BY <2>1, <2>2, <2>3, <2>4, QuietStep
<1>18. ASSUME NEW t \in Threads, UnlockTakeQueue(t) PROVE IInv'
  <2>1. TypeOK'
    BY <1>0, <1>18, Zenon DEF UnlockTakeQueue, TypeOK, WordIsGoodAt
  <2>2. Holds(t) /\ ~m_word.isQueueLocked
    BY <1>0, <1>18, Zenon DEF UnlockTakeQueue, WordIsGoodAt, BitsTellTheTruth, Holds, HoldingPC, OwnsQueue, QueuePC
  <2>3. \A u \in Threads \ {t} : /\ pc'[u] = pc[u]
                                 /\ currentWordValue'[u] = currentWordValue[u]
    BY <1>0, <1>18, Zenon DEF UnlockTakeQueue, TypeOK
  <2>4. \A u \in Threads \ {t} : (~Holds(u) \/ ~Holds(t)') /\ ~OwnsQueue(u)
    BY <1>0, <1>18, <2>2, Zenon DEF UnlockTakeQueue, TypeOK, MutualExclusion, BitsTellTheTruth, Holds, HoldingPC
  <2>5. /\ m_word'.isLocked <=> Holds(t)' \/ \E u \in Threads \ {t} : Holds(u)
        /\ m_word'.isQueueLocked <=> OwnsQueue(t)'
        /\ m_word'.isQueueLocked => m_word'.isLocked
    BY <1>0, <1>18, <2>2, Zenon DEF UnlockTakeQueue, TypeOK, MutualExclusion, BitsTellTheTruth, WordIsGoodAt,
       Holds, HoldingPC, OwnsQueue, QueuePC
  <2>6. WordIsGoodAt(t)'
    BY <1>0, <1>18, Zenon DEF UnlockTakeQueue, TypeOK, WordIsGoodAt
  <2> QED
    BY <2>1, <2>3, <2>4, <2>5, <2>6, WritingStep
<1>19. ASSUME NEW t \in Threads, UnlockTakeQueueFail(t) PROVE IInv'
  <2>1. TypeOK'
    BY <1>0, <1>19, Zenon DEF UnlockTakeQueueFail, TypeOK, WordIsGoodAt
  <2>2. /\ m_word' = m_word
        /\ \A u \in Threads \ {t} :
               /\ pc'[u] = pc[u] \/ (pc[u] = "waiting" /\ pc'[u] = "park")
               /\ currentWordValue'[u] = currentWordValue[u]
    BY <1>0, <1>19, Zenon DEF UnlockTakeQueueFail, TypeOK
  <2>3. (Holds(t)' <=> Holds(t)) /\ (OwnsQueue(t)' <=> OwnsQueue(t))
    BY <1>0, <1>19, Zenon DEF UnlockTakeQueueFail, TypeOK, Holds, HoldingPC, OwnsQueue, QueuePC
  <2>4. WordIsGoodAt(t)'
    BY <1>0, <1>19 DEF UnlockTakeQueueFail, TypeOK, WordIsGoodAt, BitsTellTheTruth, Holds, HoldingPC
  <2> QED
    BY <2>1, <2>2, <2>3, <2>4, QuietStep
<1>20. ASSUME NEW t \in Threads, Dequeue(t) PROVE IInv'
  <2>1. TypeOK'
    BY <1>0, <1>20, Zenon DEF Dequeue, HandOverTail, TypeOK, WordIsGoodAt
  <2>2. /\ m_word' = m_word
        /\ \A u \in Threads \ {t} :
               /\ pc'[u] = pc[u] \/ (pc[u] = "waiting" /\ pc'[u] = "park")
               /\ currentWordValue'[u] = currentWordValue[u]
    BY <1>0, <1>20, Zenon DEF Dequeue, HandOverTail, TypeOK
  <2>3. (Holds(t)' <=> Holds(t)) /\ (OwnsQueue(t)' <=> OwnsQueue(t))
    BY <1>0, <1>20, Zenon DEF Dequeue, HandOverTail, TypeOK, Holds, HoldingPC, OwnsQueue, QueuePC
  <2>4. WordIsGoodAt(t)'
    BY <1>0, <1>20 DEF Dequeue, HandOverTail, TypeOK, WordIsGoodAt, BitsTellTheTruth, Holds, HoldingPC
  <2> QED
    BY <2>1, <2>2, <2>3, <2>4, QuietStep
<1>21. ASSUME NEW t \in Threads, Release(t) PROVE IInv'
  <2>1. TypeOK'
    BY <1>0, <1>21, Zenon DEF Release, ReleasedWord, TypeOK, WordIsGoodAt
  <2>2. Holds(t) /\ OwnsQueue(t)
    BY <1>0, <1>21, Zenon DEF Release, WordIsGoodAt, BitsTellTheTruth, Holds, HoldingPC, OwnsQueue, QueuePC
  <2>3. \A u \in Threads \ {t} : /\ pc'[u] = pc[u]
                                 /\ currentWordValue'[u] = currentWordValue[u]
    BY <1>0, <1>21, Zenon DEF Release, TypeOK
  <2>4. \A u \in Threads \ {t} : (~Holds(u) \/ ~Holds(t)') /\ ~OwnsQueue(u)
    BY <1>0, <1>21, <2>2, Zenon DEF Release, TypeOK, MutualExclusion, BitsTellTheTruth, Holds, HoldingPC
  <2>5. /\ m_word'.isLocked <=> Holds(t)' \/ \E u \in Threads \ {t} : Holds(u)
        /\ m_word'.isQueueLocked <=> OwnsQueue(t)'
        /\ m_word'.isQueueLocked => m_word'.isLocked
    BY <1>0, <1>21, <2>2, Zenon DEF Release, ReleasedWord, TypeOK, MutualExclusion, BitsTellTheTruth, WordIsGoodAt,
       Holds, HoldingPC, OwnsQueue, QueuePC
  <2>6. WordIsGoodAt(t)'
    BY <1>0, <1>21, Zenon DEF Release, ReleasedWord, TypeOK, WordIsGoodAt
  <2> QED
    BY <2>1, <2>3, <2>4, <2>5, <2>6, WritingStep
<1>22. ASSUME NEW t \in Threads, Clear(t) PROVE IInv'
  <2>1. TypeOK'
    BY <1>0, <1>22, Zenon DEF Clear, TypeOK, WordIsGoodAt
  <2>2. /\ m_word' = m_word
        /\ \A u \in Threads \ {t} :
               /\ pc'[u] = pc[u] \/ (pc[u] = "waiting" /\ pc'[u] = "park")
               /\ currentWordValue'[u] = currentWordValue[u]
    BY <1>0, <1>22, Zenon DEF Clear, TypeOK
  <2>3. (Holds(t)' <=> Holds(t)) /\ (OwnsQueue(t)' <=> OwnsQueue(t))
    BY <1>0, <1>22, Zenon DEF Clear, TypeOK, Holds, HoldingPC, OwnsQueue, QueuePC
  <2>4. WordIsGoodAt(t)'
    BY <1>0, <1>22, Zenon DEF Clear, TypeOK, WordIsGoodAt, BitsTellTheTruth, Holds, HoldingPC
  <2> QED
    BY <2>1, <2>2, <2>3, <2>4, QuietStep
<1>23. ASSUME NEW t \in Threads, Unpark(t) PROVE IInv'
  <2>1. TypeOK'
    BY <1>0, <1>23, Zenon DEF Unpark, TypeOK, WordIsGoodAt
  <2>2. /\ m_word' = m_word
        /\ \A u \in Threads \ {t} :
               /\ pc'[u] = pc[u] \/ (pc[u] = "waiting" /\ pc'[u] = "park")
               /\ currentWordValue'[u] = currentWordValue[u]
    BY <1>0, <1>23, Zenon DEF Unpark, TypeOK
  <2>3. (Holds(t)' <=> Holds(t)) /\ (OwnsQueue(t)' <=> OwnsQueue(t))
    BY <1>0, <1>23, Zenon DEF Unpark, TypeOK, Holds, HoldingPC, OwnsQueue, QueuePC
  <2>4. WordIsGoodAt(t)'
    BY <1>0, <1>23, Zenon DEF Unpark, TypeOK, WordIsGoodAt, BitsTellTheTruth, Holds, HoldingPC
  <2> QED
    BY <2>1, <2>2, <2>3, <2>4, QuietStep
<1>24. ASSUME NEW t \in Threads, Notify(t) PROVE IInv'
  <2>1. TypeOK'
    BY <1>0, <1>24, Zenon DEF Notify, TypeOK, WordIsGoodAt
  <2>2. /\ m_word' = m_word
        /\ \A u \in Threads \ {t} :
               /\ pc'[u] = pc[u] \/ (pc[u] = "waiting" /\ pc'[u] = "park")
               /\ currentWordValue'[u] = currentWordValue[u]
    BY <1>0, <1>24, Zenon DEF Notify, TypeOK
  <2>3. (Holds(t)' <=> Holds(t)) /\ (OwnsQueue(t)' <=> OwnsQueue(t))
    BY <1>0, <1>24, Zenon DEF Notify, TypeOK, Holds, HoldingPC, OwnsQueue, QueuePC
  <2>4. WordIsGoodAt(t)'
    BY <1>0, <1>24, Zenon DEF Notify, TypeOK, WordIsGoodAt, BitsTellTheTruth, Holds, HoldingPC
  <2> QED
    BY <2>1, <2>2, <2>3, <2>4, QuietStep
<1>25. CASE UNCHANGED vars
  BY <1>25, Zenon DEF vars, IInv, TypeOK, MutualExclusion, BitsTellTheTruth, LoadedWordIsGood,
     WordIsGoodAt, Holds, OwnsQueue
<1> QED
  BY <1>1, <1>2, <1>3, <1>4, <1>5, <1>6, <1>7, <1>8, <1>9, <1>10, <1>11, <1>12, <1>13, <1>14, <1>15, <1>16, <1>17, <1>18, <1>19, <1>20, <1>21, <1>22, <1>23, <1>24, <1>25, Zenon DEF Next, LockStep, UnlockStepOf

(* The invariant holds in every state of lock() and unlock(). *)
THEOREM Invariance == Spec => []IInv
  BY InitIInv, NextIInv, PTL DEF Spec

(* The word, the ThreadDatas and the locals stay within their types; above *)
(* all no thread spins in lockSlow() past its spin limit.                  *)
THEOREM TypeCorrect == Spec => []TypeOK
  BY Invariance, PTL DEF IInv

(* Between lock() and unlock() there is at most one thread. *)
THEOREM Exclusion == Spec => []MutualExclusion
  BY Invariance, PTL DEF IInv

(* isLockedBit and isQueueLockedBit say whether some thread has the        *)
(* WordLock and its queue; the queue has one owner at most, as             *)
(* lockSlow() and unlockSlow() assert.                                     *)
THEOREM Bits == Spec => []BitsTellTheTruth
  BY Invariance, PTL DEF IInv

(* The ASSERTs on currentWordValue in lockSlow() and unlockSlow() hold:    *)
(* what a thread tested is still so when it acts on it.                    *)
THEOREM LoadedWord == Spec => []LoadedWordIsGood
  BY Invariance, PTL DEF IInv

(* The thread between lock() and unlock() is the holder of the Mutex. *)
LEMMA HolderIs ==
    ASSUME MutualExclusion, NEW t \in Threads, Holds(t)
    PROVE  Holder = t
  BY Zenon DEF MutualExclusion, Holder

(* With no thread between lock() and unlock() the Mutex has no holder. *)
LEMMA NoHolder ==
    ASSUME \A t \in Threads : ~Holds(t)
    PROVE  Holder = Null
  BY Zenon DEF Holder

(* Every step of lock() and unlock() asks for the abstract Mutex, acquires *)
(* it, releases it, or changes nothing in it.                              *)
THEOREM Refinement == Spec => M!SafeSpec
<1>1. Init => M!Init
  <2> SUFFICES ASSUME Init PROVE M!Init
    OBVIOUS
  <2>1. \A t \in Threads : ~Holds(t) /\ pc[t] \notin AskingPC
    BY Zenon DEF Init, Holds, HoldingPC, AskingPC
  <2> QED
    BY <2>1, NoHolder, Zenon DEF M!Init, Asking
<1>2. IInv /\ IInv' /\ [Next]_vars => [M!Next]_(M!vars)
  <2> SUFFICES ASSUME IInv, IInv', [Next]_vars
               PROVE  [M!Next]_(M!vars)
    BY Zenon
  <2> USE DEF IInv
  <2>0. pc \in [Threads -> PC] /\ pc' \in [Threads -> PC]
    BY Zenon DEF TypeOK
  <2>1. ASSUME NEW t \in Threads, LockFastFail(t) PROVE M!Next
    <3>1. Asking' = Asking \cup {t} /\ t \notin Asking /\ ~Holds(t)
      BY <2>0, <2>1, Zenon DEF LockFastFail, Asking, AskingPC, Goto, Holds, HoldingPC
    <3>2. \A u \in Threads : Holds(u)' <=> Holds(u)
      BY <2>0, <2>1, Zenon DEF LockFastFail, Goto, Holds, HoldingPC
    <3>3. Holder' = Holder
      BY <3>2, Zenon DEF Holder
    <3>4. Holder # t
      BY <3>1, WordLockAssumption, Zenon DEF Holder
    <3> QED
      BY <3>1, <3>3, <3>4, Zenon DEF M!Next, M!Ask
  <2>2. ASSUME NEW t \in Threads, LockFast(t) \/ SlowAcquire(t) PROVE M!Next
    <3>1. ~m_word.isLocked
      BY <2>2 DEF LockFast, SlowAcquire, LoadedWordIsGood, WordIsGoodAt, ZeroWord
    <3>2. \A u \in Threads : ~Holds(u)
      BY <3>1, Zenon DEF BitsTellTheTruth
    <3>3. Holds(t)' /\ Asking' = Asking \ {t}
      BY <2>0, <2>2, Zenon DEF LockFast, SlowAcquire, Goto, Holds, HoldingPC, Asking, AskingPC
    <3>4. Holder' = t
      BY <3>3, <2>0, Zenon DEF Holder, MutualExclusion
    <3> QED
      BY <3>2, <3>3, <3>4, NoHolder, Zenon DEF M!Next, M!Acquire
  <2>3. ASSUME NEW t \in Threads, UnlockFast(t) \/ UnlockRelease(t) \/ Release(t)
        PROVE  M!Next
    <3>1. Holds(t) /\ Asking' = Asking
      BY <2>0, <2>3, Zenon DEF UnlockFast, UnlockRelease, Release, Goto, Holds, HoldingPC,
         Asking, AskingPC
    <3>2. \A u \in Threads : ~Holds(u)'
      BY <2>0, <2>3, <3>1, Zenon DEF UnlockFast, UnlockRelease, Release, Goto, Holds,
         HoldingPC, MutualExclusion
    <3>3. Holder' = Null
      BY <3>2, Zenon DEF Holder
    <3> QED
      BY <3>1, <3>3, HolderIs, Zenon DEF M!Next, M!Release
  <2>4. ASSUME \A u \in Threads : /\ Holds(u)' <=> Holds(u)
                                  /\ pc'[u] \in AskingPC <=> pc[u] \in AskingPC
        PROVE  UNCHANGED M!vars
    BY <2>4, Zenon DEF M!vars, Holder, Asking
  <2> USE DEF Holds, HoldingPC, AskingPC
  <2>5. ASSUME NEW t \in Threads, LockStep(t), ~SlowAcquire(t) PROVE UNCHANGED M!vars
    BY <2>0, <2>4, <2>5, Zenon DEF LockStep, SlowLoad, SlowAcquireFail, SpinOrQueue, Reload,
       TakeQueueLock, TakeQueueLockFail, Enqueue, Publish, Park, SpuriousWakeup, Goto
  <2>6. ASSUME NEW t \in Threads, UnlockStepOf(t),
               ~(UnlockFast(t) \/ UnlockRelease(t) \/ Release(t))
        PROVE  UNCHANGED M!vars
    BY <2>0, <2>4, <2>6, Zenon DEF UnlockStepOf, UnlockFastFail, UnlockLoad, UnlockStep,
       UnlockReleaseFail, UnlockTakeQueue, UnlockTakeQueueFail, Dequeue, Clear,
       Unpark, Notify, Goto
  <2>7. CASE UNCHANGED vars
    BY <2>4, <2>7, Zenon DEF vars
  <2> QED
    BY <2>1, <2>2, <2>3, <2>5, <2>6, <2>7, Zenon DEF Next, LockStep, UnlockStepOf
<1> QED
  BY <1>1, <1>2, Invariance, PTL DEF Spec, M!SafeSpec

-----------------------------------------------------------------------------
(* The intrusive queue. *)

OnQueue(q, t) == \E i \in 1..Len(q) : q[i] = t

Parked(t) == shouldPark[t] /\ pc[t] \in {"park", "waiting"}

(* t has dequeued currentWordValue[t].head and has not unparked it yet. *)
Waking(t) == pc[t] \in {"clear", "unpark"}

(* The first thread of the queue knows the last one, and the second knows  *)
(* it too once unlockSlow() is about to make it the first.                 *)
TailIsKnown(q) ==
    /\ q # <<>> => queueTail[q[1]] = q[Len(q)]
    /\ (\E t \in Threads : pc[t] = "release") /\ Len(q) > 1 => queueTail[q[2]] = q[Len(q)]

(* A thread on the queue sleeps or is about to.  One that has linked       *)
(* itself as the only one is not on the queue before the word says so.     *)
QueuedPark(q) ==
    /\ \A i \in 1..Len(q) : shouldPark[q[i]] /\ pc[q[i]] \in {"publish", "park", "waiting"}
    /\ \A t \in Threads : pc[t] = "publish" /\ m_word.head = Null =>
                              queueTail[t] = t /\ shouldPark[t]

(* A thread that has been dequeued sleeps until the one thread that has    *)
(* dequeued it unparks it.                                                 *)
DequeuedPark(q) ==
    /\ \A u \in Threads : Waking(u) => /\ Parked(currentWordValue[u].head)
                                       /\ ~OnQueue(q, currentWordValue[u].head)
    /\ \A u, w \in Threads : Waking(u) /\ Waking(w) /\ u # w =>
           currentWordValue[u].head # currentWordValue[w].head

(* Only a thread on the queue, or one just taken off it, has a successor. *)
LinksAreClean(q) ==
    \A v \in Threads :
        \/ OnQueue(q, v) \/ nextInQueue[v] = Null
        \/ \E u \in Threads : pc[u] = "clear" /\ currentWordValue[u].head = v

NobodyTwice(q) == \A i, j \in 1..Len(q) : q[i] = q[j] => i = j

(* What makes the queue a list, at every step and not only while the queue *)
(* lock is free.                                                           *)
ListInv(q) ==
    /\ IsQueue(q) /\ NobodyTwice(q) /\ TailIsKnown(q)
    /\ QueuedPark(q) /\ DequeuedPark(q) /\ LinksAreClean(q)

(* Without its first thread a queue has everyone else on it, once. *)
LEMMA TailOfQueue ==
    ASSUME NEW q \in Seq(Threads), q # <<>>, NobodyTwice(q)
    PROVE  /\ \A u \in Threads : OnQueue(q, u) <=> u = q[1] \/ OnQueue(Tail(q), u)
           /\ ~OnQueue(Tail(q), q[1])
           /\ NobodyTwice(Tail(q))
<1> DEFINE r == Tail(q)
<1>1. Len(q) \in Nat /\ Len(q) > 0 /\ Len(r) = Len(q) - 1
  OBVIOUS
<1>2. \A i \in 1..Len(r) : r[i] = q[i + 1] /\ i + 1 \in 1..Len(q)
  OBVIOUS
<1> HIDE DEF r
<1>3. \A i \in 1..Len(q) : i = 1 \/ \E k \in 1..Len(r) : i = k + 1 /\ r[k] = q[i]
  <2> TAKE i \in 1..Len(q)
  <2>1. CASE i # 1
    <3>1. i - 1 \in 1..Len(r) /\ i = (i - 1) + 1
      BY <1>1, <2>1
    <3>2. r[i - 1] = q[i]
      BY <1>2, <3>1
    <3> QED BY <3>1, <3>2, Zenon
  <2> QED BY <2>1, Zenon
<1>4. 1 \in 1..Len(q) /\ \A i \in 1..Len(r) : i + 1 # 1
  BY <1>1
<1>5. \A u \in Threads : OnQueue(q, u) <=> u = q[1] \/ OnQueue(r, u)
  <2>1. ASSUME NEW u \in Threads, OnQueue(q, u) PROVE u = q[1] \/ OnQueue(r, u)
    BY <1>3, <2>1, Zenon DEF OnQueue
  <2>2. OnQueue(q, q[1])
    BY <1>4, Zenon DEF OnQueue
  <2>3. ASSUME NEW u \in Threads, OnQueue(r, u) PROVE OnQueue(q, u)
    <3>1. PICK k \in 1..Len(r) : r[k] = u
      BY <2>3, Zenon DEF OnQueue
    <3>2. k + 1 \in 1..Len(q) /\ q[k + 1] = u
      BY <1>2, <3>1, Zenon
    <3> QED BY <3>2, Zenon DEF OnQueue
  <2> QED BY <2>1, <2>2, <2>3, Zenon
<1>6. ~OnQueue(r, q[1])
  BY <1>2, <1>4, Zenon DEF OnQueue, NobodyTwice
<1>7. \A i, j \in 1..Len(r) : i + 1 = j + 1 => i = j
  OBVIOUS
<1>8. NobodyTwice(r)
  BY <1>2, <1>7, Zenon DEF NobodyTwice
<1> QED BY <1>5, <1>6, <1>8, Zenon DEF r

(* Two walks from the head along the links meet the same threads. *)
LEMMA OneWalk ==
    ASSUME NEW q \in Seq(Threads), NEW r \in Seq(Threads), IsQueue(q), IsQueue(r)
    PROVE  \A n \in 1..Len(q) : n <= Len(r) /\ q[n] = r[n]
<1> DEFINE T == {n \in Nat : n \in 1..Len(q) => n <= Len(r) /\ q[n] = r[n]}
<1>1. 0 \in T
  OBVIOUS
<1>2. ASSUME NEW n \in Nat, n \in T PROVE n + 1 \in T
  <2> SUFFICES ASSUME n + 1 \in 1..Len(q) PROVE n + 1 <= Len(r) /\ q[n + 1] = r[n + 1]
    OBVIOUS
  <2>1. CASE n = 0
    BY <2>1 DEF IsQueue
  <2>2. CASE n # 0
    <3>1. n \in 1..Len(q) /\ n <= Len(r) /\ q[n] = r[n]
      BY <1>2, <2>2
    <3>2. nextInQueue[r[n]] = q[n + 1]
      BY <3>1 DEF IsQueue
    <3>3. q[n + 1] # Null
      BY WordLockAssumption
    <3>4. n # Len(r)
      BY <3>1, <3>2, <3>3 DEF IsQueue
    <3>5. n \in 1..(Len(r) - 1)
      BY <2>2, <3>1, <3>4
    <3> QED BY <3>2, <3>5 DEF IsQueue
  <2> QED BY <2>1, <2>2, Zenon
<1>3. Nat \subseteq T
  <2> HIDE DEF T
  <2> QED BY <1>1, <1>2, SetInduction, Zenon
<1> QED BY <1>3

(* A list of threads without repetition is no longer than there are        *)
(* threads.                                                                *)
LEMMA ListsAreShort ==
    ASSUME NEW q \in Seq(Threads), NobodyTwice(q)
    PROVE  q \in Lists
<1>1. q \in [1..Len(q) -> Threads] /\ Len(q) \in Nat
  OBVIOUS
<1>2. q \in Injection(1..Len(q), Threads)
  BY <1>1, Zenon DEF Injection, IsInjective, NobodyTwice
<1>3. Cardinality(1..Len(q)) <= Cardinality(Threads)
  BY <1>2, FS_Injection, WordLockAssumption, Zenon
<1>4. Cardinality(1..Len(q)) = Len(q)
  <2>1. \A a, b \in Int : Cardinality(a..b) = IF a > b THEN 0 ELSE b - a + 1
    BY FS_Interval, Zenon
  <2>2. 1 \in Int /\ Len(q) \in Int
    BY <1>1
  <2>3. Cardinality(1..Len(q)) = IF 1 > Len(q) THEN 0 ELSE Len(q) - 1 + 1
    BY <2>1, <2>2, Zenon
  <2> QED BY <1>1, <2>3
<1>5. Cardinality(Threads) \in Nat
  BY FS_CardinalityType, WordLockAssumption, Zenon
<1> QED
  BY <1>1, <1>3, <1>4, <1>5 DEF Lists

(* The walk from the head that ends is the queue. *)
LEMMA QueueIs ==
    \A q \in Seq(Threads) : IsQueue(q) /\ NobodyTwice(q) => Queue = q
<1> SUFFICES ASSUME NEW q \in Seq(Threads), IsQueue(q), NobodyTwice(q)
             PROVE  Queue = q
  BY Zenon
<1>1. q \in Lists
  BY ListsAreShort, Zenon
<1>2. PICK r : r = Queue
  BY Zenon
<1>3. r \in Lists /\ IsQueue(r)
  BY <1>1, <1>2, Zenon DEF Queue
<1>4. r \in Seq(Threads)
  <2>1. PICK n \in Nat : r \in [1..n -> Threads]
    BY <1>3, FS_CardinalityType, WordLockAssumption DEF Lists
  <2> QED BY <2>1
<1>5. \A n \in 1..Len(q) : n <= Len(r) /\ q[n] = r[n]
  BY <1>3, <1>4, OneWalk, Zenon
<1>6. \A n \in 1..Len(r) : n <= Len(q) /\ r[n] = q[n]
  BY <1>3, <1>4, OneWalk, Zenon
<1>7. Len(q) = Len(r)
  BY <1>4, <1>5, <1>6
<1>8. q = r
  BY <1>4, <1>5, <1>7
<1> QED
  BY <1>2, <1>8, Zenon

(* The same after a step. *)
LEMMA QueueIsNext ==
    (\A q \in Seq(Threads) : IsQueue(q) /\ NobodyTwice(q) => Queue = q)'
  BY QueueIs, PTL

(* At first nobody is queued. *)
LEMMA ListInitially == Init => ListInv(<<>>)
  BY DEF Init, ListInv, IsQueue, NobodyTwice, TailIsKnown, QueuedPark, DequeuedPark,
         LinksAreClean, OnQueue, Waking, ZeroWord

(* The steps that touch neither the links nor the head, and take no thread *)
(* past the points at which the queue changes hands.                       *)
LEMMA QuietList ==
    ASSUME IInv, NEW q \in Seq(Threads), ListInv(q), NEW t \in Threads,
           UNCHANGED queues, m_word'.head = m_word.head,
           \A u \in Threads \ {t} :
               /\ pc'[u] = pc[u] \/ (pc[u] = "waiting" /\ pc'[u] = "park")
               /\ currentWordValue'[u] = currentWordValue[u],
           {pc[t], pc'[t]} \cap {"publish", "release", "clear", "unpark"} = {},
           pc[t] \in {"park", "waiting"} =>
               pc'[t] \in {"park", "waiting"} \/ ~shouldPark[t]
    PROVE  ListInv(q)'
<1>0. \A u \in Threads : currentWordValue[u].head \in ThreadDataPtr
  BY Zenon DEF IInv, TypeOK, Word
<1>1. IsQueue(q)' /\ NobodyTwice(q)'
  BY Zenon DEF ListInv, IsQueue, NobodyTwice, queues
<1>2. TailIsKnown(q)'
  BY Zenon DEF ListInv, TailIsKnown, queues
<1>3. \A v \in Threads : Parked(v) => Parked(v)'
  BY Zenon DEF Parked, queues
<1>4. QueuedPark(q)'
  <2>1. ASSUME NEW i \in 1..Len(q)
        PROVE  shouldPark'[q[i]] /\ pc'[q[i]] \in {"publish", "park", "waiting"}
    <3>1. q[i] \in Threads /\ shouldPark[q[i]] /\ pc[q[i]] \in {"publish", "park", "waiting"}
      BY DEF ListInv, QueuedPark
    <3> QED BY <3>1, Zenon DEF queues
  <2>2. ASSUME NEW u \in Threads, pc'[u] = "publish", m_word'.head = Null
        PROVE  queueTail'[u] = u /\ shouldPark'[u]
    BY <2>2, Zenon DEF ListInv, QueuedPark, queues
  <2> QED BY <2>1, <2>2, Zenon DEF QueuedPark
<1>5. \A u \in Threads : /\ Waking(u)' <=> Waking(u)
                         /\ Waking(u) => currentWordValue'[u] = currentWordValue[u]
                         /\ pc'[u] = "clear" <=> pc[u] = "clear"
  BY Zenon DEF Waking
<1>6. \A u \in Threads : Waking(u) => currentWordValue[u].head \in Threads
  BY <1>0, Zenon DEF IInv, LoadedWordIsGood, WordIsGoodAt, Waking, ThreadDataPtr
<1>7. DequeuedPark(q)'
  BY <1>3, <1>5, <1>6 DEF ListInv, DequeuedPark, OnQueue
<1>8. LinksAreClean(q)'
  BY <1>5 DEF ListInv, LinksAreClean, OnQueue, queues, Waking
<1> QED
  BY <1>1, <1>2, <1>4, <1>7, <1>8, Zenon DEF ListInv

(* Only one thread is at a point of the code where it owns the queue. *)
LEMMA OneOwner ==
    ASSUME IInv, NEW t \in Threads, pc[t] \in QueuePC, NEW u \in Threads \ {t}
    PROVE  pc[u] \notin QueuePC
  BY Zenon DEF IInv, BitsTellTheTruth, OwnsQueue

(* The thread that is being woken up is one. *)
LEMMA WokenIsThread ==
    ASSUME IInv, NEW u \in Threads, Waking(u)
    PROVE  currentWordValue[u].head \in Threads
<1>1. currentWordValue[u].head \in ThreadDataPtr
  BY Zenon DEF IInv, TypeOK, Word
<1> QED
  BY <1>1, Zenon DEF IInv, LoadedWordIsGood, WordIsGoodAt, Waking, ThreadDataPtr

(* A thread that neither sleeps nor goes to sleep is off the queue, nobody *)
(* is about to wake it, and it has no successor.                           *)
LEMMA AwakeIsClean ==
    ASSUME IInv, NEW q \in Seq(Threads), ListInv(q), NEW t \in Threads,
           pc[t] \notin {"publish", "park", "waiting"}
    PROVE  /\ ~OnQueue(q, t) /\ nextInQueue[t] = Null
           /\ \A u \in Threads : Waking(u) => currentWordValue[u].head # t
<1>1. ~OnQueue(q, t)
  BY Zenon DEF ListInv, QueuedPark, OnQueue
<1>2. \A u \in Threads : Waking(u) => currentWordValue[u].head # t
  BY Zenon DEF ListInv, DequeuedPark, Parked
<1> QED
  BY <1>1, <1>2, Zenon DEF ListInv, LinksAreClean, Waking

(* What a thread that appends itself to a queue that is not empty does to  *)
(* the list.                                                               *)
LEMMA AppendList ==
    ASSUME IInv, NEW q \in Seq(Threads), ListInv(q), NEW t \in Threads, Enqueue(t),
           m_word.head # Null
    PROVE  ListInv(Append(q, t))'
<1> DEFINE n == Len(q)
           r == Append(q, t)
<1>1. n \in Nat /\ n > 0 /\ q[1] = m_word.head /\ queueTail[q[1]] = q[n] /\ nextInQueue[q[n]] = Null
  BY DEF ListInv, IsQueue, TailIsKnown
<1>2. \A i \in 1..n : q[i] \in Threads
  OBVIOUS
<1>3. /\ pc[t] = "enqueue" /\ pc \in [Threads -> PC]
      /\ shouldPark \in [Threads -> BOOLEAN] /\ nextInQueue \in [Threads -> ThreadDataPtr]
      /\ queueTail \in [Threads -> ThreadDataPtr]
  BY Zenon DEF Enqueue, IInv, TypeOK
<1>4. currentWordValue[t].head = q[1]
  BY <1>1, <1>3, Zenon DEF IInv, TypeOK, Word, LoadedWordIsGood, WordIsGoodAt
<1>5. /\ nextInQueue' = [nextInQueue EXCEPT ![q[n]] = t]
      /\ queueTail' = [queueTail EXCEPT ![q[1]] = t]
      /\ shouldPark' = [shouldPark EXCEPT ![t] = TRUE]
      /\ pc' = [pc EXCEPT ![t] = "publish"]
      /\ m_word' = m_word
      /\ \A u \in Threads \ {t} : currentWordValue'[u] = currentWordValue[u]
  BY <1>1, <1>4, Zenon DEF Enqueue, LinkAtTail, Goto, LoadWord, IInv, TypeOK
<1>6. /\ \A i \in 1..n : q[i] # t
      /\ nextInQueue[t] = Null
      /\ \A u \in Threads : Waking(u) => currentWordValue[u].head # t
  BY <1>3, AwakeIsClean, Zenon DEF OnQueue
<1>7. \A u \in Threads \ {t} : pc[u] \notin QueuePC
  BY <1>3, OneOwner, Zenon DEF QueuePC
<1>8. /\ r \in Seq(Threads) /\ Len(r) = n + 1 /\ r[n + 1] = t /\ r # <<>>
      /\ \A i \in 1..n : r[i] = q[i]
  OBVIOUS
<1>9. \A i, j \in 1..n : q[i] = q[j] => i = j
  BY Zenon DEF ListInv, NobodyTwice
<1> HIDE DEF n, r
<1>10. IsQueue(r)'
  <2>1. r[1] = m_word'.head /\ nextInQueue'[r[n + 1]] = Null
    BY <1>1, <1>2, <1>3, <1>5, <1>6, <1>8
  <2>2. ASSUME NEW i \in 1..n PROVE nextInQueue'[r[i]] = r[i + 1]
    <3>1. CASE i = n
      BY <1>1, <1>2, <1>3, <1>5, <1>8, <3>1, Zenon
    <3>2. CASE i # n
      <4>1. i \in 1..(n - 1) /\ i + 1 \in 1..n /\ n \in 1..n
        BY <1>1, <3>2
      <4>2. nextInQueue[q[i]] = q[i + 1] /\ q[i] # q[n]
        BY <1>9, <3>2, <4>1, Zenon DEF ListInv, IsQueue, n
      <4> QED BY <1>2, <1>3, <1>5, <1>8, <4>1, <4>2, Zenon
    <3> QED BY <3>1, <3>2, Zenon
  <2>3. m_word'.head # Null
    BY <1>5, Zenon
  <2> QED BY <1>1, <1>8, <2>1, <2>2, <2>3 DEF IsQueue
<1>11. NobodyTwice(r)'
  BY <1>1, <1>6, <1>8, <1>9 DEF NobodyTwice
<1>12. TailIsKnown(r)'
  <2>1. queueTail'[r[1]] = r[Len(r)]
    BY <1>1, <1>2, <1>3, <1>5, <1>8
  <2>2. \A u \in Threads : pc'[u] # "release"
    BY <1>3, <1>5, <1>7, Zenon DEF QueuePC
  <2> QED BY <2>1, <2>2, Zenon DEF TailIsKnown
<1>13. QueuedPark(r)'
  <2>1. ASSUME NEW i \in 1..n
        PROVE  shouldPark'[q[i]] /\ pc'[q[i]] \in {"publish", "park", "waiting"}
    BY <1>2, <1>3, <1>5, <1>6, Zenon DEF ListInv, QueuedPark, n
  <2>2. shouldPark'[t] /\ pc'[t] = "publish"
    BY <1>3, <1>5, Zenon
  <2>3. \A i \in 1..(n + 1) : i \in 1..n \/ i = n + 1
    BY <1>1
  <2> QED BY <1>5, <1>8, <2>1, <2>2, <2>3, Zenon DEF QueuedPark
<1>14. \A u \in Threads : /\ Waking(u)' <=> Waking(u)
                          /\ Waking(u) => currentWordValue'[u] = currentWordValue[u]
                          /\ pc'[u] = "clear" <=> pc[u] = "clear"
  BY <1>3, <1>5, Zenon DEF Waking
<1>15. DequeuedPark(r)'
  <2>1. ASSUME NEW u \in Threads, Waking(u)
        PROVE  Parked(currentWordValue[u].head)' /\ ~OnQueue(r, currentWordValue[u].head)
    <3>1. PICK v \in Threads : v = currentWordValue[u].head
      BY <2>1, WokenIsThread, Zenon
    <3>2. Parked(v) /\ ~OnQueue(q, v) /\ v # t
      BY <1>6, <2>1, <3>1, Zenon DEF ListInv, DequeuedPark
    <3>3. shouldPark'[v] /\ pc'[v] \in {"park", "waiting"} /\ ~OnQueue(r, v)
      <4>1. \A i \in 1..(n + 1) : i \in 1..n \/ i = n + 1
        BY <1>1
      <4> QED BY <1>3, <1>5, <1>8, <3>2, <4>1, Zenon DEF Parked, OnQueue, n
    <3>4. currentWordValue'[u] = currentWordValue[u]
      BY <1>14, <2>1, Zenon
    <3> QED BY <3>1, <3>3, <3>4, Zenon DEF Parked
  <2>2. \A u, w \in Threads : Waking(u) /\ Waking(w) /\ u # w =>
            currentWordValue[u].head # currentWordValue[w].head
    BY Zenon DEF ListInv, DequeuedPark
  <2>3. \A u \in Threads : Waking(u)' => /\ Parked(currentWordValue[u].head)'
                                        /\ ~OnQueue(r, currentWordValue'[u].head)
    <3>1. \A u \in Threads : Waking(u) => currentWordValue'[u] = currentWordValue[u]
      BY <1>14, Zenon
    <3> QED BY <1>14, <2>1, <3>1, Zenon
  <2>4. \A u, w \in Threads : Waking(u)' /\ Waking(w)' /\ u # w =>
            currentWordValue'[u].head # currentWordValue'[w].head
    BY <1>14, <2>2, Zenon
  <2> QED BY <2>3, <2>4, Zenon DEF DequeuedPark, Parked, OnQueue
<1>16. LinksAreClean(r)'
  <2> SUFFICES ASSUME NEW v \in Threads, ~OnQueue(r, v)
               PROVE  \/ nextInQueue'[v] = Null
                      \/ \E u \in Threads : pc'[u] = "clear" /\ currentWordValue'[u].head = v
    BY Zenon DEF LinksAreClean, OnQueue
  <2>1. ~OnQueue(q, v)
    BY <1>1, <1>8 DEF OnQueue, n
  <2>2. v # q[n]
    BY <1>1, <2>1 DEF OnQueue, n
  <2>3. nextInQueue'[v] = nextInQueue[v]
    BY <1>2, <1>3, <1>5, <2>2, Zenon
  <2> QED BY <1>14, <2>1, <2>3 DEF ListInv, LinksAreClean, Waking
<1> QED
  BY <1>10, <1>11, <1>12, <1>13, <1>15, <1>16, Zenon DEF ListInv, r

(* What the first thread to queue does: nothing yet that the word shows. *)
LEMMA FirstInQueue ==
    ASSUME IInv, NEW q \in Seq(Threads), ListInv(q), NEW t \in Threads, Enqueue(t),
           m_word.head = Null
    PROVE  ListInv(q)'
<1>1. q = <<>>
  BY Zenon DEF ListInv, IsQueue
<1>2. /\ pc[t] = "enqueue" /\ pc \in [Threads -> PC]
      /\ shouldPark \in [Threads -> BOOLEAN] /\ nextInQueue \in [Threads -> ThreadDataPtr]
      /\ queueTail \in [Threads -> ThreadDataPtr]
  BY Zenon DEF Enqueue, IInv, TypeOK
<1>3. currentWordValue[t].head = Null
  BY <1>2 DEF IInv, TypeOK, Word, LoadedWordIsGood, WordIsGoodAt
<1>4. /\ nextInQueue' = nextInQueue
      /\ queueTail' = [queueTail EXCEPT ![t] = t]
      /\ shouldPark' = [shouldPark EXCEPT ![t] = TRUE]
      /\ pc' = [pc EXCEPT ![t] = "publish"]
      /\ m_word' = m_word
      /\ \A u \in Threads \ {t} : currentWordValue'[u] = currentWordValue[u]
  BY <1>3, Zenon DEF Enqueue, LinkAtTail, Goto, LoadWord, IInv, TypeOK
<1>5. \A u \in Threads : Waking(u) => currentWordValue[u].head # t
  BY <1>2, AwakeIsClean, Zenon
<1>6. \A u \in Threads \ {t} : pc[u] \notin QueuePC
  BY <1>2, OneOwner, Zenon DEF QueuePC
<1>7. IsQueue(q)' /\ NobodyTwice(q)' /\ TailIsKnown(q)'
  <2>1. Len(q) = 0 /\ ~(0 > 1) /\ 1..Len(q) = {}
    BY <1>1
  <2>2. IsQueue(q)' /\ NobodyTwice(q)'
    BY <1>4, Zenon DEF ListInv, IsQueue, NobodyTwice
  <2>3. TailIsKnown(q)'
    BY <1>1, <2>1, Zenon DEF TailIsKnown
  <2> QED BY <2>2, <2>3, Zenon
<1>8. QueuedPark(q)'
  BY <1>1, <1>2, <1>4, <1>6 DEF QueuedPark, QueuePC
<1>9. \A u \in Threads : /\ Waking(u)' <=> Waking(u)
                         /\ Waking(u) => currentWordValue'[u] = currentWordValue[u]
                         /\ pc'[u] = "clear" <=> pc[u] = "clear"
  BY <1>2, <1>4, Zenon DEF Waking
<1>10. \A v \in Threads \ {t} : Parked(v)' <=> Parked(v)
  BY <1>2, <1>4, Zenon DEF Parked
<1>11. \A u \in Threads : Waking(u) => currentWordValue[u].head \in Threads \ {t}
  BY <1>5, WokenIsThread, Zenon
<1>12. DequeuedPark(q)'
  BY <1>9, <1>10, <1>11, Zenon DEF ListInv, DequeuedPark, OnQueue
<1>13. LinksAreClean(q)'
  <2>1. LinksAreClean(q)
    BY Zenon DEF ListInv
  <2>2. \A u \in Threads : pc[u] = "clear" =>
            pc'[u] = "clear" /\ currentWordValue'[u] = currentWordValue[u]
    BY <1>9, Zenon DEF Waking
  <2>3. \A v \in Threads :
            \/ OnQueue(q, v) \/ nextInQueue'[v] = Null
            \/ \E u \in Threads : pc'[u] = "clear" /\ currentWordValue'[u].head = v
    BY <1>4, <2>1, <2>2 DEF LinksAreClean
  <2> QED BY <2>3, Zenon DEF LinksAreClean, OnQueue
<1> QED
  BY <1>7, <1>8, <1>12, <1>13, Zenon DEF ListInv

(* The store that releases the queue lock after a thread has been linked   *)
(* puts a queue of that thread alone in the word, or leaves the head.      *)
LEMMA PublishList ==
    ASSUME IInv, NEW q \in Seq(Threads), ListInv(q), NEW t \in Threads, Publish(t)
    PROVE  IF m_word.head = Null THEN q = <<>> /\ ListInv(<<t>>)' ELSE ListInv(q)'
<1>1. /\ pc[t] = "publish" /\ pc \in [Threads -> PC] /\ m_word \in Word
      /\ pc' = [pc EXCEPT ![t] = "park"]
      /\ UNCHANGED <<shouldPark, nextInQueue, queueTail, currentWordValue>>
  BY Zenon DEF Publish, IInv, TypeOK, Goto, queues
<1>2. m_word'.head = IF m_word.head = Null THEN t ELSE m_word.head
  BY <1>1, Zenon DEF Publish, PublishedWord, IInv, LoadedWordIsGood, WordIsGoodAt, Word
<1>3. \A u \in Threads \ {t} : pc[u] \notin QueuePC
  BY <1>1, OneOwner, Zenon DEF QueuePC
<1>4. \A u \in Threads : /\ Waking(u)' <=> Waking(u)
                         /\ pc'[u] = "clear" <=> pc[u] = "clear"
                         /\ pc'[u] # "release" /\ pc'[u] # "publish"
                         /\ Waking(u) => currentWordValue[u].head # t
  BY <1>1, <1>3, Zenon DEF Waking, QueuePC, ListInv, DequeuedPark, Parked
<1>5. \A v \in Threads : Parked(v) => Parked(v)'
  BY <1>1, Zenon DEF Parked
<1>6. \A u \in Threads : Waking(u) => currentWordValue[u].head \in Threads
  BY WokenIsThread, Zenon
<1>7. CASE m_word.head = Null
  <2> DEFINE r == <<t>>
  <2>1. q = <<>> /\ queueTail[t] = t /\ shouldPark[t]
    BY <1>1, <1>7, Zenon DEF ListInv, IsQueue, QueuedPark
  <2>2. nextInQueue[t] = Null
    BY <1>4, <2>1 DEF ListInv, LinksAreClean, OnQueue, Waking
  <2>3. Len(r) = 1 /\ r[1] = t /\ r # <<>>
    BY Zenon
  <2>4. t # Null
    BY WordLockAssumption, Zenon
  <2> HIDE DEF r
  <2>5. IsQueue(r)' /\ NobodyTwice(r)' /\ TailIsKnown(r)'
    <3>1. IsQueue(r)'
      BY <1>1, <1>2, <1>7, <2>2, <2>3, <2>4 DEF IsQueue
    <3>2. 1..1 = {1} /\ ~(1 > 1)
      OBVIOUS
    <3>3. NobodyTwice(r)'
      BY <2>3, <3>2, Zenon DEF NobodyTwice, r
    <3>4. TailIsKnown(r)'
      BY <1>1, <2>1, <2>3, <3>2, Zenon DEF TailIsKnown
    <3> QED BY <3>1, <3>3, <3>4, Zenon
  <2>6. QueuedPark(r)'
    BY <1>1, <1>4, <2>1, <2>3 DEF QueuedPark
  <2>7. DequeuedPark(r)'
    <3>1. DequeuedPark(q)
      BY Zenon DEF ListInv
    <3>2. \A u \in Threads : Waking(u) => ~OnQueue(r, currentWordValue[u].head)
      BY <1>4, <2>3 DEF OnQueue
    <3>3. currentWordValue' = currentWordValue
      BY <1>1, Zenon
    <3> QED BY <1>4, <1>5, <1>6, <3>1, <3>2, <3>3, Zenon DEF DequeuedPark, OnQueue
  <2>8. LinksAreClean(r)'
    <3>1. \A v \in Threads : ~OnQueue(q, v)
      BY <2>1 DEF OnQueue
    <3>2. \A v \in Threads : \/ nextInQueue[v] = Null
                             \/ \E u \in Threads : pc[u] = "clear" /\ currentWordValue[u].head = v
      BY <3>1, Zenon DEF ListInv, LinksAreClean
    <3>3. nextInQueue' = nextInQueue /\ currentWordValue' = currentWordValue
      BY <1>1, Zenon
    <3> QED BY <1>4, <3>2, <3>3, Zenon DEF LinksAreClean
  <2> QED
    BY <1>7, <2>1, <2>5, <2>6, <2>7, <2>8, Zenon DEF ListInv, r
<1>8. CASE m_word.head # Null
  <2>1. IsQueue(q)' /\ NobodyTwice(q)'
    BY <1>1, <1>2, <1>8, Zenon DEF ListInv, IsQueue, NobodyTwice
  <2>2. TailIsKnown(q)'
    BY <1>1, <1>4, Zenon DEF ListInv, TailIsKnown
  <2>3. QueuedPark(q)'
    <3>1. \A i \in 1..Len(q) : /\ q[i] \in Threads /\ shouldPark[q[i]]
                               /\ pc[q[i]] \in {"publish", "park", "waiting"}
      <4>1. \A i \in 1..Len(q) : q[i] \in Threads
        OBVIOUS
      <4> QED BY <4>1, Zenon DEF ListInv, QueuedPark
    <3> QED BY <1>1, <1>4, <3>1, Zenon DEF QueuedPark
  <2>4. DequeuedPark(q)'
    BY <1>1, <1>4, <1>5, <1>6, Zenon DEF ListInv, DequeuedPark, OnQueue
  <2>5. LinksAreClean(q)'
    BY <1>1, <1>4, Zenon DEF ListInv, LinksAreClean, OnQueue
  <2> QED
    BY <1>8, <2>1, <2>2, <2>3, <2>4, <2>5, Zenon DEF ListInv
<1> QED
  BY <1>7, <1>8, Zenon

(* A queue that is not empty has one thread or more. *)
LEMMA OneOrMore == \A k \in Nat : k > 0 => k = 1 \/ k > 1
  OBVIOUS

(* unlockSlow() tells the second thread of the queue where the tail is. *)
LEMMA DequeueList ==
    ASSUME IInv, NEW q \in Seq(Threads), ListInv(q), NEW t \in Threads, Dequeue(t)
    PROVE  ListInv(q)'
<1>1. /\ pc[t] = "dequeue" /\ pc \in [Threads -> PC]
      /\ queueTail \in [Threads -> ThreadDataPtr]
      /\ pc' = [pc EXCEPT ![t] = "release"]
      /\ \A u \in Threads \ {t} : currentWordValue'[u] = currentWordValue[u]
      /\ UNCHANGED <<m_word, shouldPark, nextInQueue>>
  BY Zenon DEF Dequeue, IInv, TypeOK, Goto, LoadWord
<1>2. m_word.head # Null
  BY <1>1, Zenon DEF IInv, LoadedWordIsGood, WordIsGoodAt
<1>3. /\ Len(q) \in Nat /\ Len(q) > 0 /\ q # <<>> /\ q[1] = m_word.head
      /\ queueTail[q[1]] = q[Len(q)]
      /\ \A i \in 1..Len(q) : q[i] \in Threads
  <2>1. IsQueue(q) /\ TailIsKnown(q)
    BY Zenon DEF ListInv
  <2>2. q # <<>> /\ q[1] = m_word.head
    BY <1>2, <2>1, Zenon DEF IsQueue
  <2>3. queueTail[q[1]] = q[Len(q)]
    BY <2>1, <2>2, Zenon DEF TailIsKnown
  <2> QED BY <2>2, <2>3
<1>4. queueTail' = IF nextInQueue[q[1]] = Null THEN queueTail
                   ELSE [queueTail EXCEPT ![nextInQueue[q[1]]] = q[Len(q)]]
  BY <1>3, Zenon DEF Dequeue, HandOverTail
<1>5. Len(q) > 1 => nextInQueue[q[1]] = q[2] /\ q[2] # q[1] /\ q[2] # Null /\ q[2] \in Threads
  BY <1>3, WordLockAssumption DEF ListInv, IsQueue, NobodyTwice
<1>6. Len(q) = 1 => nextInQueue[q[1]] = Null
  BY <1>3, Zenon DEF ListInv, IsQueue
<1>7. \A u \in Threads : /\ Waking(u)' <=> Waking(u)
                         /\ Waking(u) => currentWordValue'[u] = currentWordValue[u]
                         /\ pc'[u] = "clear" <=> pc[u] = "clear"
                         /\ Parked(u) => Parked(u)'
  BY <1>1, Zenon DEF Waking, Parked
<1>8. \A u \in Threads : Waking(u) => currentWordValue[u].head \in Threads
  BY WokenIsThread
<1>9. IsQueue(q)' /\ NobodyTwice(q)'
  BY <1>1, Zenon DEF ListInv, IsQueue, NobodyTwice
<1>10. TailIsKnown(q)'
  <2>1. CASE Len(q) = 1
    BY <1>3, <1>4, <1>6, <2>1 DEF TailIsKnown
  <2>2. CASE Len(q) > 1
    BY <1>1, <1>3, <1>4, <1>5, <2>2 DEF TailIsKnown
  <2>3. Len(q) \in Nat /\ Len(q) > 0
    BY <1>3, Zenon
  <2>4. Len(q) = 1 \/ Len(q) > 1
    BY <2>3, OneOrMore, Zenon
  <2> QED BY <2>1, <2>2, <2>4, Zenon
<1>11. QueuedPark(q)'
  BY <1>1, <1>2, <1>3, Zenon DEF ListInv, QueuedPark
<1>12. DequeuedPark(q)'
  BY <1>7, <1>8 DEF ListInv, DequeuedPark, OnQueue
<1>13. LinksAreClean(q)'
  BY <1>1, <1>7 DEF ListInv, LinksAreClean, OnQueue, Waking
<1> QED
  BY <1>9, <1>10, <1>11, <1>12, <1>13, Zenon DEF ListInv

(* The store that releases the lock takes the first thread off the queue. *)
LEMMA ReleaseList ==
    ASSUME IInv, NEW q \in Seq(Threads), ListInv(q), NEW t \in Threads, Release(t)
    PROVE  q # <<>> /\ ListInv(Tail(q))'
<1> DEFINE n == Len(q) - 1
           r == Tail(q)
<1>1. /\ pc[t] = "release" /\ pc \in [Threads -> PC]
      /\ pc' = [pc EXCEPT ![t] = "clear"]
      /\ UNCHANGED <<shouldPark, nextInQueue, queueTail, currentWordValue>>
  BY Zenon DEF Release, IInv, TypeOK, Goto, queues
<1>2. currentWordValue[t].head = m_word.head /\ m_word.head # Null
  BY <1>1, Zenon DEF IInv, LoadedWordIsGood, WordIsGoodAt
<1>3. q # <<>> /\ q[1] = m_word.head
  BY <1>2, Zenon DEF ListInv, IsQueue
<1>4. /\ n \in Nat /\ Len(q) = n + 1 /\ r \in Seq(Threads) /\ Len(r) = n
      /\ \A i \in 1..n : r[i] = q[i + 1] /\ i + 1 \in 1..(n + 1)
      /\ \A i \in 1..(n + 1) : q[i] \in Threads
      /\ r = <<>> <=> n = 0
  <2>1. n \in Nat /\ Len(q) = n + 1 /\ r \in Seq(Threads) /\ Len(r) = n
    BY <1>3
  <2>2. \A i \in 1..n : r[i] = q[i + 1] /\ i + 1 \in 1..(n + 1)
    BY <1>3
  <2>3. \A i \in 1..(n + 1) : q[i] \in Threads
    OBVIOUS
  <2> HIDE DEF r
  <2>4. r = <<>> <=> Len(r) = 0
    BY <2>1
  <2> QED BY <2>1, <2>2, <2>3, <2>4, Zenon
<1>5. m_word'.head = nextInQueue[q[1]]
  BY <1>2, <1>3, Zenon DEF Release, ReleasedWord
<1>6. /\ \A i, j \in 1..(n + 1) : q[i] = q[j] => i = j
      /\ \A i \in 1..n : nextInQueue[q[i]] = q[i + 1]
      /\ nextInQueue[q[n + 1]] = Null
      /\ n > 0 => queueTail[q[2]] = q[n + 1]
      /\ \A i \in 1..(n + 1) : shouldPark[q[i]] /\ pc[q[i]] \in {"publish", "park", "waiting"}
  <2>1. IsQueue(q) /\ NobodyTwice(q) /\ TailIsKnown(q) /\ QueuedPark(q)
    BY Zenon DEF ListInv
  <2> HIDE DEF n, r
  <2>2. \A i, j \in 1..(n + 1) : q[i] = q[j] => i = j
    BY <1>4, <2>1, Zenon DEF NobodyTwice
  <2>3. /\ \A i \in 1..n : nextInQueue[q[i]] = q[i + 1]
        /\ nextInQueue[q[n + 1]] = Null
    BY <1>2, <1>3, <1>4, <2>1 DEF IsQueue
  <2>4. n > 0 => queueTail[q[2]] = q[n + 1]
    BY <1>1, <1>4, <2>1 DEF TailIsKnown
  <2>5. \A i \in 1..(n + 1) : shouldPark[q[i]] /\ pc[q[i]] \in {"publish", "park", "waiting"}
    BY <1>4, <2>1, Zenon DEF QueuedPark
  <2> QED BY <2>2, <2>3, <2>4, <2>5, Zenon
<1>7. \A u \in Threads \ {t} : pc[u] \notin QueuePC
  BY <1>1, OneOwner, Zenon DEF QueuePC
<1>8. \A u \in Threads : pc[u] # "publish"
  BY <1>1, <1>7, Zenon DEF QueuePC
<1>9. /\ \A u \in Threads : OnQueue(q, u) <=> u = q[1] \/ OnQueue(r, u)
      /\ NobodyTwice(r)
  <2>1. q # <<>> /\ NobodyTwice(q)
    BY <1>3, Zenon DEF ListInv
  <2> QED BY <2>1, TailOfQueue, Zenon
<1>10. ~OnQueue(r, q[1])
  <2>1. q # <<>> /\ NobodyTwice(q)
    BY <1>3, Zenon DEF ListInv
  <2> QED BY <2>1, TailOfQueue, Zenon
<1> HIDE DEF n, r
<1>11. IsQueue(r)'
  <2>1. CASE n = 0
    BY <1>1, <1>4, <1>5, <1>6, <2>1 DEF IsQueue
  <2>2. CASE n > 0
    <3>1. r # <<>> /\ r[1] = m_word'.head /\ nextInQueue'[r[n]] = Null
      BY <1>1, <1>4, <1>5, <1>6, <2>2
    <3>2. m_word'.head # Null
      BY <1>4, <2>2, <3>1, WordLockAssumption
    <3>3. \A i \in 1..(n - 1) : nextInQueue'[r[i]] = r[i + 1]
      BY <1>1, <1>4, <1>6
    <3> QED BY <1>4, <3>1, <3>2, <3>3, Zenon DEF IsQueue
  <2> QED BY <1>4, <2>1, <2>2
<1>12. NobodyTwice(r)'
  BY <1>9, Zenon DEF NobodyTwice, r
<1>13. TailIsKnown(r)'
  <2>1. \A u \in Threads : pc'[u] # "release"
    BY <1>1, <1>7, Zenon DEF QueuePC
  <2>2. r # <<>> => queueTail'[r[1]] = r[Len(r)]
    BY <1>1, <1>4, <1>6
  <2> QED BY <2>1, <2>2, Zenon DEF TailIsKnown
<1>14. QueuedPark(r)'
  <2>1. \A i \in 1..n : shouldPark'[r[i]] /\ pc'[r[i]] \in {"publish", "park", "waiting"}
    BY <1>1, <1>4, <1>6
  <2> QED BY <1>1, <1>4, <1>8, <2>1, Zenon DEF QueuedPark
<1>15. \A u \in Threads \ {t} : /\ Waking(u)' <=> Waking(u)
                                /\ pc'[u] = "clear" <=> pc[u] = "clear"
  BY <1>1, Zenon DEF Waking
<1>16. \A v \in Threads : Parked(v) => Parked(v)'
  BY <1>1, Zenon DEF Parked
<1>17. \A u \in Threads : Waking(u) => /\ currentWordValue[u].head \in Threads
                                       /\ Parked(currentWordValue[u].head)
                                       /\ currentWordValue[u].head # q[1]
                                       /\ ~OnQueue(r, currentWordValue[u].head)
  <2>1. q[1] \in Threads /\ OnQueue(q, q[1])
    BY <1>4 DEF OnQueue
  <2> QED BY <1>9, <2>1, WokenIsThread, Zenon DEF ListInv, DequeuedPark
<1>18. DequeuedPark(r)'
  <2>1. Parked(q[1]) /\ q[1] \in Threads
    BY <1>4, <1>6, <1>8 DEF Parked
  <2>2. ASSUME NEW u \in Threads, Waking(u)'
        PROVE  (Parked(currentWordValue[u].head) /\ ~OnQueue(r, currentWordValue[u].head))'
    <3>1. PICK v \in Threads : v = currentWordValue[u].head /\ Parked(v) /\ ~OnQueue(r, v)
      BY <1>2, <1>3, <1>10, <1>15, <1>17, <2>1, <2>2, Zenon
    <3>2. shouldPark'[v] /\ pc'[v] \in {"park", "waiting"}
      BY <1>16, <3>1, Zenon DEF Parked
    <3>3. currentWordValue'[u].head = v
      BY <1>1, <3>1, Zenon
    <3> QED BY <3>1, <3>2, <3>3, Zenon DEF Parked, OnQueue
  <2>3. \A u, w \in Threads : Waking(u)' /\ Waking(w)' /\ u # w =>
            currentWordValue'[u].head # currentWordValue'[w].head
    BY <1>1, <1>2, <1>3, <1>15, <1>17, Zenon DEF ListInv, DequeuedPark
  <2> QED BY <2>2, <2>3, Zenon DEF DequeuedPark
<1>19. LinksAreClean(r)'
  <2> SUFFICES ASSUME NEW v \in Threads, ~OnQueue(r, v)
               PROVE  \/ nextInQueue'[v] = Null
                      \/ \E u \in Threads : pc'[u] = "clear" /\ currentWordValue'[u].head = v
    BY Zenon DEF LinksAreClean, OnQueue
  <2>1. CASE v = q[1]
    BY <1>1, <1>2, <1>3, <2>1, Zenon
  <2>2. CASE v # q[1]
    <3>1. \/ nextInQueue[v] = Null
          \/ \E u \in Threads : pc[u] = "clear" /\ currentWordValue[u].head = v
      BY <1>9, <2>2, Zenon DEF ListInv, LinksAreClean
    <3> QED BY <1>1, <3>1, Zenon
  <2> QED BY <2>1, <2>2, Zenon
<1> QED
  BY <1>3, <1>11, <1>12, <1>13, <1>14, <1>18, <1>19, Zenon DEF ListInv, r

(* Clearing the links of the thread that has left the queue. *)
LEMMA ClearList ==
    ASSUME IInv, NEW q \in Seq(Threads), ListInv(q), NEW t \in Threads, Clear(t)
    PROVE  ListInv(q)'
<1>1. /\ pc[t] = "clear" /\ pc \in [Threads -> PC]
      /\ nextInQueue \in [Threads -> ThreadDataPtr] /\ queueTail \in [Threads -> ThreadDataPtr]
      /\ pc' = [pc EXCEPT ![t] = "unpark"]
      /\ UNCHANGED <<m_word, shouldPark, currentWordValue>>
  BY Zenon DEF Clear, IInv, TypeOK, Goto
<1>2. PICK v \in Threads : v = currentWordValue[t].head
  BY <1>1, WokenIsThread, Zenon DEF Waking
<1>3. ~OnQueue(q, v) /\ pc[v] \in {"park", "waiting"}
  BY <1>1, <1>2, Zenon DEF ListInv, DequeuedPark, Waking, Parked
<1>4. /\ nextInQueue' = [nextInQueue EXCEPT ![v] = Null]
      /\ queueTail' = [queueTail EXCEPT ![v] = Null]
  BY <1>2, Zenon DEF Clear
<1>5. \A i \in 1..Len(q) : /\ q[i] \in Threads /\ q[i] # v
                           /\ nextInQueue'[q[i]] = nextInQueue[q[i]]
                           /\ queueTail'[q[i]] = queueTail[q[i]]
  BY <1>1, <1>3, <1>4 DEF OnQueue
<1>6. Len(q) \in Nat /\ (q # <<>> <=> Len(q) > 0)
  OBVIOUS
<1>7. IsQueue(q)' /\ NobodyTwice(q)'
  BY <1>1, <1>5, <1>6 DEF ListInv, IsQueue, NobodyTwice
<1>8. TailIsKnown(q)'
  BY <1>1, <1>5, <1>6 DEF ListInv, TailIsKnown
<1>9. QueuedPark(q)'
  <2>1. \A i \in 1..Len(q) : shouldPark'[q[i]] /\ pc'[q[i]] \in {"publish", "park", "waiting"}
    BY <1>1, <1>5, Zenon DEF ListInv, QueuedPark
  <2>2. \A u \in Threads : pc'[u] = "publish" /\ m_word'.head = Null =>
                               queueTail'[u] = u /\ shouldPark'[u]
    BY <1>1, <1>3, <1>4, Zenon DEF ListInv, QueuedPark
  <2> QED BY <2>1, <2>2, Zenon DEF QueuedPark
<1>10. \A u \in Threads : (Waking(u)' <=> Waking(u)) /\ (Parked(u) => Parked(u)')
  BY <1>1, Zenon DEF Waking, Parked
<1>11. \A u \in Threads : Waking(u) => currentWordValue[u].head \in Threads
  BY WokenIsThread, Zenon
<1>12. DequeuedPark(q)'
  BY <1>1, <1>10, <1>11, Zenon DEF ListInv, DequeuedPark, OnQueue
<1>13. LinksAreClean(q)'
  <2> SUFFICES ASSUME NEW w \in Threads, ~OnQueue(q, w), w # v
               PROVE  \/ nextInQueue'[w] = Null
                      \/ \E u \in Threads : pc'[u] = "clear" /\ currentWordValue'[u].head = w
    BY <1>1, <1>4, Zenon DEF LinksAreClean, OnQueue
  <2>1. \/ nextInQueue[w] = Null
        \/ \E u \in Threads : pc[u] = "clear" /\ currentWordValue[u].head = w
    BY Zenon DEF ListInv, LinksAreClean
  <2> QED BY <1>1, <1>2, <1>4, <2>1, Zenon
<1> QED
  BY <1>7, <1>8, <1>9, <1>12, <1>13, Zenon DEF ListInv

(* Unparking the thread that has left the queue. *)
LEMMA UnparkList ==
    ASSUME IInv, NEW q \in Seq(Threads), ListInv(q), NEW t \in Threads, Unpark(t)
    PROVE  ListInv(q)'
<1>1. /\ pc[t] = "unpark" /\ pc \in [Threads -> PC] /\ shouldPark \in [Threads -> BOOLEAN]
      /\ pc' = [pc EXCEPT ![t] = "notify"]
      /\ UNCHANGED <<m_word, nextInQueue, queueTail, currentWordValue>>
  BY Zenon DEF Unpark, IInv, TypeOK, Goto
<1>2. PICK v \in Threads : v = currentWordValue[t].head
  BY <1>1, WokenIsThread, Zenon DEF Waking
<1>3. ~OnQueue(q, v) /\ pc[v] \in {"park", "waiting"}
  BY <1>1, <1>2, Zenon DEF ListInv, DequeuedPark, Waking, Parked
<1>4. shouldPark' = [shouldPark EXCEPT ![v] = FALSE]
  BY <1>2, Zenon DEF Unpark
<1>5. \A i \in 1..Len(q) : q[i] \in Threads /\ q[i] # v
  BY <1>3 DEF OnQueue
<1>6. IsQueue(q)' /\ NobodyTwice(q)' /\ TailIsKnown(q)'
  BY <1>1, Zenon DEF ListInv, IsQueue, NobodyTwice, TailIsKnown
<1>7. QueuedPark(q)'
  <2>1. \A i \in 1..Len(q) : shouldPark'[q[i]] /\ pc'[q[i]] \in {"publish", "park", "waiting"}
    BY <1>1, <1>4, <1>5, Zenon DEF ListInv, QueuedPark
  <2>2. \A u \in Threads : pc'[u] = "publish" /\ m_word'.head = Null =>
                               queueTail'[u] = u /\ shouldPark'[u]
    BY <1>1, <1>3, <1>4, Zenon DEF ListInv, QueuedPark
  <2> QED BY <2>1, <2>2 DEF QueuedPark
<1>8. \A u \in Threads : /\ Waking(u)' => Waking(u) /\ u # t
                         /\ pc'[u] = "clear" <=> pc[u] = "clear"
  BY <1>1, Zenon DEF Waking
<1>9. \A u \in Threads \ {v} : Parked(u) => Parked(u)'
  BY <1>1, <1>4, Zenon DEF Parked
<1>10. \A u \in Threads \ {t} : Waking(u) => currentWordValue[u].head \in Threads \ {v}
  <2>1. Waking(t)
    BY <1>1, Zenon DEF Waking
  <2> QED BY <1>2, <2>1, WokenIsThread, Zenon DEF ListInv, DequeuedPark
<1>11. DequeuedPark(q)'
  BY <1>1, <1>8, <1>9, <1>10, Zenon DEF ListInv, DequeuedPark, OnQueue
<1>12. LinksAreClean(q)'
  BY <1>1, <1>8, Zenon DEF ListInv, LinksAreClean, OnQueue
<1> QED
  BY <1>6, <1>7, <1>11, <1>12, Zenon DEF ListInv

(* What one step may do to the queue. *)
QueueMove(q, r) ==
    \/ r = q
    \/ \E t \in Threads : r = Append(q, t)
    \/ q # <<>> /\ r = Tail(q)

(* Every step keeps the queue a list and moves it in one of these ways. *)
LEMMA ListNext ==
    ASSUME IInv, NEW q \in Seq(Threads), ListInv(q), [Next]_vars
    PROVE  \E r \in Seq(Threads) : ListInv(r)' /\ QueueMove(q, r)
<1>1. SUFFICES ASSUME ~ListInv(q)'
               PROVE  \E r \in Seq(Threads) : ListInv(r)' /\ QueueMove(q, r)
  BY Zenon DEF QueueMove
<1>2. TypeOK
  BY Zenon DEF IInv
<1> USE DEF Goto, LoadWord
<1>3. ASSUME NEW t \in Threads,
             \/ LockFast(t) \/ SlowAcquire(t) \/ TakeQueueLock(t)
             \/ UnlockFast(t) \/ UnlockRelease(t) \/ UnlockTakeQueue(t)
      PROVE  FALSE
  <2>1. m_word'.head = m_word.head /\ UNCHANGED <<queues, currentWordValue>>
    BY <1>2, <1>3 DEF LockFast, SlowAcquire, TakeQueueLock, UnlockFast, UnlockRelease,
       UnlockTakeQueue, ZeroWord, LockedWord, TypeOK, Word
  <2>2. /\ pc[t] \in {"idle", "slowCAS", "queueCAS", "holding", "unlockCAS", "dequeueCAS"}
        /\ pc'[t] \in {"idle", "holding", "enqueue", "dequeue"}
        /\ \A u \in Threads \ {t} : pc'[u] = pc[u]
    BY <1>2, <1>3, Zenon DEF LockFast, SlowAcquire, TakeQueueLock, UnlockFast, UnlockRelease,
       UnlockTakeQueue, TypeOK
  <2>3. ListInv(q)'
    BY <2>1, <2>2, QuietList, Zenon
  <2> QED BY <1>1, <2>3, Zenon
<1>4. ASSUME NEW t \in Threads,
             \/ LockFastFail(t) \/ SlowLoad(t) \/ SlowAcquireFail(t) \/ Reload(t)
             \/ TakeQueueLockFail(t) \/ UnlockFastFail(t) \/ UnlockLoad(t)
             \/ UnlockReleaseFail(t) \/ UnlockTakeQueueFail(t)
      PROVE  FALSE
  <2>1. /\ m_word' = m_word /\ UNCHANGED queues
        /\ \A u \in Threads \ {t} : pc'[u] = pc[u] /\ currentWordValue'[u] = currentWordValue[u]
    BY <1>2, <1>4, Zenon DEF LockFastFail, SlowLoad, SlowAcquireFail, SpinOrQueue, Reload,
       TakeQueueLockFail, UnlockFastFail, UnlockLoad, UnlockReleaseFail, UnlockTakeQueueFail, TypeOK
  <2>2. pc[t] \in {"idle", "slowLoad", "slowCAS", "reload", "queueCAS", "holding", "unlockLoad",
                   "unlockCAS", "dequeueCAS"}
    BY <1>4, Zenon DEF LockFastFail, SlowLoad, SlowAcquireFail, Reload,
       TakeQueueLockFail, UnlockFastFail, UnlockLoad, UnlockReleaseFail, UnlockTakeQueueFail
  <2>3. pc'[t] \in {"slowLoad", "slowCAS", "reload", "queueCAS", "unlockLoad", "unlockCAS",
                    "dequeueCAS"}
    BY <1>2, <1>4, Zenon DEF LockFastFail, SlowLoad, SlowAcquireFail, SpinOrQueue, Reload,
       TakeQueueLockFail, UnlockFastFail, UnlockLoad, UnlockStep, UnlockReleaseFail,
       UnlockTakeQueueFail, TypeOK
  <2>4. ListInv(q)'
    BY <2>1, <2>2, <2>3, QuietList, Zenon
  <2> QED BY <1>1, <2>4
<1>5. ASSUME NEW t \in Threads, Park(t) \/ SpuriousWakeup(t) PROVE FALSE
  <2>1. /\ UNCHANGED <<m_word, queues, currentWordValue>>
        /\ pc[t] \in {"park", "waiting"}
        /\ pc'[t] \in {"park", "waiting"} \/ (pc'[t] = "slowLoad" /\ ~shouldPark[t])
        /\ \A u \in Threads \ {t} : pc'[u] = pc[u]
    BY <1>2, <1>5, Zenon DEF Park, SpuriousWakeup, TypeOK
  <2>2. ListInv(q)'
    BY <2>1, QuietList, Zenon
  <2> QED BY <1>1, <2>2
<1>6. ASSUME NEW t \in Threads, Notify(t) PROVE FALSE
  <2>1. /\ UNCHANGED <<m_word, queues, currentWordValue>>
        /\ pc[t] = "notify" /\ pc'[t] = "idle"
        /\ \A u \in Threads \ {t} : pc'[u] = pc[u] \/ (pc[u] = "waiting" /\ pc'[u] = "park")
    BY <1>6, Zenon DEF Notify
  <2>2. ListInv(q)'
    BY <2>1, QuietList, Zenon
  <2> QED BY <1>1, <2>2
<1>7. ASSUME NEW t \in Threads, Enqueue(t)
      PROVE  \E r \in Seq(Threads) : ListInv(r)' /\ QueueMove(q, r)
  <2>1. ListInv(Append(q, t))'
    BY <1>1, <1>7, FirstInQueue, AppendList, Zenon
  <2>2. Append(q, t) \in Seq(Threads)
    OBVIOUS
  <2> QED BY <2>1, <2>2, Zenon DEF QueueMove
<1>8. ASSUME NEW t \in Threads, Publish(t)
      PROVE  \E r \in Seq(Threads) : ListInv(r)' /\ QueueMove(q, r)
  <2>1. q = <<>> /\ ListInv(<<t>>)'
    BY <1>1, <1>8, PublishList, Zenon
  <2>2. <<t>> = Append(q, t) /\ <<t>> \in Seq(Threads)
    BY <2>1
  <2> QED BY <2>1, <2>2, Zenon DEF QueueMove
<1>9. ASSUME NEW t \in Threads, Dequeue(t) \/ Clear(t) \/ Unpark(t) PROVE FALSE
  BY <1>1, <1>9, DequeueList, ClearList, UnparkList, Zenon
<1>10. ASSUME NEW t \in Threads, Release(t)
       PROVE  \E r \in Seq(Threads) : ListInv(r)' /\ QueueMove(q, r)
  <2>1. q # <<>> /\ ListInv(Tail(q))'
    BY <1>10, ReleaseList, Zenon
  <2>2. Tail(q) \in Seq(Threads)
    BY <2>1
  <2> QED BY <2>1, <2>2, Zenon DEF QueueMove
<1>11. CASE UNCHANGED vars
  <2>1. ListInv(q)'
    BY <1>11 DEF vars, ListInv, IsQueue, NobodyTwice, TailIsKnown, QueuedPark, DequeuedPark,
       LinksAreClean, OnQueue, Waking, Parked
  <2> QED BY <1>1, <2>1, Zenon
<1> QED
  BY <1>3, <1>4, <1>5, <1>6, <1>7, <1>8, <1>9, <1>10, <1>11, Zenon DEF Next, LockStep, UnlockStepOf

(* There is such a list after every step. *)
HasList == \E q \in Seq(Threads) : ListInv(q)

(* The invariant about the word together with the one about the list. *)
THEOREM ListInvariance == Spec => [](IInv /\ HasList)
<1>1. Init => IInv /\ HasList
  <2>1. <<>> \in Seq(Threads)
    OBVIOUS
  <2> QED BY <2>1, InitIInv, ListInitially, Zenon DEF HasList
<1>2. IInv /\ HasList /\ [Next]_vars => (IInv /\ HasList)'
  BY NextIInv, ListNext, Zenon DEF HasList
<1> QED
  BY <1>1, <1>2, PTL DEF Spec

(* Whenever the queue spinlock is free the intrusive links are a list from *)
(* the head in the word to the queueTail the head records, without a       *)
(* repetition, of threads that have been told to park: for any number of   *)
(* threads.                                                                *)
THEOREM QueueStaysList == Spec => []QueueIsList
<1>1. HasList => QueueIsList
  <2> SUFFICES ASSUME HasList PROVE QueueIsList
    BY Zenon
  <2>1. PICK q \in Seq(Threads) : ListInv(q)
    BY Zenon DEF HasList
  <2>2. Queue = q
    BY <2>1, QueueIs, Zenon DEF ListInv
  <2>3. DOMAIN q = 1..Len(q)
    OBVIOUS
  <2> QED
    BY <2>1, <2>2, <2>3 DEF QueueIsList, ListInv, IsQueue, NobodyTwice, QueuedPark, TailIsKnown
<1> QED
  BY <1>1, ListInvariance, PTL

(* No step of lock() or unlock() changes the queue other than by one       *)
(* thread joining at the tail or by the first one leaving: threads are     *)
(* woken in the order in which they queued.                                *)
THEOREM FirstInFirstOut == Spec => QueueIsFIFO
<1>1. IInv /\ HasList /\ [Next]_vars => QueueMove(Queue, Queue')
  <2> SUFFICES ASSUME IInv, HasList, [Next]_vars PROVE QueueMove(Queue, Queue')
    BY Zenon
  <2>1. PICK q \in Seq(Threads) : ListInv(q)
    BY Zenon DEF HasList
  <2>2. PICK r \in Seq(Threads) : ListInv(r)' /\ QueueMove(q, r)
    BY <2>1, ListNext, Zenon
  <2>3. Queue = q
    BY <2>1, QueueIs, Zenon DEF ListInv
  <2>4. Queue' = r
    BY <2>2, QueueIsNext, Zenon DEF ListInv
  <2> QED
    BY <2>2, <2>3, <2>4, Zenon
<1>2. IInv /\ HasList /\ [Next]_vars =>
        [\/ Queue' = Queue
         \/ \E t \in Threads : Queue' = Append(Queue, t)
         \/ Queue # <<>> /\ Queue' = Tail(Queue)]_vars
  BY <1>1, Zenon DEF QueueMove
<1> QED
  BY <1>2, ListInvariance, PTL DEF Spec, QueueIsFIFO
=============================================================================
