------------------------------- MODULE CurlJobs -------------------------------
(***************************************************************************)
(* The jobs of the curl network backend, ResourceHandleManager, with the   *)
(* ResourceHandles it runs and the disk cache that its callbacks feed.     *)
(*                                                                         *)
(* Everything is on the main thread.  pc is where downloadTimerCallback()  *)
(* is; "idle" is outside it.  curl calls the header and write callbacks    *)
(* from curl_multi_perform() ("perform"); finished transfers are taken     *)
(* from its messages afterwards ("messages").  Clients act when idle and   *)
(* in the callbacks.                                                       *)
(***************************************************************************)
EXTENDS CurlCache

CONSTANTS MaxRunningJobs,  \* maxRunningJobs
          StartFails,      \* may curl_multi_add_handle() fail?
          SelectFails      \* may select() fail?

ASSUME JobsAssumption == /\ MaxRunningJobs \in Nat \ {0}
                         /\ StartFails \in BOOLEAN
                         /\ SelectFails \in BOOLEAN

VARIABLES pc,
          list,            \* m_resourceHandleList
          running,         \* m_runningJobs
          timer,           \* m_downloadTimer.isActive()
          more,            \* started || runningHandles > 0
          selectFailed,    \* the last callback ended at select()
          job,             \* the ResourceHandles and their transfers
          cache

mgr == <<list, running, timer>>
vars == <<pc, list, running, timer, more, selectFailed, job, cache>>

\* A ResourceHandle that does not exist.  refs are the manager's references,
\* held is the client's; handle is m_handle, multi whether curl has it; own
\* whether the request came with validators, validators whether the cache
\* added some; phase and sent are curl's side of the transfer.
Unused == [refs |-> 0, held |-> FALSE, client |-> FALSE, url |-> None, own |-> FALSE,
           handle |-> FALSE, multi |-> FALSE, cancelled |-> FALSE,
           validators |-> FALSE, redirected |-> FALSE, phase |-> "none", sent |-> 0]

Gone == [Unused EXCEPT !.phase = "gone"]

Listed(j) == Contains(list, j)
\* The cache of a process that starts with whole files for saved.
CacheFrom(saved) ==
    LoadIndex([index |-> [u \in URLs |-> None], lru |-> <<>>, size |-> 0, saved |-> saved,
               file |-> [u \in URLs |-> IF Contains(saved, u) THEN Whole ELSE None]])

Init == /\ pc = "idle"
        /\ list = <<>>
        /\ running = 0
        /\ timer = FALSE
        /\ more = FALSE
        /\ selectFailed = FALSE
        /\ job = [j \in Jobs |-> Unused]
        /\ cache \in {CacheFrom(<<>>)} \cup {CacheFrom(<<u>>) : u \in URLs}

\* The last deref() runs the destructor, whose cancel() starts the timer.
Freed(r) == r.refs = 0 /\ ~r.held
Settle(j, r, active) ==
    /\ job' = [job EXCEPT ![j] = IF Freed(r) THEN Gone ELSE r]
    /\ timer' = (active \/ Freed(r))

\* Mutant: one reference stays.
RemovedKeepingReference(r) ==
    [r EXCEPT !.refs = @ - 1, !.handle = FALSE, !.multi = FALSE, !.phase = "none"]

\* removeFromCurl(): the handle goes, and with it both references.
RemovedFromCurl(r) ==
    [r EXCEPT !.refs = @ - 2, !.handle = FALSE, !.multi = FALSE, !.phase = "none"]

-----------------------------------------------------------------------------
(* The client.                                                             *)

ClientsTurn == pc \in {"idle", "perform", "messages"}

\* ResourceHandle::create(), start() and add().  A start from a callback of
\* curl_multi_perform() is one from "messages": nothing reads the list between.
Start(j, u, own) ==
    /\ pc \in {"idle", "messages"}
    /\ job[j] = Unused
    /\ job' = [job EXCEPT ![j] = [Unused EXCEPT
                  !.refs = 1, !.held = TRUE, !.client = TRUE, !.url = u, !.own = own]]
    /\ list' = Append(list, j)
    /\ timer' = TRUE
    /\ UNCHANGED <<pc, running, more, selectFailed, cache>>

\* ResourceHandle::cancel(), after which the client drops its reference.
Cancel(j) ==
    /\ ClientsTurn
    /\ job[j].held
    /\ LET r == [job[j] EXCEPT !.client = FALSE, !.held = FALSE]
       IN  IF Listed(j)
           THEN /\ \E i \in DOMAIN list : list[i] = j /\ list' = Removed(list, i)
                /\ Settle(j, [r EXCEPT !.refs = @ - 1], timer)
           ELSE /\ list' = list
                /\ Settle(j, [r EXCEPT !.cancelled = TRUE], TRUE)
    /\ UNCHANGED <<pc, running, more, selectFailed, cache>>

-----------------------------------------------------------------------------
(* downloadTimerCallback().                                                *)

TimerFires ==
    /\ pc = "idle"
    /\ timer
    /\ timer' = FALSE
    /\ pc' = "start"
    /\ UNCHANGED <<list, running, more, selectFailed, job, cache>>

MayStart == list # <<>> /\ running < MaxRunningJobs

\* Mutant: it is forgotten.
ForgetsOldHandle(r) == FALSE

\* initializeHandle() drops the handle of a job that was resumed while it ran.
DropsOldHandle(r) == r.handle /\ r.cancelled

\* initializeHandle(): the validators of the cache's entry, if there is one.
Validators(r, j) ==
    IF r.own THEN {<<FALSE, cache>>}
    ELSE {<<answer[1], IF answer[1] THEN AddCacheEntryClient(answer[2], r.url, j)
                       ELSE answer[2]>> : answer \in IsCached(cache, r.url)}

\* startScheduledJobs() and startJob().  When curl does not take the handle
\* the job is cancelled, but keeps its slot.
StartJob ==
    /\ pc \in {"start", "restart"}
    /\ MayStart
    /\ LET j == Head(list)
           old == DropsOldHandle(job[j])
           r == IF old THEN RemovedFromCurl(job[j]) ELSE job[j]
       IN  \E v \in Validators(r, j), taken \in IF StartFails THEN BOOLEAN ELSE {TRUE} :
             /\ job' = [job EXCEPT ![j] = [r EXCEPT
                           !.refs = @ + 1, !.handle = TRUE, !.multi = taken,
                           !.client = @ /\ taken, !.cancelled = ~taken,
                           !.validators = @ \/ v[1], !.sent = 0,
                           !.phase = IF taken THEN "headers" ELSE "none"]]
             /\ cache' = v[2]
             /\ running' = IF old THEN running ELSE running + 1
             /\ timer' = (timer \/ ~taken)
    /\ list' = Tail(list)
    /\ more' = (pc = "restart" \/ more)
    /\ UNCHANGED <<pc, selectFailed>>

\* An error of select() leaves the callback at once.
Select ==
    /\ pc = "start"
    /\ ~MayStart
    /\ \/ pc' = "perform" /\ UNCHANGED selectFailed
       \/ SelectFails /\ pc' = "idle" /\ selectFailed' = TRUE
    /\ UNCHANGED <<list, running, timer, more, job, cache>>

\* curl_multi_perform() returns with the number of transfers that go on.
PerformReturns ==
    /\ pc = "perform"
    /\ pc' = "messages"
    /\ more' = \E j \in Jobs : job[j].phase \in {"headers", "body", "end"}
    /\ UNCHANGED <<list, running, timer, selectFailed, job, cache>>

MessagesRead ==
    /\ pc = "messages"
    /\ \A j \in Jobs : job[j].phase \notin {"ok", "failed"}
    /\ pc' = "restart"
    /\ UNCHANGED <<list, running, timer, more, selectFailed, job, cache>>

\* Mutant: the timer is not started again.
CallbackEndsForGood ==
    /\ pc = "restart"
    /\ ~MayStart
    /\ pc' = "idle"
    /\ more' = FALSE
    /\ selectFailed' = FALSE
    /\ UNCHANGED <<mgr, job, cache>>

\* The end of the callback starts the timer if there is more to do.
CallbackEnds ==
    /\ pc = "restart"
    /\ ~MayStart
    /\ pc' = "idle"
    /\ timer' = (timer \/ more)
    /\ more' = FALSE
    /\ selectFailed' = FALSE
    /\ UNCHANGED <<list, running, job, cache>>

-----------------------------------------------------------------------------
(* The callbacks that curl makes while it performs.                        *)

InTransfer(j, phase) == pc = "perform" /\ job[j].phase = phase /\ ~job[j].cancelled

\* headerCallback() for a redirection, which curl follows itself.
Redirect(j, u) ==
    /\ InTransfer(j, "headers")
    /\ ~job[j].redirected
    /\ u # job[j].url
    /\ job' = [job EXCEPT ![j].url = u, ![j].redirected = TRUE]
    /\ UNCHANGED <<pc, mgr, more, selectFailed, cache>>

\* CurlCacheManager::didReceiveResponse()
CacheResponse(j, code) ==
    LET u == job[j].url
        c == RemoveCacheEntryClient(cache, u, j)
    IN  IF code = 304 /\ Has(c, u) THEN {ReadCachedData(c, u, ok) : ok \in DiskWorks}
        ELSE IF code = 200 THEN CreateEntry(c, u, j)
        ELSE {InvalidateCacheEntry(c, u)}

AfterHeaders(j, code) == [job[j] EXCEPT !.phase = IF code = 200 THEN "body" ELSE "end"]

\* headerCallback() at the end of the headers; the client lets the job go on.
Response(j, code) ==
    /\ InTransfer(j, "headers")
    /\ code = 304 => job[j].own \/ job[j].validators
    /\ job' = [job EXCEPT ![j] = AfterHeaders(j, code)]
    /\ IF job[j].client THEN cache' \in CacheResponse(j, code) ELSE UNCHANGED cache
    /\ UNCHANGED <<pc, mgr, more, selectFailed>>

\* The same, when the client cancels the job from didReceiveResponse() or, as
\* a download does, resumes it: cancel() and add().
ResponseStopped(j, code, resume) ==
    /\ InTransfer(j, "headers")
    /\ job[j].client
    /\ code = 304 => job[j].own \/ job[j].validators
    /\ job' = [job EXCEPT ![j] = [AfterHeaders(j, code) EXCEPT
                  !.client = FALSE, !.cancelled = TRUE,
                  !.refs = IF resume THEN @ + 1 ELSE @]]
    /\ list' = IF resume THEN Append(list, j) ELSE list
    /\ timer' = TRUE
    /\ UNCHANGED <<pc, running, more, selectFailed, cache>>

\* writeCallback()
Write(j) ==
    /\ InTransfer(j, "body")
    /\ job[j].sent < Chunks
    /\ job' = [job EXCEPT ![j].sent = @ + 1]
    /\ IF job[j].client
       THEN cache' \in DidReceiveData(cache, job[j].url, j, job[j].sent + 1)
       ELSE UNCHANGED cache
    /\ UNCHANGED <<pc, mgr, more, selectFailed>>

\* curl is done with a transfer: at its end, or with an error at any time, as
\* when a callback of a cancelled job returns 0.
TransferEnds(j, ok) ==
    /\ pc = "perform"
    /\ job[j].phase \in {"headers", "body", "end"}
    /\ ok => \/ job[j].phase = "end"
             \/ job[j].phase = "body" /\ job[j].sent = Chunks
    /\ job' = [job EXCEPT ![j].phase = IF ok THEN "ok" ELSE "failed"]
    /\ UNCHANGED <<pc, mgr, more, selectFailed, cache>>

-----------------------------------------------------------------------------
(* The messages of curl.                                                   *)

\* Mutants: the entry is left as it is, or taken for complete.
DidNotLoadKeeps(c, u) == c
DidNotLoadFinishes(c, u) ==
    IF Has(c, u) THEN DidFinishLoading(c, u, c.index[u].job) ELSE c

\* didFail() and didCancel() of the cache.
DidNotLoad(c, u) == InvalidateCacheEntry(c, u)

CacheMessage(j) ==
    LET r == job[j]
    IN  IF r.cancelled THEN DidNotLoad(cache, r.url)
        ELSE IF ~r.client THEN cache
        ELSE IF r.phase = "ok" THEN DidFinishLoading(cache, r.url, j)
        ELSE DidNotLoad(cache, r.url)

\* One round of the loop over the messages.  A client that is told the end
\* may drop the job.
Message(j, release) ==
    /\ pc = "messages"
    /\ job[j].phase \in {"ok", "failed"}
    /\ release => job[j].client
    /\ cache' = CacheMessage(j)
    /\ running' = running - 1
    /\ LET r == RemovedFromCurl(job[j])
       IN  Settle(j, IF release THEN [r EXCEPT !.held = FALSE, !.client = FALSE] ELSE r, timer)
    /\ UNCHANGED <<pc, list, more, selectFailed>>

-----------------------------------------------------------------------------
\* The process ends, through the cache's destructor or not, and the next one
\* loads the index; what Init can lead to from there is not followed again.
Restart(clean) ==
    /\ clean => pc = "idle"
    /\ pc' = "idle"
    /\ list' = <<>>
    /\ running' = 0
    /\ timer' = FALSE
    /\ more' = FALSE
    /\ selectFailed' = FALSE
    /\ job' = [j \in Jobs |-> Gone]
    /\ cache' = LoadIndex(IF clean THEN SaveIndex(cache) ELSE cache)

Codes == {200, 304, 404}

ClientStep == \E j \in Jobs : \/ \E u \in URLs, own \in BOOLEAN : Start(j, u, own)
                              \/ Cancel(j)

CurlStep(j) == \/ \E u \in URLs : Redirect(j, u)
               \/ \E code \in Codes : Response(j, code)
               \/ \E code \in Codes, resume \in BOOLEAN : ResponseStopped(j, code, resume)
               \/ Write(j)
               \/ \E ok \in BOOLEAN : TransferEnds(j, ok)

CallbackStep == \/ StartJob \/ Select \/ PerformReturns \/ MessagesRead \/ CallbackEnds
                \/ \E j \in Jobs, release \in BOOLEAN : Message(j, release)

Next == \/ ClientStep
        \/ TimerFires
        \/ CallbackStep
        \/ \E j \in Jobs : CurlStep(j)
        \/ \E clean \in BOOLEAN : Restart(clean)

Spec == Init /\ [][Next]_vars

-----------------------------------------------------------------------------
\* The fields of a ResourceHandle and of its transfer.
HandleOf == [refs : Nat, held : BOOLEAN, client : BOOLEAN, url : URLs \cup {None},
             own : BOOLEAN, handle : BOOLEAN, multi : BOOLEAN, cancelled : BOOLEAN,
             validators : BOOLEAN, redirected : BOOLEAN,
             phase : {"none", "headers", "body", "end", "ok", "failed", "gone"},
             sent : 0 .. Chunks]

\* Where the callback is, the list, the counter and the fields of every job
\* are of their types; in particular no reference count goes below zero.
TypeOK == /\ pc \in {"idle", "start", "perform", "messages", "restart"}
          /\ list \in Seq(Jobs)
          /\ running \in Nat
          /\ timer \in BOOLEAN
          /\ more \in BOOLEAN
          /\ selectFailed \in BOOLEAN
          /\ job \in [Jobs -> HandleOf]

WithHandle == {j \in Jobs : job[j].handle}

\* m_runningJobs counts the jobs that have a handle, also those resumed while
\* they ran and those that curl refused, and never exceeds maxRunningJobs.
RunningJobsCounted == /\ running = Cardinality(WithHandle)
                      /\ running <= MaxRunningJobs

\* The manager holds one reference for a job in its list and two for one that
\* has a handle: removeFromCurl() touches the job after its first deref(), and
\* curl's callbacks never meet a job that is gone.
References == \A j \in Jobs :
    job[j].refs = (IF Listed(j) THEN 1 ELSE 0) + (IF job[j].handle THEN 2 ELSE 0)

\* When nothing but the timer can go on with a job, the timer is running --
\* unless select() failed, or every slot is held by a job that curl refused.
SlotsLost == running = MaxRunningJobs /\ \A j \in WithHandle : ~job[j].multi
TimerCoversWork ==
    pc = "idle" /\ ~timer /\ ~selectFailed =>
        /\ \A j \in Jobs : ~job[j].multi
        /\ list # <<>> => SlotsLost

\* An entry that is loading belongs to a job that will end in curl, and which
\* then finishes or invalidates it: no entry is left loading for ever, when it
\* could be neither used nor replaced.
LoadingEntryHasOwner == \A u \in URLs :
    Has(cache, u) /\ cache.index[u].loading =>
        LET r == job[cache.index[u].job] IN r.multi /\ r.url = u

\* An entry that is not loading has the whole body in its content file,
\* whatever loads were cut short -- unless another job for the URL ended while
\* its own was still writing, or the process died while an index file that
\* names the URL was there.
UsableEntryIsWhole == \A u \in URLs :
    Has(cache, u) /\ ~cache.index[u].loading =>
        cache.file[u] = Whole \/ cache.index[u].spoiled

\* Every entry can be evicted: it is in the list, which is free of duplicates,
\* and the counted size is within the limit.
EveryEntryEvictable ==
    /\ \A u \in URLs : Has(cache, u) => Contains(cache.lru, u)
    /\ \A i, k \in DOMAIN cache.lru : cache.lru[i] = cache.lru[k] => i = k
    /\ cache.size <= StorageLimit
=============================================================================
