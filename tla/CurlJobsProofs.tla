---------------------------- MODULE CurlJobsProofs ----------------------------
(***************************************************************************)
(* What holds of the network backend for any number of jobs, URLs and      *)
(* slots, whatever the disk, curl and the clients do: first of the jobs,   *)
(* then of each method of the disk cache, and last of the two together.    *)
(***************************************************************************)
EXTENDS CurlJobs, FiniteSetTheorems, QueueLemmas

Going == {"headers", "body", "end"}
Done == {"ok", "failed"}

\* What is true of one job r, given whether it is in the manager's list.  A
\* job in the list that still has its handle is one that was resumed.
Sound(r, listed) ==
    /\ r.refs = (IF listed THEN 1 ELSE 0) + (IF r.handle THEN 2 ELSE 0)
    /\ r.multi <=> r.phase \in Going \cup Done
    /\ r.multi => r.handle
    /\ listed /\ r.handle => r.cancelled

HandlesSound == \A j \in Jobs : Sound(job[j], Listed(j))

Distinct(s) == \A i, k \in 1 .. Len(s) : s[i] = s[k] => i = k

Counted == IsFiniteSet(WithHandle) /\ RunningJobsCounted

\* The work that the end of the callback must still see.
WorkSeen ==
    /\ TimerCoversWork
    /\ pc = "messages" /\ ~more => \A j \in Jobs : job[j].phase \notin Going
    /\ pc = "restart" /\ ~more => \A j \in Jobs : ~job[j].multi

Base == TypeOK /\ Distinct(list) /\ HandlesSound
IInv == Base /\ Counted /\ WorkSeen

-----------------------------------------------------------------------------
(* Sequences without duplicates.                                           *)

\* add() puts a job that is not in the list at its end.
LEMMA Appended ==
    ASSUME NEW s \in Seq(Jobs), Distinct(s), NEW j \in Jobs, ~Contains(s, j)
    PROVE  /\ Append(s, j) \in Seq(Jobs)
           /\ Distinct(Append(s, j))
           /\ Contains(Append(s, j), j)
           /\ \A k \in Jobs \ {j} : Contains(Append(s, j), k) <=> Contains(s, k)
<1> DEFINE t == Append(s, j)
<1>1. /\ t \in Seq(Jobs)
      /\ Len(t) = Len(s) + 1
      /\ Len(s) \in Nat
      /\ \A i \in 1 .. Len(s) : t[i] = s[i]
      /\ t[Len(s) + 1] = j
  OBVIOUS
<1> HIDE DEF t
<1>2. Distinct(t) BY <1>1 DEF Distinct, Contains
<1>3. Contains(t, j) BY <1>1 DEF Contains
<1>4. ASSUME NEW k \in Jobs \ {j} PROVE Contains(t, k) <=> Contains(s, k)
  BY <1>1 DEF Contains
<1> QED BY <1>1, <1>2, <1>3, <1>4, Zenon DEF t

\* startScheduledJobs() takes the first job from the list.
LEMMA FirstTaken ==
    ASSUME NEW s \in Seq(Jobs), Distinct(s), s # <<>>
    PROVE  /\ Head(s) \in Jobs
           /\ Contains(s, Head(s))
           /\ Tail(s) \in Seq(Jobs)
           /\ Distinct(Tail(s))
           /\ ~Contains(Tail(s), Head(s))
           /\ \A k \in Jobs \ {Head(s)} : Contains(Tail(s), k) <=> Contains(s, k)
<1> DEFINE t == Tail(s)
<1>1. /\ t \in Seq(Jobs)
      /\ Len(s) \in Nat /\ Len(s) >= 1
      /\ Len(t) = Len(s) - 1
      /\ \A i \in 1 .. Len(t) : t[i] = s[i + 1]
      /\ Head(s) = s[1]
      /\ s[1] \in Jobs
  OBVIOUS
<1> HIDE DEF t
<1>2. Distinct(t) BY <1>1 DEF Distinct
<1>3. ~Contains(t, s[1]) BY <1>1 DEF Contains, Distinct
<1>4. ASSUME NEW k \in Jobs \ {s[1]} PROVE Contains(t, k) <=> Contains(s, k)
  <2>1. ASSUME NEW i \in 1 .. Len(s), s[i] = k PROVE Contains(t, k)
    <3>1. i - 1 \in 1 .. Len(t) /\ t[i - 1] = k BY <1>1, <2>1
    <3> QED BY <3>1, Zenon DEF Contains
  <2> QED BY <1>1, <2>1 DEF Contains
<1>5. Contains(s, s[1]) BY <1>1 DEF Contains
<1> QED BY <1>1, <1>2, <1>3, <1>4, <1>5, Zenon DEF t

\* removeScheduledJob() takes a job from the list.
LEMMA OneRemoved ==
    ASSUME NEW s \in Seq(Jobs), Distinct(s), NEW i \in DOMAIN s
    PROVE  /\ Removed(s, i) \in Seq(Jobs)
           /\ Distinct(Removed(s, i))
           /\ ~Contains(Removed(s, i), s[i])
           /\ \A k \in Jobs \ {s[i]} : Contains(Removed(s, i), k) <=> Contains(s, k)
           /\ Removed(s, i) # <<>> => s # <<>>
<1> DEFINE t == Removed(s, i)
<1>1. /\ Len(s) \in Nat
      /\ i \in 1 .. Len(s)
      /\ t \in Seq(Jobs)
      /\ Len(t) = Len(s) - 1
      /\ \A n \in 1 .. Len(t) : t[n] = IF n < i THEN s[n] ELSE s[n + 1]
  <2>1. Len(s) \in Nat /\ i \in 1 .. Len(s) OBVIOUS
  <2>2. /\ t \in Seq(Jobs) /\ Len(t) = Len(s) - 1
        /\ \A n \in 1 .. (Len(s) - 1) : t[n] = IF n < i THEN s[n] ELSE s[n + 1]
    BY <2>1, RemovedElements, Zenon
  <2> QED BY <2>1, <2>2, Zenon
<1> HIDE DEF t
<1>2. Distinct(t) BY <1>1 DEF Distinct
<1>3. ~Contains(t, s[i]) BY <1>1 DEF Contains, Distinct
<1>4. ASSUME NEW k \in Jobs \ {s[i]} PROVE Contains(t, k) <=> Contains(s, k)
  <2>1. ASSUME NEW n \in 1 .. Len(s), s[n] = k PROVE Contains(t, k)
    <3>1. CASE n < i
      <4>1. n \in 1 .. Len(t) /\ t[n] = k BY <1>1, <2>1, <3>1
      <4> QED BY <4>1, Zenon DEF Contains
    <3>2. CASE ~(n < i)
      <4>1. n # i BY <2>1, Zenon
      <4>2. n - 1 \in 1 .. Len(t) /\ t[n - 1] = k BY <1>1, <2>1, <3>2, <4>1
      <4> QED BY <4>2, Zenon DEF Contains
    <3> QED BY <3>1, <3>2, Zenon
  <2> QED BY <1>1, <2>1 DEF Contains
<1>5. s # <<>> BY <1>1
<1> QED BY <1>1, <1>2, <1>3, <1>4, <1>5, Zenon DEF t

-----------------------------------------------------------------------------
(* Steps that change one job.                                              *)

\* A step that changes one job and its place in the list keeps all jobs sound,
\* and moves the number of the jobs with a handle as it moves that job's.
LEMMA OneJob ==
    ASSUME TypeOK, HandlesSound, IsFiniteSet(WithHandle),
           NEW j \in Jobs, NEW r \in HandleOf,
           job' = [job EXCEPT ![j] = r],
           \A k \in Jobs \ {j} : Listed(k)' <=> Listed(k),
           Sound(r, Listed(j)')
    PROVE  /\ job' \in [Jobs -> HandleOf]
           /\ HandlesSound'
           /\ IsFiniteSet(WithHandle')
           /\ r.handle = job[j].handle => WithHandle' = WithHandle
           /\ r.handle /\ ~job[j].handle =>
                 Cardinality(WithHandle') = Cardinality(WithHandle) + 1
           /\ ~r.handle /\ job[j].handle =>
                 Cardinality(WithHandle') = Cardinality(WithHandle) - 1
<1>1. job' \in [Jobs -> HandleOf] BY Zenon DEF TypeOK
<1>2. \A k \in Jobs \ {j} : job'[k] = job[k] BY Zenon DEF TypeOK
<1>3. job'[j] = r BY Zenon DEF TypeOK
<1>4. HandlesSound'
  <2>1. ASSUME NEW k \in Jobs PROVE Sound(job'[k], Listed(k)')
    <3>1. CASE k = j BY <3>1, <1>3, Zenon
    <3>2. CASE k # j BY <3>2, <1>2, Zenon DEF HandlesSound, Sound
    <3> QED BY <3>1, <3>2, Zenon
  <2> QED BY <2>1, Zenon DEF HandlesSound
<1>5. WithHandle' = IF r.handle THEN WithHandle \cup {j} ELSE WithHandle \ {j}
  BY <1>2, <1>3, Zenon DEF WithHandle
<1>6. j \in WithHandle <=> job[j].handle BY Zenon DEF WithHandle
<1>7. r.handle \in BOOLEAN /\ job[j].handle \in BOOLEAN BY Zenon DEF TypeOK, HandleOf
<1> QED BY <1>1, <1>4, <1>5, <1>6, <1>7, FS_AddElement, FS_RemoveElement

\* A job that does not exist has no reference, no handle and no transfer.
LEMMA NoJob ==
    /\ Unused \in HandleOf /\ Unused.refs = 0 /\ Unused.phase = "none"
    /\ Unused.handle = FALSE /\ Unused.multi = FALSE
    /\ Gone \in HandleOf /\ Gone.refs = 0 /\ Gone.phase = "gone"
    /\ Gone.handle = FALSE /\ Gone.multi = FALSE
<1>1. Chunks \in Nat BY CacheAssumption, Zenon
<1>2. 0 \in 0 .. Chunks BY <1>1
<1>3. Unused \in HandleOf BY <1>2, Zenon DEF Unused, HandleOf
<1> QED BY <1>3, Zenon DEF Unused, HandleOf, Gone

-----------------------------------------------------------------------------
(* The client's steps.                                                     *)

\* A job that does not exist yet is not in the list.
LEMMA StartKeeps ==
    ASSUME IInv, NEW j \in Jobs, NEW u \in URLs, NEW own \in BOOLEAN, Start(j, u, own)
    PROVE  IInv'
<1> DEFINE r == [Unused EXCEPT !.refs = 1, !.held = TRUE, !.client = TRUE,
                               !.url = u, !.own = own]
<1>1. /\ pc \in {"idle", "messages"} /\ job[j] = Unused
      /\ job' = [job EXCEPT ![j] = r]
      /\ list' = Append(list, j) /\ timer' = TRUE
      /\ UNCHANGED <<pc, running, more, selectFailed, cache>>
  BY Zenon DEF Start
<1>2. TypeOK /\ Distinct(list) /\ HandlesSound /\ IsFiniteSet(WithHandle)
  BY Zenon DEF IInv, Base, Counted
<1>3. /\ r \in HandleOf /\ r.refs = 1 /\ r.phase = "none"
      /\ r.handle = FALSE /\ r.multi = FALSE
  BY NoJob, Zenon DEF HandleOf
<1> HIDE DEF r
<1>4. ~Listed(j) /\ job[j].handle = FALSE
  BY <1>1, <1>2, NoJob DEF HandlesSound, Sound
<1>5. /\ list' \in Seq(Jobs) /\ Distinct(list') /\ Listed(j)'
      /\ \A k \in Jobs \ {j} : Listed(k)' <=> Listed(k)
  BY <1>1, <1>2, <1>4, Appended, Zenon DEF TypeOK, Listed
<1>6. Sound(r, Listed(j)') BY <1>3, <1>5 DEF Sound, Going, Done
<1>7. job' \in [Jobs -> HandleOf] /\ HandlesSound' /\ WithHandle' = WithHandle
  BY <1>1, <1>2, <1>3, <1>4, <1>5, <1>6, OneJob, Zenon
<1>8. TypeOK' BY <1>1, <1>2, <1>5, <1>7, Zenon DEF TypeOK
<1>9. Counted' BY <1>1, <1>7, Zenon DEF IInv, Counted, RunningJobsCounted
<1>10. WorkSeen'
  <2>1. \A k \in Jobs : job'[k] = IF k = j THEN r ELSE job[k] BY <1>1, <1>2, Zenon DEF TypeOK
  <2> QED BY <2>1, <1>1, <1>3, Zenon DEF IInv, WorkSeen, TimerCoversWork, Going
<1> QED BY <1>5, <1>7, <1>8, <1>9, <1>10, Zenon DEF IInv, Base

\* What Settle() leaves of a job: itself, or nothing once it is not referenced.
LEMMA Settled ==
    ASSUME NEW j \in Jobs, NEW r \in HandleOf, Sound(r, Listed(j)'),
           job' = [job EXCEPT ![j] = IF Freed(r) THEN Gone ELSE r]
    PROVE  \E q \in HandleOf :
              /\ job' = [job EXCEPT ![j] = q]
              /\ Sound(q, Listed(j)')
              /\ q.handle = r.handle
              /\ q.multi = r.multi
              /\ q.phase \in {r.phase, "gone"}
<1>1. CASE Freed(r)
  <2>1. r.refs = 0 BY <1>1, Zenon DEF Freed
  <2>2. ~Listed(j)' /\ r.handle = FALSE /\ r.multi = FALSE
    BY <2>1 DEF Sound, HandleOf
  <2>3. Sound(Gone, Listed(j)') BY NoJob, <2>2 DEF Sound, Going, Done
  <2> QED BY NoJob, <1>1, <2>2, <2>3, Zenon
<1>2. CASE ~Freed(r) BY <1>2, Zenon
<1> QED BY <1>1, <1>2, Zenon

\* cancel() takes the job from the list, or marks it for curl's next callback.
LEMMA CancelKeeps ==
    ASSUME IInv, NEW j \in Jobs, Cancel(j)
    PROVE  IInv'
<1> DEFINE r0 == [job[j] EXCEPT !.client = FALSE, !.held = FALSE]
           r == IF Listed(j) THEN [r0 EXCEPT !.refs = @ - 1]
                             ELSE [r0 EXCEPT !.cancelled = TRUE]
           active == IF Listed(j) THEN timer ELSE TRUE
<1>1. /\ pc # "restart"
      /\ job' = [job EXCEPT ![j] = IF Freed(r) THEN Gone ELSE r]
      /\ timer' = (active \/ Freed(r))
      /\ UNCHANGED <<pc, running, more, selectFailed, cache>>
      /\ \/ Listed(j) /\ \E i \in DOMAIN list : list[i] = j /\ list' = Removed(list, i)
         \/ ~Listed(j) /\ list' = list
  BY Zenon DEF Cancel, ClientsTurn, Settle
<1>2. TypeOK /\ Distinct(list) /\ HandlesSound /\ IsFiniteSet(WithHandle)
  BY Zenon DEF IInv, Base, Counted
<1>3. job[j] \in HandleOf /\ timer \in BOOLEAN /\ list \in Seq(Jobs) BY <1>2, Zenon DEF TypeOK
<1>4. Sound(job[j], Listed(j)) BY <1>2, Zenon DEF HandlesSound
<1>5. /\ r \in HandleOf /\ Sound(r, FALSE) /\ active \in BOOLEAN
      /\ r.handle = job[j].handle /\ r.multi = job[j].multi /\ r.phase = job[j].phase
  <2>1. CASE Listed(j)
    <3>1. job[j].refs \in Nat /\ job[j].refs >= 1 BY <1>3, <1>4, <2>1 DEF Sound, HandleOf
    <3>2. job[j].refs - 1 \in Nat BY <3>1
    <3>3. r \in HandleOf /\ r.refs = job[j].refs - 1 BY <1>3, <2>1, <3>2, Zenon DEF HandleOf
    <3>4. /\ r.handle = job[j].handle /\ r.multi = job[j].multi /\ r.phase = job[j].phase
      BY <1>3, <2>1, Zenon DEF HandleOf
    <3>5. Sound(r, FALSE) BY <1>4, <2>1, <3>1, <3>3, <3>4 DEF Sound
    <3> QED BY <1>3, <2>1, <3>3, <3>4, <3>5, Zenon
  <2>2. CASE ~Listed(j) BY <1>3, <1>4, <2>2, Zenon DEF Sound, HandleOf
  <2> QED BY <2>1, <2>2, Zenon
<1>6. /\ list' \in Seq(Jobs) /\ Distinct(list') /\ ~Listed(j)'
      /\ \A k \in Jobs \ {j} : Listed(k)' <=> Listed(k)
      /\ list' # <<>> => list # <<>>
  BY <1>1, <1>2, <1>3, OneRemoved DEF Listed
<1> HIDE DEF r, active
<1>7. Sound(r, Listed(j)') BY <1>5, <1>6, Zenon DEF Sound
<1>8. PICK q \in HandleOf :
              /\ job' = [job EXCEPT ![j] = q]
              /\ Sound(q, Listed(j)')
              /\ q.handle = r.handle
              /\ q.multi = r.multi
              /\ q.phase \in {r.phase, "gone"}
  BY <1>1, <1>5, <1>7, Settled, Zenon
<1>9. job' \in [Jobs -> HandleOf] /\ HandlesSound' /\ WithHandle' = WithHandle
  BY <1>2, <1>5, <1>6, <1>8, OneJob, Zenon
<1>10. TypeOK' BY <1>1, <1>2, <1>6, <1>9, Zenon DEF TypeOK
<1>11. Counted' BY <1>1, <1>9, Zenon DEF IInv, Counted, RunningJobsCounted
<1>12. WorkSeen'
  <2>1. \A k \in Jobs : job'[k] = IF k = j THEN q ELSE job[k] BY <1>2, <1>8, Zenon DEF TypeOK
  <2>2. \A k \in Jobs : job'[k].multi = job[k].multi BY <2>1, <1>5, <1>8, Zenon
  <2>3. ASSUME pc = "messages", ~more, NEW k \in Jobs PROVE job'[k].phase \notin Going
    BY <2>1, <2>3, <1>5, <1>8, Zenon DEF IInv, WorkSeen, Going
  <2>4. ~timer' => ~timer BY <1>1, <1>3, Zenon DEF active
  <2>5. TimerCoversWork'
    BY <1>1, <1>6, <1>9, <2>2, <2>4, Zenon DEF IInv, WorkSeen, TimerCoversWork, SlotsLost, WithHandle
  <2> QED BY <1>1, <2>3, <2>5, Zenon DEF WorkSeen
<1> QED BY <1>6, <1>9, <1>10, <1>11, <1>12, Zenon DEF IInv, Base

-----------------------------------------------------------------------------
(* The steps of downloadTimerCallback().                                   *)

\* startScheduledJobs() gives the first job a handle and, unless it drops an
\* old one, a slot.
LEMMA StartJobKeeps ==
    ASSUME IInv, StartJob
    PROVE  IInv'
<1>1. /\ pc \in {"start", "restart"} /\ list # <<>> /\ running < MaxRunningJobs
      /\ list' = Tail(list) /\ more' = (pc = "restart" \/ more)
      /\ UNCHANGED <<pc, selectFailed>>
  BY Zenon DEF StartJob, MayStart
<1>2. TypeOK /\ Distinct(list) /\ HandlesSound /\ IsFiniteSet(WithHandle)
  BY Zenon DEF IInv, Base, Counted
<1>3. PICK j \in Jobs :
         /\ j = Head(list) /\ Listed(j)
         /\ list' \in Seq(Jobs) /\ Distinct(list') /\ ~Listed(j)'
         /\ \A k \in Jobs \ {j} : Listed(k)' <=> Listed(k)
  <2>1. list \in Seq(Jobs) BY <1>2, Zenon DEF TypeOK
  <2>2. /\ Head(list) \in Jobs /\ Contains(list, Head(list))
        /\ Tail(list) \in Seq(Jobs) /\ Distinct(Tail(list))
        /\ ~Contains(Tail(list), Head(list))
        /\ \A k \in Jobs \ {Head(list)} : Contains(Tail(list), k) <=> Contains(list, k)
    BY <1>1, <1>2, <2>1, FirstTaken, Zenon
  <2> QED BY <1>1, <2>2, Zenon DEF Listed
<1> DEFINE old == DropsOldHandle(job[j])
           r == IF old THEN RemovedFromCurl(job[j]) ELSE job[j]
<1>4. PICK v \in Validators(r, j), taken \in IF StartFails THEN BOOLEAN ELSE {TRUE} :
             /\ job' = [job EXCEPT ![j] = [r EXCEPT
                           !.refs = @ + 1, !.handle = TRUE, !.multi = taken,
                           !.client = @ /\ taken, !.cancelled = ~taken,
                           !.validators = @ \/ v[1], !.sent = 0,
                           !.phase = IF taken THEN "headers" ELSE "none"]]
             /\ cache' = v[2]
             /\ running' = IF old THEN running ELSE running + 1
             /\ timer' = (timer \/ ~taken)
  BY <1>3, Zenon DEF StartJob
<1> DEFINE new == [r EXCEPT !.refs = @ + 1, !.handle = TRUE, !.multi = taken,
                            !.client = @ /\ taken, !.cancelled = ~taken,
                            !.validators = @ \/ v[1], !.sent = 0,
                            !.phase = IF taken THEN "headers" ELSE "none"]
<1>5. taken \in BOOLEAN BY JobsAssumption, Zenon
<1>6. v[1] \in BOOLEAN
  <2>1. ASSUME NEW answer \in IsCached(cache, r.url) PROVE answer[1] \in BOOLEAN
    <3>1. PICK c, d : IsCached(cache, r.url) \subseteq
             {<<FALSE, cache>>, <<FALSE, c>>, <<~cache.index[r.url].loading, d>>}
      BY Zenon DEF IsCached
    <3>2. CASE answer = <<FALSE, cache>> BY <3>2, Zenon
    <3>3. CASE answer = <<FALSE, c>> BY <3>3, Zenon
    <3>4. CASE answer = <<~cache.index[r.url].loading, d>> BY <3>4, Zenon
    <3> QED BY <3>1, <3>2, <3>3, <3>4, Zenon
  <2>2. CASE v = <<FALSE, cache>> BY <2>2, Zenon
  <2>3. CASE \E answer \in IsCached(cache, r.url) : \E d : v = <<answer[1], d>> BY <2>1, <2>3
  <2>4. \/ v = <<FALSE, cache>>
        \/ \E answer \in IsCached(cache, r.url) : \E d : v = <<answer[1], d>>
    BY Zenon DEF Validators
  <2> QED BY <2>2, <2>3, <2>4, Zenon
<1>7. job[j] \in HandleOf /\ Sound(job[j], TRUE)
  BY <1>2, <1>3, Zenon DEF TypeOK, HandlesSound, Sound
<1>8. /\ r \in HandleOf /\ r.refs = 1
      /\ old => job[j].handle
      /\ ~old => ~job[j].handle
  <2>1. CASE old
    <3>1. job[j].handle /\ job[j].refs = 3 BY <1>7, <2>1 DEF Sound, DropsOldHandle
    <3>2. job[j].refs - 2 = 1 BY <3>1
    <3>3. job[j].refs - 2 \in Nat BY <3>1
    <3>4. RemovedFromCurl(job[j]) \in HandleOf BY <1>7, <3>3, Zenon DEF HandleOf, RemovedFromCurl
    <3>5. RemovedFromCurl(job[j]).refs = 1 BY <1>7, <3>2, Zenon DEF HandleOf, RemovedFromCurl
    <3> QED BY <2>1, <3>1, <3>4, <3>5, Zenon
  <2>2. CASE ~old
    <3>1. ~job[j].handle BY <1>7, <2>2, Zenon DEF Sound, DropsOldHandle
    <3> QED BY <1>7, <2>2, <3>1 DEF Sound
  <2> QED BY <2>1, <2>2, Zenon
<1> HIDE DEF r, old
<1>9. Chunks \in Nat BY CacheAssumption, Zenon
<1>10. new \in HandleOf
  <2>1. /\ r.refs + 1 \in Nat /\ 0 \in 0 .. Chunks
        /\ (r.client /\ taken) \in BOOLEAN /\ (~taken) \in BOOLEAN
        /\ (r.validators \/ v[1]) \in BOOLEAN
        /\ (IF taken THEN "headers" ELSE "none") \in {"headers", "none"}
    BY <1>8, <1>9
  <2>2. PICK n \in Nat, client \in BOOLEAN, cancelled \in BOOLEAN, validators \in BOOLEAN,
             phase \in {"headers", "none"} :
           new = [r EXCEPT !.refs = n, !.handle = TRUE, !.multi = taken, !.client = client,
                           !.cancelled = cancelled, !.validators = validators, !.sent = 0,
                           !.phase = phase]
    BY <2>1, ZenonT(30)
  <2> HIDE DEF new
  <2> DEFINE q == [r EXCEPT !.refs = n, !.handle = TRUE, !.multi = taken, !.client = client]
  <2>3. q \in HandleOf BY <2>2, <1>5, <1>8, Zenon DEF HandleOf
  <2>4. new = [q EXCEPT !.cancelled = cancelled, !.validators = validators, !.sent = 0,
                        !.phase = phase]
    BY <2>2, <1>8, Zenon DEF HandleOf
  <2> HIDE DEF q
  <2> QED BY <2>1, <2>2, <2>3, <2>4, ZenonT(30) DEF HandleOf
<1>11. /\ new.refs = 2 /\ new.handle = TRUE /\ new.multi = taken
       /\ new.phase = IF taken THEN "headers" ELSE "none"
  BY <1>8 DEF HandleOf
<1>12. job' = [job EXCEPT ![j] = new] BY <1>4, Zenon
<1> HIDE DEF new
<1>13. Sound(new, Listed(j)') BY <1>3, <1>5, <1>11 DEF Sound, Going, Done
<1>14. /\ job' \in [Jobs -> HandleOf] /\ HandlesSound'
       /\ IsFiniteSet(WithHandle')
       /\ old => WithHandle' = WithHandle
       /\ ~old => Cardinality(WithHandle') = Cardinality(WithHandle) + 1
  <2>1. job[j].handle \in BOOLEAN BY <1>7, Zenon DEF HandleOf
  <2>2. new.handle = TRUE /\ job[j].handle = IF old THEN TRUE ELSE FALSE BY <2>1, <1>8, <1>11, Zenon
  <2>3. /\ job' \in [Jobs -> HandleOf] /\ HandlesSound' /\ IsFiniteSet(WithHandle')
        /\ new.handle = job[j].handle => WithHandle' = WithHandle
        /\ new.handle /\ ~job[j].handle =>
              Cardinality(WithHandle') = Cardinality(WithHandle) + 1
    BY <1>2, <1>3, <1>10, <1>12, <1>13, OneJob, Zenon
  <2> QED BY <2>2, <2>3, Zenon
<1>15. running \in Nat /\ running' \in Nat BY <1>4, <1>2 DEF TypeOK
<1>16. TypeOK'
  BY <1>4, <1>1, <1>2, <1>3, <1>5, <1>14, <1>15, Zenon DEF TypeOK
<1>17. Counted'
  <2>1. MaxRunningJobs \in Nat BY JobsAssumption, Zenon
  <2>2. CASE old BY <1>4, <1>14, <2>2, Zenon DEF IInv, Counted, RunningJobsCounted
  <2>3. CASE ~old
    BY <1>4, <1>1, <1>14, <1>15, <2>1, <2>3 DEF IInv, Counted, RunningJobsCounted
  <2> QED BY <2>2, <2>3, Zenon
<1>18. WorkSeen' BY <1>1, Zenon DEF WorkSeen, TimerCoversWork
<1> QED BY <1>3, <1>14, <1>16, <1>17, <1>18, Zenon DEF IInv, Base

\* A step that changes neither the jobs nor the list keeps what is said of them.
LEMMA SameJobs ==
    ASSUME IInv, UNCHANGED <<list, running, job>>
    PROVE  /\ Distinct(list)' /\ HandlesSound' /\ Counted'
           /\ list' \in Seq(Jobs) /\ running' \in Nat /\ job' \in [Jobs -> HandleOf]
<1>1. HandlesSound' BY Zenon DEF IInv, Base, HandlesSound, Sound, Listed
<1>2. WithHandle' = WithHandle BY Zenon DEF WithHandle
<1>3. Counted' BY <1>2, Zenon DEF IInv, Counted, RunningJobsCounted
<1>4. Distinct(list)' BY Zenon DEF IInv, Base, Distinct
<1> QED BY <1>1, <1>3, <1>4, Zenon DEF IInv, Base, TypeOK

\* The other steps of the callback change where it is and the timer.  When it
\* ends without work that curl goes on with, curl has no job, and the list is
\* empty unless all slots are taken.
LEMMA CallbackKeeps ==
    ASSUME IInv, TimerFires \/ Select \/ PerformReturns \/ MessagesRead \/ CallbackEnds
    PROVE  IInv'
<1>1. UNCHANGED <<list, running, job>>
  BY Zenon DEF TimerFires, Select, PerformReturns, MessagesRead, CallbackEnds
<1>2. /\ Distinct(list)' /\ HandlesSound' /\ Counted'
      /\ list' \in Seq(Jobs) /\ running' \in Nat /\ job' \in [Jobs -> HandleOf]
  BY <1>1, SameJobs, Zenon
<1>3. TypeOK /\ WorkSeen BY Zenon DEF IInv, Base
<1>4. TypeOK'
  BY <1>2, <1>3, Zenon DEF TypeOK, TimerFires, Select, PerformReturns, MessagesRead, CallbackEnds
<1>5. WorkSeen'
  <2>1. CASE TimerFires BY <2>1, Zenon DEF TimerFires, WorkSeen, TimerCoversWork
  <2>2. CASE Select BY <2>2, Zenon DEF Select, WorkSeen, TimerCoversWork
  <2>3. CASE PerformReturns BY <2>3, Zenon DEF PerformReturns, WorkSeen, TimerCoversWork, Going
  <2>4. CASE MessagesRead
    <3>1. ASSUME ~more, NEW j \in Jobs PROVE ~job[j].multi
      BY <2>4, <3>1, <1>3, Zenon DEF MessagesRead, WorkSeen, IInv, Base, HandlesSound, Sound, Done
    <3> QED BY <2>4, <3>1, Zenon DEF MessagesRead, WorkSeen, TimerCoversWork
  <2>5. CASE CallbackEnds
    <3>1. MaxRunningJobs \in Nat /\ running \in Nat /\ running <= MaxRunningJobs
      BY JobsAssumption, <1>3, Zenon DEF TypeOK, IInv, Counted, RunningJobsCounted
    <3>2. list # <<>> => running = MaxRunningJobs
      BY <2>5, <3>1 DEF CallbackEnds, MayStart
    <3>3. ~more => \A j \in Jobs : ~job[j].multi
      BY <2>5, <1>3, Zenon DEF CallbackEnds, WorkSeen
    <3> QED BY <2>5, <3>2, <3>3
        , Zenon DEF CallbackEnds, WorkSeen, TimerCoversWork, SlotsLost, WithHandle
  <2> QED BY <2>1, <2>2, <2>3, <2>4, <2>5, Zenon
<1> QED BY <1>2, <1>4, <1>5, Zenon DEF IInv, Base

-----------------------------------------------------------------------------
(* The steps of curl.                                                      *)

\* A transfer that moves on, and keeps its job as it is.
LEMMA TransferMoves ==
    ASSUME IInv, NEW j \in Jobs, NEW q \in HandleOf,
           job' = [job EXCEPT ![j] = q],
           q.refs = job[j].refs, q.handle = job[j].handle, q.multi = job[j].multi,
           q.cancelled = job[j].cancelled,
           job[j].phase \in Going, q.phase \in Going \cup Done,
           pc = "perform", UNCHANGED <<pc, mgr, more, selectFailed>>
    PROVE  IInv'
<1>1. TypeOK /\ Distinct(list) /\ HandlesSound /\ IsFiniteSet(WithHandle)
  BY Zenon DEF IInv, Base, Counted
<1>2. \A k \in Jobs : Listed(k)' <=> Listed(k) BY Zenon DEF Listed, mgr
<1>3. Sound(job[j], Listed(j)) BY <1>1, Zenon DEF HandlesSound
<1>4. Sound(q, Listed(j)') BY <1>2, <1>3, Zenon DEF Sound
<1>5. job' \in [Jobs -> HandleOf] /\ HandlesSound' /\ WithHandle' = WithHandle
  BY <1>1, <1>2, <1>4, OneJob, Zenon
<1>6. TypeOK' BY <1>1, <1>5, Zenon DEF TypeOK, mgr
<1>7. Counted' BY <1>5, Zenon DEF IInv, Counted, RunningJobsCounted, mgr
<1>8. WorkSeen' BY Zenon DEF WorkSeen, TimerCoversWork
<1>9. Distinct(list') BY <1>1, Zenon DEF mgr
<1> QED BY <1>5, <1>6, <1>7, <1>8, <1>9, Zenon DEF IInv, Base

\* The callbacks after which the job goes on.
LEMMA TransferKeeps ==
    ASSUME IInv, NEW j \in Jobs,
           \/ \E u \in URLs : Redirect(j, u)
           \/ \E code \in Codes : Response(j, code)
           \/ Write(j)
           \/ \E ok \in BOOLEAN : TransferEnds(j, ok)
    PROVE  IInv'
<1>1. job \in [Jobs -> HandleOf] /\ job[j] \in HandleOf BY Zenon DEF IInv, Base, TypeOK
<1>2. ASSUME NEW u \in URLs, Redirect(j, u) PROVE IInv'
  <2> DEFINE q == [job[j] EXCEPT !.url = u, !.redirected = TRUE]
  <2>1. job' = [job EXCEPT ![j] = q] BY <1>1, <1>2, Zenon DEF Redirect
  <2>2. /\ q \in HandleOf /\ q.refs = job[j].refs /\ q.handle = job[j].handle
        /\ q.multi = job[j].multi /\ q.cancelled = job[j].cancelled /\ q.phase = job[j].phase
    BY <1>1, Zenon DEF HandleOf
  <2>3. /\ job[j].phase \in Going
        /\ pc = "perform" /\ UNCHANGED <<pc, mgr, more, selectFailed>>
    BY <1>2, Zenon DEF Redirect, InTransfer, Going
  <2> HIDE DEF q
  <2> QED BY <2>1, <2>2, <2>3, TransferMoves, Zenon
<1>3. ASSUME NEW code \in Codes, Response(j, code) PROVE IInv'
  <2> DEFINE q == AfterHeaders(j, code)
  <2>1. job' = [job EXCEPT ![j] = q] BY <1>3, Zenon DEF Response
  <2>2. /\ q \in HandleOf /\ q.refs = job[j].refs /\ q.handle = job[j].handle
        /\ q.multi = job[j].multi /\ q.cancelled = job[j].cancelled /\ q.phase \in Going
    BY <1>1, Zenon DEF HandleOf, AfterHeaders, Going
  <2>3. /\ job[j].phase \in Going
        /\ pc = "perform" /\ UNCHANGED <<pc, mgr, more, selectFailed>>
    BY <1>3, Zenon DEF Response, InTransfer, Going
  <2> HIDE DEF q
  <2> QED BY <2>1, <2>2, <2>3, TransferMoves, Zenon
<1>4. CASE Write(j)
  <2> DEFINE q == [job[j] EXCEPT !.sent = @ + 1]
  <2>1. job' = [job EXCEPT ![j] = q] BY <1>1, <1>4, Zenon DEF Write
  <2>2. Chunks \in Nat /\ job[j].sent \in 0 .. Chunks /\ job[j].sent < Chunks
    BY <1>1, <1>4, CacheAssumption, Zenon DEF HandleOf, Write
  <2>3. job[j].sent + 1 \in 0 .. Chunks BY <2>2
  <2>4. /\ q \in HandleOf /\ q.refs = job[j].refs /\ q.handle = job[j].handle
        /\ q.multi = job[j].multi /\ q.cancelled = job[j].cancelled /\ q.phase = job[j].phase
    BY <1>1, <2>3, Zenon DEF HandleOf
  <2>5. /\ job[j].phase \in Going
        /\ pc = "perform" /\ UNCHANGED <<pc, mgr, more, selectFailed>>
    BY <1>4, Zenon DEF Write, InTransfer, Going
  <2> HIDE DEF q
  <2> QED BY <2>1, <2>4, <2>5, TransferMoves, Zenon
<1>5. ASSUME NEW ok \in BOOLEAN, TransferEnds(j, ok) PROVE IInv'
  <2> DEFINE q == [job[j] EXCEPT !.phase = IF ok THEN "ok" ELSE "failed"]
  <2>1. job' = [job EXCEPT ![j] = q] BY <1>1, <1>5, Zenon DEF TransferEnds
  <2>2. /\ q \in HandleOf /\ q.refs = job[j].refs /\ q.handle = job[j].handle
        /\ q.multi = job[j].multi /\ q.cancelled = job[j].cancelled /\ q.phase \in Done
    BY <1>1, Zenon DEF HandleOf, Done
  <2>3. /\ job[j].phase \in Going
        /\ pc = "perform" /\ UNCHANGED <<pc, mgr, more, selectFailed>>
    BY <1>5, Zenon DEF TransferEnds, Going
  <2> HIDE DEF q
  <2> QED BY <2>1, <2>2, <2>3, TransferMoves, Zenon
<1> QED BY <1>2, <1>3, <1>4, <1>5, Zenon

\* The client stops a job from the callback, or resumes it: it was not
\* cancelled before, so it is not in the list already.
LEMMA StoppedKeeps ==
    ASSUME IInv, NEW j \in Jobs, NEW code \in Codes, NEW resume \in BOOLEAN,
           ResponseStopped(j, code, resume)
    PROVE  IInv'
<1> DEFINE q0 == AfterHeaders(j, code)
           q == [q0 EXCEPT !.client = FALSE, !.cancelled = TRUE,
                           !.refs = IF resume THEN @ + 1 ELSE @]
<1>1. /\ pc = "perform" /\ job[j].phase = "headers" /\ ~job[j].cancelled
      /\ job' = [job EXCEPT ![j] = q]
      /\ list' = IF resume THEN Append(list, j) ELSE list
      /\ timer' = TRUE
      /\ UNCHANGED <<pc, running, more, selectFailed, cache>>
  BY Zenon DEF ResponseStopped, InTransfer
<1>2. TypeOK /\ Distinct(list) /\ HandlesSound /\ IsFiniteSet(WithHandle)
  BY Zenon DEF IInv, Base, Counted
<1>3. list \in Seq(Jobs) /\ job[j] \in HandleOf BY <1>2, Zenon DEF TypeOK
<1>4. Sound(job[j], Listed(j)) BY <1>2, Zenon DEF HandlesSound
<1>5. job[j].multi = TRUE /\ job[j].handle = TRUE /\ ~Listed(j) /\ job[j].refs = 2
  BY <1>1, <1>3, <1>4 DEF Sound, Going, HandleOf
<1>6. /\ q0 \in HandleOf /\ q0.refs = 2 /\ q0.handle = TRUE /\ q0.multi = TRUE
      /\ q0.phase \in Going
  BY <1>3, <1>5, Zenon DEF AfterHeaders, HandleOf, Going
<1> HIDE DEF q0
<1>7. /\ q \in HandleOf /\ q.refs = (IF resume THEN 3 ELSE 2) /\ q.handle = TRUE
      /\ q.multi = TRUE /\ q.phase \in Going /\ q.cancelled = TRUE
  <2>1. CASE resume
    <3>1. q0.refs + 1 = 3 /\ q0.refs + 1 \in Nat BY <1>6
    <3>2. q \in HandleOf BY <1>6, <2>1, <3>1, Zenon DEF HandleOf
    <3> QED BY <1>6, <2>1, <3>1, <3>2, Zenon DEF HandleOf
  <2>2. CASE ~resume BY <1>6, <2>2, Zenon DEF HandleOf
  <2> QED BY <2>1, <2>2, Zenon
<1> HIDE DEF q
<1>8. /\ list' \in Seq(Jobs) /\ Distinct(list') /\ (Listed(j)' <=> resume)
      /\ \A k \in Jobs \ {j} : Listed(k)' <=> Listed(k)
  <2>1. CASE resume BY <1>1, <1>2, <1>3, <1>5, <2>1, Appended, Zenon DEF Listed
  <2>2. CASE ~resume BY <1>1, <1>2, <1>3, <1>5, <2>2, Zenon DEF Listed
  <2> QED BY <2>1, <2>2, Zenon
<1>9. Sound(q, Listed(j)') BY <1>7, <1>8 DEF Sound
<1>10. job' \in [Jobs -> HandleOf] /\ HandlesSound' /\ WithHandle' = WithHandle
  BY <1>1, <1>2, <1>5, <1>7, <1>8, <1>9, OneJob, Zenon
<1>11. TypeOK' BY <1>1, <1>2, <1>8, <1>10, Zenon DEF TypeOK
<1>12. Counted' BY <1>1, <1>10, Zenon DEF IInv, Counted, RunningJobsCounted
<1>13. WorkSeen' BY <1>1, Zenon DEF WorkSeen, TimerCoversWork
<1> QED BY <1>8, <1>10, <1>11, <1>12, <1>13, Zenon DEF IInv, Base

\* A message of curl takes the handle from the job and the slot from it.
LEMMA MessageKeeps ==
    ASSUME IInv, NEW j \in Jobs, NEW release \in BOOLEAN, Message(j, release)
    PROVE  IInv'
<1> DEFINE r0 == RemovedFromCurl(job[j])
           r == IF release THEN [r0 EXCEPT !.held = FALSE, !.client = FALSE] ELSE r0
<1>1. /\ pc = "messages" /\ job[j].phase \in Done
      /\ running' = running - 1
      /\ job' = [job EXCEPT ![j] = IF Freed(r) THEN Gone ELSE r]
      /\ timer' = (timer \/ Freed(r))
      /\ UNCHANGED <<pc, list, more, selectFailed>>
  BY Zenon DEF Message, Settle, Done
<1>2. TypeOK /\ Distinct(list) /\ HandlesSound /\ IsFiniteSet(WithHandle) /\ WorkSeen
  BY Zenon DEF IInv, Base, Counted
<1>3. /\ job[j] \in HandleOf /\ \A k \in Jobs : Listed(k)' <=> Listed(k)
      /\ Sound(job[j], Listed(j))
  BY <1>1, <1>2, Zenon DEF TypeOK, Listed, HandlesSound
<1>4. /\ job[j].handle = TRUE
      /\ job[j].refs = (IF Listed(j) THEN 3 ELSE 2)
  BY <1>1, <1>3 DEF Sound, HandleOf
<1>5. /\ r0 \in HandleOf /\ r0.refs = (IF Listed(j) THEN 1 ELSE 0)
      /\ r0.handle = FALSE /\ r0.multi = FALSE /\ r0.phase = "none"
  <2>1. job[j].refs - 2 \in Nat /\ job[j].refs - 2 = (IF Listed(j) THEN 1 ELSE 0) BY <1>4
  <2>2. r0 \in HandleOf BY <1>3, <2>1, Zenon DEF HandleOf, RemovedFromCurl
  <2> QED BY <1>3, <2>1, <2>2, Zenon DEF HandleOf, RemovedFromCurl
<1> HIDE DEF r0
<1>6. /\ r \in HandleOf /\ r.refs = (IF Listed(j) THEN 1 ELSE 0)
      /\ r.handle = FALSE /\ r.multi = FALSE /\ r.phase = "none"
  BY <1>5, Zenon DEF HandleOf
<1> HIDE DEF r
<1>7. Sound(r, Listed(j)') BY <1>3, <1>6 DEF Sound, Going, Done
<1>8. PICK q \in HandleOf :
              /\ job' = [job EXCEPT ![j] = q]
              /\ Sound(q, Listed(j)')
              /\ q.handle = r.handle
              /\ q.multi = r.multi
              /\ q.phase \in {r.phase, "gone"}
  BY <1>1, <1>6, <1>7, Settled, Zenon
<1>9. /\ job' \in [Jobs -> HandleOf] /\ HandlesSound'
      /\ IsFiniteSet(WithHandle')
      /\ Cardinality(WithHandle') = Cardinality(WithHandle) - 1
  BY <1>2, <1>3, <1>4, <1>6, <1>8, OneJob, Zenon
<1>10. running' \in Nat /\ Counted'
  <2>1. /\ MaxRunningJobs \in Nat /\ running \in Nat /\ running <= MaxRunningJobs
        /\ running = Cardinality(WithHandle)
    BY JobsAssumption, <1>2, Zenon DEF TypeOK, IInv, Counted, RunningJobsCounted
  <2>2. running' = Cardinality(WithHandle') BY <1>1, <1>9, <2>1, Zenon
  <2>3. running' \in Nat BY <1>9, <2>2, FS_CardinalityType, Zenon
  <2>4. running' <= MaxRunningJobs BY <1>1, <2>1
  <2> QED BY <1>9, <2>2, <2>3, <2>4, Zenon DEF Counted, RunningJobsCounted
<1>11. TypeOK' BY <1>1, <1>2, <1>9, <1>10, Zenon DEF TypeOK
<1>12. WorkSeen'
  <2>1. \A k \in Jobs : job'[k] = IF k = j THEN q ELSE job[k] BY <1>2, <1>8, Zenon DEF TypeOK
  <2>2. q.phase \notin Going BY <1>6, <1>8, Zenon DEF Going
  <2> QED BY <1>1, <1>2, <2>1, <2>2, Zenon DEF WorkSeen, TimerCoversWork
<1>13. Distinct(list') BY <1>1, <1>2, Zenon
<1> QED BY <1>9, <1>10, <1>11, <1>12, <1>13, Zenon DEF IInv, Base

-----------------------------------------------------------------------------
(* The invariant.                                                          *)

\* A process that has just started.
Empty == /\ pc = "idle" /\ list = <<>> /\ running = 0 /\ timer = FALSE /\ more = FALSE
         /\ selectFailed = FALSE
         /\ job = [j \in Jobs |-> Unused] \/ job = [j \in Jobs |-> Gone]

\* It has no jobs to be wrong about.
LEMMA NoJobs == Empty => IInv
<1> SUFFICES ASSUME Empty PROVE IInv
  BY Zenon
<1> USE DEF Empty
<1>1. \A j \in Jobs : job[j] \in {Unused, Gone} BY Zenon
<1>2. job \in [Jobs -> HandleOf] BY NoJob, Zenon
<1>3. \A j \in Jobs : /\ job[j].refs = 0 /\ job[j].handle = FALSE /\ job[j].multi = FALSE
                      /\ job[j].phase \in {"none", "gone"}
  BY <1>1, NoJob, Zenon
<1>4. \A j : ~Listed(j) BY DEF Listed, Contains
<1>5. TypeOK
  <2>1. <<>> \in Seq(Jobs) /\ 0 \in Nat OBVIOUS
  <2> QED BY <1>2, <2>1, Zenon DEF TypeOK
<1>6. HandlesSound BY <1>3, <1>4 DEF HandlesSound, Sound, Going, Done
<1>7. WithHandle = {} BY <1>3, Zenon DEF WithHandle
<1>8. Counted
  BY <1>7, FS_EmptySet, JobsAssumption DEF Counted, RunningJobsCounted
<1>9. WorkSeen BY <1>3, Zenon DEF WorkSeen, TimerCoversWork
<1>10. Distinct(list) BY DEF Distinct
<1> QED BY <1>5, <1>6, <1>8, <1>9, <1>10, Zenon DEF IInv, Base

\* The next process starts without jobs as well.
LEMMA RestartKeeps ==
    ASSUME IInv, NEW clean \in BOOLEAN, Restart(clean)
    PROVE  IInv'
<1>1. Empty'
  <2>1. Gone' = Gone BY Zenon DEF Gone, Unused
  <2> QED BY <2>1, Zenon DEF Restart, Empty
<1> QED BY <1>1, NoJobs, PTL

\* Every step keeps the invariant.
LEMMA NextKeeps == IInv /\ [Next]_vars => IInv'
<1> SUFFICES ASSUME IInv, [Next]_vars PROVE IInv'
  BY Zenon
<1>1. CASE ClientStep BY <1>1, StartKeeps, CancelKeeps, Zenon DEF ClientStep
<1>2. CASE TimerFires BY <1>2, CallbackKeeps, Zenon
<1>3. CASE CallbackStep
  BY <1>3, StartJobKeeps, CallbackKeeps, MessageKeeps, Zenon DEF CallbackStep
<1>4. CASE \E j \in Jobs : CurlStep(j)
  BY <1>4, TransferKeeps, StoppedKeeps, Zenon DEF CurlStep
<1>5. CASE \E clean \in BOOLEAN : Restart(clean) BY <1>5, RestartKeeps, Zenon
<1>6. CASE UNCHANGED vars
  <2>1. UNCHANGED <<list, running, job>> BY <1>6, Zenon DEF vars
  <2>2. TypeOK' BY <1>6, Zenon DEF IInv, Base, TypeOK, vars
  <2>3. WorkSeen'
    <3>1. WithHandle' = WithHandle BY <2>1, Zenon DEF WithHandle
    <3> QED BY <1>6, <3>1, Zenon DEF IInv, WorkSeen, TimerCoversWork, SlotsLost, vars
  <2> QED BY <2>1, <2>2, <2>3, SameJobs, Zenon DEF IInv, Base
<1> QED BY <1>1, <1>2, <1>3, <1>4, <1>5, <1>6, Zenon DEF Next

\* The invariant holds throughout.
LEMMA Invariance == Spec => []IInv
<1>1. Init => IInv BY NoJobs, Zenon DEF Init, Empty
<1> QED BY <1>1, NextKeeps, PTL DEF Spec

\* m_runningJobs is the number of jobs with a handle and stays within
\* maxRunningJobs, whatever jobs are resumed while they run or refused by curl.
THEOREM JobsAreCounted == Spec => []RunningJobsCounted
<1>1. IInv => RunningJobsCounted BY Zenon DEF IInv, Counted
<1> QED BY <1>1, Invariance, PTL

\* The references that ref() and deref() of the manager leave on a job are one
\* for its place in the list and two for its handle, so no job that curl calls
\* back for has been destroyed.
THEOREM JobsAreReferenced == Spec => []References
<1>1. IInv => References BY Zenon DEF IInv, Base, HandlesSound, Sound, References
<1> QED BY <1>1, Invariance, PTL

\* downloadTimerCallback() never ends with work left and the timer stopped,
\* but after an error of select() or when the lost slots are all of them.
THEOREM TimerIsStarted == Spec => []TimerCoversWork
<1>1. IInv => TimerCoversWork BY Zenon DEF IInv, WorkSeen
<1> QED BY <1>1, Invariance, PTL

-----------------------------------------------------------------------------
(* The disk cache.                                                         *)

Cache == [index : [URLs -> Entry \cup {None}], lru : Seq(URLs), size : Nat,
          saved : Seq(URLs), file : [URLs -> Content \cup {None}]]

\* The entries are listed once, and those that may be used, now or by the
\* process that reads the saved index, have the whole body or are spoiled.
CacheSound(c) ==
    /\ c \in Cache
    /\ \A u \in URLs : Has(c, u) => Contains(c.lru, u)
    /\ Distinct(c.lru) /\ Distinct(c.saved)
    /\ \A u \in URLs : Has(c, u) /\ ~c.index[u].loading =>
           c.file[u] = Whole \/ c.index[u].spoiled
    /\ \A u \in URLs : Has(c, u) /\ c.index[u].open => c.file[u] # None
    /\ \A u \in URLs : Contains(c.saved, u) /\ ~Has(c, u) => c.file[u] \in {None, Whole}

\* d is c without some of its entries and their files.
Shrunk(c, d) ==
    /\ d \in Cache /\ d.saved = c.saved /\ d.size <= c.size /\ Distinct(d.lru)
    /\ \A u \in URLs :
          \/ Has(c, u) /\ d.index[u] = None /\ d.file[u] = None
          \/ /\ d.index[u] = c.index[u] /\ d.file[u] = c.file[u]
             /\ Has(d, u) /\ Contains(c.lru, u) => Contains(d.lru, u)

\* ListHashSet::remove()
LEMMA WithoutOne ==
    ASSUME NEW s \in Seq(URLs), Distinct(s), NEW u \in URLs
    PROVE  /\ Without(s, u) \in Seq(URLs) /\ Distinct(Without(s, u))
           /\ \A v \in URLs : Contains(Without(s, u), v) <=> v # u /\ Contains(s, v)
<1> DEFINE W == URLs \ {u}
           t == AllAmong(s, W)
<1> HIDE DEF W
<1>1. t \in Seq(URLs) BY AllAmongType, Zenon
<1>2. \A i, j \in 1 .. Len(s) : s[i] = s[j] => i = j BY Zenon DEF Distinct
<1>3. \A i, j \in 1 .. Len(t) : t[i] = t[j] => i = j BY <1>2, AllAmongOnce, Zenon
<1>4. Selects(t, s, W) BY AllAmongMembers, Zenon
<1>5. t = Without(s, u) BY Zenon DEF Without, W
<1> HIDE DEF t
<1>6. ASSUME NEW v \in URLs PROVE Contains(t, v) <=> v # u /\ Contains(s, v)
  BY <1>4, Zenon DEF Contains, Selects, W
<1> QED BY <1>1, <1>3, <1>5, <1>6, Zenon DEF Distinct

\* ListHashSet::prependOrMoveToFirst()
LEMMA MovedToFirst ==
    ASSUME NEW s \in Seq(URLs), Distinct(s), NEW u \in URLs
    PROVE  /\ MoveToFirst(s, u) \in Seq(URLs) /\ Distinct(MoveToFirst(s, u))
           /\ \A v \in URLs : Contains(MoveToFirst(s, u), v) <=> v = u \/ Contains(s, v)
<1> DEFINE t == Without(s, u)
           m == <<u>> \o t
<1>1. /\ t \in Seq(URLs) /\ Distinct(t)
      /\ \A v \in URLs : Contains(t, v) <=> v # u /\ Contains(s, v)
  BY WithoutOne, Zenon
<1> HIDE DEF t
<1>2. /\ m \in Seq(URLs) /\ Len(t) \in Nat /\ Len(m) = Len(t) + 1 /\ m[1] = u
      /\ \A i \in 1 .. Len(t) : m[i + 1] = t[i]
  BY <1>1
<1>3. \A i \in 1 .. Len(m) : i = 1 \/ (i - 1 \in 1 .. Len(t) /\ m[i] = t[i - 1])
  <2> SUFFICES ASSUME NEW i \in 1 .. Len(m), i # 1
               PROVE  i - 1 \in 1 .. Len(t) /\ m[i] = t[i - 1]
    BY Zenon
  <2>1. i - 1 \in 1 .. Len(t) /\ (i - 1) + 1 = i BY <1>2
  <2> QED BY <1>2, <2>1, Zenon
<1>4. m = MoveToFirst(s, u) BY Zenon DEF MoveToFirst, t
<1> HIDE DEF m
<1>5. \A i \in 1 .. Len(t) : t[i] # u /\ t[i] \in URLs BY <1>1 DEF Contains
<1>6. Distinct(m)
  <2> SUFFICES ASSUME NEW i \in 1 .. Len(m), NEW k \in 1 .. Len(m), m[i] = m[k]
               PROVE  i = k
    BY Zenon DEF Distinct
  <2>1. i = 1 <=> k = 1 BY <1>2, <1>3, <1>5, Zenon
  <2>2. CASE i # 1 /\ k # 1
    <3>1. i - 1 = k - 1 BY <1>1, <1>3, <2>2 DEF Distinct
    <3> QED BY <1>2, <3>1
  <2> QED BY <2>1, <2>2, Zenon
<1>7. ASSUME NEW v \in URLs PROVE Contains(m, v) <=> v = u \/ Contains(s, v)
  <2>1. ASSUME Contains(m, v), v # u PROVE Contains(s, v)
    <3>1. PICK i \in 1 .. Len(m) : m[i] = v BY <2>1, Zenon DEF Contains
    <3>2. i # 1 BY <1>2, <2>1, <3>1, Zenon
    <3>3. Contains(t, v) BY <1>3, <3>1, <3>2, Zenon DEF Contains
    <3> QED BY <1>1, <3>3, Zenon
  <2>2. Contains(m, u) BY <1>2 DEF Contains
  <2>3. ASSUME Contains(s, v), v # u PROVE Contains(m, v)
    <3>1. Contains(t, v) BY <1>1, <2>3, Zenon
    <3>2. PICK i \in 1 .. Len(t) : t[i] = v BY <3>1, Zenon DEF Contains
    <3>3. i + 1 \in 1 .. Len(m) /\ m[i + 1] = v BY <1>2, <3>2
    <3> QED BY <3>3, Zenon DEF Contains
  <2> QED BY <2>1, <2>2, <2>3, Zenon
<1> QED BY <1>2, <1>4, <1>6, <1>7, Zenon

\* A cache shrinks to itself, and twice if it shrinks again.
LEMMA ShrunkTwice ==
    ASSUME NEW c, NEW d, NEW e, Shrunk(c, d), Shrunk(d, e), c \in Cache
    PROVE  Shrunk(c, e)
<1>1. /\ e \in Cache /\ e.saved = c.saved /\ Distinct(e.lru)
      /\ c.size \in Nat /\ d.size \in Nat /\ e.size \in Nat
      /\ e.size <= d.size /\ d.size <= c.size
  BY Zenon DEF Shrunk, Cache
<1>2. e.size <= c.size BY <1>1
<1>3. ASSUME NEW u \in URLs
      PROVE  \/ Has(c, u) /\ e.index[u] = None /\ e.file[u] = None
             \/ /\ e.index[u] = c.index[u] /\ e.file[u] = c.file[u]
                /\ Has(e, u) /\ Contains(c.lru, u) => Contains(e.lru, u)
  BY Zenon DEF Shrunk, Has
<1> QED BY <1>1, <1>2, <1>3, Zenon DEF Shrunk

\* A cache from which entries were only dropped is as sound as it was.
LEMMA ShrunkSound ==
    ASSUME NEW c, NEW d, CacheSound(c), Shrunk(c, d)
    PROVE  CacheSound(d)
<1>1. d \in Cache /\ Distinct(d.lru) /\ Distinct(d.saved) BY Zenon DEF Shrunk, CacheSound
<1>2. \A u \in URLs : Has(d, u) => Contains(d.lru, u)
  BY Zenon DEF Shrunk, CacheSound, Has
<1>3. \A u \in URLs : Has(d, u) /\ ~d.index[u].loading =>
          d.file[u] = Whole \/ d.index[u].spoiled
  BY Zenon DEF Shrunk, CacheSound, Has
<1>4. \A u \in URLs : Contains(d.saved, u) /\ ~Has(d, u) => d.file[u] \in {None, Whole}
  BY Zenon DEF Shrunk, CacheSound, Has
<1>5. \A u \in URLs : Has(d, u) /\ d.index[u].open => d.file[u] # None
  BY Zenon DEF Shrunk, CacheSound, Has
<1> QED BY <1>1, <1>2, <1>3, <1>4, <1>5, Zenon DEF CacheSound

\* The size of an entry is a number.
LEMMA EntrySizeType ==
    ASSUME NEW c \in Cache, NEW u \in URLs, Has(c, u)
    PROVE  EntrySize(c, u) \in Nat
<1>1. c.index[u] \in Entry BY Zenon DEF Has, Cache
<1>2. c.index[u].entrySize \in Nat BY <1>1, Zenon DEF Entry
<1>3. c.file[u] # None => Len(c.file[u]) \in Nat BY DEF Cache, Content
<1> QED BY <1>2, <1>3 DEF EntrySize

\* What invalidateCacheEntry() leaves.
LEMMA Invalidated ==
    ASSUME NEW c \in Cache, Distinct(c.lru), NEW u \in URLs
    PROVE  /\ Shrunk(c, InvalidateCacheEntry(c, u))
           /\ ~Has(InvalidateCacheEntry(c, u), u)
           /\ Has(c, u) /\ EntrySize(c, u) > 0 /\ c.size > 0 =>
                  InvalidateCacheEntry(c, u).size < c.size
           /\ Has(c, u) => \/ InvalidateCacheEntry(c, u).size = 0
                           \/ InvalidateCacheEntry(c, u).size = c.size - EntrySize(c, u)
           /\ InvalidateCacheEntry(c, u).lru = Without(c.lru, u)
           /\ \A v \in URLs \ {u} : InvalidateCacheEntry(c, u).index[v] = c.index[v]
<1> DEFINE d == InvalidateCacheEntry(c, u)
           w == Without(c.lru, u)
           s == IF ~Has(c, u) THEN c.size
                ELSE IF c.size < EntrySize(c, u) THEN 0 ELSE c.size - EntrySize(c, u)
<1>1. c.lru \in Seq(URLs) /\ c.size \in Nat BY Zenon DEF Cache
<1>2. /\ w \in Seq(URLs) /\ Distinct(w)
      /\ \A v \in URLs : Contains(w, v) <=> v # u /\ Contains(c.lru, v)
  BY <1>1, WithoutOne, Zenon
<1>3. /\ s \in Nat /\ s <= c.size
      /\ Has(c, u) /\ EntrySize(c, u) > 0 /\ c.size > 0 => s < c.size
      /\ Has(c, u) => s = 0 \/ s = c.size - EntrySize(c, u)
  BY <1>1, EntrySizeType
<1> HIDE DEF w, s
<1>4. /\ d.lru = w /\ d.size = s /\ d.saved = c.saved
      /\ d.index = IF Has(c, u) THEN [c.index EXCEPT ![u] = None] ELSE c.index
      /\ d.file = IF Has(c, u) THEN [c.file EXCEPT ![u] = None] ELSE c.file
      /\ d = [index |-> d.index, lru |-> d.lru, size |-> d.size, saved |-> d.saved,
              file |-> d.file]
  BY Zenon DEF InvalidateCacheEntry, Cache, w, s
<1> HIDE DEF d
<1>5. d \in Cache
  <2>1. d.index \in [URLs -> Entry \cup {None}] /\ d.file \in [URLs -> Content \cup {None}]
    BY <1>4, Zenon DEF Cache
  <2> QED BY <1>2, <1>3, <1>4, <2>1, Zenon DEF Cache
<1>6. \A v \in URLs \ {u} : d.index[v] = c.index[v] /\ d.file[v] = c.file[v]
  BY <1>4, Zenon DEF Cache
<1>7. /\ d.index[u] = None
      /\ \/ d.file[u] = None /\ Has(c, u)
         \/ d.file[u] = c.file[u] /\ d.index[u] = c.index[u]
  BY <1>4, Zenon DEF Cache, Has
<1>8. Shrunk(c, d)
  BY <1>2, <1>3, <1>4, <1>5, <1>6, <1>7, Zenon DEF Shrunk, Has
<1> QED BY <1>3, <1>4, <1>6, <1>7, <1>8, Zenon DEF d, w, Has

\* A cache without anything taken from it.
LEMMA ShrunkNot ==
    ASSUME NEW c \in Cache, Distinct(c.lru)
    PROVE  Shrunk(c, c)
  BY DEF Shrunk, Cache

\* The recursion that defines Evicting has a solution.
LEMMA EvictingEquation ==
    ASSUME NEW c \in Cache
    PROVE  Evicting(c) = [n \in 0 .. Len(c.lru) |->
               IF n = 0 THEN c
               ELSE Evict(Evicting(c)[n - 1], c.lru[Len(c.lru) + 1 - n])]
<1> DEFINE Step(f, n) == IF n = 0 THEN c ELSE Evict(f[n - 1], c.lru[Len(c.lru) + 1 - n])
           T == {m \in Nat : \E f : f = [n \in 0 .. m |-> Step(f, n)]}
<1>1. 0 \in T
  <2> DEFINE f == [n \in 0 .. 0 |-> c]
  <2>1. f = [n \in 0 .. 0 |-> Step(f, n)] OBVIOUS
  <2> QED BY <2>1, Zenon
<1>2. ASSUME NEW m \in Nat, m \in T PROVE m + 1 \in T
  <2>1. PICK f : f = [n \in 0 .. m |-> Step(f, n)] BY <1>2, Zenon
  <2> DEFINE g == [n \in 0 .. (m + 1) |-> IF n = m + 1 THEN Step(f, n) ELSE f[n]]
  <2>2. \A n \in 0 .. (m + 1) : n # 0 => g[n - 1] = f[n - 1]
    OBVIOUS
  <2>3. \A n \in 0 .. (m + 1) : g[n] = Step(f, n)
    <3> HIDE DEF Step
    <3>1. \A n \in 0 .. m : f[n] = Step(f, n) BY <2>1, Zenon
    <3>2. \A n \in 0 .. (m + 1) : n # m + 1 => n \in 0 .. m OBVIOUS
    <3> QED BY <3>1, <3>2, Zenon
  <2>4. \A n \in 0 .. (m + 1) : g[n] = Step(g, n)
    BY <2>2, <2>3, Zenon
  <2>5. g = [n \in 0 .. (m + 1) |-> Step(g, n)]
    BY <2>4, Zenon
  <2>6. m + 1 \in Nat OBVIOUS
  <2> HIDE DEF g, Step
  <2> QED BY <2>5, <2>6, Zenon
<1>3. Len(c.lru) \in T
  <2>1. Nat \subseteq T
    <3> HIDE DEF T
    <3> QED BY <1>1, <1>2, SetInduction, Zenon
  <2>2. Len(c.lru) \in Nat BY DEF Cache
  <2> HIDE DEF T
  <2> QED BY <2>1, <2>2, Zenon
<1>4. \E f : f = [n \in 0 .. Len(c.lru) |-> Step(f, n)]
  BY <1>3, Zenon
<1>5. Evicting(c) = [n \in 0 .. Len(c.lru) |-> Step(Evicting(c), n)]
  BY <1>4, Zenon DEF Evicting
<1> QED BY <1>5, Zenon

\* The rounds of the loop, one by one.
LEMMA EvictingRounds ==
    ASSUME NEW c \in Cache
    PROVE  /\ Len(c.lru) \in Nat
           /\ Evicting(c)[0] = c
           /\ \A n \in 0 .. (Len(c.lru) - 1) :
                  /\ Len(c.lru) - n \in 1 .. Len(c.lru)
                  /\ c.lru[Len(c.lru) - n] \in URLs
                  /\ Evicting(c)[n + 1] = Evict(Evicting(c)[n], c.lru[Len(c.lru) - n])
<1> DEFINE m == Len(c.lru)
           f == Evicting(c)
<1>1. m \in Nat /\ c.lru \in Seq(URLs) BY DEF Cache
<1>2. f = [n \in 0 .. m |-> IF n = 0 THEN c ELSE Evict(f[n - 1], c.lru[m + 1 - n])]
  BY EvictingEquation, Zenon
<1> HIDE DEF m, f
<1>3. f[0] = c BY <1>1, <1>2
<1>4. ASSUME NEW n \in 0 .. (m - 1)
      PROVE  m - n \in 1 .. m /\ f[n + 1] = Evict(f[n], c.lru[m - n])
  <2>1. n + 1 \in 0 .. m /\ n + 1 # 0 /\ (n + 1) - 1 = n /\ m + 1 - (n + 1) = m - n
    BY <1>1
  <2>2. f[n + 1] = Evict(f[(n + 1) - 1], c.lru[m + 1 - (n + 1)]) BY <1>2, <2>1, Zenon
  <2> QED BY <1>1, <2>1, <2>2
<1>5. \A i \in 1 .. m : c.lru[i] \in URLs BY <1>1 DEF m
<1> QED BY <1>1, <1>3, <1>4, <1>5, Zenon DEF m, f

\* makeRoomForNewEntry() only takes entries away, and when the last chunk of
\* an entry brought the size over the limit, it ends below it.
LEMMA RoomMade ==
    ASSUME NEW c \in Cache, Distinct(c.lru)
    PROVE  /\ Shrunk(c, MakeRoomForNewEntry(c))
           /\ \A u \in URLs :
                 /\ Has(c, u) /\ Contains(c.lru, u) /\ EntrySize(c, u) > 0
                 /\ c.size <= StorageLimit + 1
                 => MakeRoomForNewEntry(c).size <= StorageLimit
<1> DEFINE m == Len(c.lru)
           f == Evicting(c)
           Full(u) == /\ Has(c, u) /\ Contains(c.lru, u) /\ EntrySize(c, u) > 0
                      /\ c.size <= StorageLimit + 1
           Left(d, n) == /\ \A i \in 1 .. m : i > m - n => ~Has(d, c.lru[i])
                         /\ \A u \in URLs : Full(u) => Has(d, u)
           Round(n) == Shrunk(c, f[n]) /\ (f[n].size <= StorageLimit \/ Left(f[n], n))
           T == {n \in Nat : n <= m => Round(n)}
<1>1. /\ m \in Nat
      /\ f[0] = c
      /\ \A n \in 0 .. (m - 1) : /\ m - n \in 1 .. m
                                 /\ c.lru[m - n] \in URLs
                                 /\ f[n + 1] = Evict(f[n], c.lru[m - n])
  BY EvictingRounds, Zenon
<1>2. StorageLimit \in Nat BY CacheAssumption, Zenon
<1>3. c.lru \in Seq(URLs) /\ c.size \in Nat /\ \A i \in 1 .. m : c.lru[i] \in URLs
  BY DEF Cache
<1> HIDE DEF m, f
<1>4. 0 \in T
  <2>1. Shrunk(c, c) BY ShrunkNot, Zenon
  <2>2. Left(c, 0) BY <1>1
  <2> QED BY <1>1, <2>1, <2>2, Zenon
<1>5. ASSUME NEW n \in Nat, n \in T PROVE n + 1 \in T
  <2> SUFFICES ASSUME n + 1 <= m PROVE Round(n + 1)
    OBVIOUS
  <2> DEFINE x == c.lru[m - n]
             d == f[n]
             e == f[n + 1]
  <2>1. n \in 0 .. (m - 1) /\ n <= m BY <1>1
  <2>2. Round(n) BY <1>5, <2>1, Zenon
  <2>3. m - n \in 1 .. m /\ x \in URLs /\ e = Evict(d, x) BY <1>1, <2>1, Zenon
  <2>4. d \in Cache /\ Distinct(d.lru) /\ d.size \in Nat /\ Shrunk(c, d) /\ d.size <= c.size
    BY <2>2, Zenon DEF Shrunk, Cache
  <2>5. CASE d.size <= StorageLimit
    <3>1. e = d BY <1>2, <2>3, <2>4, <2>5 DEF Evict
    <3> QED BY <2>2, <2>5, <3>1, Zenon
  <2>6. CASE d.size > StorageLimit
    <3>1. e = InvalidateCacheEntry(d, x) BY <2>3, <2>6, Zenon DEF Evict
    <3>2. /\ Shrunk(d, e) /\ ~Has(e, x)
          /\ Has(d, x) /\ EntrySize(d, x) > 0 /\ d.size > 0 => e.size < d.size
          /\ \A v \in URLs \ {x} : e.index[v] = d.index[v]
      BY <2>3, <2>4, <3>1, Invalidated
    <3>3. Shrunk(c, e) BY <2>4, <3>2, ShrunkTwice, Zenon
    <3>4. e.size \in Nat BY <3>2, Zenon DEF Shrunk, Cache
    <3>5. Left(d, n) BY <1>2, <2>2, <2>4, <2>6
    <3>6. ASSUME ~(e.size <= StorageLimit) PROVE Left(e, n + 1)
      <4>1. ASSUME NEW i \in 1 .. m, i > m - (n + 1) PROVE ~Has(e, c.lru[i])
        <5>1. i = m - n \/ i > m - n BY <1>1, <4>1
        <5>2. CASE c.lru[i] = x BY <3>2, <5>2, Zenon
        <5>3. CASE c.lru[i] # x
          <6>1. i > m - n BY <5>1, <5>3, Zenon
          <6>2. ~Has(d, c.lru[i]) BY <3>5, <6>1, Zenon
          <6> QED BY <1>3, <3>2, <5>3, <6>2, Zenon DEF Has
        <5> QED BY <5>2, <5>3, Zenon
      <4>2. ASSUME NEW u \in URLs, Full(u) PROVE Has(e, u)
        <5>1. Has(d, u) BY <3>5, <4>2, Zenon
        <5>2. CASE u # x BY <3>2, <5>1, <5>2, Zenon DEF Has
        <5>3. CASE u = x
          <6>1. d.index[u] = c.index[u] /\ d.file[u] = c.file[u]
            BY <2>4, <5>1, Zenon DEF Shrunk, Has
          <6>2. EntrySize(d, u) > 0 BY <4>2, <6>1, Zenon DEF EntrySize
          <6>3. d.size > 0 BY <1>2, <2>4, <2>6
          <6>4. e.size < d.size BY <3>2, <5>1, <5>3, <6>2, <6>3, Zenon
          <6>5. e.size <= StorageLimit
            BY <1>2, <1>3, <2>4, <3>4, <4>2, <6>4
          <6> QED BY <3>6, <6>5, Zenon
        <5> QED BY <5>2, <5>3, Zenon
      <4> QED BY <4>1, <4>2, Zenon
    <3> QED BY <3>3, <3>6, Zenon
  <2> QED BY <1>2, <2>4, <2>5, <2>6
<1>6. Nat \subseteq T
  <2> HIDE DEF T
  <2> QED BY <1>4, <1>5, SetInduction, Zenon
<1>7. Round(m) BY <1>1, <1>6
<1>8. f[m] = MakeRoomForNewEntry(c) BY Zenon DEF f, m, MakeRoomForNewEntry
<1>9. ASSUME NEW u \in URLs, Full(u) PROVE f[m].size <= StorageLimit
  <2>1. PICK i \in 1 .. m : c.lru[i] = u BY <1>9, Zenon DEF Contains, m
  <2>2. i > m - m BY <1>1
  <2> QED BY <1>7, <1>9, <2>1, <2>2, Zenon
<1> QED BY <1>7, <1>8, <1>9, Zenon

-----------------------------------------------------------------------------
(* What the methods of the cache leave of a sound one.                     *)

\* What loads the entry of u in d is what loaded it in c.
SameLoad(c, d, u) ==
    Has(d, u) /\ d.index[u].loading =>
        /\ Has(c, u) /\ c.index[u].loading
        /\ d.index[u].job = c.index[u].job /\ d.index[u].open = c.index[u].open
        /\ d.file[u] = c.file[u]

Good(c) == CacheSound(c) /\ c.size <= StorageLimit

Kept(c, d) == Good(d) /\ \A u \in URLs : SameLoad(c, d, u)

\* Dropping entries disturbs the load of no entry that stays.
LEMMA ShrunkKept ==
    ASSUME NEW c, NEW d, Good(c), Shrunk(c, d)
    PROVE  Kept(c, d)
<1>1. CacheSound(d) BY ShrunkSound, Zenon DEF Good
<1>2. d.size <= StorageLimit
  <2>1. c.size \in Nat /\ d.size \in Nat /\ d.size <= c.size BY Zenon DEF Good, CacheSound, Shrunk, Cache
  <2> QED BY <2>1, CacheAssumption DEF Good
<1>3. \A u \in URLs : SameLoad(c, d, u) BY Zenon DEF Shrunk, SameLoad, Has
<1> QED BY <1>1, <1>2, <1>3, Zenon DEF Kept, Good

\* invalidateCacheEntry drops the entry and disturbs no other load.
LEMMA InvalidateKept ==
    ASSUME NEW c, Good(c), NEW u \in URLs
    PROVE  Kept(c, InvalidateCacheEntry(c, u)) /\ ~Has(InvalidateCacheEntry(c, u), u)
  BY Invalidated, ShrunkKept, Zenon DEF Good, CacheSound

\* Doing nothing disturbs no load.
LEMMA NothingKept ==
    ASSUME NEW c, Good(c)
    PROVE  Kept(c, c)
  BY Zenon DEF Kept, SameLoad

\* Two steps that disturb no load disturb none together.
LEMMA KeptTwice ==
    ASSUME NEW c, NEW d, NEW e, Kept(c, d), Kept(d, e)
    PROVE  Kept(c, e)
  BY Zenon DEF Kept, SameLoad

\* A method that changes fields of one entry.
LEMMA OneEntry ==
    ASSUME NEW c, Good(c), NEW u \in URLs, Has(c, u), NEW e \in Entry,
           e.loading => /\ c.index[u].loading
                        /\ e.job = c.index[u].job /\ e.open = c.index[u].open,
           ~e.loading => c.file[u] = Whole \/ e.spoiled,
           e.open => c.index[u].open
    PROVE  LET d == [c EXCEPT !.index = [c.index EXCEPT ![u] = e]]
           IN  Kept(c, d) /\ Has(d, u) /\ d.index[u] = e
<1> DEFINE d == [c EXCEPT !.index = [c.index EXCEPT ![u] = e]]
<1>1. c \in Cache BY Zenon DEF Good, CacheSound
<1>2. /\ d.index = [c.index EXCEPT ![u] = e] /\ d.lru = c.lru /\ d.size = c.size
      /\ d.saved = c.saved /\ d.file = c.file
      /\ d \in Cache
  BY <1>1, Zenon DEF Cache
<1>3. /\ d.index[u] = e
      /\ \A v \in URLs \ {u} : d.index[v] = c.index[v]
  BY <1>1, <1>2, Zenon DEF Cache
<1> HIDE DEF d
<1>4. Has(d, u) /\ \A v \in URLs : Has(d, v) <=> Has(c, v)
  BY <1>3, CacheAssumption, Zenon DEF Has
<1>5. CacheSound(d)
  BY <1>2, <1>3, <1>4 DEF Good, CacheSound
<1>6. \A v \in URLs : SameLoad(c, d, v)
  BY <1>2, <1>3, <1>4, Zenon DEF SameLoad
<1> QED BY <1>2, <1>3, <1>4, <1>5, <1>6, Zenon DEF Kept, Good, d

\* What the index holds at a url it has is an entry.
LEMMA EntryOf ==
    ASSUME NEW c, Good(c), NEW u \in URLs, Has(c, u)
    PROVE  c.index[u] \in Entry
  BY Zenon DEF Good, CacheSound, Cache, Has

\* Joining and leaving the clients of an entry disturbs no load.
LEMMA ClientsKept ==
    ASSUME NEW c, Good(c), NEW u \in URLs, NEW j \in Jobs
    PROVE  /\ Kept(c, AddCacheEntryClient(c, u, j))
           /\ Kept(c, RemoveCacheEntryClient(c, u, j))
<1>1. CASE ~Has(c, u)
  BY <1>1, NothingKept, Zenon DEF AddCacheEntryClient, RemoveCacheEntryClient
<1>2. CASE Has(c, u)
  <2> DEFINE old == c.index[u]
             a == [old EXCEPT !.clients = @ \cup {j}]
             r == [old EXCEPT !.clients = @ \ {j}]
  <2>1. old \in Entry BY <1>2, EntryOf, Zenon
  <2>2. ~old.loading => c.file[u] = Whole \/ old.spoiled BY <1>2, Zenon DEF Good, CacheSound
  <2>3. /\ AddCacheEntryClient(c, u, j) = [c EXCEPT !.index = [c.index EXCEPT ![u] = a]]
        /\ RemoveCacheEntryClient(c, u, j) = [c EXCEPT !.index = [c.index EXCEPT ![u] = r]]
    BY <1>2, Zenon DEF AddCacheEntryClient, RemoveCacheEntryClient
  <2>4. /\ a \in Entry /\ a.loading = old.loading /\ a.job = old.job /\ a.open = old.open
        /\ a.spoiled = old.spoiled
        /\ r \in Entry /\ r.loading = old.loading /\ r.job = old.job /\ r.open = old.open
        /\ r.spoiled = old.spoiled
    <3> HIDE DEF old
    <3> QED BY <2>1, Zenon DEF Entry
  <2> HIDE DEF a, r
  <2>5. Kept(c, [c EXCEPT !.index = [c.index EXCEPT ![u] = a]]) BY <1>2, <2>2, <2>4, OneEntry, Zenon
  <2>6. Kept(c, [c EXCEPT !.index = [c.index EXCEPT ![u] = r]]) BY <1>2, <2>2, <2>4, OneEntry, Zenon
  <2> QED BY <2>3, <2>5, <2>6, Zenon
<1> QED BY <1>1, <1>2, Zenon

\* isCached, which may invalidate what it finds unusable, disturbs no load.
LEMMA IsCachedKept ==
    ASSUME NEW c, Good(c), NEW u \in URLs, NEW answer \in IsCached(c, u)
    PROVE  Kept(c, answer[2])
<1> DEFINE old == c.index[u]
           e == [old EXCEPT !.entrySize = EntrySize(c, u)]
           measured == [c EXCEPT !.index = [c.index EXCEPT ![u] = e]]
<1>1. CASE ~Has(c, u)
  BY <1>1, NothingKept DEF IsCached
<1>2. CASE Has(c, u)
  <2>1. old \in Entry BY <1>2, EntryOf, Zenon
  <2>2. ~old.loading => c.file[u] = Whole \/ old.spoiled BY <1>2, Zenon DEF Good, CacheSound
  <2>3. EntrySize(c, u) \in Nat BY <1>2, EntrySizeType, Zenon DEF Good, CacheSound
  <2>4. /\ e \in Entry /\ e.loading = old.loading /\ e.job = old.job /\ e.open = old.open
        /\ e.spoiled = old.spoiled
    <3> HIDE DEF old
    <3> QED BY <2>1, <2>3, Zenon DEF Entry
  <2>5. answer[2] \in {InvalidateCacheEntry(c, u), measured}
    <3>1. measured = [c EXCEPT !.index[u].entrySize = EntrySize(c, u)] BY Zenon
    <3> HIDE DEF measured
    <3>2. PICK b : answer = <<b, InvalidateCacheEntry(c, u)>> \/ answer = <<b, measured>>
      BY <1>2, <3>1, Zenon DEF IsCached
    <3> QED BY <3>2
  <2> HIDE DEF e
  <2>6. Kept(c, measured) BY <1>2, <2>2, <2>4, OneEntry, Zenon
  <2>7. Kept(c, InvalidateCacheEntry(c, u)) BY InvalidateKept, Zenon
  <2> QED BY <2>5, <2>6, <2>7, Zenon
<1> QED BY <1>1, <1>2, Zenon

\* didFinishLoading ends the load of the entry and disturbs no other.
LEMMA FinishKept ==
    ASSUME NEW c, Good(c), NEW u \in URLs, NEW j,
           Has(c, u) /\ c.index[u].loading /\ c.index[u].job = j => c.file[u] = Whole
    PROVE  /\ Kept(c, DidFinishLoading(c, u, j))
           /\ Has(DidFinishLoading(c, u, j), u) => ~DidFinishLoading(c, u, j).index[u].loading
<1> DEFINE old == c.index[u]
           e == [old EXCEPT !.loading = FALSE, !.open = FALSE,
                            !.spoiled = @ \/ (old.loading /\ old.job # j)]
           d == [c EXCEPT !.index = [c.index EXCEPT ![u] = e]]
<1>1. CASE ~Has(c, u)
  BY <1>1, NothingKept, Zenon DEF DidFinishLoading
<1>2. CASE Has(c, u)
  <2>1. old \in Entry BY <1>2, EntryOf, Zenon
  <2>2. ~old.loading => c.file[u] = Whole \/ old.spoiled BY <1>2, Zenon DEF Good, CacheSound
  <2>3. /\ e \in Entry /\ e.loading = FALSE /\ e.open = FALSE
        /\ e.spoiled = (old.spoiled \/ (old.loading /\ old.job # j))
    <3> HIDE DEF old
    <3> QED BY <2>1, Zenon DEF Entry
  <2>4. c.file[u] = Whole \/ e.spoiled BY <1>2, <2>2, <2>3, Zenon
  <2>5. d = DidFinishLoading(c, u, j)
    <3>1. c.index \in [URLs -> Entry \cup {None}] /\ c \in Cache
      BY Zenon DEF Good, CacheSound, Cache
    <3> QED BY <1>2, <3>1, Zenon DEF DidFinishLoading, Cache, Entry
  <2> HIDE DEF e
  <2>6. Kept(c, d) /\ d.index[u] = e BY <1>2, <2>3, <2>4, OneEntry
  <2> QED BY <2>3, <2>5, <2>6, Zenon
<1> QED BY <1>1, <1>2, Zenon

\* readCachedData, which may invalidate an entry it cannot read, disturbs no
\* load.
LEMMA ReadKept ==
    ASSUME NEW c, Good(c), NEW u \in URLs, NEW readable \in BOOLEAN
    PROVE  Kept(c, ReadCachedData(c, u, readable))
<1>1. PICK d : d = IF Has(c, u) /\ ~readable THEN InvalidateCacheEntry(c, u) ELSE c
  BY Zenon
<1>2. Kept(c, d) BY <1>1, InvalidateKept, NothingKept, Zenon
<1>3. CacheSound(d) /\ d \in Cache /\ d.lru \in Seq(URLs) /\ Distinct(d.lru) /\ d.size <= StorageLimit
  BY <1>2, Zenon DEF Kept, Good, CacheSound, Cache
<1>4. PICK l : l = MoveToFirst(d.lru, u) BY Zenon
<1>5. /\ l \in Seq(URLs) /\ Distinct(l)
      /\ \A v \in URLs : Contains(d.lru, v) => Contains(l, v)
  BY <1>3, <1>4, MovedToFirst, Zenon
<1>6. PICK e : e = [d EXCEPT !.lru = l] BY Zenon
<1>7. /\ e.index = d.index /\ e.lru = l /\ e.size = d.size /\ e.saved = d.saved
      /\ e.file = d.file /\ e \in Cache
  BY <1>3, <1>5, <1>6, Zenon DEF Cache
<1>8. CacheSound(e) BY <1>3, <1>5, <1>7, Zenon DEF CacheSound, Has
<1>9. Kept(d, e) BY <1>3, <1>7, <1>8, Zenon DEF Kept, Good, SameLoad, Has
<1>10. e = ReadCachedData(c, u, readable) BY <1>1, <1>4, <1>6, Zenon DEF ReadCachedData
<1> QED BY <1>2, <1>9, <1>10, KeptTwice, Zenon

\* saveIndex disturbs no load and drops no entry.
LEMMA SaveKept ==
    ASSUME NEW c, Good(c)
    PROVE  Kept(c, SaveIndex(c)) /\ \A u \in URLs : Has(c, u) <=> Has(SaveIndex(c), u)
<1> DEFINE W == {u \in URLs : Has(c, u) /\ ~c.index[u].loading}
           s == AllAmong(c.lru, W)
           d == [c EXCEPT !.saved = s]
<1>1. c \in Cache /\ c.lru \in Seq(URLs) /\ \A i, j \in 1 .. Len(c.lru) : c.lru[i] = c.lru[j] => i = j
  BY Zenon DEF Good, CacheSound, Cache, Distinct
<1>2. \A u \in W : Has(c, u) BY Zenon
<1>3. d = SaveIndex(c) BY Zenon DEF SaveIndex
<1> HIDE DEF W
<1>4. s \in Seq(URLs) BY <1>1, AllAmongType, Zenon
<1>5. \A i, j \in 1 .. Len(s) : s[i] = s[j] => i = j BY <1>1, AllAmongOnce, Zenon
<1>6. \A j \in 1 .. Len(s) : s[j] \in W BY <1>1, AllAmongMembers, Zenon DEF Selects
<1> HIDE DEF s
<1>7. /\ d.index = c.index /\ d.lru = c.lru /\ d.size = c.size /\ d.saved = s
      /\ d.file = c.file /\ d \in Cache
  BY <1>1, <1>4, Zenon DEF Cache
<1> HIDE DEF d
<1>8. \A u \in URLs : Contains(s, u) => Has(d, u) BY <1>2, <1>6, <1>7, Zenon DEF Contains, Has
<1>9. CacheSound(d) BY <1>5, <1>7, <1>8 DEF Good, CacheSound, Has, Distinct
<1>10. Kept(c, d) BY <1>7, <1>9, Zenon DEF Kept, Good, SameLoad, Has
<1> QED BY <1>3, <1>7, <1>10, Zenon DEF Has

\* The entry of u in d is as didReceiveResponse() makes it for j.
FreshLoad(d, u, j) ==
    Has(d, u) /\ d.index[u].loading =>
        d.index[u].job = j /\ (d.index[u].open => d.file[u] = <<>>)

\* A loading entry of u, put at the first place of the list.
LEMMA EntryMade ==
    ASSUME NEW c, Good(c), NEW u \in URLs, NEW e \in Entry, e.loading,
           NEW f \in Content \cup {None}, e.open => f # None,
           NEW d, d.index = [c.index EXCEPT ![u] = e], d.file = [c.file EXCEPT ![u] = f],
           d.lru = MoveToFirst(c.lru, u), d.size = c.size, d.saved = c.saved,
           d = [index |-> d.index, lru |-> d.lru, size |-> d.size, saved |-> d.saved,
                file |-> d.file]
    PROVE  /\ Good(d) /\ d.index[u] = e /\ d.file[u] = f
           /\ \A v \in URLs \ {u} : SameLoad(c, d, v)
<1>1. c \in Cache /\ c.lru \in Seq(URLs) /\ Distinct(c.lru) BY Zenon DEF Good, CacheSound, Cache
<1>2. /\ d.lru \in Seq(URLs) /\ Distinct(d.lru)
      /\ \A v \in URLs : Contains(d.lru, v) <=> v = u \/ Contains(c.lru, v)
  <2>1. PICK s, l : s = c.lru /\ l = MoveToFirst(s, u) BY Zenon
  <2>2. /\ l \in Seq(URLs) /\ Distinct(l)
        /\ \A v \in URLs : Contains(l, v) <=> v = u \/ Contains(s, v)
    BY <1>1, <2>1, MovedToFirst, Zenon
  <2> QED BY <2>1, <2>2, Zenon
<1>3. d \in Cache
  <2>1. d.index \in [URLs -> Entry \cup {None}] /\ d.file \in [URLs -> Content \cup {None}]
    BY <1>1 DEF Cache
  <2>2. d.size \in Nat /\ d.saved \in Seq(URLs) BY <1>1, Zenon DEF Cache
  <2> QED BY <1>2, <2>1, <2>2, Zenon DEF Cache
<1>4. /\ d.index[u] = e /\ d.file[u] = f
      /\ \A v \in URLs \ {u} : d.index[v] = c.index[v] /\ d.file[v] = c.file[v]
  BY <1>1, <1>3 DEF Cache
<1>5. Has(d, u) BY <1>4, CacheAssumption, Zenon DEF Has
<1>6. /\ \A v \in URLs : Has(d, v) => Contains(d.lru, v)
      /\ Distinct(d.lru) /\ Distinct(d.saved)
  BY <1>2, <1>3, <1>4 DEF Good, CacheSound, Has
<1>7. \A v \in URLs : Has(d, v) /\ ~d.index[v].loading =>
          d.file[v] = Whole \/ d.index[v].spoiled
  BY <1>4, Zenon DEF Good, CacheSound, Has
<1>8. \A v \in URLs : Contains(d.saved, v) /\ ~Has(d, v) => d.file[v] \in {None, Whole}
  BY <1>3, <1>4, <1>5, Zenon DEF Good, CacheSound, Has
<1>9. \A v \in URLs : Has(d, v) /\ d.index[v].open => d.file[v] # None
  BY <1>4 DEF Good, CacheSound, Has
<1>10. CacheSound(d) BY <1>3, <1>6, <1>7, <1>8, <1>9, Zenon DEF CacheSound
<1>11. \A v \in URLs \ {u} : SameLoad(c, d, v) BY <1>4, Zenon DEF SameLoad, Has
<1> QED BY <1>3, <1>4, <1>10, <1>11, Zenon DEF Good

\* The header file of a new entry could not be written.
LEMMA EntryFailed ==
    ASSUME NEW c, Good(c), NEW u \in URLs
    PROVE  LET d == [c EXCEPT !.index[u] = None, !.file[u] = None, !.lru = Without(@, u)]
           IN  Kept(c, d) /\ ~Has(d, u)
<1>1. c \in Cache /\ c.lru \in Seq(URLs) /\ Distinct(c.lru) BY Zenon DEF Good, CacheSound, Cache
<1>2. PICK l : l = Without(c.lru, u) BY Zenon
<1>3. /\ l \in Seq(URLs) /\ Distinct(l)
      /\ \A v \in URLs : Contains(l, v) <=> v # u /\ Contains(c.lru, v)
  BY <1>1, <1>2, WithoutOne, Zenon
<1> DEFINE d == [c EXCEPT !.index[u] = None, !.file[u] = None, !.lru = Without(@, u)]
<1>4. /\ d.index = [c.index EXCEPT ![u] = None] /\ d.file = [c.file EXCEPT ![u] = None]
      /\ d.lru = l /\ d.size = c.size /\ d.saved = c.saved /\ d \in Cache
  BY <1>1, <1>2, <1>3, Zenon DEF Cache
<1> HIDE DEF d
<1>5. /\ d.index[u] = None /\ d.file[u] = None
      /\ \A v \in URLs \ {u} : d.index[v] = c.index[v] /\ d.file[v] = c.file[v]
  BY <1>1, <1>4, Zenon DEF Cache
<1>6. CacheSound(d)
  <2>1. \A v \in URLs : Has(d, v) => Contains(d.lru, v)
    BY <1>3, <1>4, <1>5, Zenon DEF Good, CacheSound, Has
  <2>2. \A v \in URLs : /\ Has(d, v) /\ ~d.index[v].loading =>
                              d.file[v] = Whole \/ d.index[v].spoiled
                        /\ Has(d, v) /\ d.index[v].open => d.file[v] # None
    BY <1>5, Zenon DEF Good, CacheSound, Has
  <2>3. \A v \in URLs : Contains(d.saved, v) /\ ~Has(d, v) => d.file[v] \in {None, Whole}
    BY <1>4, <1>5, Zenon DEF Good, CacheSound, Has
  <2> QED BY <1>3, <1>4, <2>1, <2>2, <2>3, Zenon DEF Good, CacheSound
<1>7. \A v \in URLs : SameLoad(c, d, v) BY <1>5, Zenon DEF SameLoad, Has
<1> QED BY <1>4, <1>5, <1>6, <1>7, Zenon DEF Kept, Good, Has, d

\* A new entry is a fresh load of the job that created it; no other load is
\* disturbed.
LEMMA CreateKept ==
    ASSUME NEW c, Good(c), NEW u \in URLs, NEW j \in Jobs, NEW x \in CreateEntry(c, u, j)
    PROVE  /\ Good(x)
           /\ \A v \in URLs \ {u} : SameLoad(c, x, v)
           /\ SameLoad(c, x, u) \/ FreshLoad(x, u, j)
<1>1. PICK d : d = InvalidateCacheEntry(c, u) BY Zenon
<1>2. Kept(c, d) /\ ~Has(d, u) /\ Good(d) BY <1>1, InvalidateKept, Zenon DEF Kept
<1> DEFINE e(opened) == [NewEntry(j) EXCEPT !.loading = TRUE, !.open = opened]
           f(opened) == IF opened THEN <<>> ELSE None
           Made(opened) == [d EXCEPT !.index = [d.index EXCEPT ![u] = e(opened)],
                                     !.file = [d.file EXCEPT ![u] = f(opened)],
                                     !.lru = MoveToFirst(@, u)]
<1>3. CASE x = c BY <1>3, NothingKept, Zenon DEF Kept
<1>4. CASE x = d BY <1>2, <1>4, Zenon DEF Kept
<1>5. ASSUME NEW opened \in BOOLEAN, x \in SaveResponseHeaders(Made(opened), u)
      PROVE  Good(x) /\ (\A v \in URLs \ {u} : SameLoad(c, x, v)) /\ FreshLoad(x, u, j)
  <2>1. PICK n : n = NewEntry(j) BY Zenon
  <2>2. n \in Entry /\ n.job = j BY <2>1, Zenon DEF NewEntry, Entry
  <2>3. PICK k : k = [n EXCEPT !.loading = TRUE, !.open = opened] BY Zenon
  <2>4. k \in Entry /\ k.job = j /\ k.loading = TRUE /\ k.open = opened
    BY <2>2, <2>3, Zenon DEF Entry
  <2>5. PICK g : g = f(opened) BY Zenon
  <2>6. g \in Content \cup {None} /\ (k.open => g = <<>> /\ g # None)
    <3>1. <<>> \in Content BY DEF Content
    <3>2. CASE opened BY <2>5, <3>1, <3>2, CacheAssumption, Zenon
    <3>3. CASE ~opened BY <2>4, <2>5, <3>3, Zenon
    <3> QED BY <3>2, <3>3, Zenon
  <2>7. PICK m : m = [d EXCEPT !.index = [d.index EXCEPT ![u] = k],
                               !.file = [d.file EXCEPT ![u] = g],
                               !.lru = MoveToFirst(@, u)]
    BY Zenon
  <2>8. m = Made(opened) BY <2>1, <2>3, <2>5, <2>7, Zenon
  <2>9. /\ Good(m) /\ m.index[u] = k /\ m.file[u] = g
        /\ \A v \in URLs \ {u} : SameLoad(d, m, v)
    <3>1. Good(d) /\ k \in Entry /\ k.loading BY <1>2, <2>4, Zenon
    <3>2. g \in Content \cup {None} /\ (k.open => g # None) BY <2>6, Zenon
    <3>3. d \in Cache BY <1>2, Zenon DEF Good, CacheSound
    <3> HIDE DEF e, f, Made
    <3>4. /\ m.index = [d.index EXCEPT ![u] = k] /\ m.file = [d.file EXCEPT ![u] = g]
          /\ m.lru = MoveToFirst(d.lru, u) /\ m.size = d.size /\ m.saved = d.saved
          /\ m = [index |-> m.index, lru |-> m.lru, size |-> m.size, saved |-> m.saved,
                  file |-> m.file]
      BY <2>7, <3>3, Zenon DEF Cache
    <3> QED BY <3>1, <3>2, <3>4, EntryMade, Zenon
  <2>10. FreshLoad(m, u, j) BY <2>4, <2>6, <2>9, Zenon DEF FreshLoad
  <2>11. PICK b : b = [m EXCEPT !.index[u] = None, !.file[u] = None, !.lru = Without(@, u)]
    BY Zenon
  <2>12. Kept(m, b) BY <2>9, <2>11, EntryFailed, Zenon
  <2>13. PICK y : y \in {m, b} /\ (x = y \/ x = SaveIndex(y))
    <3> HIDE DEF Made
    <3> QED BY <1>5, <2>8, <2>11, Zenon DEF SaveResponseHeaders
  <2>14. Kept(m, y) /\ Kept(m, x)
    <3>1. Kept(m, y) BY <2>9, <2>12, <2>13, NothingKept, Zenon
    <3>2. Kept(y, SaveIndex(y)) BY <3>1, SaveKept, Zenon DEF Kept
    <3> QED BY <2>13, <3>1, <3>2, KeptTwice
  <2>15. Good(x) /\ FreshLoad(x, u, j) BY <2>10, <2>14, Zenon DEF Kept, SameLoad, FreshLoad
  <2>16. \A v \in URLs \ {u} : SameLoad(c, x, v)
    BY <1>2, <2>9, <2>14 DEF Kept, SameLoad
  <2> QED BY <2>15, <2>16, Zenon
<1>6. \/ x = c \/ x = d
      \/ \E opened \in BOOLEAN : x \in SaveResponseHeaders(Made(opened), u)
  <2>1. ASSUME NEW opened
        PROVE  [d EXCEPT !.index[u] = [NewEntry(j) EXCEPT !.loading = TRUE, !.open = opened],
                         !.file[u] = IF opened THEN <<>> ELSE None,
                         !.lru = MoveToFirst(@, u)] = Made(opened)
    BY Zenon
  <2> HIDE DEF Made
  <2> QED BY <1>1, <2>1, Zenon DEF CreateEntry, DiskWorks
<1> QED BY <1>3, <1>4, <1>5, <1>6, Zenon

\* j has written one more chunk to the file of the entry that it loads.
MoreLoad(c, d, u, j, chunk) ==
    /\ Has(c, u) /\ c.index[u].loading /\ c.index[u].job = j
    /\ Has(d, u) => /\ d.index[u].job = j /\ d.index[u].open
                    /\ d.file[u] = Append(IF c.index[u].open THEN c.file[u] ELSE <<>>, chunk)

\* didReceiveData adds the chunk to the load of its own job, or drops the
\* entry.
LEMMA ReceiveKept ==
    ASSUME NEW c, Good(c), NEW u \in URLs, NEW j \in Jobs, NEW chunk \in 1 .. Chunks,
           NEW x \in DidReceiveData(c, u, j, chunk)
    PROVE  /\ Good(x)
           /\ \A v \in URLs \ {u} : SameLoad(c, x, v)
           /\ SameLoad(c, x, u) \/ MoreLoad(c, x, u, j, chunk)
           /\ Has(x, u) /\ x.index[u].loading /\ x.index[u].job = j =>
                  MoreLoad(c, x, u, j, chunk)
<1> DEFINE before == IF c.index[u].open THEN c.file[u] ELSE <<>>
           saved == [c EXCEPT !.file[u] = Append(before, chunk),
                              !.index[u].open = TRUE,
                              !.index[u].spoiled = @ \/ ~c.index[u].loading,
                              !.size = @ + 1,
                              !.lru = MoveToFirst(@, u)]
<1>1. CASE x = c /\ (Has(c, u) => c.index[u].job # j) BY <1>1, NothingKept, Zenon DEF Kept
<1>2. CASE x = InvalidateCacheEntry(c, u) BY <1>2, InvalidateKept, Zenon DEF Kept
<1>3. ASSUME Has(c, u), c.index[u].job = j, x = MakeRoomForNewEntry(saved)
      PROVE  /\ Good(x)
             /\ \A v \in URLs \ {u} : SameLoad(c, x, v)
             /\ SameLoad(c, x, u) \/ MoreLoad(c, x, u, j, chunk)
             /\ Has(x, u) /\ x.index[u].loading => MoreLoad(c, x, u, j, chunk)
  <2>1. c \in Cache /\ c.lru \in Seq(URLs) /\ Distinct(c.lru) /\ c.size \in Nat
    BY Zenon DEF Good, CacheSound, Cache
  <2>2. PICK old : old = c.index[u] BY Zenon
  <2>3. old \in Entry BY <1>3, <2>2, EntryOf, Zenon
  <2>4. PICK e : e = [old EXCEPT !.open = TRUE, !.spoiled = @ \/ ~old.loading] BY Zenon
  <2>5. /\ e \in Entry /\ e.open = TRUE /\ e.job = old.job /\ e.loading = old.loading
        /\ e.entrySize = old.entrySize /\ e.spoiled = (old.spoiled \/ ~old.loading)
    BY <2>3, <2>4, Zenon DEF Entry
  <2>6. PICK f : f = Append(before, chunk) BY Zenon
  <2>7. before \in Content
    <3>1. <<>> \in Content BY DEF Content
    <3>2. c.file[u] \in Content \cup {None} BY <2>1, Zenon DEF Cache
    <3>3. c.index[u].open => c.file[u] # None BY <1>3, Zenon DEF Good, CacheSound
    <3> QED BY <3>1, <3>2, <3>3, Zenon
  <2>8. f \in Content /\ Len(f) \in Nat /\ f # None
    <3> HIDE DEF before
    <3>1. f \in Content BY <2>6, <2>7 DEF Content
    <3> QED BY <3>1, CacheAssumption DEF Content
  <2>9. PICK l : l = MoveToFirst(c.lru, u) BY Zenon
  <2>10. /\ l \in Seq(URLs) /\ Distinct(l)
         /\ \A v \in URLs : Contains(l, v) <=> v = u \/ Contains(c.lru, v)
    BY <2>1, <2>9, MovedToFirst, Zenon
  <2>11. PICK d : d = saved BY Zenon
  <2>12. /\ d.index = [c.index EXCEPT ![u] = e] /\ d.file = [c.file EXCEPT ![u] = f]
         /\ d.lru = l /\ d.size = c.size + 1 /\ d.saved = c.saved
         /\ d = [index |-> d.index, lru |-> d.lru, size |-> d.size, saved |-> d.saved,
                 file |-> d.file]
    <3> HIDE DEF before
    <3> QED BY <2>1, <2>2, <2>4, <2>6, <2>9, <2>11, Zenon DEF Cache
  <2>13. d \in Cache
    <3>1. d.index \in [URLs -> Entry \cup {None}] /\ d.file \in [URLs -> Content \cup {None}]
      BY <2>1, <2>5, <2>8, <2>12 DEF Cache
    <3>2. d.size \in Nat /\ d.lru \in Seq(URLs) /\ d.saved \in Seq(URLs)
      BY <2>1, <2>10, <2>12 DEF Cache
    <3> QED BY <2>12, <3>1, <3>2, Zenon DEF Cache
  <2>14. /\ d.index[u] = e /\ d.file[u] = f
         /\ \A v \in URLs \ {u} : d.index[v] = c.index[v] /\ d.file[v] = c.file[v]
    BY <2>1, <2>12, Zenon DEF Cache
  <2>15. Has(d, u) BY <2>5, <2>14, CacheAssumption, Zenon DEF Has
  <2>16. CacheSound(d)
    <3>1. \A v \in URLs : Has(d, v) => Contains(d.lru, v)
      BY <2>10, <2>12, <2>14, Zenon DEF Good, CacheSound, Has
    <3>2. \A v \in URLs : /\ Has(d, v) /\ ~d.index[v].loading =>
                                d.file[v] = Whole \/ d.index[v].spoiled
                          /\ Has(d, v) /\ d.index[v].open => d.file[v] # None
      BY <2>5, <2>8, <2>14, Zenon DEF Good, CacheSound, Has
    <3>3. \A v \in URLs : Contains(d.saved, v) /\ ~Has(d, v) => d.file[v] \in {None, Whole}
      BY <2>12, <2>14, <2>15, Zenon DEF Good, CacheSound, Has
    <3> QED BY <2>10, <2>12, <2>13, <3>1, <3>2, <3>3, Zenon DEF Good, CacheSound
  <2>17. /\ Shrunk(d, x)
         /\ Has(d, u) /\ Contains(d.lru, u) /\ EntrySize(d, u) > 0 /\ d.size <= StorageLimit + 1
            => x.size <= StorageLimit
    BY <1>3, <2>10, <2>11, <2>12, <2>13, RoomMade, Zenon
  <2>18. EntrySize(d, u) > 0
    <3>1. EntrySize(d, u) = IF e.entrySize # 0 THEN e.entrySize ELSE 1 + Len(f)
      BY <2>8, <2>14, Zenon DEF EntrySize
    <3>2. e.entrySize \in Nat BY <2>5, Zenon DEF Entry
    <3> QED BY <2>8, <3>1, <3>2
  <2>19. d.size <= StorageLimit + 1 BY <2>1, <2>12, CacheAssumption DEF Good
  <2>20. Contains(d.lru, u) BY <2>10, <2>12, Zenon
  <2>21. Good(x) BY <2>15, <2>16, <2>17, <2>18, <2>19, <2>20, ShrunkSound, Zenon DEF Good
  <2>22. \A v \in URLs \ {u} : SameLoad(c, x, v) BY <2>14, <2>17, Zenon DEF Shrunk, SameLoad, Has
  <2>23. Has(x, u) => x.index[u] = e /\ x.file[u] = f BY <2>14, <2>17, Zenon DEF Shrunk, Has
  <2>24. /\ SameLoad(c, x, u) \/ MoreLoad(c, x, u, j, chunk)
         /\ Has(x, u) /\ x.index[u].loading => MoreLoad(c, x, u, j, chunk)
    <3>1. CASE ~old.loading BY <2>5, <2>23, <3>1, Zenon DEF SameLoad
    <3>2. CASE old.loading BY <1>3, <2>2, <2>5, <2>6, <2>23, <3>2, Zenon DEF MoreLoad
    <3> QED BY <3>1, <3>2, Zenon
  <2> QED BY <2>21, <2>22, <2>24, Zenon
<1>4. \/ x = c /\ (Has(c, u) => c.index[u].job # j)
      \/ x = InvalidateCacheEntry(c, u)
      \/ Has(c, u) /\ c.index[u].job = j /\ x = MakeRoomForNewEntry(saved)
  BY Zenon DEF DidReceiveData
<1> QED BY <1>1, <1>2, <1>3, <1>4, Zenon

-----------------------------------------------------------------------------
(* loadIndex(): what a process finds of the cache of the one before.       *)

\* P[k] is the size of the first k entries of the list.
Sums(c, P) ==
    /\ P \in [0 .. Len(c.lru) -> Nat] /\ P[0] = 0
    /\ \A k \in 1 .. Len(c.lru) : P[k] = P[k - 1] + EntrySize(c, c.lru[k])

\* The list has the entries and nothing else.
Listing(c) == \A u \in URLs : Has(c, u) <=> Contains(c.lru, u)

\* ListHashSet::remove() of what is not there.
LEMMA WithoutNothing ==
    ASSUME NEW s \in Seq(URLs), NEW u \in URLs, ~Contains(s, u)
    PROVE  Without(s, u) = s
<1> DEFINE W == URLs \ {u}
<1>1. \A i \in 1 .. Len(s) : s[i] \in W BY DEF Contains
<1> HIDE DEF W
<1>2. AllAmong(s, W) = s BY <1>1, AllAmongAll, Zenon
<1> QED BY <1>2, Zenon DEF Without, W

\* ListHashSet::remove() of the last.
LEMMA WithoutLast ==
    ASSUME NEW s \in Seq(URLs), Distinct(s), NEW k \in 1 .. Len(s)
    PROVE  Without(SubSeq(s, 1, k), s[k]) = SubSeq(s, 1, k - 1)
<1>1. PICK t : t = SubSeq(s, 1, k - 1) BY Zenon
<1>2. /\ t \in Seq(URLs) /\ Len(t) = k - 1 /\ s[k] \in URLs
      /\ \A i \in 1 .. (k - 1) : t[i] = s[i]
  BY <1>1
<1>3. SubSeq(s, 1, k) = Append(t, s[k])
  <2>1. /\ SubSeq(s, 1, k) \in Seq(URLs) /\ Append(t, s[k]) \in Seq(URLs)
        /\ Len(SubSeq(s, 1, k)) = k /\ Len(Append(t, s[k])) = k
    BY <1>2
  <2>2. \A i \in 1 .. k : SubSeq(s, 1, k)[i] = s[i] OBVIOUS
  <2>3. \A i \in 1 .. k : Append(t, s[k])[i] = s[i] BY <1>2
  <2> QED BY <2>1, <2>2, <2>3
<1>4. \A i \in 1 .. Len(t) : t[i] # s[k]
  BY <1>2 DEF Distinct
<1> DEFINE W == URLs \ {s[k]}
<1>5. s[k] \notin W /\ \A i \in 1 .. Len(t) : t[i] \in W BY <1>2, <1>4
<1> HIDE DEF W
<1>6. AllAmong(t, W) = t BY <1>2, <1>5, AllAmongAll, Zenon
<1>7. PICK e : e = s[k] BY Zenon
<1>8. AllAmong(Append(t, e), W) = AllAmong(t, W) BY <1>2, <1>5, <1>7, AllAmongAppend
<1>9. AllAmong(SubSeq(s, 1, k), W) = t BY <1>3, <1>6, <1>7, <1>8, Zenon
<1> QED BY <1>1, <1>9, Zenon DEF Without, W

\* makeRoomForNewEntry() before an entry of size s is added: the last of the
\* list go, until there is room for it.
LEMMA RoomForEntry ==
    ASSUME NEW c \in Cache, Distinct(c.lru), Listing(c), NEW P, Sums(c, P),
           NEW s \in Nat, s <= StorageLimit, c.size <= P[Len(c.lru)] + s,
           NEW x, x = MakeRoomForNewEntry(c)
    PROVE  /\ Shrunk(c, x) /\ x.size <= StorageLimit /\ Listing(x)
           /\ \E k \in 0 .. Len(c.lru) :
                 x.lru = SubSeq(c.lru, 1, k) /\ x.size <= P[k] + s
<1> DEFINE m == Len(c.lru)
           f == Evicting(c)
           At(d, k) == d.lru = SubSeq(c.lru, 1, k) /\ d.size <= P[k] + s
           Round(n) == /\ Shrunk(c, f[n]) /\ Listing(f[n])
                       /\ \/ At(f[n], m - n)
                          \/ (f[n].size <= StorageLimit /\ \E k \in 0 .. m : At(f[n], k))
           T == {n \in Nat : n <= m => Round(n)}
<1>1. /\ m \in Nat
      /\ f[0] = c
      /\ \A n \in 0 .. (m - 1) : /\ m - n \in 1 .. m
                                 /\ c.lru[m - n] \in URLs
                                 /\ f[n + 1] = Evict(f[n], c.lru[m - n])
  BY EvictingRounds, Zenon
<1>2. StorageLimit \in Nat BY CacheAssumption, Zenon
<1>3. c.lru \in Seq(URLs) /\ c.size \in Nat BY Zenon DEF Cache
<1>4. /\ P \in [0 .. m -> Nat] /\ P[0] = 0 /\ c.size <= P[m] + s
      /\ \A k \in 1 .. m : P[k] = P[k - 1] + EntrySize(c, c.lru[k])
  BY Zenon DEF Sums
<1>5. x = f[m] BY Zenon DEF MakeRoomForNewEntry
<1>6. c.lru = SubSeq(c.lru, 1, m) BY <1>3
<1> HIDE DEF m, f
<1>7. 0 \in T
  <2>1. Shrunk(c, c) BY ShrunkNot, Zenon
  <2>2. At(c, m - 0) BY <1>1, <1>4, <1>6
  <2> QED BY <1>1, <2>1, <2>2, Zenon
<1>8. ASSUME NEW n \in Nat, n \in T PROVE n + 1 \in T
  <2> SUFFICES ASSUME n + 1 <= m PROVE Round(n + 1)
    OBVIOUS
  <2>1. n \in 0 .. (m - 1) /\ n <= m BY <1>1
  <2>2. Round(n) BY <1>8, <2>1, Zenon
  <2>3. PICK d, e, k, u : d = f[n] /\ e = f[n + 1] /\ k = m - n /\ u = c.lru[k] BY Zenon
  <2>4. k \in 1 .. m /\ u \in URLs /\ e = Evict(d, u) /\ m - (n + 1) = k - 1
    BY <1>1, <2>1, <2>3
  <2>5. d \in Cache /\ Distinct(d.lru) /\ d.size \in Nat /\ Shrunk(c, d) /\ Listing(d)
    BY <2>2, <2>3, Zenon DEF Shrunk, Cache
  <2>6. CASE d.size <= StorageLimit
    <3>1. e = d BY <1>2, <2>4, <2>5, <2>6 DEF Evict
    <3>2. \E i \in 0 .. m : At(d, i)
      <4>1. m - n \in 0 .. m BY <1>1, <2>1
      <4> QED BY <2>2, <2>3, <4>1, Zenon
    <3> QED BY <2>3, <2>5, <2>6, <3>1, <3>2, Zenon
  <2>7. CASE d.size > StorageLimit
    <3>1. At(d, k) BY <1>2, <2>2, <2>3, <2>5, <2>7
    <3>2. e = InvalidateCacheEntry(d, u) BY <2>4, <2>7, Zenon DEF Evict
    <3>3. /\ Shrunk(d, e) /\ ~Has(e, u)
          /\ Has(d, u) => e.size = 0 \/ e.size = d.size - EntrySize(d, u)
          /\ e.lru = Without(d.lru, u)
          /\ \A v \in URLs \ {u} : e.index[v] = d.index[v]
      BY <2>4, <2>5, <3>2, Invalidated
    <3>4. Shrunk(c, e) BY <2>5, <3>3, ShrunkTwice, Zenon
    <3>5. e.lru = SubSeq(c.lru, 1, k - 1)
      BY <1>3, <2>3, <2>4, <3>1, <3>3, WithoutLast, Zenon DEF m
    <3>6. Listing(e)
      <4>1. d.lru \in Seq(URLs) BY <2>5, Zenon DEF Cache
      <4>2. \A v \in URLs : Contains(e.lru, v) <=> v # u /\ Contains(d.lru, v)
        <5>1. PICK r : r = d.lru BY Zenon
        <5>2. \A v \in URLs : Contains(Without(r, u), v) <=> v # u /\ Contains(r, v)
          BY <2>4, <2>5, <4>1, <5>1, WithoutOne, Zenon
        <5> QED BY <3>3, <5>1, <5>2, Zenon
      <4> QED BY <2>5, <3>3, <4>2, Zenon DEF Listing, Has
    <3>7. Has(d, u)
      <4>1. Len(d.lru) = k /\ d.lru[k] = u
        BY <1>3, <2>3, <2>4, <3>1 DEF m
      <4>2. Contains(d.lru, u) BY <2>4, <4>1 DEF Contains
      <4> QED BY <2>4, <2>5, <4>2, Zenon DEF Listing
    <3>8. EntrySize(d, u) = EntrySize(c, u) /\ EntrySize(c, u) \in Nat
      <4>1. d.index[u] = c.index[u] /\ d.file[u] = c.file[u]
        BY <2>4, <2>5, <3>7, Zenon DEF Shrunk, Has
      <4>2. Has(c, u) BY <3>7, <4>1, Zenon DEF Has
      <4> QED BY <2>4, <4>1, <4>2, EntrySizeType, Zenon DEF EntrySize
    <3>9. e.size <= P[k - 1] + s
      <4>1. P[k - 1] \in Nat /\ P[k] = P[k - 1] + EntrySize(c, u) BY <1>1, <1>4, <2>3, <2>4
      <4>2. d.size <= P[k] + s BY <3>1, Zenon
      <4>3. d.size \in Nat /\ s \in Nat BY <2>5, Zenon DEF Cache
      <4>4. e.size = 0 \/ e.size = d.size - EntrySize(c, u) BY <3>3, <3>7, <3>8, Zenon
      <4> QED BY <3>8, <4>1, <4>2, <4>3, <4>4
    <3> QED BY <2>3, <2>4, <3>4, <3>5, <3>6, <3>9, Zenon
  <2> QED BY <1>2, <2>5, <2>6, <2>7
<1>9. Nat \subseteq T
  <2> HIDE DEF T
  <2> QED BY <1>7, <1>8, SetInduction, Zenon
<1>10. Round(m)
  <2>1. m \in T
    <3> HIDE DEF T
    <3> QED BY <1>1, <1>9, Zenon
  <2>2. m <= m BY <1>1
  <2> HIDE DEF Round
  <2> QED BY <2>1, <2>2, Zenon
<1>11. CASE At(x, 0)
  <2>1. x.size <= StorageLimit
    <3>1. x.size \in Nat /\ x.size <= 0 + s BY <1>4, <1>5, <1>10, <1>11, Zenon DEF Shrunk, Cache
    <3> QED BY <1>2, <3>1
  <2>2. 0 \in 0 .. m BY <1>1
  <2> QED BY <1>5, <1>10, <1>11, <2>1, <2>2, Zenon DEF m
<1>12. m - m = 0 BY <1>1
<1> QED BY <1>5, <1>10, <1>11, <1>12, Zenon DEF m

\* The recursion that defines Loading has a solution.
LEMMA LoadingEquation ==
    ASSUME NEW old, Len(old.saved) \in Nat
    PROVE  Loading(old) = [n \in 0 .. Len(old.saved) |->
               IF n = 0 THEN EmptyIndex(old)
               ELSE LoadEntry(old, Loading(old)[n - 1], old.saved[n])]
<1> DEFINE Step(f, n) == IF n = 0 THEN EmptyIndex(old) ELSE LoadEntry(old, f[n - 1], old.saved[n])
           T == {m \in Nat : \E f : f = [n \in 0 .. m |-> Step(f, n)]}
<1>1. 0 \in T
  <2> DEFINE f == [n \in 0 .. 0 |-> EmptyIndex(old)]
  <2>1. f = [n \in 0 .. 0 |-> Step(f, n)] OBVIOUS
  <2> QED BY <2>1, Zenon
<1>2. ASSUME NEW m \in Nat, m \in T PROVE m + 1 \in T
  <2>1. PICK f : f = [n \in 0 .. m |-> Step(f, n)] BY <1>2, Zenon
  <2> DEFINE g == [n \in 0 .. (m + 1) |-> IF n = m + 1 THEN Step(f, n) ELSE f[n]]
  <2>2. \A n \in 0 .. (m + 1) : n # 0 => g[n - 1] = f[n - 1]
    OBVIOUS
  <2>3. \A n \in 0 .. (m + 1) : g[n] = Step(f, n)
    <3> HIDE DEF Step
    <3>1. \A n \in 0 .. m : f[n] = Step(f, n) BY <2>1, Zenon
    <3>2. \A n \in 0 .. (m + 1) : n # m + 1 => n \in 0 .. m OBVIOUS
    <3> QED BY <3>1, <3>2, Zenon
  <2>4. \A n \in 0 .. (m + 1) : g[n] = Step(g, n)
    BY <2>2, <2>3, Zenon
  <2>5. g = [n \in 0 .. (m + 1) |-> Step(g, n)]
    BY <2>4, Zenon
  <2>6. m + 1 \in Nat OBVIOUS
  <2> HIDE DEF g, Step
  <2> QED BY <2>5, <2>6, Zenon
<1>3. Len(old.saved) \in T
  <2>1. Nat \subseteq T
    <3> HIDE DEF T
    <3> QED BY <1>1, <1>2, SetInduction, Zenon
  <2> HIDE DEF T
  <2> QED BY <2>1, Zenon
<1>4. \E f : f = [n \in 0 .. Len(old.saved) |-> Step(f, n)]
  BY <1>3, Zenon
<1>5. Loading(old) = [n \in 0 .. Len(old.saved) |-> Step(Loading(old), n)]
  BY <1>4, Zenon DEF Loading
<1> QED BY <1>5, Zenon

\* The cache that loadIndex() has when it has read n lines of the index.
LoadInv(old, d, n) ==
    /\ d \in Cache /\ d.saved = old.saved /\ Distinct(d.lru) /\ Listing(d)
    /\ d.size <= StorageLimit
    /\ \E P : Sums(d, P) /\ d.size <= P[Len(d.lru)]
    /\ \A u \in URLs : Has(d, u) => /\ d.index[u].loading = FALSE /\ d.index[u].open = FALSE
                                    /\ d.file[u] = Whole \/ d.index[u].spoiled
    /\ \A i \in 1 .. Len(old.saved) :
          IF i <= n THEN Has(d, old.saved[i]) \/ d.file[old.saved[i]] = None
                    ELSE ~Has(d, old.saved[i]) /\ d.file[old.saved[i]] = old.file[old.saved[i]]

\* Before the first line.
LEMMA LoadStarts ==
    ASSUME NEW old, CacheSound(old)
    PROVE  LoadInv(old, EmptyIndex(old), 0)
<1>1. old \in Cache /\ old.saved \in Seq(URLs) BY Zenon DEF CacheSound, Cache
<1>2. PICK d : d = EmptyIndex(old) BY Zenon
<1>3. /\ d.index = [u \in URLs |-> None] /\ d.lru = <<>> /\ d.size = 0
      /\ d.saved = old.saved /\ d.file = old.file
      /\ d = [index |-> d.index, lru |-> d.lru, size |-> d.size, saved |-> d.saved,
              file |-> d.file]
  BY <1>1, <1>2, Zenon DEF EmptyIndex, Cache
<1>4. d \in Cache
  <2>1. d.index \in [URLs -> Entry \cup {None}] /\ d.file \in [URLs -> Content \cup {None}]
    BY <1>1, <1>3, Zenon DEF Cache
  <2>2. d.lru \in Seq(URLs) /\ d.size \in Nat /\ d.saved \in Seq(URLs) BY <1>1, <1>3
  <2> QED BY <1>3, <2>1, <2>2, Zenon DEF Cache
<1>5. \A u \in URLs : ~Has(d, u) BY <1>3, Zenon DEF Has
<1>6. Len(d.lru) = 0 BY <1>3, Zenon
<1>7. Distinct(d.lru) /\ Listing(d)
  BY <1>5, <1>6 DEF Distinct, Listing, Contains
<1>8. \E P : Sums(d, P) /\ d.size <= P[Len(d.lru)]
  <2> DEFINE P == [k \in 0 .. 0 |-> 0]
  <2>1. P \in [0 .. 0 -> Nat] /\ P[0] = 0 OBVIOUS
  <2>2. Sums(d, P) BY <1>6, <2>1 DEF Sums
  <2>3. d.size <= P[Len(d.lru)] BY <1>3, <1>6, <2>1
  <2> QED BY <2>2, <2>3, Zenon
<1>9. d.size <= StorageLimit BY <1>3, CacheAssumption
<1>10. \A i \in 1 .. Len(old.saved) : old.saved[i] \in URLs /\ ~(i <= 0) BY <1>1
<1> QED BY <1>2, <1>3, <1>4, <1>5, <1>7, <1>8, <1>9, <1>10, Zenon DEF LoadInv

\* One more line: its entry goes to the first place, and some of the last go.
LEMMA LoadGoesOn ==
    ASSUME NEW old, CacheSound(old), NEW n \in 0 .. (Len(old.saved) - 1),
           NEW d, LoadInv(old, d, n)
    PROVE  LoadInv(old, LoadEntry(old, d, old.saved[n + 1]), n + 1)
<1>1. PICK q, u : q = old.saved /\ u = old.saved[n + 1] BY Zenon
<1>2. /\ old \in Cache /\ q \in Seq(URLs) /\ Len(q) \in Nat /\ n + 1 \in 1 .. Len(q)
      /\ u = q[n + 1] /\ Distinct(q)
  <2>1. old \in Cache /\ Distinct(q) BY <1>1, Zenon DEF CacheSound
  <2>2. q \in Seq(URLs) BY <1>1, <2>1, Zenon DEF Cache
  <2> QED BY <1>1, <2>1, <2>2
<1>3. u \in URLs BY <1>2
<1>4. /\ d \in Cache /\ d.saved = q /\ Distinct(d.lru) /\ Listing(d)
      /\ d.size <= StorageLimit /\ d.size \in Nat /\ d.lru \in Seq(URLs)
  BY <1>1, Zenon DEF LoadInv, Cache
<1>5. PICK P : Sums(d, P) /\ d.size <= P[Len(d.lru)] BY Zenon DEF LoadInv
<1>6. \A v \in URLs : Has(d, v) => /\ d.index[v].loading = FALSE /\ d.index[v].open = FALSE
                                   /\ d.file[v] = Whole \/ d.index[v].spoiled
  BY Zenon DEF LoadInv
<1>7. \A i \in 1 .. Len(q) :
          IF i <= n THEN Has(d, q[i]) \/ d.file[q[i]] = None
                    ELSE ~Has(d, q[i]) /\ d.file[q[i]] = old.file[q[i]]
  BY <1>1, Zenon DEF LoadInv
<1>8. ~Has(d, u) /\ d.file[u] = old.file[u]
  <2>1. ~(n + 1 <= n) BY <1>2
  <2> QED BY <1>2, <1>7, <2>1, Zenon
<1>9. \A i \in 1 .. Len(q) : q[i] \in URLs /\ (q[i] = u => i = n + 1)
  BY <1>2 DEF Distinct
<1>10. StorageLimit \in Nat BY CacheAssumption, Zenon
<1>11. PICK size : size = IF d.file[u] = None THEN 0 ELSE 1 + Len(d.file[u]) BY Zenon
<1>12. size \in Nat
  <2>1. d.file[u] # None => Len(d.file[u]) \in Nat BY <1>3, <1>4 DEF Cache, Content
  <2> QED BY <1>11, <2>1
<1>13. PICK x : x = LoadEntry(old, d, u) BY Zenon
<1>14. CASE ~(size # 0 /\ size < StorageLimit)
  <2>1. x = [d EXCEPT !.file[u] = None] BY <1>11, <1>13, <1>14, Zenon DEF LoadEntry
  <2>2. /\ x \in Cache /\ x.index = d.index /\ x.lru = d.lru /\ x.size = d.size
        /\ x.saved = d.saved /\ x.file = [d.file EXCEPT ![u] = None]
    BY <1>4, <2>1, Zenon DEF Cache
  <2>3. x.file[u] = None /\ \A v \in URLs \ {u} : x.file[v] = d.file[v]
    BY <1>3, <1>4, <2>2, Zenon DEF Cache
  <2>4. \A v \in URLs : Has(x, v) <=> Has(d, v) BY <2>2, Zenon DEF Has
  <2>5. Listing(x) BY <1>4, <2>2, <2>4, Zenon DEF Listing
  <2>6. Sums(x, P)
    <3>1. ASSUME NEW k \in 1 .. Len(d.lru)
          PROVE  EntrySize(x, d.lru[k]) = EntrySize(d, d.lru[k])
      <4>1. PICK v : v = d.lru[k] BY Zenon
      <4>2. v \in URLs /\ Contains(d.lru, v) BY <1>4, <4>1 DEF Contains
      <4>3. v # u BY <1>4, <1>8, <4>2, Zenon DEF Listing
      <4> QED BY <2>2, <2>3, <4>1, <4>2, <4>3, Zenon DEF EntrySize
    <3> QED BY <1>5, <2>2, <3>1, Zenon DEF Sums
  <2>7. \A v \in URLs : Has(x, v) => /\ x.index[v].loading = FALSE /\ x.index[v].open = FALSE
                                     /\ x.file[v] = Whole \/ x.index[v].spoiled
    BY <1>6, <1>8, <2>2, <2>3, <2>4, Zenon
  <2>8. ASSUME NEW i \in 1 .. Len(q)
        PROVE  IF i <= n + 1 THEN Has(x, q[i]) \/ x.file[q[i]] = None
                             ELSE ~Has(x, q[i]) /\ x.file[q[i]] = old.file[q[i]]
    <3>1. CASE i = n + 1 BY <1>2, <2>3, <3>1
    <3>2. CASE i # n + 1
      <4>1. q[i] \in URLs \ {u} /\ (i <= n + 1 <=> i <= n) BY <1>2, <1>9, <3>2
      <4> QED BY <1>7, <2>3, <2>4, <4>1
    <3> QED BY <3>1, <3>2, Zenon
  <2>9. /\ x.saved = old.saved /\ Distinct(x.lru) /\ x.size <= StorageLimit
        /\ x.size <= P[Len(x.lru)]
    BY <1>1, <1>4, <1>5, <2>2, Zenon
  <2>10. \A i \in 1 .. Len(old.saved) :
            IF i <= n + 1 THEN Has(x, old.saved[i]) \/ x.file[old.saved[i]] = None
                          ELSE ~Has(x, old.saved[i]) /\ x.file[old.saved[i]] = old.file[old.saved[i]]
    BY <1>1, <2>8, Zenon
  <2>11. LoadInv(old, x, n + 1)
    BY <2>2, <2>5, <2>6, <2>7, <2>9, <2>10, Zenon DEF LoadInv
  <2> QED BY <1>1, <1>13, <2>11, Zenon
<1>15. CASE size # 0 /\ size < StorageLimit
  <2>1. PICK c : c = [d EXCEPT !.size = @ + size] BY Zenon
  <2>2. /\ c \in Cache /\ c.index = d.index /\ c.lru = d.lru /\ c.size = d.size + size
        /\ c.saved = d.saved /\ c.file = d.file
    <3>1. d \in Cache /\ d.size \in Nat BY <1>4, Zenon DEF Cache
    <3>2. PICK sum \in Nat : sum = d.size + size BY <1>12, <3>1
    <3>3. c = [d EXCEPT !.size = sum] BY <2>1, <3>2, Zenon
    <3> QED BY <3>1, <3>2, <3>3, Zenon DEF Cache
  <2>3. Listing(c) /\ Distinct(c.lru) BY <1>4, <2>2, Zenon DEF Listing, Has
  <2>4. Sums(c, P) BY <1>5, <2>2, Zenon DEF Sums, EntrySize
  <2>5. PICK m : m = Len(d.lru) BY Zenon
  <2>6. m \in Nat /\ P \in [0 .. m -> Nat] /\ P[m] \in Nat /\ P[0] = 0
    <3>1. m \in Nat /\ P \in [0 .. m -> Nat] /\ P[0] = 0 BY <1>4, <1>5, <2>5 DEF Sums
    <3> QED BY <3>1
  <2>7. c.size <= P[Len(c.lru)] + size BY <1>4, <1>5, <1>12, <2>2, <2>5, <2>6
  <2>8. PICK room : room = MakeRoomForNewEntry(c) BY Zenon
  <2>9. size <= StorageLimit BY <1>10, <1>12, <1>15
  <2>10. /\ Shrunk(c, room) /\ room.size <= StorageLimit /\ Listing(room)
         /\ \E k \in 0 .. Len(c.lru) :
               room.lru = SubSeq(c.lru, 1, k) /\ room.size <= P[k] + size
    BY <1>12, <2>2, <2>3, <2>4, <2>7, <2>8, <2>9, RoomForEntry, Zenon
  <2>11. PICK k \in 0 .. m : room.lru = SubSeq(d.lru, 1, k) /\ room.size <= P[k] + size
    BY <2>2, <2>5, <2>10, Zenon
  <2>12. /\ Len(room.lru) = k /\ k \in Nat
         /\ \A i \in 1 .. k : room.lru[i] = d.lru[i] /\ room.lru[i] \in URLs
    BY <1>4, <2>5, <2>11
  <2>13. room \in Cache /\ Distinct(room.lru) /\ room.size \in Nat /\ room.lru \in Seq(URLs)
         /\ room.saved = q
    BY <1>4, <2>2, <2>10, Zenon DEF Shrunk, Cache
  <2>14. \A v \in URLs : \/ Has(d, v) /\ room.index[v] = None /\ room.file[v] = None
                         \/ room.index[v] = d.index[v] /\ room.file[v] = d.file[v]
    BY <2>2, <2>10, Zenon DEF Shrunk, Has
  <2>15. ~Has(room, u) /\ room.file[u] = d.file[u] BY <1>3, <1>8, <2>14, Zenon DEF Has
  <2>16. ~Contains(room.lru, u) BY <1>3, <2>10, <2>15, Zenon DEF Listing
  <2>17. PICK l : l = MoveToFirst(room.lru, u) BY Zenon
  <2>18. /\ l \in Seq(URLs) /\ Distinct(l)
         /\ \A v \in URLs : Contains(l, v) <=> v = u \/ Contains(room.lru, v)
    <3>1. PICK r : r = room.lru BY Zenon
    <3> QED BY <1>3, <2>13, <2>17, <3>1, MovedToFirst, Zenon
  <2>19. Without(room.lru, u) = room.lru
    <3>1. PICK r : r = room.lru OBVIOUS
    <3>2. Without(r, u) = r BY <1>3, <2>13, <2>16, <3>1, WithoutNothing, Zenon
    <3> QED BY <3>1, <3>2, Zenon
  <2>20. /\ Len(l) = k + 1 /\ l[1] = u /\ \A i \in 1 .. k : l[i + 1] = room.lru[i]
    <3>1. l = <<u>> \o room.lru BY <2>17, <2>19, Zenon DEF MoveToFirst
    <3> QED BY <1>3, <2>12, <2>13, <3>1
  <2>21. PICK e : e = [[NewEntry(None) EXCEPT !.spoiled =
                           Has(old, u) /\ (old.index[u].loading \/ old.index[u].spoiled)]
                       EXCEPT !.entrySize = size]
    BY Zenon
  <2>22. /\ e \in Entry /\ e.loading = FALSE /\ e.open = FALSE /\ e.entrySize = size
         /\ e.spoiled = (Has(old, u) /\ (old.index[u].loading \/ old.index[u].spoiled))
    <3>1. PICK b \in BOOLEAN : b = (Has(old, u) /\ (old.index[u].loading \/ old.index[u].spoiled))
      BY Zenon
    <3>2. PICK z : z = NewEntry(None) BY Zenon
    <3>3. z \in Entry /\ z.loading = FALSE /\ z.open = FALSE BY <3>2, Zenon DEF NewEntry, Entry
    <3>4. e = [[z EXCEPT !.spoiled = b] EXCEPT !.entrySize = size] BY <2>21, <3>1, <3>2, Zenon
    <3>5. e \in Entry /\ e.loading = FALSE /\ e.open = FALSE /\ e.entrySize = size /\ e.spoiled = b
      BY <1>12, <3>3, <3>4, Zenon DEF Entry
    <3> QED BY <3>1, <3>5, Zenon
  <2>23. x = [room EXCEPT !.lru = l, !.index[u] = e]
    BY <1>11, <1>13, <1>15, <2>1, <2>8, <2>17, <2>21, Zenon DEF LoadEntry
  <2>24. /\ x \in Cache /\ x.index = [room.index EXCEPT ![u] = e] /\ x.lru = l
         /\ x.size = room.size /\ x.saved = q /\ x.file = room.file
    BY <2>13, <2>18, <2>22, <2>23, Zenon DEF Cache
  <2>25. x.index[u] = e /\ \A v \in URLs \ {u} : x.index[v] = room.index[v]
    BY <1>3, <2>13, <2>24, Zenon DEF Cache
  <2>26. Has(x, u) BY <2>22, <2>25, CacheAssumption, Zenon DEF Has
  <2>27. \A v \in URLs : Has(x, v) <=> v = u \/ Has(room, v) BY <2>25, <2>26, Zenon DEF Has
  <2>28. Listing(x) BY <2>10, <2>18, <2>24, <2>27, Zenon DEF Listing
  <2>29. \E S : Sums(x, S) /\ x.size <= S[Len(x.lru)]
    <3> DEFINE S == [i \in 0 .. (k + 1) |-> IF i = 0 THEN 0 ELSE size + P[i - 1]]
    <3>1. \A i \in 0 .. k : P[i] \in Nat /\ i \in 0 .. m BY <2>6, <2>12
    <3>2. \A i \in 1 .. (k + 1) : i - 1 \in 0 .. k BY <2>12
    <3>3. S \in [0 .. (k + 1) -> Nat] /\ S[0] = 0 BY <1>12, <2>12, <3>1, <3>2
    <3>4. \A i \in 1 .. (k + 1) : S[i] = size + P[i - 1] BY <2>12
    <3> HIDE DEF S
    <3>5. ASSUME NEW i \in 1 .. (k + 1)
          PROVE  S[i] = S[i - 1] + EntrySize(x, l[i])
      <4>1. CASE i = 1
        <5>1. EntrySize(x, u) = size BY <1>15, <2>22, <2>25, Zenon DEF EntrySize
        <5>2. S[1] = size + 0 /\ S[1 - 1] = 0 BY <2>6, <3>3, <3>4, <4>1
        <5> QED BY <1>12, <2>20, <4>1, <5>1, <5>2
      <4>2. CASE i # 1
        <5>1. PICK h, v : h = i - 1 /\ v = d.lru[h] BY Zenon
        <5>2. h \in 1 .. k /\ h \in 1 .. m /\ h \in 1 .. (k + 1) /\ i = h + 1
              /\ h - 1 \in 0 .. k
          BY <2>6, <2>12, <4>2, <5>1
        <5>3. l[i] = v /\ v \in URLs /\ room.lru[h] = v BY <2>12, <2>20, <5>1, <5>2, Zenon
        <5>4. Contains(room.lru, v) BY <2>12, <5>2, <5>3, Zenon DEF Contains
        <5>5. v # u /\ Has(room, v) BY <2>10, <2>16, <5>3, <5>4, Zenon DEF Listing
        <5>6. x.index[v] = d.index[v] /\ x.file[v] = d.file[v]
          BY <2>14, <2>24, <2>25, <5>3, <5>5, Zenon DEF Has
        <5>7. EntrySize(x, v) = EntrySize(d, v) BY <5>6, Zenon DEF EntrySize
        <5>8. P[h] = P[h - 1] + EntrySize(d, v) BY <1>5, <2>5, <5>1, <5>2, Zenon DEF Sums
        <5>9. EntrySize(d, v) \in Nat
          <6>1. Has(d, v) BY <2>14, <5>3, <5>5, Zenon DEF Has
          <6> QED BY <1>4, <5>3, <6>1, EntrySizeType, Zenon
        <5>10. S[i] = size + P[h] /\ S[i - 1] = size + P[h - 1] /\ P[h - 1] \in Nat
          BY <3>1, <3>4, <5>1, <5>2, Zenon
        <5> QED BY <1>12, <5>3, <5>7, <5>8, <5>9, <5>10
      <4> QED BY <4>1, <4>2, Zenon
    <3>6. Sums(x, S) BY <2>20, <2>24, <3>3, <3>5, Zenon DEF Sums
    <3>7. x.size <= S[Len(x.lru)]
      <4>1. k + 1 \in 1 .. (k + 1) /\ (k + 1) - 1 = k /\ k \in 0 .. k BY <2>12
      <4>2. S[k + 1] = size + P[k] /\ P[k] \in Nat BY <3>1, <3>4, <4>1, Zenon
      <4>3. /\ x.size = room.size /\ Len(x.lru) = k + 1
            /\ room.size \in Nat /\ room.size <= P[k] + size
        BY <2>11, <2>13, <2>20, <2>24, Zenon
      <4> QED BY <1>12, <4>2, <4>3
    <3> QED BY <3>6, <3>7, Zenon
  <2>30. \A v \in URLs : Has(x, v) => /\ x.index[v].loading = FALSE /\ x.index[v].open = FALSE
                                      /\ x.file[v] = Whole \/ x.index[v].spoiled
    <3>1. ASSUME NEW v \in URLs, v # u, Has(x, v)
          PROVE  /\ x.index[v].loading = FALSE /\ x.index[v].open = FALSE
                 /\ x.file[v] = Whole \/ x.index[v].spoiled
      <4>1. x.index[v] = d.index[v] /\ x.file[v] = d.file[v] /\ Has(d, v)
        BY <2>14, <2>24, <2>25, <3>1, Zenon DEF Has
      <4> QED BY <1>6, <4>1, Zenon
    <3>2. x.file[u] = old.file[u] /\ old.file[u] # None
      BY <1>8, <1>11, <1>15, <2>15, <2>24, Zenon
    <3>3. old.file[u] = Whole \/ e.spoiled
      <4>1. CASE Has(old, u) BY <1>3, <2>22, <4>1, Zenon DEF CacheSound
      <4>2. CASE ~Has(old, u)
        <5>1. Contains(old.saved, u) BY <1>1, <1>2, Zenon DEF Contains
        <5> QED BY <1>3, <3>2, <4>2, <5>1, Zenon DEF CacheSound
      <4> QED BY <4>1, <4>2, Zenon
    <3> QED BY <2>22, <2>25, <3>1, <3>2, <3>3, Zenon
  <2>31. ASSUME NEW i \in 1 .. Len(q)
         PROVE  IF i <= n + 1 THEN Has(x, q[i]) \/ x.file[q[i]] = None
                              ELSE ~Has(x, q[i]) /\ x.file[q[i]] = old.file[q[i]]
    <3>1. CASE i = n + 1 BY <1>2, <2>26, <3>1
    <3>2. CASE i # n + 1
      <4>1. q[i] \in URLs \ {u} /\ (i <= n + 1 <=> i <= n) BY <1>2, <1>9, <3>2
      <4>2. x.index[q[i]] = room.index[q[i]] /\ x.file[q[i]] = room.file[q[i]]
        BY <2>24, <2>25, <4>1, Zenon
      <4> QED BY <1>7, <2>14, <4>1, <4>2, Zenon DEF Has
    <3> QED BY <3>1, <3>2, Zenon
  <2>32. LoadInv(old, x, n + 1)
    BY <1>1, <2>10, <2>18, <2>24, <2>28, <2>29, <2>30, <2>31, Zenon DEF LoadInv
  <2> QED BY <1>1, <1>13, <2>32, Zenon
<1> QED BY <1>14, <1>15, Zenon

\* What a process loads from a sound cache is sound, and nothing loads.
LEMMA LoadedSound ==
    ASSUME NEW old, CacheSound(old)
    PROVE  /\ Good(LoadIndex(old))
           /\ \A u \in URLs : Has(LoadIndex(old), u) => ~LoadIndex(old).index[u].loading
<1> DEFINE m == Len(old.saved)
           f == Loading(old)
           T == {n \in Nat : n <= m => LoadInv(old, f[n], n)}
<1>1. m \in Nat /\ old.saved \in Seq(URLs) /\ Distinct(old.saved)
  BY DEF CacheSound, Cache
<1>2. f = [n \in 0 .. m |-> IF n = 0 THEN EmptyIndex(old)
                            ELSE LoadEntry(old, f[n - 1], old.saved[n])]
  BY <1>1, LoadingEquation, Zenon
<1> HIDE DEF m, f
<1>3. 0 \in T
  <2>1. f[0] = EmptyIndex(old) BY <1>1, <1>2
  <2> QED BY <2>1, LoadStarts, Zenon
<1>4. ASSUME NEW n \in Nat, n \in T PROVE n + 1 \in T
  <2> SUFFICES ASSUME n + 1 <= m PROVE LoadInv(old, f[n + 1], n + 1)
    OBVIOUS
  <2>1. n \in 0 .. (m - 1) /\ n + 1 \in 0 .. m /\ n + 1 # 0 /\ (n + 1) - 1 = n BY <1>1
  <2>2. LoadInv(old, f[n], n) BY <1>1, <1>4, <2>1
  <2>3. f[n + 1] = LoadEntry(old, f[n], old.saved[n + 1])
    <3>1. f[n + 1] = LoadEntry(old, f[(n + 1) - 1], old.saved[n + 1]) BY <1>2, <2>1, Zenon
    <3> QED BY <2>1, <3>1, Zenon
  <2>4. PICK d : d = f[n] BY Zenon
  <2>5. LoadInv(old, LoadEntry(old, d, old.saved[n + 1]), n + 1)
    BY <2>1, <2>2, <2>4, LoadGoesOn, Zenon DEF m
  <2> QED BY <2>3, <2>4, <2>5, Zenon
<1>5. Nat \subseteq T
  <2> HIDE DEF T
  <2> QED BY <1>3, <1>4, SetInduction, Zenon
<1>6. PICK d : d = LoadIndex(old) OBVIOUS
<1>7. LoadInv(old, d, m)
  <2>1. d = f[m] BY <1>6, Zenon DEF LoadIndex, f, m
  <2> QED BY <1>1, <1>5, <2>1
<1>8. \A u \in URLs : Contains(d.saved, u) /\ ~Has(d, u) => d.file[u] \in {None, Whole}
  <2> SUFFICES ASSUME NEW u \in URLs, Contains(d.saved, u), ~Has(d, u)
               PROVE  d.file[u] = None
    BY Zenon
  <2>1. d.saved = old.saved BY <1>7, Zenon DEF LoadInv
  <2>2. PICK i \in 1 .. m : old.saved[i] = u BY <2>1, Zenon DEF Contains, m
  <2>3. i <= m BY <1>1
  <2> QED BY <1>7, <2>2, <2>3, Zenon DEF LoadInv, m
<1>9. CacheSound(d)
  <2>1. /\ d \in Cache /\ d.saved = old.saved /\ Distinct(d.lru)
        /\ \A u \in URLs : Has(d, u) => Contains(d.lru, u)
    BY <1>7, Zenon DEF LoadInv, Listing
  <2>2. \A u \in URLs : Has(d, u) => /\ d.index[u].loading = FALSE /\ d.index[u].open = FALSE
                                     /\ d.file[u] = Whole \/ d.index[u].spoiled
    BY <1>7, Zenon DEF LoadInv
  <2> QED BY <1>1, <1>8, <2>1, <2>2, Zenon DEF CacheSound
<1> QED BY <1>6, <1>7, <1>9, Zenon DEF Good, LoadInv

-----------------------------------------------------------------------------
(* The jobs that load entries.                                             *)

First(n) == [i \in 1 .. n |-> i]

\* r, a job that is in the manager's list or not, loads the entry of u in c: it
\* will end in curl, its end will be told to the cache, and the content file
\* has what it has received.
Loads(c, u, r, listed) ==
    /\ r.multi /\ r.url = u /\ r.phase \in {"body", "ok", "failed"}
    /\ r.client \/ r.cancelled
    /\ ~listed
    /\ r.phase = "ok" => r.sent = Chunks
    /\ IF c.index[u].open THEN c.file[u] = First(r.sent) ELSE r.sent = 0

IsLoading(c, u) == Has(c, u) /\ c.index[u].loading

Owners == \A u \in URLs : IsLoading(cache, u) =>
    /\ cache.index[u].job \in Jobs
    /\ Loads(cache, u, job[cache.index[u].job], Listed(cache.index[u].job))

\* A job that exists has a URL, and before its body nothing was sent.
Fits(r) == (r.refs > 0 => r.url \in URLs) /\ (r.phase = "headers" => r.sent = 0)

CInv == Good(cache) /\ Owners /\ \A j \in Jobs : Fits(job[j])

\* An entry that j still loads in d, j has loaded in the cache.
LEMMA LoadedBefore ==
    ASSUME CInv, NEW j \in Jobs, NEW d, NEW u \in URLs, SameLoad(cache, d, u),
           IsLoading(d, u), d.index[u].job = j
    PROVE  Loads(d, u, job[j], Listed(j)) /\ IsLoading(cache, u) /\ cache.index[u].job = j
<1>1. /\ IsLoading(cache, u) /\ cache.index[u].job = j
      /\ d.index[u].open = cache.index[u].open /\ d.file[u] = cache.file[u]
  BY Zenon DEF SameLoad, IsLoading
<1>2. Loads(cache, u, job[j], Listed(j)) BY <1>1, Zenon DEF CInv, Owners
<1> QED BY <1>1, <1>2, Zenon DEF Loads

\* A step that changes one job, and the cache only where that job loads.
LEMMA OwnersStep ==
    ASSUME CInv, job \in [Jobs -> HandleOf], NEW j \in Jobs, NEW q, Fits(q),
           job' = [job EXCEPT ![j] = q],
           NEW d, cache' = d, Good(d),
           \A k \in Jobs \ {j} : Listed(k)' <=> Listed(k),
           \A u \in URLs : SameLoad(cache, d, u) \/ (IsLoading(d, u) => d.index[u].job = j),
           \A u \in URLs : IsLoading(d, u) /\ d.index[u].job = j => Loads(d, u, q, Listed(j)')
    PROVE  CInv'
<1>1. job'[j] = q /\ \A k \in Jobs \ {j} : job'[k] = job[k] BY Zenon
<1>2. \A k \in Jobs : Fits(job'[k]) BY <1>1, Zenon DEF CInv
<1>3. ASSUME NEW u \in URLs, IsLoading(d, u)
      PROVE  /\ d.index[u].job \in Jobs
             /\ Loads(d, u, job'[d.index[u].job], Listed(d.index[u].job)')
  <2>1. PICK k : k = d.index[u].job BY Zenon
  <2>2. CASE k = j BY <1>1, <1>3, <2>1, <2>2, Zenon
  <2>3. CASE k # j
    <3>1. SameLoad(cache, d, u) BY <1>3, <2>1, <2>3, Zenon
    <3>2. k \in Jobs BY <1>3, <2>1, <3>1, Zenon DEF SameLoad, IsLoading, CInv, Owners
    <3>3. Loads(d, u, job[k], Listed(k)) BY <1>3, <2>1, <3>1, <3>2, LoadedBefore, Zenon
    <3>4. job'[k] = job[k] /\ (Listed(k)' <=> Listed(k)) BY <1>1, <2>3, <3>2, Zenon
    <3>5. Loads(d, u, job'[k], Listed(k)') BY <3>3, <3>4, Zenon DEF Loads
    <3> QED BY <2>1, <3>2, <3>5, Zenon
  <2> QED BY <2>2, <2>3, Zenon
<1>4. Owners' BY <1>3, Zenon DEF Owners, IsLoading, Has
<1> QED BY <1>2, <1>4, Zenon DEF CInv, Good, CacheSound, Has

\* The same, of a job that loads nothing before the step and nothing after it.
LEMMA IdleStep ==
    ASSUME CInv, job \in [Jobs -> HandleOf], NEW j \in Jobs, NEW q, Fits(q),
           job' = [job EXCEPT ![j] = q],
           NEW d, cache' = d, Kept(cache, d),
           \A k \in Jobs \ {j} : Listed(k)' <=> Listed(k),
           \A c, u : ~Loads(c, u, job[j], Listed(j))
    PROVE  CInv'
<1>1. Good(d) /\ \A u \in URLs : SameLoad(cache, d, u) BY Zenon DEF Kept
<1>2. \A u \in URLs : ~(IsLoading(d, u) /\ d.index[u].job = j) BY <1>1, LoadedBefore, Zenon
<1> QED BY <1>1, <1>2, OwnersStep, Zenon

\* A step that leaves the jobs, the list and the cache.
LEMMA SameCache ==
    ASSUME CInv, UNCHANGED <<list, job, cache>>
    PROVE  CInv'
<1>1. \A k : Listed(k)' <=> Listed(k) BY Zenon DEF Listed
<1>2. \A c, u, k : Loads(c, u, job'[k], Listed(k)') <=> Loads(c, u, job[k], Listed(k))
  BY <1>1 DEF Loads
<1>3. Owners' BY <1>1, <1>2, Zenon DEF CInv, Owners, IsLoading, Has, Loads
<1> QED BY <1>3, Zenon DEF CInv, Good, CacheSound, Has

\* The typed jobs and what is true of each.
LEMMA JobFacts ==
    ASSUME IInv, NEW j \in Jobs
    PROVE  /\ job \in [Jobs -> HandleOf] /\ job[j] \in HandleOf
           /\ Sound(job[j], Listed(j)) /\ list \in Seq(Jobs) /\ Distinct(list)
  BY Zenon DEF IInv, Base, TypeOK, HandlesSound

\* A job that does not exist fits.
LEMMA NoJobFits == Fits(Unused) /\ Fits(Gone)
<1>1. Unused.sent = 0 BY Zenon DEF Unused
<1> QED BY <1>1, NoJob DEF Fits

\* A new job is not known to curl, so it loads nothing.
LEMMA StartOwns ==
    ASSUME IInv, CInv, NEW j \in Jobs, NEW u \in URLs, NEW own \in BOOLEAN, Start(j, u, own)
    PROVE  CInv'
<1> DEFINE r == [Unused EXCEPT !.refs = 1, !.held = TRUE, !.client = TRUE,
                               !.url = u, !.own = own]
<1>1. /\ job[j] = Unused /\ job' = [job EXCEPT ![j] = r]
      /\ list' = Append(list, j) /\ cache' = cache
  BY Zenon DEF Start
<1>2. Fits(r)
  <2>1. r.url = u /\ r.phase = "none" BY NoJob, Zenon DEF HandleOf
  <2> QED BY <2>1, Zenon DEF Fits
<1> HIDE DEF r
<1>3. ~Listed(j) BY <1>1, JobFacts, NoJob DEF Sound
<1>4. \A k \in Jobs \ {j} : Listed(k)' <=> Listed(k)
  BY <1>1, <1>3, JobFacts, Appended, Zenon DEF Listed
<1>5. \A c, v : ~Loads(c, v, job[j], Listed(j)) BY <1>1, NoJob, Zenon DEF Loads
<1>6. Kept(cache, cache) BY NothingKept, Zenon DEF CInv
<1> QED BY <1>1, <1>2, <1>4, <1>5, <1>6, JobFacts, IdleStep, Zenon

\* cancel() of a job that loads an entry leaves the end of it to curl.
LEMMA CancelOwns ==
    ASSUME IInv, CInv, NEW j \in Jobs, Cancel(j)
    PROVE  CInv'
<1>1. PICK r0 : r0 = [job[j] EXCEPT !.client = FALSE, !.held = FALSE] BY Zenon
<1>2. PICK r : r = IF Listed(j) THEN [r0 EXCEPT !.refs = @ - 1] ELSE [r0 EXCEPT !.cancelled = TRUE]
  BY Zenon
<1>3. PICK q : q = IF Freed(r) THEN Gone ELSE r BY Zenon
<1>4. /\ job' = [job EXCEPT ![j] = q] /\ cache' = cache
      /\ \/ Listed(j) /\ \E i \in DOMAIN list : list[i] = j /\ list' = Removed(list, i)
         \/ ~Listed(j) /\ list' = list
  BY <1>1, <1>2, <1>3, Zenon DEF Cancel, Settle
<1>5. job[j] \in HandleOf /\ Sound(job[j], Listed(j)) BY JobFacts, Zenon
<1>6. \A k \in Jobs \ {j} : Listed(k)' <=> Listed(k)
  BY <1>4, JobFacts, OneRemoved DEF Listed
<1>7. /\ r.url = job[j].url /\ r.phase = job[j].phase /\ r.sent = job[j].sent
      /\ r.multi = job[j].multi
      /\ r.refs = IF Listed(j) THEN job[j].refs - 1 ELSE job[j].refs
      /\ ~Listed(j) => r.cancelled
  BY <1>1, <1>2, <1>5, Zenon DEF HandleOf
<1>8. Fits(r)
  <2>1. job[j].refs \in Nat BY <1>5, Zenon DEF HandleOf
  <2>2. r.refs > 0 => job[j].refs > 0 BY <1>7, <2>1
  <2> QED BY <1>7, <2>2, Zenon DEF CInv, Fits
<1>9. Fits(q) BY <1>3, <1>8, NoJobFits, Zenon
<1>10. Kept(cache, cache) BY NothingKept, Zenon DEF CInv
<1>11. ASSUME NEW u \in URLs, IsLoading(cache, u), cache.index[u].job = j
       PROVE  Loads(cache, u, q, Listed(j)')
  <2>1. Loads(cache, u, job[j], Listed(j))
    BY <1>10, <1>11, LoadedBefore, Zenon DEF Kept
  <2>2. ~Listed(j) /\ job[j].multi BY <2>1, Zenon DEF Loads
  <2>3. r.refs # 0 BY <1>5, <1>7, <2>2 DEF Sound
  <2>4. q = r BY <1>3, <2>3, Zenon DEF Freed
  <2>5. ~Listed(j)' BY <1>4, <2>2, Zenon DEF Listed
  <2> QED BY <1>7, <2>1, <2>2, <2>4, <2>5, Zenon DEF Loads
<1>12. Good(cache) /\ \A u \in URLs : SameLoad(cache, cache, u) BY <1>10, Zenon DEF Kept
<1> QED BY <1>4, <1>6, <1>9, <1>11, <1>12, JobFacts, OwnersStep, Zenon

\* A job that is taken from the list loads nothing yet.
LEMMA StartJobOwns ==
    ASSUME IInv, CInv, StartJob
    PROVE  CInv'
<1>1. PICK j : j = Head(list) BY Zenon
<1>2. list # <<>> /\ list' = Tail(list) BY Zenon DEF StartJob, MayStart
<1>3. list \in Seq(Jobs) /\ Distinct(list) BY Zenon DEF IInv, Base, TypeOK
<1>4. /\ j \in Jobs /\ Listed(j)
      /\ \A k \in Jobs \ {j} : Listed(k)' <=> Listed(k)
  BY <1>1, <1>2, <1>3, FirstTaken, Zenon DEF Listed
<1>5. PICK r : r = IF DropsOldHandle(job[j]) THEN RemovedFromCurl(job[j]) ELSE job[j] BY Zenon
<1>6. PICK v \in Validators(r, j), taken \in IF StartFails THEN BOOLEAN ELSE {TRUE} :
             /\ job' = [job EXCEPT ![j] = [r EXCEPT
                           !.refs = @ + 1, !.handle = TRUE, !.multi = taken,
                           !.client = @ /\ taken, !.cancelled = ~taken,
                           !.validators = @ \/ v[1], !.sent = 0,
                           !.phase = IF taken THEN "headers" ELSE "none"]]
             /\ cache' = v[2]
  BY <1>1, <1>5, Zenon DEF StartJob
<1>7. job[j] \in HandleOf /\ Sound(job[j], Listed(j)) /\ job \in [Jobs -> HandleOf]
  BY <1>4, JobFacts, Zenon
<1>8. job[j].url \in URLs
  <2>1. job[j].refs > 0 BY <1>4, <1>7 DEF Sound
  <2> QED BY <1>4, <2>1, Zenon DEF CInv, Fits
<1>9. r.url = job[j].url /\ DOMAIN r = DOMAIN job[j]
  BY <1>5, <1>7, Zenon DEF HandleOf, RemovedFromCurl
<1>10. PICK q : q = [r EXCEPT
                           !.refs = @ + 1, !.handle = TRUE, !.multi = taken,
                           !.client = @ /\ taken, !.cancelled = ~taken,
                           !.validators = @ \/ v[1], !.sent = 0,
                           !.phase = IF taken THEN "headers" ELSE "none"]
  BY Zenon
<1>11. job' = [job EXCEPT ![j] = q] BY <1>6, <1>10, Zenon
<1>12. q.url = job[j].url /\ q.sent = 0
  <2>1. r \in HandleOf
    <3>1. CASE DropsOldHandle(job[j])
      <4>1. job[j].handle BY <3>1, Zenon DEF DropsOldHandle
      <4>2. job[j].refs - 2 \in Nat BY <1>4, <1>7, <4>1 DEF Sound
      <4> QED BY <1>5, <1>7, <3>1, <4>2, Zenon DEF HandleOf, RemovedFromCurl
    <3>2. CASE ~DropsOldHandle(job[j]) BY <1>5, <1>7, <3>2, Zenon
    <3> QED BY <3>1, <3>2, Zenon
  <2> QED BY <1>9, <1>10, <2>1, Zenon DEF HandleOf
<1>13. Fits(q) BY <1>8, <1>12, Zenon DEF Fits
<1>14. Kept(cache, v[2])
  <2>1. Good(cache) BY Zenon DEF CInv
  <2>2. CASE v = <<FALSE, cache>> BY <2>1, <2>2, NothingKept, Zenon
  <2>3. CASE v # <<FALSE, cache>>
    <3>1. PICK answer \in IsCached(cache, r.url) :
             v = <<answer[1], IF answer[1] THEN AddCacheEntryClient(answer[2], r.url, j)
                              ELSE answer[2]>>
      BY <2>3, Zenon DEF Validators
    <3>2. PICK u, d : u = r.url /\ d = answer[2] BY Zenon
    <3>3. u \in URLs BY <1>8, <1>9, <3>2, Zenon
    <3>4. Kept(cache, d) BY <2>1, <3>2, <3>3, IsCachedKept, Zenon
    <3>5. Kept(d, AddCacheEntryClient(d, u, j)) BY <1>4, <3>3, <3>4, ClientsKept, Zenon DEF Kept
    <3>6. Kept(cache, AddCacheEntryClient(d, u, j)) BY <3>4, <3>5, KeptTwice, Zenon
    <3>7. v[2] = d \/ v[2] = AddCacheEntryClient(d, u, j)
      <4>1. PICK b : v = <<b, IF b THEN AddCacheEntryClient(d, u, j) ELSE d>>
        BY <3>1, <3>2, Zenon
      <4> QED BY <4>1, Zenon
    <3> QED BY <3>4, <3>6, <3>7, Zenon
  <2> QED BY <2>2, <2>3, Zenon
<1>15. \A c, u : ~Loads(c, u, job[j], Listed(j)) BY <1>4, Zenon DEF Loads
<1>16. PICK d : d = v[2] BY Zenon
<1> QED BY <1>4, <1>6, <1>7, <1>11, <1>13, <1>14, <1>15, <1>16, IdleStep, Zenon

\* A job whose response has not been read loads nothing.
LEMMA HeadersOwn ==
    ASSUME NEW j \in Jobs, job[j].phase = "headers"
    PROVE  \A c, u : ~Loads(c, u, job[j], Listed(j))
  BY Zenon DEF Loads

\* A redirection comes before the response.
LEMMA RedirectOwns ==
    ASSUME IInv, CInv, NEW j \in Jobs, NEW u \in URLs, Redirect(j, u)
    PROVE  CInv'
<1>1. PICK q : q = [job[j] EXCEPT !.url = u, !.redirected = TRUE] BY Zenon
<1>2. job \in [Jobs -> HandleOf] /\ job[j] \in HandleOf BY JobFacts, Zenon
<1>3. job[j].phase = "headers" /\ cache' = cache /\ list' = list
  BY Zenon DEF Redirect, InTransfer, mgr
<1>4. job' = [job EXCEPT ![j] = q] BY <1>1, <1>2, Zenon DEF Redirect
<1>5. q.url = u /\ q.sent = job[j].sent BY <1>1, <1>2, Zenon DEF HandleOf
<1>6. Fits(q) BY <1>3, <1>5, Zenon DEF CInv, Fits
<1>7. \A k \in Jobs \ {j} : Listed(k)' <=> Listed(k) BY <1>3, Zenon DEF Listed
<1>8. Kept(cache, cache) BY NothingKept, Zenon DEF CInv
<1> QED BY <1>2, <1>3, <1>4, <1>6, <1>7, <1>8, HeadersOwn, IdleStep, Zenon

\* A client that stops the job in didReceiveResponse() comes before the cache.
LEMMA StoppedOwns ==
    ASSUME IInv, CInv, NEW j \in Jobs, NEW code \in Codes, NEW resume \in BOOLEAN,
           ResponseStopped(j, code, resume)
    PROVE  CInv'
<1>1. PICK q0 : q0 = AfterHeaders(j, code) BY Zenon
<1>2. PICK q : q = [q0 EXCEPT !.client = FALSE, !.cancelled = TRUE,
                              !.refs = IF resume THEN @ + 1 ELSE @]
  BY Zenon
<1>3. /\ job[j] \in HandleOf /\ Sound(job[j], Listed(j)) /\ job \in [Jobs -> HandleOf]
      /\ list \in Seq(Jobs) /\ Distinct(list)
  BY JobFacts, Zenon
<1>4. /\ job[j].phase = "headers" /\ ~job[j].cancelled /\ cache' = cache
      /\ list' = IF resume THEN Append(list, j) ELSE list
      /\ job' = [job EXCEPT ![j] = q]
  BY <1>1, <1>2, Zenon DEF ResponseStopped, InTransfer
<1>5. job[j].multi /\ job[j].handle /\ ~Listed(j) /\ job[j].refs > 0
  BY <1>3, <1>4 DEF Sound, Going, HandleOf
<1>6. q0 \in HandleOf /\ q0.url = job[j].url /\ q0.sent = job[j].sent /\ q0.phase # "headers"
  BY <1>1, <1>3, Zenon DEF AfterHeaders, HandleOf
<1>7. q.url = job[j].url /\ q.phase # "headers" BY <1>2, <1>6, Zenon DEF HandleOf
<1>8. Fits(q) BY <1>5, <1>7, Zenon DEF CInv, Fits
<1>9. \A k \in Jobs \ {j} : Listed(k)' <=> Listed(k)
  BY <1>3, <1>4, <1>5, Appended, Zenon DEF Listed
<1>10. Kept(cache, cache) BY NothingKept, Zenon DEF CInv
<1> QED BY <1>3, <1>4, <1>8, <1>9, <1>10, HeadersOwn, IdleStep, Zenon

\* The entry that didReceiveResponse() makes belongs to the job.
LEMMA ResponseOwns ==
    ASSUME IInv, CInv, NEW j \in Jobs, NEW code \in Codes, Response(j, code)
    PROVE  CInv'
<1>1. PICK q, d : q = AfterHeaders(j, code) /\ d = cache' BY Zenon
<1>2. job \in [Jobs -> HandleOf] /\ job[j] \in HandleOf /\ Sound(job[j], Listed(j)) BY JobFacts, Zenon
<1>3. /\ job[j].phase = "headers" /\ ~job[j].cancelled /\ list' = list
      /\ job' = [job EXCEPT ![j] = q]
      /\ IF job[j].client THEN d \in CacheResponse(j, code) ELSE d = cache
  BY <1>1, Zenon DEF Response, InTransfer, mgr
<1>4. job[j].multi /\ job[j].handle /\ ~Listed(j) /\ job[j].refs > 0
  BY <1>2, <1>3 DEF Sound, Going, HandleOf
<1>5. job[j].url \in URLs /\ job[j].sent = 0 BY <1>3, <1>4, Zenon DEF CInv, Fits
<1>6. /\ q.url = job[j].url /\ q.sent = 0 /\ q.multi = job[j].multi /\ q.client = job[j].client
      /\ q.phase = (IF code = 200 THEN "body" ELSE "end")
  BY <1>1, <1>2, <1>5, Zenon DEF AfterHeaders, HandleOf
<1>7. Fits(q) BY <1>5, <1>6, Zenon DEF Fits
<1>8. \A k \in Jobs : Listed(k)' <=> Listed(k) BY <1>3, Zenon DEF Listed
<1>9. CASE Kept(cache, d)
  BY <1>1, <1>2, <1>3, <1>7, <1>8, <1>9, HeadersOwn, IdleStep, Zenon
<1>10. CASE ~job[j].client
  <2>1. Kept(cache, d) BY <1>3, <1>10, NothingKept, Zenon DEF CInv
  <2> QED BY <1>9, <2>1, Zenon
<1>11. CASE job[j].client
  <2>1. PICK u, c : u = job[j].url /\ c = RemoveCacheEntryClient(cache, u, j) BY Zenon
  <2>2. u \in URLs /\ Good(cache) BY <1>5, <2>1, Zenon DEF CInv
  <2>3. Kept(cache, c) /\ Good(c) BY <2>1, <2>2, ClientsKept, Zenon DEF Kept
  <2>4. d \in (IF code = 304 /\ Has(c, u) THEN {ReadCachedData(c, u, ok) : ok \in DiskWorks}
               ELSE IF code = 200 THEN CreateEntry(c, u, j)
               ELSE {InvalidateCacheEntry(c, u)})
    BY <1>3, <1>11, <2>1 DEF CacheResponse
  <2>5. CASE code = 304 /\ Has(c, u)
    <3>1. PICK ok \in BOOLEAN : d = ReadCachedData(c, u, ok) BY <2>4, <2>5, Zenon DEF DiskWorks
    <3>2. Kept(c, d) BY <2>2, <2>3, <3>1, ReadKept, Zenon
    <3>3. Kept(cache, d) BY <2>3, <3>2, KeptTwice, Zenon
    <3> QED BY <1>9, <3>3, Zenon
  <2>6. CASE ~(code = 304 /\ Has(c, u)) /\ code # 200
    <3>1. d = InvalidateCacheEntry(c, u) BY <2>4, <2>6, Zenon
    <3>2. Kept(c, d) BY <2>2, <2>3, <3>1, InvalidateKept, Zenon
    <3>3. Kept(cache, d) BY <2>3, <3>2, KeptTwice, Zenon
    <3> QED BY <1>9, <3>3
  <2>7. CASE code = 200
    <3>1. d \in CreateEntry(c, u, j) BY <2>4, <2>7
    <3>2. /\ Good(d)
          /\ \A v \in URLs \ {u} : SameLoad(c, d, v)
          /\ SameLoad(c, d, u) \/ FreshLoad(d, u, j)
      BY <2>2, <2>3, <3>1, CreateKept, Zenon
    <3>3. \A v \in URLs : SameLoad(c, d, v) => SameLoad(cache, d, v)
      BY <2>3, Zenon DEF Kept, SameLoad
    <3>4. \A v \in URLs : SameLoad(cache, d, v) \/ (IsLoading(d, v) => d.index[v].job = j)
      BY <3>2, <3>3, Zenon DEF FreshLoad, IsLoading
    <3>5. ASSUME NEW v \in URLs, IsLoading(d, v), d.index[v].job = j
          PROVE  Loads(d, v, q, Listed(j)')
      <4>1. ~SameLoad(cache, d, v) BY <1>3, <3>5, HeadersOwn, LoadedBefore, Zenon
      <4>2. v = u /\ FreshLoad(d, u, j) BY <3>2, <3>3, <4>1, Zenon
      <4>3. d.index[v].open => d.file[v] = <<>> BY <3>5, <4>2, Zenon DEF FreshLoad, IsLoading
      <4>4. First(0) = <<>> BY DEF First
      <4>5. IF d.index[v].open THEN d.file[v] = First(q.sent) ELSE q.sent = 0
        BY <1>6, <4>3, <4>4, Zenon
      <4>6. q.multi /\ q.url = v /\ q.phase = "body" /\ q.client /\ ~Listed(j)'
        BY <1>4, <1>6, <1>8, <1>11, <2>1, <2>7, <4>2, Zenon
      <4> QED BY <4>5, <4>6, Zenon DEF Loads
    <3> QED BY <1>1, <1>2, <1>3, <1>7, <1>8, <3>2, <3>4, <3>5, OwnersStep, Zenon
  <2> QED BY <2>5, <2>6, <2>7, Zenon
<1> QED BY <1>10, <1>11, Zenon

\* A chunk goes to the end of the file that the job loads.
LEMMA WriteOwns ==
    ASSUME IInv, CInv, NEW j \in Jobs, Write(j)
    PROVE  CInv'
<1>1. PICK q, d : q = [job[j] EXCEPT !.sent = @ + 1] /\ d = cache' BY Zenon
<1>2. job \in [Jobs -> HandleOf] /\ job[j] \in HandleOf /\ Sound(job[j], Listed(j)) BY JobFacts, Zenon
<1>3. /\ job[j].phase = "body" /\ ~job[j].cancelled /\ list' = list /\ job[j].sent < Chunks
      /\ IF job[j].client THEN d \in DidReceiveData(cache, job[j].url, j, job[j].sent + 1)
                          ELSE d = cache
  BY <1>1, Zenon DEF Write, InTransfer, mgr
<1>4. job' = [job EXCEPT ![j] = q] BY <1>1, <1>2, Zenon DEF Write
<1>5. job[j].multi /\ job[j].handle /\ ~Listed(j) /\ job[j].refs > 0
  BY <1>2, <1>3 DEF Sound, Going, HandleOf
<1>6. PICK u, n : u = job[j].url /\ n = job[j].sent BY Zenon
<1>7. u \in URLs BY <1>5, <1>6, Zenon DEF CInv, Fits
<1>8. Chunks \in Nat /\ n \in Nat /\ n < Chunks
  <2>1. job[j].sent \in 0 .. Chunks BY <1>2, Zenon DEF HandleOf
  <2> QED BY <1>3, <1>6, <2>1, CacheAssumption
<1>9. n + 1 \in 1 .. Chunks BY <1>8
<1>10. /\ q.url = u /\ q.sent = n + 1 /\ q.multi = job[j].multi /\ q.client = job[j].client
       /\ q.phase = "body"
  <2>1. n + 1 \in 0 .. Chunks BY <1>8
  <2> QED BY <1>1, <1>2, <1>3, <1>6, <2>1, Zenon DEF HandleOf
<1>11. Fits(q) BY <1>7, <1>10, Zenon DEF Fits
<1>12. \A k \in Jobs : Listed(k)' <=> Listed(k) BY <1>3, Zenon DEF Listed
<1>13. CASE ~job[j].client
  <2>1. Kept(cache, d) BY <1>3, <1>13, NothingKept, Zenon DEF CInv
  <2>2. \A c, v : ~Loads(c, v, job[j], Listed(j)) BY <1>3, <1>13, Zenon DEF Loads
  <2> QED BY <1>1, <1>2, <1>4, <1>11, <1>12, <2>1, <2>2, IdleStep, Zenon
<1>14. CASE job[j].client
  <2>1. d \in DidReceiveData(cache, u, j, n + 1) BY <1>3, <1>6, <1>14, Zenon
  <2>2. /\ Good(d)
        /\ \A v \in URLs \ {u} : SameLoad(cache, d, v)
        /\ SameLoad(cache, d, u) \/ MoreLoad(cache, d, u, j, n + 1)
        /\ Has(d, u) /\ d.index[u].loading /\ d.index[u].job = j =>
               MoreLoad(cache, d, u, j, n + 1)
    <3>1. Good(cache) BY Zenon DEF CInv
    <3>2. PICK chunk : chunk = n + 1 BY Zenon
    <3> QED BY <1>7, <1>9, <2>1, <3>1, <3>2, ReceiveKept, Zenon
  <2>3. \A v \in URLs : SameLoad(cache, d, v) \/ (IsLoading(d, v) => d.index[v].job = j)
    BY <2>2, Zenon DEF MoreLoad, IsLoading
  <2>4. ASSUME NEW v \in URLs, IsLoading(d, v), d.index[v].job = j
        PROVE  Loads(d, v, q, Listed(j)')
    <3>1. v = u
      <4>1. SUFFICES ASSUME v # u PROVE FALSE BY Zenon
      <4>2. Loads(d, v, job[j], Listed(j)) BY <2>2, <2>4, <4>1, LoadedBefore, Zenon
      <4> QED BY <1>6, <4>1, <4>2, Zenon DEF Loads
    <3>2. MoreLoad(cache, d, u, j, n + 1) BY <2>2, <2>4, <3>1, Zenon DEF IsLoading
    <3>3. IsLoading(cache, u) /\ cache.index[u].job = j BY <3>2, Zenon DEF MoreLoad, IsLoading
    <3>4. Loads(cache, u, job[j], Listed(j)) BY <1>7, <3>3, Zenon DEF CInv, Owners
    <3>5. PICK f : f = IF cache.index[u].open THEN cache.file[u] ELSE <<>> BY Zenon
    <3>6. f = First(n)
      <4>1. First(0) = <<>> BY DEF First
      <4> QED BY <1>6, <3>4, <3>5, <4>1, Zenon DEF Loads
    <3>7. Append(First(n), n + 1) = First(n + 1) BY <1>8 DEF First
    <3>8. d.index[u].open /\ d.file[u] = First(n + 1)
      BY <2>4, <3>1, <3>2, <3>5, <3>6, <3>7, Zenon DEF MoreLoad, IsLoading
    <3> QED BY <1>5, <1>10, <1>12, <1>14, <3>1, <3>8, Zenon DEF Loads
  <2> QED BY <1>1, <1>2, <1>4, <1>11, <1>12, <2>2, <2>3, <2>4, OwnersStep, Zenon
<1> QED BY <1>13, <1>14, Zenon

\* curl ends a transfer well when all of the body has come.
LEMMA EndsOwn ==
    ASSUME IInv, CInv, NEW j \in Jobs, NEW ok \in BOOLEAN, TransferEnds(j, ok)
    PROVE  CInv'
<1>1. PICK q : q = [job[j] EXCEPT !.phase = IF ok THEN "ok" ELSE "failed"] BY Zenon
<1>2. job \in [Jobs -> HandleOf] /\ job[j] \in HandleOf BY JobFacts, Zenon
<1>3. /\ job[j].phase \in Going /\ list' = list /\ cache' = cache
      /\ ok => job[j].phase = "end" \/ (job[j].phase = "body" /\ job[j].sent = Chunks)
  BY Zenon DEF TransferEnds, mgr, Going
<1>4. job' = [job EXCEPT ![j] = q] BY <1>1, <1>2, Zenon DEF TransferEnds
<1>5. /\ q.url = job[j].url /\ q.sent = job[j].sent /\ q.multi = job[j].multi
      /\ q.client = job[j].client /\ q.cancelled = job[j].cancelled /\ q.refs = job[j].refs
      /\ q.phase = IF ok THEN "ok" ELSE "failed"
  BY <1>1, <1>2, Zenon DEF HandleOf
<1>6. Fits(q) BY <1>5, Zenon DEF CInv, Fits
<1>7. \A k \in Jobs : Listed(k)' <=> Listed(k) BY <1>3, Zenon DEF Listed
<1>8. Good(cache) /\ \A u \in URLs : SameLoad(cache, cache, u) BY NothingKept, Zenon DEF CInv, Kept
<1>9. ASSUME NEW u \in URLs, IsLoading(cache, u), cache.index[u].job = j
      PROVE  Loads(cache, u, q, Listed(j)')
  <2>1. Loads(cache, u, job[j], Listed(j)) BY <1>8, <1>9, LoadedBefore, Zenon
  <2>2. job[j].phase = "body" BY <1>3, <2>1, Zenon DEF Loads, Going
  <2> QED BY <1>3, <1>5, <1>7, <2>1, <2>2, Zenon DEF Loads
<1> QED BY <1>2, <1>3, <1>4, <1>6, <1>7, <1>8, <1>9, OwnersStep, Zenon

\* The message of the end finishes or invalidates the entry.
LEMMA MessageOwns ==
    ASSUME IInv, CInv, NEW j \in Jobs, NEW release \in BOOLEAN, Message(j, release)
    PROVE  CInv'
<1>1. PICK r0, d : r0 = RemovedFromCurl(job[j]) /\ d = CacheMessage(j) BY Zenon
<1>2. PICK r : r = IF release THEN [r0 EXCEPT !.held = FALSE, !.client = FALSE] ELSE r0 BY Zenon
<1>3. PICK q : q = IF Freed(r) THEN Gone ELSE r BY Zenon
<1>4. /\ job[j].phase \in Done /\ cache' = d /\ list' = list
      /\ job' = [job EXCEPT ![j] = q]
  BY <1>1, <1>2, <1>3, Zenon DEF Message, Settle, Done
<1>5. job \in [Jobs -> HandleOf] /\ job[j] \in HandleOf /\ Sound(job[j], Listed(j)) BY JobFacts, Zenon
<1>6. job[j].handle /\ job[j].refs > 0 /\ job[j].refs - 2 \in Nat
  BY <1>4, <1>5 DEF Sound, HandleOf
<1>7. PICK u : u = job[j].url BY Zenon
<1>8. u \in URLs BY <1>6, <1>7, Zenon DEF CInv, Fits
<1>9. Fits(q)
  <2>1. r0 \in HandleOf BY <1>1, <1>5, <1>6, Zenon DEF HandleOf, RemovedFromCurl
  <2>2. r0.url = u /\ r0.phase = "none"
    BY <1>1, <1>5, <1>6, <1>7, Zenon DEF HandleOf, RemovedFromCurl
  <2>3. r.url = u /\ r.phase = "none" BY <1>2, <2>1, <2>2, Zenon DEF HandleOf
  <2>4. Fits(r) BY <1>8, <2>3, Zenon DEF Fits
  <2> QED BY <1>3, <2>4, NoJobFits, Zenon
<1>10. \A k \in Jobs : Listed(k)' <=> Listed(k) BY <1>4, Zenon DEF Listed
<1>11. Good(cache) BY Zenon DEF CInv
<1>12. ASSUME IsLoading(cache, u), cache.index[u].job = j
       PROVE  Loads(cache, u, job[j], Listed(j))
  BY <1>8, <1>12, Zenon DEF CInv, Owners
<1>13. Kept(cache, d) /\ ((job[j].client \/ job[j].cancelled) => ~IsLoading(d, u))
  <2>1. CASE job[j].cancelled
    <3>1. d = InvalidateCacheEntry(cache, u)
      BY <1>1, <1>7, <2>1, Zenon DEF CacheMessage, DidNotLoad
    <3> QED BY <1>8, <1>11, <3>1, InvalidateKept, Zenon DEF IsLoading
  <2>2. CASE ~job[j].cancelled /\ ~job[j].client
    <3>1. d = cache BY <1>1, <2>2, Zenon DEF CacheMessage
    <3> QED BY <1>11, <2>2, <3>1, NothingKept, Zenon
  <2>3. CASE ~job[j].cancelled /\ job[j].client /\ job[j].phase # "ok"
    <3>1. d = InvalidateCacheEntry(cache, u)
      BY <1>1, <1>7, <2>3, Zenon DEF CacheMessage, DidNotLoad
    <3> QED BY <1>8, <1>11, <3>1, InvalidateKept DEF IsLoading
  <2>4. CASE ~job[j].cancelled /\ job[j].client /\ job[j].phase = "ok"
    <3>1. d = DidFinishLoading(cache, u, j) BY <1>1, <1>7, <2>4, Zenon DEF CacheMessage
    <3>2. ASSUME Has(cache, u), cache.index[u].loading, cache.index[u].job = j
          PROVE  cache.file[u] = Whole
      <4>1. Loads(cache, u, job[j], Listed(j)) BY <1>12, <3>2, Zenon DEF IsLoading
      <4>2. job[j].sent = Chunks BY <2>4, <4>1, Zenon DEF Loads
      <4>3. Chunks # 0 /\ First(Chunks) = Whole BY CacheAssumption, Zenon DEF First, Whole
      <4> QED BY <4>1, <4>2, <4>3, Zenon DEF Loads
    <3> QED BY <1>8, <1>11, <3>1, <3>2, FinishKept, Zenon DEF IsLoading
  <2> QED BY <2>1, <2>2, <2>3, <2>4, Zenon
<1>14. Good(d) /\ \A v \in URLs : SameLoad(cache, d, v) BY <1>13, Zenon DEF Kept
<1>15. ASSUME NEW v \in URLs, IsLoading(d, v), d.index[v].job = j PROVE FALSE
  <2>1. Loads(d, v, job[j], Listed(j)) BY <1>14, <1>15, LoadedBefore, Zenon
  <2>2. v = u /\ (job[j].client \/ job[j].cancelled) BY <1>7, <2>1, Zenon DEF Loads
  <2> QED BY <1>13, <1>15, <2>2, Zenon
<1> QED BY <1>4, <1>5, <1>9, <1>10, <1>14, <1>15, OwnersStep, Zenon

\* The next process finds no entry that loads.
LEMMA RestartOwns ==
    ASSUME IInv, CInv, NEW clean \in BOOLEAN, Restart(clean)
    PROVE  CInv'
<1>1. PICK old, d : old = (IF clean THEN SaveIndex(cache) ELSE cache) /\ d = LoadIndex(old) BY Zenon
<1>2. cache' = d /\ job' = [j \in Jobs |-> Gone] BY <1>1, Zenon DEF Restart
<1>3. CacheSound(old) BY <1>1, SaveKept, Zenon DEF CInv, Kept, Good
<1>4. Good(d) /\ \A u \in URLs : ~IsLoading(d, u)
  BY <1>1, <1>3, LoadedSound, Zenon DEF IsLoading
<1>5. Owners' BY <1>2, <1>4, Zenon DEF Owners, IsLoading, Has
<1>6. \A j \in Jobs : Fits(job'[j]) BY <1>2, NoJobFits, Zenon
<1> QED BY <1>2, <1>4, <1>5, <1>6, Zenon DEF CInv, Good, CacheSound, Has

\* So does the first, with whole files for the index it finds.
LEMMA CacheInitially == Init => CInv
<1> SUFFICES ASSUME Init PROVE CInv
  BY Zenon
<1>1. PICK saved \in Seq(URLs) : Len(saved) <= 1 /\ cache = CacheFrom(saved)
  <2>1. <<>> \in Seq(URLs) /\ Len(<<>>) <= 1 OBVIOUS
  <2>2. \A u \in URLs : <<u>> \in Seq(URLs) /\ Len(<<u>>) <= 1 OBVIOUS
  <2>3. cache = CacheFrom(<<>>) \/ \E u \in URLs : cache = CacheFrom(<<u>>) BY Zenon DEF Init
  <2> QED BY <2>1, <2>2, <2>3, Zenon
<1>2. PICK old : old = [index |-> [u \in URLs |-> None], lru |-> <<>>, size |-> 0, saved |-> saved,
               file |-> [u \in URLs |-> IF Contains(saved, u) THEN Whole ELSE None]]
  BY Zenon
<1>3. cache = LoadIndex(old) BY <1>1, <1>2, Zenon DEF CacheFrom
<1>4. Whole \in Content
  <2>1. Chunks \in Nat /\ Whole \in [1 .. Chunks -> 1 .. Chunks] BY CacheAssumption, Zenon DEF Whole
  <2> QED BY <2>1 DEF Content
<1>5. old \in Cache
  <2>1. <<>> \in Seq(URLs) OBVIOUS
  <2> QED BY <1>2, <1>4, <2>1, Zenon DEF Cache
<1>6. Distinct(<<>>) /\ Distinct(saved) BY <1>1 DEF Distinct
<1>7. CacheSound(old) BY <1>2, <1>5, <1>6, Zenon DEF CacheSound, Has
<1>8. Good(cache) /\ \A u \in URLs : ~IsLoading(cache, u)
  BY <1>3, <1>7, LoadedSound, Zenon DEF IsLoading
<1>9. \A j \in Jobs : Fits(job[j]) BY NoJobFits, Zenon DEF Init
<1> QED BY <1>8, <1>9, Zenon DEF CInv, Owners

\* Every step keeps the entries and their jobs together.
LEMMA CacheNext == IInv /\ CInv /\ [Next]_vars => CInv'
<1> SUFFICES ASSUME IInv, CInv, [Next]_vars PROVE CInv'
  BY Zenon
<1>1. CASE ClientStep BY <1>1, StartOwns, CancelOwns, Zenon DEF ClientStep
<1>2. CASE TimerFires \/ Select \/ PerformReturns \/ MessagesRead \/ CallbackEnds \/ UNCHANGED vars
  <2>1. UNCHANGED <<list, job, cache>>
    BY <1>2, Zenon DEF TimerFires, Select, PerformReturns, MessagesRead, CallbackEnds, vars
  <2> QED BY <2>1, SameCache, Zenon
<1>3. CASE StartJob \/ \E j \in Jobs, release \in BOOLEAN : Message(j, release)
  BY <1>3, StartJobOwns, MessageOwns, Zenon
<1>4. CASE \E j \in Jobs : CurlStep(j)
  BY <1>4, RedirectOwns, ResponseOwns, StoppedOwns, WriteOwns, EndsOwn, Zenon DEF CurlStep
<1>5. CASE \E clean \in BOOLEAN : Restart(clean) BY <1>5, RestartOwns, Zenon
<1> QED BY <1>1, <1>2, <1>3, <1>4, <1>5, Zenon DEF Next, CallbackStep

\* The invariant of the cache holds throughout.
THEOREM CacheInvariance == Spec => [](IInv /\ CInv)
<1>1. Init => CInv BY CacheInitially, Zenon
<1> QED BY <1>1, Invariance, CacheNext, PTL DEF Spec

\* Whatever order the clients, curl and the disk act in, an entry that is
\* loading belongs to a job that curl still has, for the entry's URL: its end
\* will finish or invalidate the entry.
THEOREM LoadsEnd == Spec => []LoadingEntryHasOwner
<1>1. CInv => LoadingEntryHasOwner
  BY Zenon DEF CInv, Owners, Loads, IsLoading, LoadingEntryHasOwner
<1> QED BY <1>1, CacheInvariance, PTL

\* No load that was cut short, by an error, a cancel or the end of the process,
\* leaves an entry that may be used with a part of the body, unless another
\* job's end or the process's was mistaken for its own.
THEOREM EntriesAreWhole == Spec => []UsableEntryIsWhole
<1>1. CInv => UsableEntryIsWhole BY Zenon DEF CInv, Good, CacheSound, UsableEntryIsWhole
<1> QED BY <1>1, CacheInvariance, PTL

\* Every entry is in the list that makeRoomForNewEntry() evicts from, once, and
\* the size that the cache counts stays within the limit, also while a process
\* loads an index that has more than fits.
THEOREM CacheIsBounded == Spec => []EveryEntryEvictable
<1>1. CInv => EveryEntryEvictable
  <2> SUFFICES ASSUME CInv PROVE EveryEntryEvictable
    OBVIOUS
  <2>1. cache.lru \in Seq(URLs) /\ Distinct(cache.lru) BY Zenon DEF CInv, Good, CacheSound, Cache
  <2>2. DOMAIN cache.lru = 1 .. Len(cache.lru) BY <2>1
  <2>3. \A i, k \in DOMAIN cache.lru : cache.lru[i] = cache.lru[k] => i = k
    BY <2>1, <2>2, Zenon DEF Distinct
  <2> QED BY <2>3, Zenon DEF CInv, Good, CacheSound, EveryEntryEvictable
<1> QED BY <1>1, CacheInvariance, PTL
=============================================================================
