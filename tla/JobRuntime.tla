----------------------------- MODULE JobRuntime -----------------------------
(***************************************************************************)
(* The job runtime of LakeMindServer: job_runs and job_attempts in         *)
(* PostgreSQL, Ray as execution backend, and the server processes between  *)
(* them (services/job_service.py, services/job_sync_service.py,            *)
(* plugins/compute/distributed/ray_execution_backend.py, app.py).          *)
(*                                                                         *)
(* db.execute commits every statement on its own connection, so no handler *)
(* runs in a transaction: each SQL statement and each call to Ray is one   *)
(* step here, and anything may happen between two of them.  In every       *)
(* server process (a uvicorn worker) two threads run:                      *)
(*   - the event loop, which runs submit, cancel and retry one at a time,  *)
(*     because the job endpoints are coroutines that call the synchronous  *)
(*     JobService directly (variable api);                                 *)
(*   - a helper thread that runs recover_on_startup once and then          *)
(*     sync_all, cleanup_zombies and check_timeouts in turn (variable bg). *)
(*                                                                         *)
(* Left out: admission (skill, quota and idempotency checks before the     *)
(* INSERT), the payload of a job, its artifacts (_collect_result swallows  *)
(* every failure and changes none of this state), the progress events of   *)
(* the timeline (only the events that announce a terminal status are       *)
(* kept), audit records, and failures of PostgreSQL other than those of    *)
(* _write_event.                                                           *)
(***************************************************************************)
EXTENDS Integers, FiniteSets

CONSTANTS
    Jobs,         \* job_runs rows that may be created
    MaxAttempts,  \* bound on job_attempts.attempt_number
    Workers,      \* server processes (UVICORN_WORKERS)
    Faults,       \* the failures the environment may inject, see FaultKinds
    MaxCrashes    \* bound on the number of process crashes

(***************************************************************************)
(* "submit": submit_job raises and Ray has no job.  "reply": submit_job    *)
(* raises although Ray has taken the job.  "stop": stop_job raises.        *)
(* "status": get_job_status raises.  "connect": JobSubmissionClient raises *)
(* when the process starts.  "operator": somebody stops a Ray job from     *)
(* Ray's own dashboard.  "event": JobSyncService._write_event raises.      *)
(***************************************************************************)
FaultKinds == {"submit", "reply", "stop", "status", "connect", "operator", "event"}

ASSUME JobRuntimeAssumption ==
    /\ MaxAttempts \in Nat \ {0}
    /\ Faults \subseteq FaultKinds
    /\ MaxCrashes \in Nat

VARIABLES
    job,       \* job_runs.status, "ABSENT" while there is no row
    att,       \* job_attempts.status per attempt, "ABSENT" while there is no row
    rid,       \* whether job_attempts.ray_job_id (and with it started_at) is set
    ray,       \* Ray's own status of the job submitted for an attempt
    timeline,  \* terminal statuses announced in job_events
    api,       \* per process: the request its event loop is serving
    bg,        \* per process: its recovery and synchronisation thread
    client,    \* per process: RayExecutionBackend._client is not None
    crashes    \* process crashes so far

db   == <<job, att, rid, timeline>>
vars == <<job, att, rid, ray, timeline, api, bg, client, crashes>>

Nums     == 1 .. MaxAttempts
Attempts == Jobs \X Nums

Terminal  == {"SUCCEEDED", "FAILED", "TIMED_OUT", "CANCELLED", "LOST"}
JobStatus == {"ABSENT", "SUBMITTED", "QUEUED", "RUNNING", "CANCELLING"} \cup Terminal
Active    == {"QUEUED", "RUNNING"}
AttStatus == {"ABSENT"} \cup Active \cup Terminal
RayStatus == {"ABSENT", "PENDING", "RUNNING", "STOPPING", "STOPPED", "SUCCEEDED", "FAILED"}
RayLive   == {"PENDING", "RUNNING"}
Mapped    == {"QUEUED", "RUNNING", "SUCCEEDED", "FAILED", "CANCELLED", "UNKNOWN"}
Outcomes  == {"SUCCEEDED", "FAILED", "CANCELLED"}

\* VALID_TRANSITIONS of job_state_machine.py.
ValidTransitions ==
    {<<"SUBMITTED", t>> : t \in {"QUEUED", "CANCELLED"}} \cup
    {<<"QUEUED", t>> : t \in {"RUNNING", "FAILED", "CANCELLED", "TIMED_OUT"}} \cup
    {<<"RUNNING", t>> : t \in {"SUCCEEDED", "FAILED", "TIMED_OUT", "CANCELLING", "LOST"}} \cup
    {<<"CANCELLING", t>> : t \in {"CANCELLED", "FAILED"}}

CanTransition(s, t) == <<s, t>> \in ValidTransitions

(***************************************************************************)
(* A status goes through two tables: _STATUS_MAP of the backend, then      *)
(* _RAY_STATUS_MAP of the synchroniser.  The second one has no entry for   *)
(* the "CANCELLED" and the "LOST" that the first one may return.           *)
(* "STOPPING" is a Ray job that was told to stop and still reports itself  *)
(* running.                                                                *)
(***************************************************************************)
StatusMap(s) ==
    IF s = "PENDING" THEN "QUEUED"
    ELSE IF s \in {"RUNNING", "STOPPING"} THEN "RUNNING"
    ELSE IF s = "STOPPED" THEN "CANCELLED"
    ELSE IF s \in {"SUCCEEDED", "FAILED"} THEN s
    ELSE "UNKNOWN"

\* get_status: "LOST" without a client.
BackendStatus(w, a) == IF client[w] THEN StatusMap(ray[a]) ELSE "LOST"

SyncMap(s) ==
    IF s \in {"QUEUED", "RUNNING", "SUCCEEDED", "FAILED"} THEN s
    ELSE IF s = "PENDING" THEN "QUEUED"
    ELSE IF s = "STOPPED" THEN "CANCELLED"
    ELSE "UNKNOWN"

Polled(w, a) == SyncMap(BackendStatus(w, a))

\* The attempt that "ORDER BY attempt_number DESC LIMIT 1" selects among the
\* attempts of j that are QUEUED or RUNNING.
LatestActive(j, n) ==
    /\ att[<<j, n>>] \in Active
    /\ \A m \in Nums : att[<<j, m>>] \in Active => m <= n

-----------------------------------------------------------------------------
(* Threads *)

ApiPc == {"idle", "numberAttempt", "insertAttempt", "queueJob", "callBackend",
          "recordAttempt", "recordJob", "failAttempt", "failJob", "failEvent",
          "markCancelling", "stopRay", "markCancelled", "cancelAttempts", "cancelEvent"}

BgPc == {"scan", "next", "ask", "forget", "cancelJob", "cancelAttempt", "resumeJob",
         "resumeAttempt", "attempt", "finalize", "event", "promote", "requeue", "lostStop",
         "lostAttempt", "lostJob", "lostEvent", "timeoutAttempt", "timeoutJob", "timeoutEvent"}

Phases == {"down", "recover", "sync", "zombies", "timeouts"}

\* A row read by a scan: attempt n of job j (n = 0: no attempt chosen yet) with
\* the statuses the attempt and the job had when the row was read.
Item == [j : Jobs, n : 0 .. MaxAttempts, st : AttStatus, jst : JobStatus]

\* on is the attempt the request works on (attempt 0 for a cancel).
ApiState == [op : {"none", "submit", "retry", "cancel"}, pc : ApiPc,
             on : SUBSET (Jobs \X (0 .. MaxAttempts))]

\* todo are the rows still to visit, cur the row being visited, mapped its
\* translated Ray status.
BgState == [phase : Phases, pc : BgPc, todo : SUBSET Item, cur : SUBSET Item, mapped : Mapped]

TypeOK ==
    /\ job \in [Jobs -> JobStatus]
    /\ att \in [Attempts -> AttStatus]
    /\ rid \in [Attempts -> BOOLEAN]
    /\ ray \in [Attempts -> RayStatus]
    /\ timeline \in [Jobs -> SUBSET Terminal]
    /\ api \in [Workers -> ApiState]
    /\ bg \in [Workers -> BgState]
    /\ client \in [Workers -> BOOLEAN]
    /\ crashes \in 0 .. MaxCrashes

NoRequest == [op |-> "none", pc |-> "idle", on |-> {}]
Down      == [phase |-> "down", pc |-> "scan", todo |-> {}, cur |-> {}, mapped |-> "UNKNOWN"]

Init ==
    /\ job = [j \in Jobs |-> "ABSENT"]
    /\ att = [a \in Attempts |-> "ABSENT"]
    /\ rid = [a \in Attempts |-> FALSE]
    /\ ray = [a \in Attempts |-> "ABSENT"]
    /\ timeline = [j \in Jobs |-> {}]
    /\ api = [w \in Workers |-> NoRequest]
    /\ bg = [w \in Workers |-> Down]
    /\ client = [w \in Workers |-> FALSE]
    /\ crashes = 0

\* lifespan finishes recovery before the process accepts a request.
Serving(w) == bg[w].phase \in {"sync", "zombies", "timeouts"}

ApiGoto(w, pc) == api' = [api EXCEPT ![w].pc = pc]
ApiDone(w)     == api' = [api EXCEPT ![w] = NoRequest]

\* Advance the row being visited; "next" drops it.
BgGoto(w, pc) ==
    bg' = [bg EXCEPT ![w] = IF pc = "next"
                            THEN [@ EXCEPT !.pc = pc, !.cur = {}, !.mapped = "UNKNOWN"]
                            ELSE [@ EXCEPT !.pc = pc]]

\* Take row i from the list and, as row x, go on with it at pc.
BgTake(w, i, x, m, pc) ==
    bg' = [bg EXCEPT ![w] = [phase |-> @.phase, pc |-> pc, todo |-> @.todo \ {i},
                             cur |-> IF pc = "next" THEN {} ELSE {x},
                             mapped |-> IF pc = "next" THEN "UNKNOWN" ELSE m]]

\* An exception leaves the pass: the remaining rows are dropped and, after
\* sync_all, the round's other passes too, so that sync_all runs next.
BgAbort(w) ==
    bg' = [bg EXCEPT ![w] = [Down EXCEPT !.phase = IF bg[w].phase = "recover" THEN "recover"
                                                                             ELSE "timeouts",
                                         !.pc = "next"]]

-----------------------------------------------------------------------------
(* External: Ray *)

Halted(s) == IF s = "PENDING" THEN "STOPPED" ELSE IF s = "RUNNING" THEN "STOPPING" ELSE s

\* backend.cancel: does nothing without a client, may raise, and every caller
\* swallows what it raises.
RayStop(w, a) ==
    \/ client[w] /\ ray' = [ray EXCEPT ![a] = Halted(@)]
    \/ (~client[w] \/ "stop" \in Faults) /\ ray' = ray

RayStart(a) ==
    /\ ray[a] = "PENDING"
    /\ ray' = [ray EXCEPT ![a] = "RUNNING"]
    /\ UNCHANGED <<db, api, bg, client, crashes>>

RayFinish(a) ==
    /\ \E s \in {"SUCCEEDED", "FAILED", "STOPPED"} :
          /\ \/ ray[a] = "PENDING" /\ s = "FAILED"
             \/ ray[a] = "RUNNING" /\ (s # "STOPPED" \/ "operator" \in Faults)
             \/ ray[a] = "STOPPING"
          /\ ray' = [ray EXCEPT ![a] = s]
    /\ UNCHANGED <<db, api, bg, client, crashes>>

-----------------------------------------------------------------------------
(* The event loop: JobService.submit, retry and cancel *)

SubmitJob(w, j) ==
    /\ Serving(w) /\ api[w] = NoRequest
    /\ job[j] = "ABSENT"
    /\ job' = [job EXCEPT ![j] = "SUBMITTED"]
    /\ api' = [api EXCEPT ![w] = [op |-> "submit", pc |-> "insertAttempt", on |-> {<<j, 1>>}]]
    /\ UNCHANGED <<att, rid, ray, timeline, bg, client, crashes>>

RetryableQueued == {"QUEUED", "FAILED", "TIMED_OUT", "LOST"}      \* mutant: a QUEUED job too

\* The statuses retry accepts.
Retryable == {"FAILED", "TIMED_OUT", "LOST"}

\* retry reads the job's status.  An attempt beyond MaxAttempts is not asked for.
RetryJob(w, j) ==
    /\ Serving(w) /\ api[w] = NoRequest
    /\ job[j] \in Retryable
    /\ att[<<j, MaxAttempts>>] = "ABSENT"
    /\ api' = [api EXCEPT ![w] = [op |-> "retry", pc |-> "numberAttempt", on |-> {<<j, 0>>}]]
    /\ UNCHANGED <<db, ray, bg, client, crashes>>

\* ... and then max(attempt_number) + 1; a number beyond the bound ends the request.
NumberAttempt(w) ==
    /\ api[w].pc = "numberAttempt"
    /\ \E a \in api[w].on :
          \/ \E n \in Nums :
                /\ \A m \in Nums : att[<<a[1], m>>] # "ABSENT" <=> m < n
                /\ api' = [api EXCEPT ![w].pc = "insertAttempt", ![w].on = {<<a[1], n>>}]
          \/ /\ att[<<a[1], MaxAttempts>>] # "ABSENT"
             /\ ApiDone(w)
    /\ UNCHANGED <<db, ray, bg, client, crashes>>

InsertAttemptAgain(w) ==                                          \* mutant: no UNIQUE constraint
    /\ api[w].pc = "insertAttempt"
    /\ \E a \in api[w].on : att' = [att EXCEPT ![a] = "QUEUED"]
    /\ ApiGoto(w, "queueJob")
    /\ UNCHANGED <<job, rid, ray, timeline, bg, client, crashes>>

\* UNIQUE (job_id, attempt_number) refuses the second of two inserts.
InsertAttempt(w) ==
    /\ api[w].pc = "insertAttempt"
    /\ \E a \in api[w].on :
          \/ /\ att[a] = "ABSENT"
             /\ att' = [att EXCEPT ![a] = "QUEUED"]
             /\ ApiGoto(w, "queueJob")
          \/ /\ att[a] # "ABSENT"
             /\ ApiDone(w)
             /\ UNCHANGED att
    /\ UNCHANGED <<job, rid, ray, timeline, bg, client, crashes>>

QueueJob(w) ==
    /\ api[w].pc = "queueJob"
    /\ \E a \in api[w].on : job' = [job EXCEPT ![a[1]] = "QUEUED"]
    /\ ApiGoto(w, "callBackend")
    /\ UNCHANGED <<att, rid, ray, timeline, bg, client, crashes>>

\* backend.submit: Ray takes the job and the reply arrives; it takes the job
\* and the call raises; it never gets the job and the call raises.
CallBackend(w) ==
    /\ api[w].pc = "callBackend"
    /\ \E a \in api[w].on :
          \/ /\ client[w]
             /\ ray' = [ray EXCEPT ![a] = "PENDING"]
             /\ ApiGoto(w, "recordAttempt")
          \/ /\ client[w] /\ "reply" \in Faults
             /\ ray' = [ray EXCEPT ![a] = "PENDING"]
             /\ ApiGoto(w, "failAttempt")
          \/ /\ ~client[w] \/ "submit" \in Faults
             /\ ray' = ray
             /\ ApiGoto(w, "failAttempt")
    /\ UNCHANGED <<db, bg, client, crashes>>

RecordAttemptNoId(w) ==                                           \* mutant: ray_job_id forgotten
    /\ api[w].pc = "recordAttempt"
    /\ \E a \in api[w].on : att' = [att EXCEPT ![a] = "RUNNING"]
    /\ ApiGoto(w, "recordJob")
    /\ UNCHANGED <<job, rid, ray, timeline, bg, client, crashes>>

RecordAttempt(w) ==
    /\ api[w].pc = "recordAttempt"
    /\ \E a \in api[w].on :
          /\ att' = [att EXCEPT ![a] = "RUNNING"]
          /\ rid' = [rid EXCEPT ![a] = TRUE]
    /\ ApiGoto(w, "recordJob")
    /\ UNCHANGED <<job, ray, timeline, bg, client, crashes>>

RecordJob(w) ==
    /\ api[w].pc = "recordJob"
    /\ \E a \in api[w].on : job' = [job EXCEPT ![a[1]] = "RUNNING"]
    /\ ApiDone(w)
    /\ UNCHANGED <<att, rid, ray, timeline, bg, client, crashes>>

\* The except branch of submit marks the attempt and the job FAILED, the one of
\* retry only the attempt: the job stays QUEUED.
FailAttempt(w) ==
    /\ api[w].pc = "failAttempt"
    /\ \E a \in api[w].on : att' = [att EXCEPT ![a] = "FAILED"]
    /\ ApiGoto(w, IF api[w].op = "submit" THEN "failJob" ELSE "failEvent")
    /\ UNCHANGED <<job, rid, ray, timeline, bg, client, crashes>>

FailJob(w) ==
    /\ api[w].pc = "failJob"
    /\ \E a \in api[w].on : job' = [job EXCEPT ![a[1]] = "FAILED"]
    /\ ApiGoto(w, "failEvent")
    /\ UNCHANGED <<att, rid, ray, timeline, bg, client, crashes>>

FailEvent(w) ==
    /\ api[w].pc = "failEvent"
    /\ \E a \in api[w].on : timeline' = [timeline EXCEPT ![a[1]] = @ \cup {"FAILED"}]
    /\ ApiDone(w)
    /\ UNCHANGED <<job, att, rid, ray, bg, client, crashes>>

CancelJob(w, j) ==
    /\ Serving(w) /\ api[w] = NoRequest
    /\ CanTransition(job[j], "CANCELLING") \/ CanTransition(job[j], "CANCELLED")
    /\ api' = [api EXCEPT ![w] =
                 [op |-> "cancel", on |-> {<<j, 0>>},
                  pc |-> IF CanTransition(job[j], "CANCELLING") THEN "markCancelling"
                                                                ELSE "markCancelled"]]
    /\ UNCHANGED <<db, ray, bg, client, crashes>>

MarkCancelling(w) ==
    /\ api[w].pc = "markCancelling"
    /\ \E a \in api[w].on : job' = [job EXCEPT ![a[1]] = "CANCELLING"]
    /\ ApiGoto(w, "stopRay")
    /\ UNCHANGED <<att, rid, ray, timeline, bg, client, crashes>>

\* The latest attempt that is QUEUED or RUNNING is stopped if it has a Ray id.
StopRay(w) ==
    /\ api[w].pc = "stopRay"
    /\ \E a \in api[w].on :
          \/ \E n \in Nums :
                /\ LatestActive(a[1], n)
                /\ rid[<<a[1], n>>]
                /\ RayStop(w, <<a[1], n>>)
          \/ /\ \A n \in Nums : LatestActive(a[1], n) => ~rid[<<a[1], n>>]
             /\ ray' = ray
    /\ ApiGoto(w, "markCancelled")
    /\ UNCHANGED <<db, bg, client, crashes>>

MarkCancelled(w) ==
    /\ api[w].pc = "markCancelled"
    /\ \E a \in api[w].on : job' = [job EXCEPT ![a[1]] = "CANCELLED"]
    /\ ApiGoto(w, "cancelAttempts")
    /\ UNCHANGED <<att, rid, ray, timeline, bg, client, crashes>>

CancelAttempts(w) ==
    /\ api[w].pc = "cancelAttempts"
    /\ \E a \in api[w].on :
          att' = [b \in Attempts |-> IF b[1] = a[1] /\ att[b] \in Active THEN "CANCELLED"
                                                                         ELSE att[b]]
    /\ ApiGoto(w, "cancelEvent")
    /\ UNCHANGED <<job, rid, ray, timeline, bg, client, crashes>>

CancelEvent(w) ==
    /\ api[w].pc = "cancelEvent"
    /\ \E a \in api[w].on : timeline' = [timeline EXCEPT ![a[1]] = @ \cup {"CANCELLED"}]
    /\ ApiDone(w)
    /\ UNCHANGED <<job, att, rid, ray, bg, client, crashes>>

\* The steps of a request that was accepted.
Handle(w) ==
    \/ NumberAttempt(w) \/ InsertAttempt(w) \/ QueueJob(w)
    \/ CallBackend(w) \/ RecordAttempt(w) \/ RecordJob(w) \/ FailAttempt(w) \/ FailJob(w) \/ FailEvent(w)
    \/ MarkCancelling(w) \/ StopRay(w) \/ MarkCancelled(w) \/ CancelAttempts(w) \/ CancelEvent(w)

Accept(w) == \E j \in Jobs : SubmitJob(w, j) \/ RetryJob(w, j) \/ CancelJob(w, j)

-----------------------------------------------------------------------------
(* The synchronisation thread: JobSyncService *)

Row(a) == [j |-> a[1], n |-> a[2], st |-> att[a], jst |-> job[a[1]]]

\* The loop awaits each pass, so a pass starts only when the event loop is free.
\* check_timeouts runs in some rounds only.
StartPass(w) ==
    /\ bg[w].pc = "next" /\ bg[w].todo = {}
    /\ api[w] = NoRequest
    /\ \E p \in {"sync", "zombies", "timeouts"} :
          /\ p = "zombies" <=> bg[w].phase = "sync"
          /\ p = "timeouts" => bg[w].phase = "zombies"
          /\ bg' = [bg EXCEPT ![w].phase = p, ![w].pc = "scan"]
    /\ UNCHANGED <<db, ray, api, client, crashes>>

\* The SELECT at the head of each pass.
RecoverRows ==
    {[j |-> j, n |-> 0, st |-> "ABSENT", jst |-> job[j]] :
        j \in {k \in Jobs : job[k] \in {"QUEUED", "RUNNING", "CANCELLING"}}}

SyncRows == {Row(a) : a \in {b \in Attempts : att[b] \in Active /\ rid[b]}}
TimedOutRows == {Row(a) : a \in {b \in Attempts : att[b] = "TIMED_OUT" /\ rid[b]}}  \* mutant: LOST forgotten

ZombieRows == {Row(a) : a \in {b \in Attempts : att[b] \in {"TIMED_OUT", "LOST"} /\ rid[b]}}

UnstartedRows ==                                                  \* mutant: started_at IS NULL
    {Row(a) : a \in {b \in Attempts : job[b[1]] = "RUNNING" /\ att[b] = "RUNNING" /\ ~rid[b]}}

TimeoutRows ==
    {Row(a) : a \in {b \in Attempts : job[b[1]] = "RUNNING" /\ att[b] = "RUNNING" /\ rid[b]}}

\* check_timeouts goes on with the rows that are overdue, which is up to the clock.
Scan(w) ==
    /\ bg[w].pc = "scan"
    /\ \E rows \in SUBSET (RecoverRows \cup SyncRows \cup ZombieRows \cup TimeoutRows) :
          /\ \/ bg[w].phase = "recover" /\ rows = RecoverRows
             \/ bg[w].phase = "sync" /\ rows = SyncRows
             \/ bg[w].phase = "zombies" /\ rows = ZombieRows
             \/ bg[w].phase = "timeouts" /\ rows \subseteq TimeoutRows
          /\ bg' = [bg EXCEPT ![w].todo = rows, ![w].pc = "next"]
    /\ UNCHANGED <<db, ray, api, client, crashes>>

\* sync_all: what follows the update of the attempt, for a row x and Ray's answer m.
AfterAttempt(x, m) ==
    IF m \in Outcomes THEN "finalize"
    ELSE IF m = "RUNNING" /\ x.jst # "RUNNING" THEN "promote"
    ELSE IF m = "QUEUED" /\ x.jst = "RUNNING" THEN "requeue"
    ELSE "next"

\* sync_all asks Ray about one attempt.
SyncAsk(w) ==
    /\ bg[w].phase = "sync" /\ bg[w].pc = "next"
    /\ \E i \in bg[w].todo :
          \/ /\ "status" \in Faults /\ client[w]
             /\ BgTake(w, i, i, "UNKNOWN", "lostStop")
          \/ LET m == Polled(w, <<i.j, i.n>>) IN
             BgTake(w, i, i, m, IF m \in {i.st, "UNKNOWN"} THEN AfterAttempt(i, m) ELSE "attempt")
    /\ UNCHANGED <<db, ray, api, client, crashes>>

\* _update_attempt_status: by attempt_id alone.
UpdateAttempt(w) ==
    /\ bg[w].pc = "attempt"
    /\ \E x \in bg[w].cur :
          /\ att' = [att EXCEPT ![<<x.j, x.n>>] = bg[w].mapped]
          /\ BgGoto(w, AfterAttempt(x, bg[w].mapped))
    /\ UNCHANGED <<job, rid, ray, timeline, api, client, crashes>>

FinalizeAsSucceeded(w) ==                                         \* mutant: status ignored
    /\ bg[w].pc = "finalize"
    /\ \E x \in bg[w].cur :
          job' = IF job[x.j] \in {"RUNNING", "QUEUED"} THEN [job EXCEPT ![x.j] = "SUCCEEDED"] ELSE job
    /\ BgGoto(w, "event")
    /\ UNCHANGED <<att, rid, ray, timeline, api, client, crashes>>

\* _finalize_job: the UPDATE is guarded, the event that follows is not.
FinalizeJob(w) ==
    /\ bg[w].pc = "finalize"
    /\ \E x \in bg[w].cur :
          \/ /\ CanTransition("RUNNING", bg[w].mapped)
             /\ job' = IF job[x.j] \in {"RUNNING", "QUEUED"}
                       THEN [job EXCEPT ![x.j] = bg[w].mapped] ELSE job
             /\ BgGoto(w, "event")
          \/ /\ ~CanTransition("RUNNING", bg[w].mapped)
             /\ BgGoto(w, "next")
             /\ job' = job
    /\ UNCHANGED <<att, rid, ray, timeline, api, client, crashes>>

\* The event of an outcome; if it cannot be written, the except branch of
\* sync_all and of recover_on_startup takes the attempt for lost.
FinalEvent(w) ==
    /\ bg[w].pc = "event"
    /\ \E x \in bg[w].cur :
          \/ /\ timeline' = [timeline EXCEPT ![x.j] = @ \cup {bg[w].mapped}]
             /\ BgGoto(w, "next")
          \/ /\ "event" \in Faults
             /\ timeline' = timeline
             /\ BgGoto(w, "lostStop")
    /\ UNCHANGED <<job, att, rid, ray, api, client, crashes>>

PromoteJob(w) ==
    /\ bg[w].pc = "promote"
    /\ \E x \in bg[w].cur :
          job' = IF job[x.j] \in {"QUEUED", "SUBMITTED"} THEN [job EXCEPT ![x.j] = "RUNNING"]
                                                         ELSE job
    /\ BgGoto(w, "next")
    /\ UNCHANGED <<att, rid, ray, timeline, api, client, crashes>>

\* The one UPDATE of sync_all that does not look at the job's current status.
RequeueJob(w) ==
    /\ bg[w].pc = "requeue"
    /\ \E x \in bg[w].cur : job' = [job EXCEPT ![x.j] = "QUEUED"]
    /\ BgGoto(w, "next")
    /\ UNCHANGED <<att, rid, ray, timeline, api, client, crashes>>

LostStopSkipped(w) ==                                             \* mutant: stop_job not called
    /\ bg[w].pc = "lostStop"
    /\ BgGoto(w, "lostAttempt")
    /\ UNCHANGED <<db, ray, api, client, crashes>>

\* _mark_lost: stop the Ray job, then the attempt, the job and the event.
LostStop(w) ==
    /\ bg[w].pc = "lostStop"
    /\ \E x \in bg[w].cur : RayStop(w, <<x.j, x.n>>)
    /\ BgGoto(w, "lostAttempt")
    /\ UNCHANGED <<db, api, client, crashes>>

LostAttempt(w) ==
    /\ bg[w].pc = "lostAttempt"
    /\ \E x \in bg[w].cur : att' = [att EXCEPT ![<<x.j, x.n>>] = "LOST"]
    /\ BgGoto(w, "lostJob")
    /\ UNCHANGED <<job, rid, ray, timeline, api, client, crashes>>

LostJob(w) ==
    /\ bg[w].pc = "lostJob"
    /\ \E x \in bg[w].cur :
          job' = IF job[x.j] \in {"RUNNING", "QUEUED"} THEN [job EXCEPT ![x.j] = "LOST"] ELSE job
    /\ BgGoto(w, "lostEvent")
    /\ UNCHANGED <<att, rid, ray, timeline, api, client, crashes>>

LostEvent(w) ==
    /\ bg[w].pc = "lostEvent"
    /\ \E x \in bg[w].cur :
          \/ /\ timeline' = [timeline EXCEPT ![x.j] = @ \cup {"LOST"}]
             /\ BgGoto(w, IF bg[w].phase = "recover" THEN "forget" ELSE "next")
          \/ /\ "event" \in Faults
             /\ timeline' = timeline
             /\ BgAbort(w)
    /\ UNCHANGED <<job, att, rid, ray, api, client, crashes>>

\* cleanup_zombies: one row; exceptions are swallowed.
ZombieAsk(w) ==
    /\ bg[w].phase = "zombies" /\ bg[w].pc = "next"
    /\ \E i \in bg[w].todo :
          /\ \/ Polled(w, <<i.j, i.n>>) \in {"RUNNING", "QUEUED"} /\ RayStop(w, <<i.j, i.n>>)
             \/ Polled(w, <<i.j, i.n>>) \notin {"RUNNING", "QUEUED"} /\ ray' = ray
             \/ "status" \in Faults /\ ray' = ray
          /\ BgTake(w, i, i, "UNKNOWN", "next")
    /\ UNCHANGED <<db, api, client, crashes>>

\* check_timeouts: stop the Ray job, then the attempt, the job and the event.
TimeoutStop(w) ==
    /\ bg[w].phase = "timeouts" /\ bg[w].pc = "next"
    /\ \E i \in bg[w].todo :
          /\ RayStop(w, <<i.j, i.n>>)
          /\ BgTake(w, i, i, "UNKNOWN", "timeoutAttempt")
    /\ UNCHANGED <<db, api, client, crashes>>

TimeoutAttemptAsFailed(w) ==                                      \* mutant: the wrong status
    /\ bg[w].pc = "timeoutAttempt"
    /\ \E x \in bg[w].cur : att' = [att EXCEPT ![<<x.j, x.n>>] = "FAILED"]
    /\ BgGoto(w, "timeoutJob")
    /\ UNCHANGED <<job, rid, ray, timeline, api, client, crashes>>

TimeoutAttempt(w) ==
    /\ bg[w].pc = "timeoutAttempt"
    /\ \E x \in bg[w].cur : att' = [att EXCEPT ![<<x.j, x.n>>] = "TIMED_OUT"]
    /\ BgGoto(w, "timeoutJob")
    /\ UNCHANGED <<job, rid, ray, timeline, api, client, crashes>>

TimeoutJobSilent(w) ==                                            \* mutant: no event
    /\ bg[w].pc = "timeoutJob"
    /\ \E x \in bg[w].cur : job' = [job EXCEPT ![x.j] = "TIMED_OUT"]
    /\ BgGoto(w, "next")
    /\ UNCHANGED <<att, rid, ray, timeline, api, client, crashes>>

TimeoutJob(w) ==
    /\ bg[w].pc = "timeoutJob"
    /\ \E x \in bg[w].cur : job' = [job EXCEPT ![x.j] = "TIMED_OUT"]
    /\ BgGoto(w, "timeoutEvent")
    /\ UNCHANGED <<att, rid, ray, timeline, api, client, crashes>>

TimeoutEvent(w) ==
    /\ bg[w].pc = "timeoutEvent"
    /\ \E x \in bg[w].cur :
          \/ /\ timeline' = [timeline EXCEPT ![x.j] = @ \cup {"TIMED_OUT"}]
             /\ BgGoto(w, "next")
          \/ /\ "event" \in Faults
             /\ timeline' = timeline
             /\ BgAbort(w)
    /\ UNCHANGED <<job, att, rid, ray, api, client, crashes>>

-----------------------------------------------------------------------------
(* Crash, restart and recover_on_startup *)

Crash(w) ==
    /\ bg[w].phase # "down"
    /\ crashes < MaxCrashes
    /\ crashes' = crashes + 1
    /\ bg' = [bg EXCEPT ![w] = Down]
    /\ api' = [api EXCEPT ![w] = NoRequest]
    /\ client' = [client EXCEPT ![w] = FALSE]
    /\ UNCHANGED <<db, ray>>

\* lifespan: build the backend, then recover.
Start(w) ==
    /\ bg[w].phase = "down"
    /\ bg' = [bg EXCEPT ![w].phase = "recover"]
    /\ \E c \in BOOLEAN :
          /\ c \/ "connect" \in Faults
          /\ client' = [client EXCEPT ![w] = c]
    /\ UNCHANGED <<db, ray, api, crashes>>

\* The job's latest active attempt has a Ray id, or the job is given up.
RecoverPick(w) ==
    /\ bg[w].phase = "recover" /\ bg[w].pc = "next"
    /\ \E i \in bg[w].todo :
          \/ \E n \in Nums :
                /\ LatestActive(i.j, n)
                /\ rid[<<i.j, n>>]
                /\ BgTake(w, i, [i EXCEPT !.n = n, !.st = att[<<i.j, n>>]], "UNKNOWN", "ask")
          \/ /\ \A n \in Nums : LatestActive(i.j, n) => ~rid[<<i.j, n>>]
             /\ BgTake(w, i, i, "UNKNOWN", "forget")
    /\ UNCHANGED <<db, ray, api, client, crashes>>

\* LOST without an event; also the last statement of the except branch.
RecoverForget(w) ==
    /\ bg[w].pc = "forget"
    /\ \E x \in bg[w].cur : job' = [job EXCEPT ![x.j] = "LOST"]
    /\ BgGoto(w, "next")
    /\ UNCHANGED <<att, rid, ray, timeline, api, client, crashes>>

AfterRecovery(x, m) ==
    IF x.jst = "CANCELLING" THEN "cancelJob"
    ELSE IF m \in Outcomes THEN "attempt"
    ELSE IF m = "RUNNING" THEN "resumeJob"
    ELSE "next"

RecoverAsk(w) ==
    /\ bg[w].pc = "ask"
    /\ \E x \in bg[w].cur :
          \/ "status" \in Faults /\ client[w] /\ BgGoto(w, "lostStop")
          \/ LET m == Polled(w, <<x.j, x.n>>) IN BgTake(w, x, x, m, AfterRecovery(x, m))
    /\ UNCHANGED <<db, ray, api, client, crashes>>

RecoverCancelJob(w) ==
    /\ bg[w].pc = "cancelJob"
    /\ \E x \in bg[w].cur : job' = [job EXCEPT ![x.j] = "CANCELLED"]
    /\ BgGoto(w, "cancelAttempt")
    /\ UNCHANGED <<att, rid, ray, timeline, api, client, crashes>>

RecoverCancelAttempt(w) ==
    /\ bg[w].pc = "cancelAttempt"
    /\ \E x \in bg[w].cur : att' = [att EXCEPT ![<<x.j, x.n>>] = "CANCELLED"]
    /\ BgGoto(w, "next")
    /\ UNCHANGED <<job, rid, ray, timeline, api, client, crashes>>

ResumeJob(w) ==
    /\ bg[w].pc = "resumeJob"
    /\ \E x \in bg[w].cur : job' = [job EXCEPT ![x.j] = "RUNNING"]
    /\ BgGoto(w, "resumeAttempt")
    /\ UNCHANGED <<att, rid, ray, timeline, api, client, crashes>>

ResumeAttempt(w) ==
    /\ bg[w].pc = "resumeAttempt"
    /\ \E x \in bg[w].cur : att' = [att EXCEPT ![<<x.j, x.n>>] = "RUNNING"]
    /\ BgGoto(w, "next")
    /\ UNCHANGED <<job, rid, ray, timeline, api, client, crashes>>

Sync(w) ==
    \/ StartPass(w) \/ Scan(w) \/ SyncAsk(w) \/ UpdateAttempt(w) \/ FinalizeJob(w)
    \/ FinalEvent(w) \/ PromoteJob(w) \/ RequeueJob(w)
    \/ LostStop(w) \/ LostAttempt(w) \/ LostJob(w) \/ LostEvent(w)
    \/ ZombieAsk(w)
    \/ TimeoutStop(w) \/ TimeoutAttempt(w) \/ TimeoutJob(w) \/ TimeoutEvent(w)

Recover(w) ==
    \/ Start(w) \/ RecoverPick(w) \/ RecoverForget(w) \/ RecoverAsk(w)
    \/ RecoverCancelJob(w) \/ RecoverCancelAttempt(w) \/ ResumeJob(w) \/ ResumeAttempt(w)

-----------------------------------------------------------------------------
Next ==
    \/ \E w \in Workers : Accept(w) \/ Handle(w) \/ Sync(w) \/ Recover(w) \/ Crash(w)
    \/ \E a \in Attempts : RayStart(a) \/ RayFinish(a)

Spec == Init /\ [][Next]_vars

(***************************************************************************)
(* Fairness.  A process that is up keeps running both threads (the event   *)
(* loop and the helper thread are scheduled by the interpreter and the     *)
(* kernel, and the container's restart policy brings a dead process back); *)
(* Ray starts what it has queued and ends what it was told to stop.        *)
(* Nobody has to send requests, and a Ray job may run for ever.            *)
(***************************************************************************)
ThreadFairness ==
    /\ \A w \in Workers : WF_vars(Handle(w)) /\ WF_vars(Sync(w) \/ Recover(w))
    /\ \A a \in Attempts : /\ WF_vars(RayStart(a))
                           /\ WF_vars(ray[a] = "STOPPING" /\ RayFinish(a))

\* A call to stop_job that is made again and again succeeds some day.
StopFairness == \A w \in Workers : SF_vars(ZombieAsk(w) /\ ray' # ray)

\* check_timeouts gets its turn (JOB_TIMEOUT_INTERVAL passes), and an attempt
\* that keeps running is overdue some day.
TimeoutFairness ==
    \A w \in Workers :
        /\ SF_vars(StartPass(w) /\ bg'[w].phase = "timeouts")
        /\ SF_vars(Scan(w) /\ bg[w].phase = "timeouts" /\ bg'[w].todo = TimeoutRows)

FairSpec == Spec /\ ThreadFairness /\ StopFairness /\ TimeoutFairness

-----------------------------------------------------------------------------
(* Properties *)

\* A job is SUCCEEDED only if Ray completed one of its attempts, whatever
\* crashes, restarts, late polls and duplicate synchronisers did in between.
SucceededIsReal ==
    \A j \in Jobs : job[j] = "SUCCEEDED" => \E n \in Nums : ray[<<j, n>>] = "SUCCEEDED"

\* The outcome recorded for an attempt that has a Ray id is the one Ray holds.
OutcomeIsReal ==
    \A a \in Attempts :
        /\ att[a] = "SUCCEEDED" => ray[a] = "SUCCEEDED"
        /\ att[a] = "FAILED" /\ rid[a] => ray[a] = "FAILED"

\* Without crashes and lost replies, every Ray job that is still working is
\* reachable from job_attempts: its id is recorded or is just being recorded.
NoUntrackedRayJob ==
    \A a \in Attempts :
        ray[a] \in RayLive =>
            \/ rid[a]
            \/ \E w \in Workers : api[w].pc = "recordAttempt" /\ a \in api[w].on

\* One process that never crashes keeps at most one attempt of a job QUEUED or
\* RUNNING: retry starts an attempt only after the synchroniser is done with
\* the one before.
OneActiveAttempt ==
    \A a, b \in Attempts :
        a[1] = b[1] /\ att[a] \in Active /\ att[b] \in Active => a = b

\* ... and, if Ray can always be told to stop, at most one Ray job of a job works.
OneLiveRayJob ==
    \A a, b \in Attempts :
        a[1] = b[1] /\ ray[a] \in RayLive /\ ray[b] \in RayLive => a = b

\* No attempt is handed to Ray twice, even when two processes retry one job at
\* the same time and number the attempt alike.
NeverResubmitted ==
    [][\A a \in Attempts : ray[a] # "ABSENT" /\ ray'[a] = "PENDING" => ray[a] = "PENDING"]_vars

Quiet == \A w \in Workers : api[w] = NoRequest /\ bg[w].cur = {}

\* When no thread is in the middle of a job, the status of a finished job has
\* been announced in its timeline.
TerminalAnnounced ==
    Quiet => \A j \in Jobs : job[j] \in Terminal => job[j] \in timeline[j]

\* A Ray job that outlives an attempt recorded TIMED_OUT or LOST is stopped.
ZombiesReaped ==
    \A a \in Attempts :
        (att[a] \in {"TIMED_OUT", "LOST"} /\ rid[a] /\ ray[a] \in RayLive)
            ~> (ray[a] \notin RayLive)

\* A Ray job that hangs under a RUNNING job is stopped unless the job is cancelled.
RunawaysStopped ==
    \A a \in Attempts :
        (job[a[1]] = "RUNNING" /\ att[a] = "RUNNING" /\ rid[a] /\ ray[a] = "RUNNING")
            ~> (ray[a] # "RUNNING" \/ job[a[1]] \in {"CANCELLING", "CANCELLED"})

-----------------------------------------------------------------------------
(* What tests and documents say and the code does not keep *)

\* tests/unit/test_job_state_machine.py: "SUCCEEDED" to "RUNNING" is invalid.
SucceededNeverRuns ==
    [][\A j \in Jobs : job[j] = "SUCCEEDED" => job'[j] # "RUNNING"]_vars

\* No Ray job works on for ever for a job that was cancelled.
CancelledLeavesRay ==
    \A j \in Jobs : (job[j] = "CANCELLED" /\ Quiet)
        ~> (job[j] # "CANCELLED" \/ \A n \in Nums : ray[<<j, n>>] # "RUNNING")
=============================================================================
