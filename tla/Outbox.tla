------------------------------- MODULE Outbox -------------------------------
(***************************************************************************)
(* The outbox of LakeMindServer (outbox/worker.py, services/               *)
(* event_service.py, the _outbox_loop of app.py): requests enqueue rows,   *)
(* every server process polls them with process_batch and hands each row   *)
(* to a handler, and the handler inserts one entry into event_stream.      *)
(*                                                                         *)
(* Every statement runs in a transaction of its own.  Two of them are cut  *)
(* in two steps because what lies between matters: an INSERT takes its     *)
(* created_at or its sequence number first and becomes visible when it     *)
(* commits, and the rows of SELECT ... FOR UPDATE SKIP LOCKED are locked   *)
(* until db.execute commits, which it does before the first row is looked  *)
(* at.                                                                     *)
(*                                                                         *)
(* Left out: payloads, scopes and event types (a row either has a handler  *)
(* or has none), expiry of the stream (nothing calls cleanup_expired) and  *)
(* failures of PostgreSQL other than those of the handler's INSERT.        *)
(***************************************************************************)
EXTENDS Integers, FiniteSets

CONSTANTS
    Events,      \* outbox rows that may be enqueued
    Unhandled,   \* rows whose event_type starts with no registered prefix
    Workers,     \* server processes, each with one _outbox_loop
    BatchSize,   \* OUTBOX_BATCH_SIZE
    Faults,      \* "emit": the handler raises, its INSERT may be committed or not
    MaxCrashes   \* bound on the number of process crashes

ASSUME OutboxAssumption ==
    /\ Unhandled \subseteq Events
    /\ BatchSize \in Nat \ {0}
    /\ Faults \subseteq {"emit"}
    /\ MaxCrashes \in Nat

VARIABLES
    outbox,   \* outbox.status per row; "INSERTING" until the INSERT commits
    created,  \* outbox.created_at, 0 before
    visible,  \* when the INSERT committed, 0 before
    clock,    \* PostgreSQL's now()
    worker,   \* per process: its outbox thread
    nextval,  \* last value of event_stream_sequence_seq
    stream,   \* committed rows of event_stream
    crashes   \* process crashes so far

vars == <<outbox, created, visible, clock, worker, nextval, stream, crashes>>
table == <<outbox, created, visible, clock>>

Status == {"ABSENT", "INSERTING", "PENDING", "PROCESSING", "DONE", "FAILED"}
Pc     == {"idle", "locked", "next", "handle", "commit", "done", "reject", "raised"}

\* rows are the rows of the batch still to visit, cur the one being handled, at
\* the sequence number drawn for it.
WorkerState == [pc : Pc, rows : SUBSET Events, cur : SUBSET Events, at : Nat]

\* An event_stream row: its sequence, the outbox row it stands for, its writer.
Entry == [at : Nat, ev : Events, by : Workers]

TypeOK ==
    /\ outbox \in [Events -> Status]
    /\ created \in [Events -> Nat]
    /\ visible \in [Events -> Nat]
    /\ clock \in Nat
    /\ worker \in [Workers -> WorkerState]
    /\ nextval \in Nat
    /\ stream \subseteq Entry
    /\ crashes \in 0 .. MaxCrashes

Idle == [pc |-> "idle", rows |-> {}, cur |-> {}, at |-> 0]

Init ==
    /\ outbox = [e \in Events |-> "ABSENT"]
    /\ created = [e \in Events |-> 0]
    /\ visible = [e \in Events |-> 0]
    /\ clock = 0
    /\ worker = [w \in Workers |-> Idle]
    /\ nextval = 0
    /\ stream = {}
    /\ crashes = 0

-----------------------------------------------------------------------------
(* enqueue: the INSERT, and its commit *)

Enqueue(e) ==
    /\ outbox[e] = "ABSENT"
    /\ outbox' = [outbox EXCEPT ![e] = "INSERTING"]
    /\ clock' = clock + 1
    /\ created' = [created EXCEPT ![e] = clock + 1]
    /\ UNCHANGED <<visible, worker, nextval, stream, crashes>>

EnqueueCommit(e) ==
    /\ outbox[e] = "INSERTING"
    /\ outbox' = [outbox EXCEPT ![e] = "PENDING"]
    /\ clock' = clock + 1
    /\ visible' = [visible EXCEPT ![e] = clock + 1]
    /\ UNCHANGED <<created, worker, nextval, stream, crashes>>

-----------------------------------------------------------------------------
(* process_batch *)

\* Rows that the SELECT of another process holds.
Locked(w) == UNION {worker[v].rows : v \in {u \in Workers \ {w} : worker[u].pc = "locked"}}

Selectable(w) == {e \in Events : outbox[e] = "PENDING"} \ Locked(w)

\* ORDER BY created_at ASC LIMIT batch_size.
IsBatch(rows, from) ==
    /\ rows \subseteq from
    /\ \A e \in rows, f \in from \ rows : created[e] < created[f]
    /\ rows = from \/ Cardinality(rows) = BatchSize
    /\ Cardinality(rows) <= BatchSize

SelectNewest(w) ==                                                \* mutant: ORDER BY ... DESC
    /\ worker[w].pc = "idle"
    /\ \E rows \in (SUBSET Selectable(w)) \ {{}} :
          /\ \A e \in rows, f \in Selectable(w) \ rows : created[e] > created[f]
          /\ rows = Selectable(w) \/ Cardinality(rows) = BatchSize
          /\ Cardinality(rows) <= BatchSize
          /\ worker' = [worker EXCEPT ![w].pc = "locked", ![w].rows = rows]
    /\ UNCHANGED <<table, nextval, stream, crashes>>

\* next_retry_at is NULL in every row, see Raised.
Select(w) ==
    /\ worker[w].pc = "idle"
    /\ \E rows \in (SUBSET Selectable(w)) \ {{}} :
          /\ IsBatch(rows, Selectable(w))
          /\ worker' = [worker EXCEPT ![w].pc = "locked", ![w].rows = rows]
    /\ UNCHANGED <<table, nextval, stream, crashes>>

Unlock(w) ==
    /\ worker[w].pc = "locked"
    /\ worker' = [worker EXCEPT ![w].pc = "next"]
    /\ UNCHANGED <<table, nextval, stream, crashes>>

First(w, e) == e \in worker[w].rows /\ \A f \in worker[w].rows : created[e] <= created[f]

VisitWithoutMark(w) ==                                            \* mutant: status left PENDING
    /\ worker[w].pc = "next"
    /\ \E e \in Events :
          /\ First(w, e)
          /\ worker' = [worker EXCEPT ![w].pc = IF e \in Unhandled THEN "reject" ELSE "handle",
                                      ![w].rows = @ \ {e}, ![w].cur = {e}]
    /\ UNCHANGED <<table, nextval, stream, crashes>>

\* The UPDATE looks at the status, the code after it does not look at how many
\* rows were updated.
Visit(w) ==
    /\ worker[w].pc = "next"
    /\ \E e \in Events :
          /\ First(w, e)
          /\ outbox' = IF outbox[e] = "PENDING" THEN [outbox EXCEPT ![e] = "PROCESSING"] ELSE outbox
          /\ worker' = [worker EXCEPT ![w].pc = IF e \in Unhandled THEN "reject" ELSE "handle",
                                      ![w].rows = @ \ {e}, ![w].cur = {e}]
    /\ UNCHANGED <<created, visible, clock, nextval, stream, crashes>>

EndBatch(w) ==
    /\ worker[w].pc = "next" /\ worker[w].rows = {}
    /\ worker' = [worker EXCEPT ![w] = Idle]
    /\ UNCHANGED <<table, nextval, stream, crashes>>

Leave(w) == worker' = [worker EXCEPT ![w].pc = "next", ![w].cur = {}, ![w].at = 0]

Reject(w) ==
    /\ worker[w].pc = "reject"
    /\ \E e \in worker[w].cur : outbox' = [outbox EXCEPT ![e] = "FAILED"]
    /\ Leave(w)
    /\ UNCHANGED <<created, visible, clock, nextval, stream, crashes>>

EmitNothing(w) ==                                                 \* mutant: the handler is not called
    /\ worker[w].pc = "handle"
    /\ worker' = [worker EXCEPT ![w].pc = "done"]
    /\ UNCHANGED <<table, nextval, stream, crashes>>

\* EventService.emit: the INSERT draws the sequence number, ...
Emit(w) ==
    /\ worker[w].pc = "handle"
    /\ \/ /\ nextval' = nextval + 1
          /\ worker' = [worker EXCEPT ![w].pc = "commit", ![w].at = nextval + 1]
       \/ /\ "emit" \in Faults
          /\ worker' = [worker EXCEPT ![w].pc = "raised"]
          /\ nextval' = nextval
    /\ UNCHANGED <<table, stream, crashes>>

\* ... and its commit makes the entry visible; the reply may be an error.
EmitCommit(w) ==
    /\ worker[w].pc = "commit"
    /\ \E e \in worker[w].cur, pc \in {"done", "raised"} :
          /\ pc = "raised" => "emit" \in Faults
          /\ worker' = [worker EXCEPT ![w].pc = pc]
          /\ \/ stream' = stream \cup {[at |-> worker[w].at, ev |-> e, by |-> w]}
             \/ pc = "raised" /\ stream' = stream
    /\ UNCHANGED <<table, nextval, crashes>>

MarkDone(w) ==
    /\ worker[w].pc = "done"
    /\ \E e \in worker[w].cur : outbox' = [outbox EXCEPT ![e] = "DONE"]
    /\ Leave(w)
    /\ UNCHANGED <<created, visible, clock, nextval, stream, crashes>>

MarkDoneAnyway(w) ==                                              \* mutant: the except branch says DONE
    /\ worker[w].pc = "raised"
    /\ \E e \in worker[w].cur : outbox' = [outbox EXCEPT ![e] = "DONE"]
    /\ worker' = [worker EXCEPT ![w] = Idle]
    /\ UNCHANGED <<created, visible, clock, nextval, stream, crashes>>

MarkPending(w) ==                                                 \* mutant: the row is retried
    /\ worker[w].pc = "raised"
    /\ \E e \in worker[w].cur : outbox' = [outbox EXCEPT ![e] = "PENDING"]
    /\ Leave(w)
    /\ UNCHANGED <<created, visible, clock, nextval, stream, crashes>>

(***************************************************************************)
(* The except branch.  retry_count is 0 and max_retries 5, so it comes to  *)
(* the UPDATE that puts the row back to PENDING; that UPDATE sets          *)
(* next_retry_at, a TIMESTAMPTZ, to a float, which PostgreSQL refuses.     *)
(* The exception ends process_batch: the row stays PROCESSING and the rest *)
(* of the batch PENDING.                                                   *)
(***************************************************************************)
Raised(w) ==
    /\ worker[w].pc = "raised"
    /\ worker' = [worker EXCEPT ![w] = Idle]
    /\ UNCHANGED <<table, nextval, stream, crashes>>

ProcessBatch(w) ==
    \/ Select(w) \/ Unlock(w) \/ Visit(w) \/ EndBatch(w) \/ Reject(w)
    \/ Emit(w) \/ EmitCommit(w) \/ MarkDone(w) \/ Raised(w)

\* A process dies, its open transactions are rolled back, and it starts anew.
Crash(w) ==
    /\ crashes < MaxCrashes
    /\ worker[w] # Idle
    /\ crashes' = crashes + 1
    /\ worker' = [worker EXCEPT ![w] = Idle]
    /\ UNCHANGED <<table, nextval, stream>>

Next ==
    \/ \E e \in Events : Enqueue(e) \/ EnqueueCommit(e)
    \/ \E w \in Workers : ProcessBatch(w) \/ Crash(w)

Spec == Init /\ [][Next]_vars

\* An INSERT commits, and every process goes on polling.
Fairness ==
    /\ \A e \in Events : WF_vars(EnqueueCommit(e))
    /\ \A w \in Workers : WF_vars(ProcessBatch(w))

FairSpec == Spec /\ Fairness

-----------------------------------------------------------------------------
(* Properties *)

Published(e) == \E x \in stream : x.ev = e

\* Whatever two processes, a crash or an ambiguous commit do to a row, it is DONE
\* only if its event is in the stream, and FAILED only if it has no handler.
DoneIsPublished ==
    \A e \in Events :
        /\ outbox[e] = "DONE" => Published(e)
        /\ outbox[e] = "FAILED" => e \in Unhandled

\* One process publishes an event at most once, across its crashes and restarts:
\* a row is marked PROCESSING before it is handled and never goes back.
PublishedOncePerWorker ==
    \A x, y \in stream : x.ev = y.ev /\ x.by = y.by => x = y

\* A row that fails, or is poisoned by a crash, does not hold up the others:
\* every row leaves PENDING.
NothingStaysPending == \A e \in Events : outbox[e] = "PENDING" ~> outbox[e] # "PENDING"

\* A row that has a handler is published, unless the handler raises while it is
\* in hand or a process crashes.
Raises(e) == \E w \in Workers : worker[w].pc = "raised" /\ e \in worker[w].cur
PublishedUnlessFailed ==
    \A e \in Events \ Unhandled :
        outbox[e] = "PENDING" ~> Published(e) \/ Raises(e) \/ crashes > 0

\* One process publishes an event log, see EventLog: no event twice, and no event
\* after one whose enqueue began when its own was over, whatever fails.
LogOf == {[at |-> x.at, ev |-> x.ev] : x \in stream}
Log == INSTANCE EventLog WITH log <- LogOf
PublishesALog == Log!Spec

-----------------------------------------------------------------------------
(* What documents say and the code does not keep *)

\* WP2-T16: the worker executes idempotently.
PublishedOnce == \A x, y \in stream : x.ev = y.ev => x = y

\* operation-events.md: the outbox guarantees delivery at least once.
AtLeastOnce == \A e \in Events \ Unhandled : outbox[e] = "PENDING" ~> Published(e)
=============================================================================
