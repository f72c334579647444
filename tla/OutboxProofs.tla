---------------------------- MODULE OutboxProofs ----------------------------
(***************************************************************************)
(* Proofs about Outbox, for any set of rows and server processes, any      *)
(* batch size, any faults and any number of crashes.                       *)
(*                                                                         *)
(* A row is Taken from its first visit on, and never goes back.  From this *)
(* follow, layer by layer: what a process still has to publish it has not  *)
(* published (OnceInv); what it reports it has published (DoneInv); and,   *)
(* if there is one process only, that it takes the rows in an order that   *)
(* respects their enqueues (OrderInv), which is what the refinement of     *)
(* EventLog needs.                                                         *)
(***************************************************************************)
EXTENDS Outbox, TLAPS

Taken(e) == outbox[e] \in {"PROCESSING", "DONE", "FAILED"}

Busy == {"handle", "commit", "done", "reject", "raised"}

\* A process handles one row at a time, and one it has removed from its batch.
OneAtATime ==
    \A w \in Workers :
        /\ worker[w].pc \in Busy => \E e \in Events : worker[w].cur = {e}
        /\ worker[w].pc \notin Busy => worker[w].cur = {}
        /\ worker[w].pc = "idle" => worker[w].rows = {}
        /\ worker[w].cur \cap worker[w].rows = {}

\* Rows are selected after their INSERT committed, and published once taken.
Enqueued ==
    /\ \A w \in Workers : /\ \A e \in worker[w].rows : outbox[e] = "PENDING" \/ Taken(e)
                          /\ \A e \in worker[w].cur : Taken(e)
    /\ \A x \in stream : Taken(x.ev)

TInv == TypeOK /\ OneAtATime /\ Enqueued

\* The process w has not published e.
Unsent(w, e) == \A x \in stream : ~(x.ev = e /\ x.by = w)

OnceInv ==
    /\ PublishedOncePerWorker
    /\ \A w \in Workers :
          /\ \A e \in worker[w].rows : Unsent(w, e)
          /\ worker[w].pc \in {"handle", "commit"} => \A e \in worker[w].cur : Unsent(w, e)

DoneInv ==
    /\ DoneIsPublished
    /\ \A w \in Workers, e \in Events :
          e \in worker[w].cur =>
              /\ worker[w].pc = "done" => Published(e)
              /\ worker[w].pc = "reject" => e \in Unhandled

OneProcess == \A v, w \in Workers : v = w

\* The stamps of a row and its status.
Stamped ==
    \A e \in Events :
        /\ outbox[e] = "ABSENT" <=> created[e] = 0
        /\ outbox[e] \in {"ABSENT", "INSERTING"} <=> visible[e] = 0
        /\ created[e] <= clock /\ visible[e] <= clock

\* The numbers of the stream, and the one that a process has drawn.
Numbered ==
    /\ \A y \in stream : y.at <= nextval
    /\ \A w \in Workers : worker[w].pc = "commit" =>
           worker[w].at <= nextval /\ \A y \in stream : y.at < worker[w].at

\* The enqueue of e was over when that of f began.
Precedes(e, f) == visible[e] > 0 /\ visible[e] < created[f]

\* The rows are taken in an order that respects Precedes.
Respected ==
    /\ \A e, f \in Events : Taken(f) /\ Precedes(e, f) => Taken(e)
    /\ \A w \in Workers :
          /\ \A e \in worker[w].rows : outbox[e] = "PENDING"
          /\ \A e \in Events, f \in worker[w].rows :
                Precedes(e, f) /\ outbox[e] = "PENDING" => e \in worker[w].rows
          /\ worker[w].pc \in {"handle", "commit"} =>
                \A e \in worker[w].cur, y \in stream : ~Precedes(e, y.ev)

OrderInv == Stamped /\ Numbered /\ Respected

-----------------------------------------------------------------------------
(* Layer 1: types and the life of a batch *)

\* The initial state has the first layer.
LEMMA TypeInit == Init => TInv
BY OutboxAssumption
   DEF Init, TInv, TypeOK, OneAtATime, Enqueued, Taken, Busy, Idle, Status, Pc, WorkerState

\* Every step keeps the first layer.
LEMMA TypeStep == TInv /\ [Next]_vars => TInv'
<1> DEFINE Goal == TInv'
<1> SUFFICES ASSUME TInv, [Next]_vars PROVE Goal
  OBVIOUS
<1> USE DEF TInv, TypeOK, OneAtATime, Enqueued, Taken, Busy, Status, Pc, WorkerState
<1>1. ASSUME NEW e \in Events, Enqueue(e) PROVE Goal
  BY <1>1 DEF Enqueue, table
<1>2. ASSUME NEW e \in Events, EnqueueCommit(e) PROVE Goal
  BY <1>2 DEF EnqueueCommit, table
<1>3. ASSUME NEW w \in Workers, Select(w) PROVE Goal
  BY <1>3 DEF Select, IsBatch, Selectable, table
<1>4. ASSUME NEW w \in Workers, Unlock(w) PROVE Goal
  BY <1>4 DEF Unlock, table, Idle, Leave
<1>5. ASSUME NEW w \in Workers, Visit(w) PROVE Goal
  BY <1>5 DEF Visit, First
<1>6. ASSUME NEW w \in Workers, EndBatch(w) PROVE Goal
  BY <1>6 DEF EndBatch, table, Idle, Leave
<1>7. ASSUME NEW w \in Workers, Reject(w) PROVE Goal
  BY <1>7 DEF Reject, table, Idle, Leave
<1>8. ASSUME NEW w \in Workers, Emit(w) PROVE Goal
  <2>1. ASSUME NEW pc \in {"commit", "raised"}, NEW n \in Nat,
               worker' = [worker EXCEPT ![w].pc = pc, ![w].at = n]
        PROVE  worker' \in [Workers -> WorkerState] /\ OneAtATime'
    <3>1. worker[w] \in WorkerState /\ worker[w].pc \in Busy
      BY <1>8 DEF Emit
    <3>2. worker'[w] = [worker[w] EXCEPT !.pc = pc, !.at = n]
      BY <2>1
    <3>3. \A v \in Workers : v # w => worker'[v] = worker[v]
      BY <2>1
    <3>4. worker'[w] \in WorkerState
      BY <3>1, <3>2, <2>1
    <3>5. worker' \in [Workers -> WorkerState]
      <4>1. worker' = [v \in Workers |-> worker'[v]]
        BY <2>1
      <4>2. \A v \in Workers : worker'[v] \in WorkerState
        BY <3>3, <3>4
      <4>3. QED
        BY ONLY <4>1, <4>2
    <3>6. /\ worker'[w].pc \in Busy
          /\ worker'[w].rows = worker[w].rows /\ worker'[w].cur = worker[w].cur
      BY <3>1, <3>2
    <3>7. QED
      BY <3>1, <3>3, <3>5, <3>6
  <2>2. worker' = [worker EXCEPT ![w].pc = "raised"]
        => worker' = [worker EXCEPT ![w].pc = "raised", ![w].at = worker[w].at]
    OBVIOUS
  <2>3. worker' \in [Workers -> WorkerState] /\ OneAtATime' /\ nextval' \in Nat
    BY <1>8, <2>1, <2>2 DEF Emit
  <2>4. QED
    BY <1>8, <2>3 DEF Emit, table
<1>9. ASSUME NEW w \in Workers, EmitCommit(w) PROVE Goal
  BY <1>9 DEF EmitCommit, Entry, table
<1>10. ASSUME NEW w \in Workers, MarkDone(w) PROVE Goal
  BY <1>10 DEF MarkDone, table, Idle, Leave
<1>11. ASSUME NEW w \in Workers, Raised(w) PROVE Goal
  BY <1>11 DEF Raised, table, Idle, Leave
<1>12. ASSUME NEW w \in Workers, Crash(w) PROVE Goal
  BY <1>12, OutboxAssumption DEF Crash, Idle, table
<1>13. CASE UNCHANGED vars
  BY <1>13 DEF vars
<1>14. QED
  BY <1>1, <1>2, <1>3, <1>4, <1>5, <1>6, <1>7, <1>8, <1>9, <1>10, <1>11, <1>12, <1>13 DEF Next, ProcessBatch

\* Every table, process and stream is well-formed in every reachable state.
THEOREM OutboxTypeCorrect == Spec => []TypeOK
<1>1. Spec => []TInv
  BY TypeInit, TypeStep, PTL DEF Spec
<1>2. TInv => TypeOK
  BY DEF TInv
<1>3. QED
  BY <1>1, <1>2, PTL

-----------------------------------------------------------------------------
(* Layer 2: what is published once, what is reported *)

\* Every step keeps the second layer: what is selected was never taken, so it was
\* never published, and what is published leaves the hands of its process.
LEMMA OnceStep == TInv /\ TInv' /\ OnceInv /\ [Next]_vars => OnceInv'
<1> DEFINE Goal == OnceInv'
<1> SUFFICES ASSUME TInv, TInv', OnceInv, [Next]_vars PROVE Goal
  OBVIOUS
<1> USE DEF OnceInv, PublishedOncePerWorker, Unsent
<1>0. worker \in [Workers -> WorkerState] /\ worker' \in [Workers -> WorkerState]
  BY DEF TInv, TypeOK
<1>1. ASSUME NEW e \in Events, Enqueue(e) PROVE Goal
  BY <1>1 DEF Enqueue
<1>2. ASSUME NEW e \in Events, EnqueueCommit(e) PROVE Goal
  BY <1>2 DEF EnqueueCommit
<1>3. ASSUME NEW w \in Workers, Select(w) PROVE Goal
  BY <1>3, <1>0 DEF Select, IsBatch, Selectable, TInv, Enqueued, Taken, WorkerState
<1>4. ASSUME NEW w \in Workers, Unlock(w) PROVE Goal
  BY <1>4, <1>0 DEF Unlock, WorkerState
<1>5. ASSUME NEW w \in Workers, Visit(w) PROVE Goal
  BY <1>5, <1>0 DEF Visit, First, WorkerState
<1>6. ASSUME NEW w \in Workers, EndBatch(w) PROVE Goal
  BY <1>6, <1>0 DEF EndBatch, Idle, WorkerState
<1>7. ASSUME NEW w \in Workers, Reject(w) PROVE Goal
  BY <1>7, <1>0 DEF Reject, Leave, WorkerState
<1>8. ASSUME NEW w \in Workers, Emit(w) PROVE Goal
  BY <1>8, <1>0 DEF Emit, WorkerState
<1>9. ASSUME NEW w \in Workers, EmitCommit(w) PROVE Goal
  BY <1>9, <1>0 DEF EmitCommit, TInv, OneAtATime, Busy, WorkerState
<1>10. ASSUME NEW w \in Workers, MarkDone(w) PROVE Goal
  BY <1>10, <1>0 DEF MarkDone, Leave, WorkerState
<1>11. ASSUME NEW w \in Workers, Raised(w) PROVE Goal
  BY <1>11, <1>0 DEF Raised, Idle, WorkerState
<1>12. ASSUME NEW w \in Workers, Crash(w) PROVE Goal
  BY <1>12, <1>0 DEF Crash, Idle, WorkerState
<1>13. CASE UNCHANGED vars
  BY <1>13 DEF vars
<1>14. QED
  BY <1>1, <1>2, <1>3, <1>4, <1>5, <1>6, <1>7, <1>8, <1>9, <1>10, <1>11, <1>12, <1>13 DEF Next, ProcessBatch

\* Every step keeps what is reported: DONE is written by a process whose entry
\* was committed, FAILED by one that found no handler.
LEMMA DoneStep == TInv /\ TInv' /\ DoneInv /\ [Next]_vars => DoneInv'
<1> DEFINE Goal == DoneInv'
<1> SUFFICES ASSUME TInv, TInv', DoneInv, [Next]_vars PROVE Goal
  OBVIOUS
<1> USE DEF DoneInv, DoneIsPublished, Published
<1>0. worker \in [Workers -> WorkerState] /\ outbox \in [Events -> Status]
  BY DEF TInv, TypeOK
<1>1. ASSUME NEW e \in Events, Enqueue(e) PROVE Goal
  BY <1>1, <1>0 DEF Enqueue
<1>2. ASSUME NEW e \in Events, EnqueueCommit(e) PROVE Goal
  BY <1>2, <1>0 DEF EnqueueCommit
<1>3. ASSUME NEW w \in Workers, Select(w) PROVE Goal
  BY <1>3, <1>0 DEF Select, TInv, OneAtATime, Busy, WorkerState
<1>4. ASSUME NEW w \in Workers, Unlock(w) PROVE Goal
  BY <1>4, <1>0 DEF Unlock, table, WorkerState, Status
<1>5. ASSUME NEW w \in Workers, Visit(w) PROVE Goal
  BY <1>5, <1>0 DEF Visit, First, TInv, OneAtATime, Busy, WorkerState
<1>6. ASSUME NEW w \in Workers, EndBatch(w) PROVE Goal
  BY <1>6, <1>0 DEF EndBatch, table, Idle, WorkerState, Status
<1>7. ASSUME NEW w \in Workers, Reject(w) PROVE Goal
  BY <1>7, <1>0 DEF Reject, Leave, WorkerState, Status
<1>8. ASSUME NEW w \in Workers, Emit(w) PROVE Goal
  BY <1>8, <1>0 DEF Emit, table, WorkerState, Status
<1>9. ASSUME NEW w \in Workers, EmitCommit(w) PROVE Goal
  <2>1. PICK e \in worker[w].cur, pc \in {"done", "raised"} :
           /\ worker' = [worker EXCEPT ![w].pc = pc]
           /\ \/ stream' = stream \cup {[at |-> worker[w].at, ev |-> e, by |-> w]}
              \/ pc = "raised" /\ stream' = stream
    BY <1>9 DEF EmitCommit
  <2>2. worker[w].pc = "commit" /\ outbox' = outbox /\ worker[w].cur = {e}
    BY <1>9, <2>1 DEF EmitCommit, table, TInv, OneAtATime, Busy
  <2>3. /\ stream \subseteq stream'
        /\ pc = "done" => \E x \in stream' : x.ev = e
    <3> DEFINE new == [at |-> worker[w].at, ev |-> e, by |-> w]
    <3>1. new.ev = e
      OBVIOUS
    <3>2. QED
      BY <2>1, <3>1
  <2>4. /\ worker'[w].pc = pc /\ worker'[w].cur = worker[w].cur
        /\ \A v \in Workers : v # w => worker'[v] = worker[v]
    BY <1>0, <2>1 DEF WorkerState
  <2>5. QED
    BY <2>1, <2>2, <2>3, <2>4
<1>10. ASSUME NEW w \in Workers, MarkDone(w) PROVE Goal
  BY <1>10, <1>0 DEF MarkDone, Leave, WorkerState, Status
<1>11. ASSUME NEW w \in Workers, Raised(w) PROVE Goal
  BY <1>11, <1>0 DEF Raised, table, Idle, WorkerState, Status
<1>12. ASSUME NEW w \in Workers, Crash(w) PROVE Goal
  BY <1>12, <1>0 DEF Crash, table, Idle, WorkerState, Status
<1>13. CASE UNCHANGED vars
  BY <1>13 DEF vars
<1>14. QED
  BY <1>1, <1>2, <1>3, <1>4, <1>5, <1>6, <1>7, <1>8, <1>9, <1>10, <1>11, <1>12, <1>13 DEF Next, ProcessBatch

\* The initial state has the second layer.
LEMMA LayersInit == Init => OnceInv /\ DoneInv
BY DEF Init, OnceInv, DoneInv, PublishedOncePerWorker, DoneIsPublished, Unsent, Idle

\* No crash, ambiguous commit or second process makes a row DONE whose event is
\* not in the stream, or FAILED when it has a handler.
THEOREM NoSilentLoss == Spec => []DoneIsPublished
<1>1. Spec => [](TInv /\ DoneInv)
  BY TypeInit, TypeStep, LayersInit, DoneStep, PTL DEF Spec
<1>2. TInv /\ DoneInv => DoneIsPublished
  BY DEF DoneInv
<1>3. QED
  BY <1>1, <1>2, PTL

\* A server process publishes an event at most once, whatever crashes.
THEOREM OncePerWorker == Spec => []PublishedOncePerWorker
<1>1. Spec => [](TInv /\ OnceInv)
  BY TypeInit, TypeStep, LayersInit, OnceStep, PTL DEF Spec
<1>2. TInv /\ OnceInv => PublishedOncePerWorker
  BY DEF OnceInv
<1>3. QED
  BY <1>1, <1>2, PTL

-----------------------------------------------------------------------------
(* Layer 3: the order in which one process publishes *)

\* The initial state has the third layer.
LEMMA OrderInit == Init => OrderInv
BY DEF Init, OrderInv, Stamped, Numbered, Respected, Precedes, Taken, Idle

\* Every step keeps the stamps.
LEMMA StampedStep == TInv /\ Stamped /\ [Next]_vars => Stamped'
<1> DEFINE Goal == Stamped'
<1> SUFFICES ASSUME TInv, Stamped, [Next]_vars PROVE Goal
  OBVIOUS
<1> USE DEF Stamped
<1>0. /\ outbox \in [Events -> Status] /\ clock \in Nat
      /\ created \in [Events -> Nat] /\ visible \in [Events -> Nat]
      /\ \A w \in Workers : /\ \A e \in worker[w].rows : outbox[e] \notin {"ABSENT", "INSERTING"}
                            /\ \A e \in worker[w].cur : outbox[e] \notin {"ABSENT", "INSERTING"}
  BY DEF TInv, TypeOK, Enqueued, Taken
<1>1. ASSUME NEW e \in Events, Enqueue(e) PROVE Goal
  BY <1>1, <1>0 DEF Enqueue
<1>2. ASSUME NEW e \in Events, EnqueueCommit(e) PROVE Goal
  BY <1>2, <1>0 DEF EnqueueCommit
<1>3. ASSUME NEW w \in Workers, Select(w) PROVE Goal
  BY <1>3, <1>0 DEF Select, table
<1>4. ASSUME NEW w \in Workers, Unlock(w) PROVE Goal
  BY <1>4, <1>0 DEF Unlock, table
<1>5. ASSUME NEW w \in Workers, Visit(w) PROVE Goal
  BY <1>5, <1>0 DEF Visit, First
<1>6. ASSUME NEW w \in Workers, EndBatch(w) PROVE Goal
  BY <1>6, <1>0 DEF EndBatch, table
<1>7. ASSUME NEW w \in Workers, Reject(w) PROVE Goal
  BY <1>7, <1>0 DEF Reject
<1>8. ASSUME NEW w \in Workers, Emit(w) PROVE Goal
  BY <1>8, <1>0 DEF Emit, table
<1>9. ASSUME NEW w \in Workers, EmitCommit(w) PROVE Goal
  BY <1>9, <1>0 DEF EmitCommit, table
<1>10. ASSUME NEW w \in Workers, MarkDone(w) PROVE Goal
  BY <1>10, <1>0 DEF MarkDone
<1>11. ASSUME NEW w \in Workers, Raised(w) PROVE Goal
  BY <1>11, <1>0 DEF Raised, table
<1>12. ASSUME NEW w \in Workers, Crash(w) PROVE Goal
  BY <1>12, <1>0 DEF Crash, table
<1>13. CASE UNCHANGED vars
  BY <1>13 DEF vars
<1>14. QED
  BY <1>1, <1>2, <1>3, <1>4, <1>5, <1>6, <1>7, <1>8, <1>9, <1>10, <1>11, <1>12, <1>13 DEF Next, ProcessBatch

\* Every step of a single process keeps the numbers in the order of its commits.
LEMMA NumberedStep == OneProcess /\ TInv /\ Numbered /\ [Next]_vars => Numbered'
<1> DEFINE Goal == Numbered'
<1> SUFFICES ASSUME OneProcess, TInv, Numbered, [Next]_vars PROVE Goal
  OBVIOUS
<1> USE DEF Numbered
<1>0. /\ worker \in [Workers -> WorkerState] /\ nextval \in Nat
      /\ \A v \in Workers : worker[v].at \in Nat
      /\ \A y \in stream : y.at \in Nat
  BY DEF TInv, TypeOK, WorkerState, Entry
<1>1. ASSUME NEW e \in Events, Enqueue(e) PROVE Goal
  BY <1>1, <1>0 DEF Enqueue
<1>2. ASSUME NEW e \in Events, EnqueueCommit(e) PROVE Goal
  BY <1>2, <1>0 DEF EnqueueCommit
<1>3. ASSUME NEW w \in Workers, Select(w) PROVE Goal
  BY <1>3, <1>0 DEF Select, WorkerState
<1>4. ASSUME NEW w \in Workers, Unlock(w) PROVE Goal
  BY <1>4, <1>0 DEF Unlock, WorkerState
<1>5. ASSUME NEW w \in Workers, Visit(w) PROVE Goal
  BY <1>5, <1>0 DEF Visit, WorkerState
<1>6. ASSUME NEW w \in Workers, EndBatch(w) PROVE Goal
  BY <1>6, <1>0 DEF EndBatch, Idle, WorkerState
<1>7. ASSUME NEW w \in Workers, Reject(w) PROVE Goal
  BY <1>7, <1>0 DEF Reject, Leave, WorkerState
<1>8. ASSUME NEW w \in Workers, Emit(w) PROVE Goal
  BY <1>8, <1>0 DEF Emit, OneProcess, WorkerState
<1>9. ASSUME NEW w \in Workers, EmitCommit(w) PROVE Goal
  BY <1>9, <1>0 DEF EmitCommit, OneProcess, WorkerState
<1>10. ASSUME NEW w \in Workers, MarkDone(w) PROVE Goal
  BY <1>10, <1>0 DEF MarkDone, Leave, WorkerState
<1>11. ASSUME NEW w \in Workers, Raised(w) PROVE Goal
  BY <1>11, <1>0 DEF Raised, Idle, WorkerState
<1>12. ASSUME NEW w \in Workers, Crash(w) PROVE Goal
  BY <1>12, <1>0 DEF Crash, Idle, WorkerState
<1>13. CASE UNCHANGED vars
  BY <1>13 DEF vars
<1>14. QED
  BY <1>1, <1>2, <1>3, <1>4, <1>5, <1>6, <1>7, <1>8, <1>9, <1>10, <1>11, <1>12, <1>13 DEF Next, ProcessBatch

\* Every step of a single process keeps the order of the rows.
LEMMA RespectedStep == OneProcess /\ TInv /\ TInv' /\ Stamped /\ Respected /\ [Next]_vars => Respected'
<1> DEFINE Goal == Respected'
<1> SUFFICES ASSUME OneProcess, TInv, TInv', Stamped, Respected, [Next]_vars PROVE Goal
  OBVIOUS
<1> USE DEF Respected, Precedes, Taken
<1>0. /\ outbox \in [Events -> Status] /\ clock \in Nat
      /\ created \in [Events -> Nat] /\ visible \in [Events -> Nat]
      /\ worker \in [Workers -> WorkerState]
      /\ \A w \in Workers : worker[w].rows \subseteq Events /\ worker[w].cur \subseteq Events
      /\ \A w \in Workers : \A e \in worker[w].cur : Taken(e)
      /\ \A y \in stream : y.ev \in Events /\ Taken(y.ev)
      /\ \A w \in Workers : worker[w].cur \cap worker[w].rows = {}
  BY DEF TInv, TypeOK, Enqueued, OneAtATime, WorkerState, Entry
<1>1. ASSUME NEW e \in Events, Enqueue(e) PROVE Goal
  BY <1>1, <1>0 DEF Enqueue, Stamped
<1>2. ASSUME NEW e \in Events, EnqueueCommit(e) PROVE Goal
  BY <1>2, <1>0 DEF EnqueueCommit, Stamped
<1>3. ASSUME NEW w \in Workers, Select(w) PROVE Goal
  BY <1>3, <1>0 DEF Select, IsBatch, Selectable, Locked, OneProcess, Stamped, Status, table, WorkerState
<1>4. ASSUME NEW w \in Workers, Unlock(w) PROVE Goal
  BY <1>4, <1>0 DEF Unlock, table, WorkerState
<1>5. ASSUME NEW w \in Workers, Visit(w) PROVE Goal
  BY <1>5, <1>0 DEF Visit, First, OneProcess, Stamped, WorkerState
<1>6. ASSUME NEW w \in Workers, EndBatch(w) PROVE Goal
  BY <1>6, <1>0 DEF EndBatch, table, Idle, WorkerState
<1>7. ASSUME NEW w \in Workers, Reject(w) PROVE Goal
  BY <1>7, <1>0 DEF Reject, Leave, OneProcess, WorkerState
<1>8. ASSUME NEW w \in Workers, Emit(w) PROVE Goal
  BY <1>8, <1>0 DEF Emit, table, WorkerState
<1>9. ASSUME NEW w \in Workers, EmitCommit(w) PROVE Goal
  <2>1. \A v \in Workers : v = w
    BY DEF OneProcess
  <2>2. /\ worker'[w].pc \notin {"handle", "commit"} /\ worker'[w].rows = worker[w].rows
        /\ UNCHANGED table
    BY <1>9, <1>0 DEF EmitCommit, WorkerState
  <2>3. QED
    BY <1>9, <1>0, <2>1, <2>2 DEF table
<1>10. ASSUME NEW w \in Workers, MarkDone(w) PROVE Goal
  BY <1>10, <1>0 DEF MarkDone, Leave, OneProcess, WorkerState
<1>11. ASSUME NEW w \in Workers, Raised(w) PROVE Goal
  BY <1>11, <1>0 DEF Raised, table, Idle, WorkerState
<1>12. ASSUME NEW w \in Workers, Crash(w) PROVE Goal
  BY <1>12, <1>0 DEF Crash, table, Idle, WorkerState
<1>13. CASE UNCHANGED vars
  BY <1>13 DEF vars
<1>14. QED
  BY <1>1, <1>2, <1>3, <1>4, <1>5, <1>6, <1>7, <1>8, <1>9, <1>10, <1>11, <1>12, <1>13 DEF Next, ProcessBatch

-----------------------------------------------------------------------------
(* The refinement of EventLog *)

\* The initial state of the outbox is that of the log.
LEMMA LogInit == Init => Log!Init
BY DEF Init, Log!Init, LogOf

\* What one process does to the stream: nothing, or an entry above all others,
\* of an event that is not in it and follows those that are.
LEMMA StreamStep ==
    ASSUME OneProcess, TInv, OnceInv, OrderInv, NEW w \in Workers, EmitCommit(w), stream' # stream
    PROVE  \E x \in stream' :
              /\ stream' = stream \cup {x}
              /\ visible[x.ev] > 0
              /\ \A y \in stream : y.at < x.at /\ y.ev # x.ev /\ ~Precedes(x.ev, y.ev)
<1>1. PICK e \in worker[w].cur : stream' = stream \cup {[at |-> worker[w].at, ev |-> e, by |-> w]}
  BY DEF EmitCommit
<1> DEFINE x == [at |-> worker[w].at, ev |-> e, by |-> w]
<1>2. x.at = worker[w].at /\ x.ev = e
  OBVIOUS
<1>3. worker[w].pc = "commit" /\ e \in Events /\ Taken(e)
  BY DEF EmitCommit, TInv, TypeOK, WorkerState, Enqueued
<1>4. visible[e] > 0
  BY <1>3 DEF OrderInv, Stamped, Taken, TInv, TypeOK
<1>5. ASSUME NEW y \in stream PROVE y.at < worker[w].at /\ y.ev # e /\ ~Precedes(e, y.ev)
  <2>1. y.by = w
    BY DEF OneProcess, TInv, TypeOK, Entry
  <2>2. QED
    BY <1>3, <2>1 DEF OrderInv, Numbered, Respected, OnceInv, Unsent
<1>6. QED
  BY <1>1, <1>2, <1>4, <1>5

\* Every step of one process is a step of the log or leaves it as it is.
LEMMA LogStep ==
    ASSUME OneProcess, TInv, OnceInv, OrderInv, [Next]_vars
    PROVE  [Log!Next]_(Log!vars)
<1> DEFINE Goal == [Log!Next]_(Log!vars)
<1> SUFFICES Goal
  OBVIOUS
<1>1. ASSUME NEW e \in Events, Enqueue(e) PROVE Goal
  <2>1. created[e] = 0
    BY <1>1 DEF Enqueue, OrderInv, Stamped
  <2>2. Log!Begin(e)
    BY <1>1, <2>1 DEF Enqueue, Log!Begin, LogOf
  <2>3. QED
    BY <2>2 DEF Log!Next
<1>2. ASSUME NEW e \in Events, EnqueueCommit(e) PROVE Goal
  <2>1. created[e] > 0 /\ visible[e] = 0
    BY <1>2 DEF EnqueueCommit, OrderInv, Stamped, TInv, TypeOK
  <2>2. Log!End(e)
    BY <1>2, <2>1 DEF EnqueueCommit, Log!End, LogOf
  <2>3. QED
    BY <2>2 DEF Log!Next
<1>3. ASSUME NEW w \in Workers, EmitCommit(w), stream' # stream PROVE Goal
  <2>1. PICK x \in stream' :
           /\ stream' = stream \cup {x}
           /\ visible[x.ev] > 0
           /\ \A y \in stream : y.at < x.at /\ y.ev # x.ev /\ ~Precedes(x.ev, y.ev)
    BY <1>3, StreamStep
  <2> DEFINE z == [at |-> x.at, ev |-> x.ev]
  <2>2. z \in LogOf' /\ z.at = x.at /\ z.ev = x.ev
    BY DEF LogOf
  <2>3. LogOf' = LogOf \cup {z}
    BY <2>1 DEF LogOf
  <2>4. \A y \in LogOf : y.at < z.at /\ y.ev # z.ev /\ ~Log!Before(z.ev, y.ev)
    BY <2>1, <2>2 DEF LogOf, Precedes, Log!Before
  <2>5. Log!Append
    BY <1>3, <2>1, <2>2, <2>3, <2>4 DEF Log!Append, EmitCommit, table
  <2>6. QED
    BY <2>5 DEF Log!Next
<1>4. ASSUME UNCHANGED <<clock, created, visible, stream>> PROVE Goal
  BY <1>4 DEF Log!vars, LogOf
<1>5. ASSUME NEW w \in Workers, ProcessBatch(w) PROVE Goal
  <2>1. UNCHANGED <<clock, created, visible>>
    BY <1>5 DEF ProcessBatch, Select, Unlock, Visit, EndBatch, Reject, Emit, EmitCommit,
                MarkDone, Raised, table
  <2>2. stream' # stream => EmitCommit(w)
    BY <1>5 DEF ProcessBatch, Select, Unlock, Visit, EndBatch, Reject, Emit, MarkDone, Raised
  <2>3. QED
    BY <1>3, <1>4, <2>1, <2>2
<1>6. ASSUME NEW w \in Workers, Crash(w) PROVE Goal
  BY <1>4, <1>6 DEF Crash, table
<1>7. CASE UNCHANGED vars
  BY <1>4, <1>7 DEF vars
<1>8. QED
  BY <1>1, <1>2, <1>5, <1>6, <1>7 DEF Next

\* One process publishes an event log, whatever fails and however often it
\* crashes: no event twice, and none after one whose enqueue began later.
THEOREM OneProcessIsALog == ASSUME OneProcess PROVE Spec => PublishesALog
<1> DEFINE IInv == TInv /\ OnceInv /\ OrderInv
<1>1. Init => IInv
  BY TypeInit, LayersInit, OrderInit
<1>2. IInv /\ [Next]_vars => IInv'
  BY TypeStep, OnceStep, StampedStep, NumberedStep, RespectedStep, OneProcess DEF OrderInv
<1>3. IInv /\ [Next]_vars => [Log!Next]_(Log!vars)
  BY LogStep, OneProcess
<1>4. Init => Log!Init
  BY LogInit
<1>5. Spec => []IInv
  <2> HIDE DEF IInv
  <2>1. QED
    BY <1>1, <1>2, PTL DEF Spec
<1>6. QED
  <2> HIDE DEF IInv
  <2>1. QED
    BY <1>3, <1>4, <1>5, PTL DEF Spec, PublishesALog, Log!Spec
=============================================================================
