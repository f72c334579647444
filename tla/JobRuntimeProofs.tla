-------------------------- MODULE JobRuntimeProofs --------------------------
(***************************************************************************)
(* Proofs about JobRuntime, for any set of jobs and server processes, any  *)
(* bound on attempts, any set of faults and any number of crashes.         *)
(*                                                                         *)
(* The inductive invariant is built in three layers, each proved inductive *)
(* with the help of those below it:                                        *)
(*   TInv     the types, and what the program counter of the               *)
(*            synchronisation thread says about the answer it holds;       *)
(*   HandInv  who owns an attempt while it is handed to Ray;               *)
(*   RealInv  the answers of Ray that threads hold, and the outcomes       *)
(*            written from them, agree with Ray.                           *)
(* The second part, about one process that does not crash, has more.       *)
(***************************************************************************)
EXTENDS JobRuntime, TLAPS

-----------------------------------------------------------------------------
(* Layer 1: types *)

\* The thread writes a status into an attempt only when Ray's answer has a
\* translation, and announces only what can follow RUNNING.
MappedFits ==
    \A w \in Workers :
        /\ bg[w].pc = "attempt" => bg[w].mapped # "UNKNOWN"
        /\ bg[w].pc = "event" => bg[w].mapped \in {"SUCCEEDED", "FAILED"}

TInv == TypeOK /\ MappedFits

LEMMA ApiGotoType ==
    ASSUME api \in [Workers -> ApiState], NEW w \in Workers, NEW pc \in ApiPc, ApiGoto(w, pc)
    PROVE  api' \in [Workers -> ApiState]
BY DEF ApiGoto, ApiState

LEMMA ApiDoneType ==
    ASSUME api \in [Workers -> ApiState], NEW w \in Workers, ApiDone(w)
    PROVE  api' \in [Workers -> ApiState]
BY DEF ApiDone, ApiState, NoRequest, ApiPc

\* The steps of the thread keep its state well-formed.
LEMMA BgGotoType ==
    ASSUME bg \in [Workers -> BgState], MappedFits, NEW w \in Workers, NEW pc \in BgPc, BgGoto(w, pc),
           pc = "attempt" => bg[w].mapped # "UNKNOWN",
           pc = "event" => bg[w].mapped \in {"SUCCEEDED", "FAILED"}
    PROVE  bg' \in [Workers -> BgState] /\ MappedFits'
BY DEF BgGoto, BgState, Mapped, MappedFits

LEMMA BgTakeType ==
    ASSUME bg \in [Workers -> BgState], MappedFits, NEW w \in Workers, NEW i, NEW x \in Item,
           NEW m \in Mapped, NEW pc \in BgPc, BgTake(w, i, x, m, pc),
           pc = "attempt" => m # "UNKNOWN", pc # "event"
    PROVE  bg' \in [Workers -> BgState] /\ MappedFits'
BY DEF BgTake, BgState, Mapped, MappedFits

LEMMA BgAbortType ==
    ASSUME bg \in [Workers -> BgState], MappedFits, NEW w \in Workers, BgAbort(w)
    PROVE  bg' \in [Workers -> BgState] /\ MappedFits'
BY DEF BgAbort, BgState, Mapped, Down, Phases, BgPc, MappedFits

\* What a call to stop_job may do: a job that Ray does not have, or that has
\* ended, keeps its status.
LEMMA RayStopType ==
    ASSUME ray \in [Attempts -> RayStatus], NEW w \in Workers, NEW a, RayStop(w, a)
    PROVE  /\ ray' \in [Attempts -> RayStatus]
           /\ \A b \in Attempts :
                 /\ ray[b] \in {"ABSENT", "SUCCEEDED", "FAILED"} => ray'[b] = ray[b]
                 /\ ray'[b] = "PENDING" => ray[b] = "PENDING"
BY DEF RayStop, RayStatus, Halted

\* Two status tables: the second has no entry that yields CANCELLED for an
\* answer of the first, and SUCCEEDED and FAILED are never invented.
LEMMA PolledIsReal ==
    ASSUME NEW w, NEW a
    PROVE  /\ Polled(w, a) \in Mapped
           /\ Polled(w, a) # "CANCELLED"
           /\ Polled(w, a) \in {"SUCCEEDED", "FAILED"} => ray[a] = Polled(w, a)
<1>1. StatusMap(ray[a]) \in {"QUEUED", "RUNNING", "CANCELLED", "SUCCEEDED", "FAILED", "UNKNOWN"}
      /\ (StatusMap(ray[a]) \in {"SUCCEEDED", "FAILED"} => ray[a] = StatusMap(ray[a]))
  BY DEF StatusMap
<1>2. QED
  BY <1>1 DEF Polled, SyncMap, BackendStatus, Mapped

LEMMA AfterAttemptType ==
    ASSUME NEW x, NEW m
    PROVE  AfterAttempt(x, m) \in {"finalize", "promote", "requeue", "next"}
BY DEF AfterAttempt

LEMMA AfterRecoveryType ==
    ASSUME NEW x, NEW m
    PROVE  /\ AfterRecovery(x, m) \in {"cancelJob", "attempt", "resumeJob", "next"}
           /\ AfterRecovery(x, m) = "attempt" => m \in Outcomes
BY DEF AfterRecovery

LEMMA TypeInit == Init => TInv
BY JobRuntimeAssumption
   DEF Init, TInv, TypeOK, MappedFits, JobStatus, AttStatus, RayStatus, NoRequest, Down,
       ApiState, ApiPc, BgState, BgPc, Phases, Mapped

\* Accepting a request.
LEMMA TypeAccept ==
    ASSUME TInv, NEW w \in Workers, Accept(w)
    PROVE  TInv'
<1> USE DEF TInv, TypeOK, MappedFits, Nums, Attempts
<1>1. PICK j \in Jobs : SubmitJob(w, j) \/ RetryJob(w, j) \/ CancelJob(w, j)
  BY DEF Accept
<1>2. MaxAttempts \in Nat /\ 0 \in 0 .. MaxAttempts /\ 1 \in 0 .. MaxAttempts
  BY JobRuntimeAssumption
<1>3. CASE SubmitJob(w, j)
  <2>1. [op |-> "submit", pc |-> "insertAttempt", on |-> {<<j, 1>>}] \in ApiState
    BY <1>2 DEF ApiState, ApiPc
  <2>2. QED BY <1>3, <2>1 DEF SubmitJob, JobStatus
<1>4. CASE RetryJob(w, j)
  <2>1. [op |-> "retry", pc |-> "numberAttempt", on |-> {<<j, 0>>}] \in ApiState
    BY <1>2 DEF ApiState, ApiPc
  <2>2. QED BY <1>4, <2>1 DEF RetryJob, db
<1>5. CASE CancelJob(w, j)
  <2>1. \A pc \in {"markCancelling", "markCancelled"} :
           [op |-> "cancel", on |-> {<<j, 0>>}, pc |-> pc] \in ApiState
    BY <1>2 DEF ApiState, ApiPc
  <2>2. QED BY <1>5, <2>1 DEF CancelJob, db
<1>6. QED BY <1>1, <1>3, <1>4, <1>5

\* The steps of a request.
LEMMA TypeHandle ==
    ASSUME TInv, NEW w \in Workers, Handle(w)
    PROVE  TInv'
<1> USE DEF TInv, TypeOK, MappedFits
<1>1. api[w] \in ApiState /\ \A a \in api[w].on : a[1] \in Jobs
  BY DEF ApiState
<1>2. CASE NumberAttempt(w)
  <2>1. CASE ApiDone(w)
    BY <1>2, <2>1, ApiDoneType DEF NumberAttempt, db
  <2>2. CASE ~ApiDone(w)
    <3>1. PICK a \in api[w].on, n \in Nums :
              api' = [api EXCEPT ![w].pc = "insertAttempt", ![w].on = {<<a[1], n>>}]
      BY <1>2, <2>2 DEF NumberAttempt
    <3>2. {<<a[1], n>>} \in SUBSET (Jobs \X (0 .. MaxAttempts))
      BY <1>1, JobRuntimeAssumption DEF Nums
    <3>3. [api[w] EXCEPT !.pc = "insertAttempt", !.on = {<<a[1], n>>}] \in ApiState
      BY <1>1, <3>2 DEF ApiState, ApiPc
    <3>4. api' \in [Workers -> ApiState]
      BY <3>1, <3>3
    <3>5. QED BY <1>2, <3>4 DEF NumberAttempt, db
  <2>3. QED BY <2>1, <2>2
<1>3. CASE InsertAttempt(w)
  <2>1. api' \in [Workers -> ApiState]
    BY <1>3, ApiGotoType, ApiDoneType DEF InsertAttempt, ApiPc
  <2>2. QED BY <1>3, <2>1 DEF InsertAttempt, AttStatus, Active
<1>4. CASE QueueJob(w)
  BY <1>4, ApiGotoType DEF QueueJob, JobStatus, ApiPc
<1>5. CASE CallBackend(w)
  <2>1. api' \in [Workers -> ApiState]
    BY <1>5, ApiGotoType DEF CallBackend, ApiPc
  <2>2. QED BY <1>5, <2>1 DEF CallBackend, RayStatus, db
<1>6. CASE RecordAttempt(w)
  BY <1>6, ApiGotoType DEF RecordAttempt, AttStatus, Active, ApiPc
<1>7. CASE RecordJob(w)
  BY <1>7, ApiDoneType DEF RecordJob, JobStatus
<1>8. CASE FailAttempt(w)
  BY <1>8, ApiGotoType DEF FailAttempt, AttStatus, Terminal, ApiPc
<1>9. CASE FailJob(w)
  BY <1>9, ApiGotoType DEF FailJob, JobStatus, Terminal, ApiPc
<1>10. CASE FailEvent(w)
  BY <1>10, ApiDoneType DEF FailEvent, Terminal
<1>11. CASE MarkCancelling(w)
  BY <1>11, ApiGotoType DEF MarkCancelling, JobStatus, ApiPc
<1>12. CASE StopRay(w)
  <2>1. api' \in [Workers -> ApiState]
    BY <1>12, ApiGotoType DEF StopRay, ApiPc
  <2>2. ray' \in [Attempts -> RayStatus]
    BY <1>12, RayStopType DEF StopRay
  <2>3. QED BY <1>12, <2>1, <2>2 DEF StopRay, db
<1>13. CASE MarkCancelled(w)
  BY <1>13, ApiGotoType DEF MarkCancelled, JobStatus, Terminal, ApiPc
<1>14. CASE CancelAttempts(w)
  BY <1>14, ApiGotoType DEF CancelAttempts, AttStatus, Terminal, ApiPc
<1>15. CASE CancelEvent(w)
  BY <1>15, ApiDoneType DEF CancelEvent, Terminal
<1>16. QED
  BY <1>2, <1>3, <1>4, <1>5, <1>6, <1>7, <1>8, <1>9, <1>10, <1>11, <1>12, <1>13, <1>14, <1>15
     DEF Handle

\* A scan yields rows.
LEMMA RowsType ==
    ASSUME TInv
    PROVE  /\ RecoverRows \subseteq Item
           /\ SyncRows \subseteq Item
           /\ ZombieRows \subseteq Item
           /\ TimeoutRows \subseteq Item
<1> USE DEF TInv, TypeOK
<1>1. \A a \in Attempts : Row(a) \in Item
  BY JobRuntimeAssumption DEF Row, Item, Attempts, Nums
<1>2. RecoverRows \subseteq Item
  BY JobRuntimeAssumption DEF RecoverRows, Item, AttStatus
<1>3. QED
  BY <1>1, <1>2 DEF SyncRows, ZombieRows, TimeoutRows

\* The passes of the synchronisation thread.
LEMMA TypeSync ==
    ASSUME TInv, NEW w \in Workers, Sync(w)
    PROVE  TInv'
<1> USE DEF TInv, TypeOK
<1>1. bg[w] \in BgState /\ bg[w].todo \subseteq Item /\ bg[w].cur \subseteq Item
  BY DEF BgState
<1>2. CASE StartPass(w)
  <2>1. PICK p \in {"sync", "zombies", "timeouts"} :
            bg' = [bg EXCEPT ![w].phase = p, ![w].pc = "scan"]
    BY <1>2 DEF StartPass
  <2>2. bg' \in [Workers -> BgState] /\ MappedFits'
    BY <2>1, <1>1 DEF BgState, BgPc, Phases, MappedFits
  <2>3. QED BY <1>2, <2>2 DEF StartPass, db
<1>3. CASE Scan(w)
  <2>1. PICK rows \in SUBSET Item : bg' = [bg EXCEPT ![w].todo = rows, ![w].pc = "next"]
    BY <1>3, RowsType DEF Scan
  <2>2. bg' \in [Workers -> BgState] /\ MappedFits'
    BY <2>1, <1>1 DEF BgState, BgPc, MappedFits
  <2>3. QED BY <1>3, <2>2 DEF Scan, db
<1>4. CASE SyncAsk(w)
  <2>1. PICK i \in bg[w].todo, m \in Mapped, pc \in BgPc :
            BgTake(w, i, i, m, pc) /\ (pc = "attempt" => m # "UNKNOWN") /\ pc # "event"
    BY <1>4, PolledIsReal, AfterAttemptType DEF SyncAsk, Mapped, BgPc
  <2>2. bg' \in [Workers -> BgState] /\ MappedFits'
    BY <2>1, <1>1, BgTakeType
  <2>3. QED BY <1>4, <2>2 DEF SyncAsk, db
<1>5. CASE UpdateAttempt(w)
  <2>1. bg[w].mapped \in AttStatus
    BY <1>1, <1>5 DEF UpdateAttempt, MappedFits, BgState, Mapped, AttStatus, Active, Terminal
  <2>2. PICK x \in bg[w].cur :
            att' = [att EXCEPT ![<<x.j, x.n>>] = bg[w].mapped] /\ BgGoto(w, AfterAttempt(x, bg[w].mapped))
    BY <1>5 DEF UpdateAttempt
  <2>3. AfterAttempt(x, bg[w].mapped) \in BgPc \ {"attempt", "event"}
    BY AfterAttemptType DEF BgPc
  <2>4. bg' \in [Workers -> BgState] /\ MappedFits'
    BY <2>2, <2>3, BgGotoType
  <2>5. QED BY <1>5, <2>1, <2>2, <2>4 DEF UpdateAttempt
<1>6. CASE FinalizeJob(w)
  <2>1. CanTransition("RUNNING", bg[w].mapped) => bg[w].mapped \in {"SUCCEEDED", "FAILED"}
    BY <1>1 DEF CanTransition, ValidTransitions, BgState, Mapped
  <2>2. bg' \in [Workers -> BgState] /\ MappedFits'
    BY <1>6, <2>1, BgGotoType DEF FinalizeJob, BgPc
  <2>3. QED BY <1>6, <2>1, <2>2 DEF FinalizeJob, JobStatus, Terminal
<1>7. CASE FinalEvent(w)
  <2>1. bg[w].mapped \in Terminal
    BY <1>7 DEF FinalEvent, MappedFits, Terminal
  <2>2. bg' \in [Workers -> BgState] /\ MappedFits'
    BY <1>7, BgGotoType DEF FinalEvent, BgPc
  <2>3. QED BY <1>1, <1>7, <2>1, <2>2 DEF FinalEvent, BgState, Item
<1>8. CASE PromoteJob(w)
  BY <1>8, BgGotoType DEF PromoteJob, BgPc, JobStatus
<1>9. CASE RequeueJob(w)
  BY <1>9, BgGotoType DEF RequeueJob, BgPc, JobStatus
<1>10. CASE LostStop(w)
  <2>1. ray' \in [Attempts -> RayStatus]
    BY <1>10, RayStopType DEF LostStop
  <2>2. bg' \in [Workers -> BgState] /\ MappedFits'
    BY <1>10, BgGotoType DEF LostStop, BgPc
  <2>3. QED BY <1>10, <2>1, <2>2 DEF LostStop, db
<1>11. CASE LostAttempt(w)
  BY <1>11, BgGotoType DEF LostAttempt, BgPc, AttStatus, Terminal
<1>12. CASE LostJob(w)
  BY <1>12, BgGotoType DEF LostJob, BgPc, JobStatus, Terminal
<1>13. CASE LostEvent(w)
  <2>1. bg' \in [Workers -> BgState] /\ MappedFits'
    BY <1>13, BgGotoType, BgAbortType DEF LostEvent, BgPc
  <2>2. QED BY <1>13, <2>1 DEF LostEvent, Terminal
<1>14. CASE ZombieAsk(w)
  <2>1. PICK i \in bg[w].todo : BgTake(w, i, i, "UNKNOWN", "next")
    BY <1>14 DEF ZombieAsk
  <2>2. bg' \in [Workers -> BgState] /\ MappedFits'
    BY <2>1, <1>1, BgTakeType DEF BgPc, Mapped
  <2>3. ray' \in [Attempts -> RayStatus]
    BY <1>14, RayStopType DEF ZombieAsk
  <2>4. QED BY <1>14, <2>2, <2>3 DEF ZombieAsk, db
<1>15. CASE TimeoutStop(w)
  <2>1. PICK i \in bg[w].todo :
            RayStop(w, <<i.j, i.n>>) /\ BgTake(w, i, i, "UNKNOWN", "timeoutAttempt")
    BY <1>15 DEF TimeoutStop
  <2>2. bg' \in [Workers -> BgState] /\ MappedFits'
    BY <2>1, <1>1, BgTakeType DEF BgPc, Mapped
  <2>3. ray' \in [Attempts -> RayStatus]
    BY <2>1, RayStopType
  <2>4. QED BY <1>15, <2>2, <2>3 DEF TimeoutStop, db
<1>16. CASE TimeoutAttempt(w)
  BY <1>16, BgGotoType DEF TimeoutAttempt, BgPc, AttStatus, Terminal
<1>17. CASE TimeoutJob(w)
  BY <1>17, BgGotoType DEF TimeoutJob, BgPc, JobStatus, Terminal
<1>18. CASE TimeoutEvent(w)
  <2>1. bg' \in [Workers -> BgState] /\ MappedFits'
    BY <1>18, BgGotoType, BgAbortType DEF TimeoutEvent, BgPc
  <2>2. QED BY <1>18, <2>1 DEF TimeoutEvent, Terminal
<1>19. QED
  BY <1>2, <1>3, <1>4, <1>5, <1>6, <1>7, <1>8, <1>9, <1>10, <1>11, <1>12, <1>13, <1>14,
     <1>15, <1>16, <1>17, <1>18
     DEF Sync

\* The attempt that recovery looks up is an attempt.
LEMMA RecoverPickTakes ==
    ASSUME TInv, NEW w \in Workers, RecoverPick(w)
    PROVE  \E i \in bg[w].todo, x \in Item, pc \in {"ask", "forget"} :
              BgTake(w, i, x, "UNKNOWN", pc) /\ (pc = "ask" => x.n \in Nums)
<1>1. PICK i \in bg[w].todo :
         \/ \E n \in Nums : BgTake(w, i, [i EXCEPT !.n = n, !.st = att[<<i.j, n>>]], "UNKNOWN", "ask")
         \/ BgTake(w, i, i, "UNKNOWN", "forget")
  BY DEF RecoverPick
<1>2. i \in Item
  BY DEF TInv, TypeOK, BgState
<1>3. ASSUME NEW n \in Nums
      PROVE  /\ [i EXCEPT !.n = n, !.st = att[<<i.j, n>>]] \in Item
             /\ [i EXCEPT !.n = n, !.st = att[<<i.j, n>>]].n = n
  <2>1. <<i.j, n>> \in Attempts
    BY <1>2 DEF Item, Attempts
  <2>2. att[<<i.j, n>>] \in AttStatus /\ n \in 0 .. MaxAttempts
    BY <2>1, JobRuntimeAssumption DEF Nums, TInv, TypeOK
  <2>3. QED BY <1>2, <2>2 DEF Item
<1>4. QED BY <1>1, <1>2, <1>3

\* recover_on_startup.
LEMMA TypeRecover ==
    ASSUME TInv, NEW w \in Workers, Recover(w)
    PROVE  TInv'
<1> USE DEF TInv, TypeOK
<1>1. bg[w] \in BgState /\ bg[w].todo \subseteq Item /\ bg[w].cur \subseteq Item
  BY DEF BgState
<1>2. CASE Start(w)
  <2>1. [bg[w] EXCEPT !.phase = "recover"] \in BgState
    BY <1>1 DEF BgState, Phases
  <2>2. bg' \in [Workers -> BgState] /\ MappedFits'
    BY <1>2, <2>1 DEF Start, MappedFits, BgState
  <2>3. QED BY <1>2, <2>2 DEF Start, db
<1>3. CASE RecoverPick(w)
  <2>1. PICK i \in bg[w].todo, x \in Item, pc \in {"ask", "forget"} :
            BgTake(w, i, x, "UNKNOWN", pc)
    BY <1>3, RecoverPickTakes
  <2>2. bg' \in [Workers -> BgState] /\ MappedFits'
    BY <2>1, BgTakeType DEF BgPc, Mapped
  <2>3. QED BY <1>3, <2>2 DEF RecoverPick, db
<1>4. CASE RecoverForget(w)
  BY <1>4, BgGotoType DEF RecoverForget, BgPc, JobStatus, Terminal
<1>5. CASE RecoverAsk(w)
  <2>1. PICK x \in bg[w].cur :
            \/ BgGoto(w, "lostStop")
            \/ BgTake(w, x, x, Polled(w, <<x.j, x.n>>), AfterRecovery(x, Polled(w, <<x.j, x.n>>)))
    BY <1>5 DEF RecoverAsk
  <2>2. CASE BgGoto(w, "lostStop")
    BY <1>5, <2>2, BgGotoType DEF RecoverAsk, db, BgPc
  <2>3. CASE BgTake(w, x, x, Polled(w, <<x.j, x.n>>), AfterRecovery(x, Polled(w, <<x.j, x.n>>)))
    <3> DEFINE m  == Polled(w, <<x.j, x.n>>)
               pc == AfterRecovery(x, m)
    <3>1. m \in Mapped /\ x \in Item
      BY <1>1, PolledIsReal
    <3>2. pc \in BgPc /\ pc # "event" /\ (pc = "attempt" => m \in Outcomes)
      BY AfterRecoveryType DEF BgPc
    <3>3. pc = "attempt" => m # "UNKNOWN"
      BY <3>2 DEF Outcomes
    <3>4. BgTake(w, x, x, m, pc)
      BY <2>3
    <3> HIDE DEF m, pc
    <3>5. bg' \in [Workers -> BgState] /\ MappedFits'
      BY <3>1, <3>2, <3>3, <3>4, BgTakeType
    <3>6. QED BY <1>5, <3>5 DEF RecoverAsk, db
  <2>4. QED BY <2>1, <2>2, <2>3
<1>6. CASE RecoverCancelJob(w)
  BY <1>6, BgGotoType DEF RecoverCancelJob, BgPc, JobStatus, Terminal
<1>7. CASE RecoverCancelAttempt(w)
  BY <1>7, BgGotoType DEF RecoverCancelAttempt, BgPc, AttStatus, Terminal
<1>8. CASE ResumeJob(w)
  BY <1>8, BgGotoType DEF ResumeJob, BgPc, JobStatus
<1>9. CASE ResumeAttempt(w)
  BY <1>9, BgGotoType DEF ResumeAttempt, BgPc, AttStatus, Active
<1>10. QED
  BY <1>2, <1>3, <1>4, <1>5, <1>6, <1>7, <1>8, <1>9 DEF Recover

LEMMA TypeCrash ==
    ASSUME TInv, NEW w \in Workers, Crash(w)
    PROVE  TInv'
<1> USE DEF TInv, TypeOK
<1>1. NoRequest \in ApiState /\ Down \in BgState
  BY DEF NoRequest, Down, ApiState, ApiPc, BgState, BgPc, Phases, Mapped
<1>2. bg' \in [Workers -> BgState] /\ MappedFits'
  BY <1>1 DEF Crash, MappedFits, Down
<1>3. crashes' \in 0 .. MaxCrashes
  BY JobRuntimeAssumption DEF Crash
<1>4. QED BY <1>1, <1>2, <1>3 DEF Crash, db

LEMMA TypeRay ==
    ASSUME TInv, NEW a \in Attempts, RayStart(a) \/ RayFinish(a)
    PROVE  TInv'
BY DEF TInv, TypeOK, MappedFits, RayStart, RayFinish, RayStatus, db

LEMMA TypeStep == TInv /\ [Next]_vars => TInv'
<1> SUFFICES ASSUME TInv, [Next]_vars PROVE TInv'
  OBVIOUS
<1>1. CASE UNCHANGED vars
  BY <1>1 DEF TInv, TypeOK, MappedFits, vars
<1>2. CASE Next
  BY <1>2, TypeAccept, TypeHandle, TypeSync, TypeRecover, TypeCrash, TypeRay DEF Next
<1>3. QED BY <1>1, <1>2

LEMMA TypeInvariant == Spec => []TInv
BY TypeInit, TypeStep, PTL DEF Spec

\* Every handler, pass and recovery keeps the rows, the threads' program
\* counters and the answers they carry within their types: no step of
\* sync_all writes a status without a translation into job_attempts.
THEOREM TypeCorrect == Spec => []TypeOK
BY TypeInvariant, PTL DEF TInv

-----------------------------------------------------------------------------
(* Layer 2: an attempt on its way to Ray *)

HandPc == {"queueJob", "callBackend", "recordAttempt", "failAttempt"}

\* Request w has inserted attempt a and has not yet recorded how Ray took it.
Holds(w, a) == api[w].pc \in HandPc /\ a \in api[w].on

OneEach   == \A w \in Workers : \A a, b \in api[w].on : a = b
OnAttempt == \A w \in Workers : api[w].pc \in HandPc \cup {"insertAttempt"} => api[w].on \subseteq Attempts
Unborn    == \A a \in Attempts : att[a] = "ABSENT" => ray[a] = "ABSENT" /\ ~rid[a]

HeldFresh ==
    \A w \in Workers, a \in Attempts :
        Holds(w, a) => /\ att[a] # "ABSENT" /\ ~rid[a]
                       /\ api[w].pc \in {"queueJob", "callBackend"} => ray[a] = "ABSENT"

OneHolder == \A w, v \in Workers, a \in Attempts : Holds(w, a) /\ Holds(v, a) => w = v

HandInv == OneEach /\ OnAttempt /\ Unborn /\ HeldFresh /\ OneHolder

LEMMA ApiGotoFrame ==
    ASSUME TypeOK, NEW w \in Workers, NEW pc, ApiGoto(w, pc)
    PROVE  /\ \A v \in Workers : api'[v].on = api[v].on
           /\ \A v \in Workers \ {w} : api'[v].pc = api[v].pc
           /\ api'[w].pc = pc
BY DEF ApiGoto, TypeOK, ApiState

LEMMA ApiDoneFrame ==
    ASSUME TypeOK, NEW w \in Workers, ApiDone(w)
    PROVE  /\ \A v \in Workers \ {w} : api'[v] = api[v]
           /\ api'[w].pc = "idle" /\ api'[w].on = {}
BY DEF ApiDone, TypeOK, ApiState, NoRequest

\* What the synchronisation thread cannot do: touch requests or Ray ids,
\* remove an attempt, or change what Ray says of a job that it does not have
\* or that has ended.
LEMMA ThreadFrame ==
    ASSUME TInv, NEW w \in Workers, Sync(w) \/ Recover(w)
    PROVE  /\ api' = api /\ rid' = rid
           /\ \A a \in Attempts : att[a] # "ABSENT" => att'[a] # "ABSENT"
           /\ \A a \in Attempts : ray[a] \in {"ABSENT", "SUCCEEDED", "FAILED"} => ray'[a] = ray[a]
           /\ \A a \in Attempts : ray'[a] = "PENDING" => ray[a] = "PENDING"
<1> USE DEF TInv, TypeOK
<1>1. CASE UpdateAttempt(w)
  <2>1. bg[w].mapped # "ABSENT"
    BY DEF BgState, Mapped
  <2>2. QED BY <1>1, <2>1 DEF UpdateAttempt
<1>2. CASE LostStop(w) \/ ZombieAsk(w) \/ TimeoutStop(w)
  BY <1>2, RayStopType DEF LostStop, ZombieAsk, TimeoutStop, db
<1>3. CASE LostAttempt(w) \/ TimeoutAttempt(w) \/ RecoverCancelAttempt(w) \/ ResumeAttempt(w)
  BY <1>3 DEF LostAttempt, TimeoutAttempt, RecoverCancelAttempt, ResumeAttempt
<1>4. CASE FinalizeJob(w) \/ FinalEvent(w) \/ PromoteJob(w) \/ RequeueJob(w) \/ LostJob(w)
           \/ LostEvent(w) \/ TimeoutJob(w) \/ TimeoutEvent(w) \/ RecoverForget(w)
           \/ RecoverCancelJob(w) \/ ResumeJob(w)
  BY <1>4 DEF FinalizeJob, FinalEvent, PromoteJob, RequeueJob, LostJob, LostEvent, TimeoutJob,
              TimeoutEvent, RecoverForget, RecoverCancelJob, ResumeJob
<1>5. CASE StartPass(w) \/ Scan(w) \/ SyncAsk(w) \/ Start(w) \/ RecoverPick(w) \/ RecoverAsk(w)
  BY <1>5 DEF StartPass, Scan, SyncAsk, Start, RecoverPick, RecoverAsk, db
<1>6. QED
  BY <1>1, <1>2, <1>3, <1>4, <1>5 DEF Sync, Recover

LEMMA HandInit == Init => HandInv
BY DEF Init, HandInv, OneEach, OnAttempt, Unborn, HeldFresh, OneHolder, Holds, HandPc, NoRequest

LEMMA HandThread ==
    ASSUME TInv, HandInv, NEW w \in Workers, Sync(w) \/ Recover(w)
    PROVE  HandInv'
BY ThreadFrame DEF HandInv, OneEach, OnAttempt, Unborn, HeldFresh, OneHolder, Holds

LEMMA HandAccept ==
    ASSUME TInv, HandInv, NEW w \in Workers, Accept(w)
    PROVE  HandInv'
<1>1. PICK j \in Jobs : SubmitJob(w, j) \/ RetryJob(w, j) \/ CancelJob(w, j)
  BY DEF Accept
<1>2. UNCHANGED <<att, rid, ray>>
  BY <1>1 DEF SubmitJob, RetryJob, CancelJob, db
<1>3. /\ \A v \in Workers \ {w} : api'[v] = api[v]
      /\ api'[w].pc \in {"insertAttempt", "numberAttempt", "markCancelling", "markCancelled"}
      /\ api'[w].pc = "insertAttempt" => api'[w].on = {<<j, 1>>}
      /\ \A a, b \in api'[w].on : a = b
  BY <1>1 DEF SubmitJob, RetryJob, CancelJob, TInv, TypeOK
<1>4. <<j, 1>> \in Attempts
  BY JobRuntimeAssumption DEF Attempts, Nums
<1>5. QED
  BY <1>2, <1>3, <1>4
     DEF HandInv, OneEach, OnAttempt, Unborn, HeldFresh, OneHolder, Holds, HandPc

\* A step that leaves w without an attempt in its hands.
LEMMA HandRelease ==
    ASSUME TypeOK, HandInv, NEW w \in Workers,
           api'[w].pc \notin HandPc \cup {"insertAttempt"},
           \A a, b \in api'[w].on : a = b,
           \A v \in Workers \ {w} : api'[v].pc = api[v].pc /\ api'[v].on = api[v].on,
           \A a \in Attempts : att[a] # "ABSENT" => att'[a] # "ABSENT",
           \A a \in Attempts : ray[a] = "ABSENT" => ray'[a] = "ABSENT",
           \A a \in Attempts : rid'[a] => rid[a] \/ Holds(w, a)
    PROVE  HandInv'
BY DEF HandInv, OneEach, OnAttempt, Unborn, HeldFresh, OneHolder, Holds

LEMMA HandHandle ==
    ASSUME TInv, HandInv, NEW w \in Workers, Handle(w)
    PROVE  HandInv'
<1>0. TypeOK /\ OneEach
  BY DEF TInv, HandInv
<1>1. CASE NumberAttempt(w)
  <2>0. UNCHANGED <<att, rid, ray>>
    BY <1>1 DEF NumberAttempt, db
  <2>1. CASE ApiDone(w)
    BY <1>0, <2>0, <2>1, ApiDoneFrame, HandRelease DEF HandPc
  <2>2. CASE ~ApiDone(w)
    <3>1. PICK a \in api[w].on, n \in Nums :
              api' = [api EXCEPT ![w].pc = "insertAttempt", ![w].on = {<<a[1], n>>}]
      BY <1>1, <2>2 DEF NumberAttempt
    <3>2. a[1] \in Jobs /\ <<a[1], n>> \in Attempts
      BY <1>0 DEF TypeOK, ApiState, Attempts
    <3>3. /\ \A v \in Workers \ {w} : api'[v] = api[v]
          /\ api'[w].pc = "insertAttempt" /\ api'[w].on = {<<a[1], n>>}
      BY <1>0, <3>1 DEF TypeOK, ApiState
    <3>4. QED
      BY <2>0, <3>2, <3>3
         DEF HandInv, OneEach, OnAttempt, Unborn, HeldFresh, OneHolder, Holds, HandPc
  <2>3. QED BY <2>1, <2>2
<1>2. CASE InsertAttempt(w)
  <2>1. CASE ApiDone(w)
    <3>1. \A a \in Attempts : att[a] # "ABSENT" => att'[a] # "ABSENT"
      BY <1>0, <1>2 DEF InsertAttempt, TypeOK
    <3>2. UNCHANGED <<rid, ray>>
      BY <1>2 DEF InsertAttempt
    <3>3. QED BY <1>0, <2>1, <3>1, <3>2, ApiDoneFrame, HandRelease DEF HandPc
  <2>2. CASE ~ApiDone(w)
    <3>1. PICK a \in api[w].on :
              att[a] = "ABSENT" /\ att' = [att EXCEPT ![a] = "QUEUED"] /\ ApiGoto(w, "queueJob")
      BY <1>2, <2>2 DEF InsertAttempt
    <3>2. a \in Attempts /\ api[w].on = {a}
      BY <1>0, <1>2 DEF HandInv, OnAttempt, OneEach, InsertAttempt
    <3>3. /\ \A v \in Workers : api'[v].on = api[v].on
          /\ \A v \in Workers \ {w} : api'[v].pc = api[v].pc
          /\ api'[w].pc = "queueJob"
      BY <1>0, <3>1, ApiGotoFrame
    <3>4. /\ \A b \in Attempts : b # a => att'[b] = att[b]
          /\ att'[a] = "QUEUED" /\ UNCHANGED <<rid, ray>>
      BY <1>0, <1>2, <3>1, <3>2 DEF InsertAttempt, TypeOK
    <3>5. \A v \in Workers : ~Holds(v, a)
      BY <3>1, <3>2 DEF HandInv, HeldFresh
    <3>6. QED
      BY <3>1, <3>2, <3>3, <3>4, <3>5
         DEF HandInv, OneEach, OnAttempt, Unborn, HeldFresh, OneHolder, Holds, HandPc
  <2>3. QED BY <2>1, <2>2
<1>3. CASE QueueJob(w)
  <2>1. ApiGoto(w, "callBackend") /\ api[w].pc = "queueJob" /\ UNCHANGED <<att, rid, ray>>
    BY <1>3 DEF QueueJob
  <2>2. QED
    BY <1>0, <2>1, ApiGotoFrame
       DEF HandInv, OneEach, OnAttempt, Unborn, HeldFresh, OneHolder, Holds, HandPc
<1>4. CASE CallBackend(w)
  <2>1. PICK a \in api[w].on :
           /\ ray' = [ray EXCEPT ![a] = "PENDING"] \/ ray' = ray
           /\ ApiGoto(w, "recordAttempt") \/ ApiGoto(w, "failAttempt")
    BY <1>4 DEF CallBackend
  <2>2. api[w].pc = "callBackend" /\ UNCHANGED <<att, rid>>
    BY <1>4 DEF CallBackend, db
  <2>3. a \in Attempts /\ Holds(w, a)
    BY <2>2 DEF HandInv, OnAttempt, Holds, HandPc
  <2>4. /\ \A v \in Workers : api'[v].on = api[v].on
        /\ \A v \in Workers \ {w} : api'[v].pc = api[v].pc
        /\ api'[w].pc \in {"recordAttempt", "failAttempt"}
    BY <1>0, <2>1, ApiGotoFrame
  <2>5. \A b \in Attempts : b # a => ray'[b] = ray[b]
    BY <1>0, <2>1 DEF TypeOK
  <2>6. QED
    BY <1>0, <2>2, <2>3, <2>4, <2>5
       DEF HandInv, OneEach, OnAttempt, Unborn, HeldFresh, OneHolder, Holds, HandPc
<1>5. CASE RecordAttempt(w)
  <2>1. PICK a \in api[w].on :
            att' = [att EXCEPT ![a] = "RUNNING"] /\ rid' = [rid EXCEPT ![a] = TRUE]
    BY <1>5 DEF RecordAttempt
  <2>2. api[w].pc = "recordAttempt" /\ ApiGoto(w, "recordJob") /\ ray' = ray
    BY <1>5 DEF RecordAttempt
  <2>3. Holds(w, a)
    BY <2>2 DEF Holds, HandPc
  <2>4. /\ \A b \in Attempts : att[b] # "ABSENT" => att'[b] # "ABSENT"
        /\ \A b \in Attempts : rid'[b] => rid[b] \/ Holds(w, b)
    BY <1>0, <2>1, <2>3 DEF TypeOK
  <2>5. QED BY <1>0, <2>2, <2>4, ApiGotoFrame, HandRelease DEF OneEach, HandPc
<1>6. CASE FailAttempt(w)
  <2>1. \A b \in Attempts : att[b] # "ABSENT" => att'[b] # "ABSENT"
    BY <1>0, <1>6 DEF FailAttempt, TypeOK
  <2>2. \E pc \in {"failJob", "failEvent"} : ApiGoto(w, pc)
    BY <1>6 DEF FailAttempt
  <2>3. UNCHANGED <<rid, ray>>
    BY <1>6 DEF FailAttempt
  <2>4. QED BY <1>0, <2>1, <2>2, <2>3, ApiGotoFrame, HandRelease DEF OneEach, HandPc
<1>7. CASE RecordJob(w) \/ FailEvent(w) \/ CancelEvent(w)
  <2>1. ApiDone(w) /\ UNCHANGED <<att, rid, ray>>
    BY <1>7 DEF RecordJob, FailEvent, CancelEvent
  <2>2. QED BY <1>0, <2>1, ApiDoneFrame, HandRelease DEF HandPc
<1>8. CASE FailJob(w) \/ MarkCancelling(w) \/ MarkCancelled(w)
  <2>1. /\ UNCHANGED <<att, rid, ray>>
        /\ \E pc \in {"failEvent", "stopRay", "cancelAttempts"} : ApiGoto(w, pc)
    BY <1>8 DEF FailJob, MarkCancelling, MarkCancelled
  <2>2. QED BY <1>0, <2>1, ApiGotoFrame, HandRelease DEF OneEach, HandPc
<1>9. CASE StopRay(w)
  <2>1. ApiGoto(w, "markCancelled") /\ UNCHANGED <<att, rid>>
    BY <1>9 DEF StopRay, db
  <2>2. \A a \in Attempts : ray[a] = "ABSENT" => ray'[a] = "ABSENT"
    BY <1>0, <1>9, RayStopType DEF StopRay, TypeOK
  <2>3. QED BY <1>0, <2>1, <2>2, ApiGotoFrame, HandRelease DEF OneEach, HandPc
<1>10. CASE CancelAttempts(w)
  <2>1. ApiGoto(w, "cancelEvent") /\ UNCHANGED <<rid, ray>>
    BY <1>10 DEF CancelAttempts
  <2>2. \A b \in Attempts : att[b] # "ABSENT" => att'[b] # "ABSENT"
    BY <1>10 DEF CancelAttempts
  <2>3. QED BY <1>0, <2>1, <2>2, ApiGotoFrame, HandRelease DEF OneEach, HandPc
<1>11. QED
  BY <1>1, <1>2, <1>3, <1>4, <1>5, <1>6, <1>7, <1>8, <1>9, <1>10 DEF Handle

LEMMA HandOther ==
    ASSUME TInv, HandInv,
           (\E w \in Workers : Crash(w)) \/ (\E a \in Attempts : RayStart(a) \/ RayFinish(a))
    PROVE  HandInv'
<1>0. TypeOK /\ OneEach
  BY DEF TInv, HandInv
<1>1. ASSUME NEW w \in Workers, Crash(w) PROVE HandInv'
  <2>1. UNCHANGED <<att, rid, ray>> /\ ApiDone(w)
    BY <1>1 DEF Crash, db, ApiDone
  <2>2. QED BY <1>0, <2>1, ApiDoneFrame, HandRelease DEF HandPc
<1>2. ASSUME NEW a \in Attempts, RayStart(a) \/ RayFinish(a) PROVE HandInv'
  <2>1. UNCHANGED <<att, rid, api>>
    BY <1>2 DEF RayStart, RayFinish, db
  <2>2. \A b \in Attempts : ray[b] = "ABSENT" => ray'[b] = "ABSENT"
    BY <1>0, <1>2 DEF RayStart, RayFinish, TypeOK
  <2>3. QED
    BY <2>1, <2>2 DEF HandInv, OneEach, OnAttempt, Unborn, HeldFresh, OneHolder, Holds
<1>3. QED BY <1>1, <1>2

LEMMA HandStep == TInv /\ HandInv /\ [Next]_vars => HandInv'
<1> SUFFICES ASSUME TInv, HandInv, [Next]_vars PROVE HandInv'
  OBVIOUS
<1>1. CASE UNCHANGED vars
  BY <1>1 DEF HandInv, OneEach, OnAttempt, Unborn, HeldFresh, OneHolder, Holds, vars
<1>2. CASE Next
  BY <1>2, HandAccept, HandHandle, HandThread, HandOther DEF Next
<1>3. QED BY <1>1, <1>2

LEMMA HandInvariant == Spec => []HandInv
BY TypeInvariant, HandInit, HandStep, PTL DEF Spec

-----------------------------------------------------------------------------
(* What Ray says moves forward *)

\* A Ray job that has ended keeps its outcome, and one that Ray has is not
\* submitted again.
RayForward ==
    \A a \in Attempts :
        /\ ray[a] \in {"SUCCEEDED", "FAILED"} => ray'[a] = ray[a]
        /\ ray[a] # "ABSENT" /\ ray'[a] = "PENDING" => ray[a] = "PENDING"

LEMMA RayForwardStep ==
    ASSUME TInv, HandInv, [Next]_vars
    PROVE  RayForward
<1>0. TypeOK /\ OneEach
  BY DEF TInv, HandInv
<1>1. CASE UNCHANGED vars
  BY <1>1 DEF RayForward, vars
<1>2. ASSUME NEW w \in Workers, Sync(w) \/ Recover(w) PROVE RayForward
  BY <1>2, ThreadFrame DEF RayForward
<1>3. ASSUME NEW w \in Workers, Accept(w) \/ Crash(w) PROVE RayForward
  BY <1>3 DEF RayForward, Accept, SubmitJob, RetryJob, CancelJob, Crash
<1>4. ASSUME NEW a \in Attempts, RayStart(a) \/ RayFinish(a) PROVE RayForward
  BY <1>0, <1>4 DEF RayStart, RayFinish, TypeOK, RayForward
<1>5. ASSUME NEW w \in Workers, Handle(w) PROVE RayForward
  <2>1. CASE CallBackend(w)
    <3>1. PICK a \in api[w].on : ray' = [ray EXCEPT ![a] = "PENDING"] \/ ray' = ray
      BY <2>1 DEF CallBackend
    <3>2. a \in Attempts /\ ray[a] = "ABSENT"
      BY <2>1 DEF CallBackend, HandInv, OnAttempt, HeldFresh, Holds, HandPc
    <3>3. QED BY <1>0, <3>1, <3>2 DEF TypeOK, RayForward
  <2>2. CASE StopRay(w)
    BY <1>0, <2>2, RayStopType DEF StopRay, TypeOK, RayForward
  <2>3. CASE ~(CallBackend(w) \/ StopRay(w))
    BY <1>5, <2>3
       DEF Handle, NumberAttempt, InsertAttempt, QueueJob, RecordAttempt, RecordJob, FailAttempt,
           FailJob, FailEvent, MarkCancelling, MarkCancelled, CancelAttempts, CancelEvent, RayForward
  <2>4. QED BY <2>1, <2>2, <2>3
<1>6. QED
  BY <1>1, <1>2, <1>3, <1>4, <1>5 DEF Next

\* Two processes that retry a job at once number the attempt alike; the UNIQUE
\* constraint lets one of them through, and no attempt is handed over twice.
THEOREM AttemptsHandedOverOnce == Spec => NeverResubmitted
<1>1. TInv /\ HandInv /\ [Next]_vars
         => [\A a \in Attempts : ray[a] # "ABSENT" /\ ray'[a] = "PENDING" => ray[a] = "PENDING"]_vars
  BY RayForwardStep DEF RayForward
<1>2. QED
  BY <1>1, TypeInvariant, HandInvariant, PTL DEF Spec, NeverResubmitted

-----------------------------------------------------------------------------
(* No Ray job escapes job_attempts unless a reply or a process is lost *)

\* A job that Ray took is recorded, or its request still holds the id.
Tracked ==
    \A a \in Attempts :
        ray[a] # "ABSENT" =>
            \/ rid[a]
            \/ \E w \in Workers : api[w].pc = "recordAttempt" /\ a \in api[w].on

NoLoss == MaxCrashes = 0 /\ "reply" \notin Faults

LEMMA TrackedStep == NoLoss /\ TInv /\ HandInv /\ Tracked /\ [Next]_vars => Tracked'
<1> SUFFICES ASSUME NoLoss, TInv, HandInv, Tracked, [Next]_vars PROVE Tracked'
  OBVIOUS
<1>0. TypeOK /\ OneEach
  BY DEF TInv, HandInv
<1>1. CASE UNCHANGED vars
  BY <1>1 DEF Tracked, vars
<1>2. ASSUME NEW w \in Workers, Sync(w) \/ Recover(w) PROVE Tracked'
  BY <1>2, ThreadFrame DEF Tracked
<1>3. ASSUME NEW w \in Workers, Crash(w) PROVE Tracked'
  BY <1>0, <1>3 DEF Crash, NoLoss, TypeOK
<1>4. ASSUME NEW a \in Attempts, RayStart(a) \/ RayFinish(a) PROVE Tracked'
  <2>1. \A b \in Attempts : ray[b] = "ABSENT" => ray'[b] = "ABSENT"
    BY <1>0, <1>4 DEF RayStart, RayFinish, TypeOK
  <2>2. QED BY <1>4, <2>1 DEF RayStart, RayFinish, Tracked, db
<1>5. ASSUME NEW w \in Workers, Accept(w) PROVE Tracked'
  <2>1. UNCHANGED <<ray, rid>> /\ api[w].pc = "idle" /\ \A v \in Workers \ {w} : api'[v] = api[v]
    BY <1>0, <1>5 DEF Accept, SubmitJob, RetryJob, CancelJob, db, NoRequest, TypeOK
  <2>2. QED BY <2>1 DEF Tracked
<1>6. ASSUME NEW w \in Workers, Handle(w) PROVE Tracked'
  <2>1. CASE CallBackend(w)
    <3>1. PICK a \in api[w].on :
             \/ ray' = [ray EXCEPT ![a] = "PENDING"] /\ ApiGoto(w, "recordAttempt")
             \/ ray' = ray /\ ApiGoto(w, "failAttempt")
      BY <2>1 DEF CallBackend, NoLoss
    <3>2. api[w].pc = "callBackend" /\ rid' = rid
      BY <2>1 DEF CallBackend, db
    <3>3. \A b \in Attempts : b # a => ray'[b] = ray[b]
      BY <1>0, <3>1 DEF TypeOK
    <3>4. CASE ray' = ray /\ ApiGoto(w, "failAttempt")
      BY <1>0, <3>2, <3>4, ApiGotoFrame DEF Tracked
    <3>5. CASE ApiGoto(w, "recordAttempt")
      BY <1>0, <3>2, <3>3, <3>5, ApiGotoFrame DEF Tracked
    <3>6. QED BY <3>1, <3>4, <3>5
  <2>2. CASE RecordAttempt(w)
    <3>1. PICK a \in api[w].on : rid' = [rid EXCEPT ![a] = TRUE]
      BY <2>2 DEF RecordAttempt
    <3>2. api[w].pc = "recordAttempt" /\ ray' = ray /\ ApiGoto(w, "recordJob")
      BY <2>2 DEF RecordAttempt
    <3>3. \A b \in Attempts : rid'[b] <=> rid[b] \/ b \in api[w].on
      BY <1>0, <3>1 DEF TypeOK, OneEach
    <3>4. QED BY <1>0, <3>2, <3>3, ApiGotoFrame DEF Tracked
  <2>3. CASE StopRay(w)
    <3>1. \A b \in Attempts : ray[b] = "ABSENT" => ray'[b] = "ABSENT"
      BY <1>0, <2>3, RayStopType DEF StopRay, TypeOK
    <3>2. api[w].pc = "stopRay" /\ rid' = rid /\ ApiGoto(w, "markCancelled")
      BY <2>3 DEF StopRay, db
    <3>3. QED BY <1>0, <3>1, <3>2, ApiGotoFrame DEF Tracked
  <2>4. CASE ~(CallBackend(w) \/ RecordAttempt(w) \/ StopRay(w))
    <3>1. UNCHANGED <<ray, rid>> /\ api[w].pc # "recordAttempt" /\ \A v \in Workers \ {w} : api'[v] = api[v]
      BY <1>0, <1>6, <2>4
         DEF Handle, NumberAttempt, InsertAttempt, QueueJob, RecordJob, FailAttempt, FailJob, FailEvent,
             MarkCancelling, MarkCancelled, CancelAttempts, CancelEvent, ApiGoto, ApiDone, db, TypeOK
    <3>2. QED BY <3>1 DEF Tracked
  <2>5. QED BY <2>1, <2>2, <2>3, <2>4
<1>7. QED
  BY <1>1, <1>2, <1>3, <1>4, <1>5, <1>6 DEF Next

\* Whatever requests, passes and restarts of any number of processes
\* interleave: a Ray job can only escape job_attempts, where nothing would
\* ever stop it, when a process dies or the reply of submit_job is lost.
THEOREM RayJobsTracked ==
    ASSUME NoLoss
    PROVE  Spec => []NoUntrackedRayJob
<1>1. Init => Tracked
  BY DEF Init, Tracked
<1>2. Tracked => NoUntrackedRayJob
  BY DEF Tracked, NoUntrackedRayJob, RayLive
<1>3. NoLoss
  OBVIOUS
<1>4. TInv /\ HandInv /\ Tracked /\ [Next]_vars => Tracked'
  BY <1>3, TrackedStep
<1>5. QED
  BY <1>1, <1>2, <1>4, TypeInvariant, HandInvariant, PTL DEF Spec

-----------------------------------------------------------------------------
(* Layer 3: recorded outcomes are Ray's *)

Ended == {"SUCCEEDED", "FAILED"}

\* Rows that will be looked up in Ray name an attempt.
RowsNumbered ==
    \A w \in Workers :
        /\ bg[w].phase \in {"sync", "zombies", "timeouts"} => \A i \in bg[w].todo : i.n \in Nums
        /\ bg[w].pc = "ask" => \A x \in bg[w].cur : x.n \in Nums

\* An outcome that a thread carries from its poll to its UPDATEs is still Ray's.
RealAnswers ==
    \A w \in Workers :
        bg[w].mapped \in Ended =>
            \A x \in bg[w].cur : x.n \in Nums /\ ray[<<x.j, x.n>>] = bg[w].mapped

RealInv == RowsNumbered /\ RealAnswers /\ OutcomeIsReal /\ SucceededIsReal

RayStable == \A a \in Attempts : ray[a] \in Ended => ray'[a] = ray[a]

LEMMA RayStep ==
    ASSUME TInv, HandInv, [Next]_vars
    PROVE  RayStable
BY RayForwardStep DEF RayForward, RayStable, Ended

\* Every step of a thread that only moves along its row.
LEMMA GotoKeepsAnswers ==
    ASSUME TypeOK, RealInv, RayStable, NEW w \in Workers, NEW pc, BgGoto(w, pc) \/ BgAbort(w), pc # "ask"
    PROVE  RowsNumbered' /\ RealAnswers'
<1>1. \A v \in Workers : \A x \in bg[v].cur : x \in Item
  BY DEF TypeOK, BgState
<1>2. CASE BgGoto(w, pc)
  <2>1. /\ \A v \in Workers \ {w} : bg'[v] = bg[v]
        /\ bg'[w].phase = bg[w].phase /\ bg'[w].todo = bg[w].todo /\ bg'[w].pc = pc
        /\ bg'[w].cur \subseteq bg[w].cur /\ bg'[w].mapped \in {bg[w].mapped, "UNKNOWN"}
    BY <1>2 DEF BgGoto, TypeOK, BgState
  <2>2. QED
    BY <1>1, <2>1 DEF RealInv, RowsNumbered, RealAnswers, RayStable, Ended, Item, Attempts
<1>3. CASE BgAbort(w)
  <2>1. /\ \A v \in Workers \ {w} : bg'[v] = bg[v]
        /\ bg'[w].todo = {} /\ bg'[w].pc = "next" /\ bg'[w].cur = {} /\ bg'[w].mapped = "UNKNOWN"
    BY <1>3 DEF BgAbort, TypeOK, BgState, Down
  <2>2. QED
    BY <1>1, <2>1 DEF RealInv, RowsNumbered, RealAnswers, RayStable, Ended, Item, Attempts
<1>4. QED BY <1>2, <1>3

LEMMA TakeKeepsAnswers ==
    ASSUME TypeOK, RealInv, RayStable, NEW w \in Workers,
           NEW i, NEW x \in Item, NEW m, NEW pc, BgTake(w, i, x, m, pc),
           m \in Ended => x.n \in Nums /\ ray[<<x.j, x.n>>] = m,
           pc = "ask" => x.n \in Nums
    PROVE  RowsNumbered' /\ RealAnswers'
<1>1. \A v \in Workers : \A y \in bg[v].cur : y \in Item
  BY DEF TypeOK, BgState
<1>2. /\ \A v \in Workers \ {w} : bg'[v] = bg[v]
      /\ bg'[w].phase = bg[w].phase /\ bg'[w].todo \subseteq bg[w].todo /\ bg'[w].pc = pc
      /\ bg'[w].cur \subseteq {x} /\ bg'[w].mapped \in {m, "UNKNOWN"}
  BY DEF BgTake, TypeOK, BgState
<1>3. QED
  BY <1>1, <1>2 DEF RealInv, RowsNumbered, RealAnswers, RayStable, Ended, Item, Attempts

\* Outcomes stay real when what is written is Ray's.
LEMMA OutcomesKept ==
    ASSUME TypeOK, RealInv, RayStable,
           \A a \in Attempts :
              /\ att'[a] = "SUCCEEDED" => att[a] = "SUCCEEDED" \/ ray[a] = "SUCCEEDED"
              /\ att'[a] = "FAILED" /\ rid'[a] => (att[a] = "FAILED" /\ rid[a]) \/ ray[a] = "FAILED",
           \A j \in Jobs :
              job'[j] = "SUCCEEDED" => job[j] = "SUCCEEDED" \/ \E n \in Nums : ray[<<j, n>>] = "SUCCEEDED"
    PROVE  OutcomeIsReal' /\ SucceededIsReal'
<1>1. OutcomeIsReal'
  BY DEF RealInv, OutcomeIsReal, RayStable, Ended
<1>2. SucceededIsReal'
  BY DEF RealInv, SucceededIsReal, RayStable, Ended, Attempts
<1>3. QED BY <1>1, <1>2

\* The requests write no SUCCEEDED, and FAILED only into an attempt without a Ray id.
LEMMA RealRequest ==
    ASSUME TInv, HandInv, RealInv, RayStable, NEW w \in Workers, Accept(w) \/ Handle(w)
    PROVE  RealInv'
<1>0. TypeOK /\ OneEach
  BY DEF TInv, HandInv
<1>1. bg' = bg
  BY DEF Accept, SubmitJob, RetryJob, CancelJob, Handle, NumberAttempt, InsertAttempt, QueueJob,
         CallBackend, RecordAttempt, RecordJob, FailAttempt, FailJob, FailEvent, MarkCancelling,
         StopRay, MarkCancelled, CancelAttempts, CancelEvent
<1>2. RowsNumbered' /\ RealAnswers'
  <2>1. \A v \in Workers : \A y \in bg[v].cur : y \in Item
    BY <1>0 DEF TypeOK, BgState
  <2>2. QED
    BY <1>1, <2>1 DEF RealInv, RowsNumbered, RealAnswers, RayStable, Ended, Item, Attempts
<1>3. \A j \in Jobs : job'[j] = "SUCCEEDED" => job[j] = "SUCCEEDED"
  BY <1>0 DEF Accept, SubmitJob, RetryJob, CancelJob, Handle, NumberAttempt, InsertAttempt, QueueJob,
              CallBackend, RecordAttempt, RecordJob, FailAttempt, FailJob, FailEvent, MarkCancelling,
              StopRay, MarkCancelled, CancelAttempts, CancelEvent, TypeOK, db
<1>4. \A a \in Attempts :
         /\ att'[a] = "SUCCEEDED" => att[a] = "SUCCEEDED"
         /\ att'[a] = "FAILED" /\ rid'[a] => att[a] = "FAILED" /\ rid[a]
  <2>1. CASE FailAttempt(w)
    <3>1. PICK b \in api[w].on : att' = [att EXCEPT ![b] = "FAILED"]
      BY <2>1 DEF FailAttempt
    <3>2. b \in Attempts /\ ~rid[b] /\ rid' = rid
      BY <2>1 DEF FailAttempt, HandInv, OnAttempt, HeldFresh, Holds, HandPc
    <3>3. QED BY <1>0, <3>1, <3>2 DEF TypeOK
  <2>2. CASE RecordAttempt(w)
    BY <1>0, <2>2 DEF RecordAttempt, TypeOK, OneEach
  <2>3. CASE InsertAttempt(w)
    BY <1>0, <2>3 DEF InsertAttempt, TypeOK
  <2>4. CASE CancelAttempts(w)
    BY <1>0, <2>4 DEF CancelAttempts, TypeOK
  <2>5. CASE ~(FailAttempt(w) \/ RecordAttempt(w) \/ InsertAttempt(w) \/ CancelAttempts(w))
    <3>1. UNCHANGED <<att, rid>>
      BY <2>5 DEF Accept, SubmitJob, RetryJob, CancelJob, Handle, NumberAttempt, QueueJob, CallBackend,
                  RecordJob, FailJob, FailEvent, MarkCancelling, StopRay, MarkCancelled, CancelEvent, db
    <3>2. QED BY <3>1
  <2>6. QED BY <2>1, <2>2, <2>3, <2>4, <2>5
<1>5. OutcomeIsReal' /\ SucceededIsReal'
  BY <1>0, <1>3, <1>4, OutcomesKept
<1>6. QED BY <1>2, <1>5 DEF RealInv

\* The passes and recover_on_startup write an outcome only from an answer of Ray.
LEMMA RealThread ==
    ASSUME TInv, HandInv, RealInv, RayStable, NEW w \in Workers, Sync(w) \/ Recover(w)
    PROVE  RealInv'
<1>0. TypeOK /\ MappedFits /\ rid' = rid
  BY ThreadFrame DEF TInv
<1>1. bg[w].todo \subseteq Item /\ bg[w].cur \subseteq Item
  BY <1>0 DEF TypeOK, BgState
<1>2. SUFFICES /\ RowsNumbered' /\ RealAnswers'
               /\ \A a \in Attempts :
                     /\ att'[a] = "SUCCEEDED" => att[a] = "SUCCEEDED" \/ ray[a] = "SUCCEEDED"
                     /\ att'[a] = "FAILED" => att[a] = "FAILED" \/ ray[a] = "FAILED"
               /\ \A j \in Jobs : job'[j] = "SUCCEEDED" =>
                     job[j] = "SUCCEEDED" \/ \E n \in Nums : ray[<<j, n>>] = "SUCCEEDED"
  BY <1>0, OutcomesKept DEF RealInv
<1>3. CASE StartPass(w)
  <2>1. PICK p \in {"sync", "zombies", "timeouts"} :
            bg' = [bg EXCEPT ![w].phase = p, ![w].pc = "scan"]
    BY <1>3 DEF StartPass
  <2>2. /\ \A v \in Workers \ {w} : bg'[v] = bg[v]
        /\ bg'[w].todo = {} /\ bg'[w].pc = "scan" /\ bg'[w].cur = bg[w].cur /\ bg'[w].mapped = bg[w].mapped
    BY <1>0, <1>3, <2>1 DEF TypeOK, BgState, StartPass
  <2>3. UNCHANGED <<att, job, ray>>
    BY <1>3 DEF StartPass, db
  <2>4. QED
    BY <2>2, <2>3 DEF RealInv, RowsNumbered, RealAnswers
<1>4. CASE Scan(w)
  <2>1. PICK rows : bg' = [bg EXCEPT ![w].todo = rows, ![w].pc = "next"]
                    /\ (bg[w].phase # "recover" => rows \subseteq SyncRows \cup ZombieRows \cup TimeoutRows)
    BY <1>4 DEF Scan
  <2>2. \A i \in SyncRows \cup ZombieRows \cup TimeoutRows : i.n \in Nums
    BY DEF SyncRows, ZombieRows, TimeoutRows, Row, Attempts
  <2>3. /\ \A v \in Workers \ {w} : bg'[v] = bg[v]
        /\ bg'[w].todo = rows /\ bg'[w].pc = "next" /\ bg'[w].phase = bg[w].phase
        /\ bg'[w].cur = bg[w].cur /\ bg'[w].mapped = bg[w].mapped
    BY <1>0, <2>1 DEF TypeOK, BgState
  <2>4. UNCHANGED <<att, job, ray>>
    BY <1>4 DEF Scan, db
  <2>5. bg[w].phase # "recover" => \A i \in rows : i.n \in Nums
    BY <2>1, <2>2
  <2>6. RowsNumbered'
    BY <2>3, <2>5 DEF RealInv, RowsNumbered
  <2>7. RealAnswers'
    BY <2>3, <2>4 DEF RealInv, RealAnswers
  <2>8. QED BY <2>4, <2>6, <2>7
<1>5. CASE Start(w)
  <2>1. UNCHANGED <<att, job, ray>>
    BY <1>5 DEF Start, db
  <2>2. /\ \A v \in Workers \ {w} : bg'[v] = bg[v]
        /\ bg'[w].phase = "recover" /\ bg'[w].pc = bg[w].pc
        /\ bg'[w].cur = bg[w].cur /\ bg'[w].mapped = bg[w].mapped
    BY <1>0, <1>5 DEF Start, TypeOK, BgState
  <2>3. QED BY <2>1, <2>2 DEF RealInv, RowsNumbered, RealAnswers
<1>6. CASE SyncAsk(w)
  <2>1. PICK i \in bg[w].todo :
           \/ BgTake(w, i, i, "UNKNOWN", "lostStop")
           \/ \E pc \in BgPc \ {"ask"} : BgTake(w, i, i, Polled(w, <<i.j, i.n>>), pc)
    BY <1>6, AfterAttemptType DEF SyncAsk, BgPc
  <2>2. i \in Item /\ i.n \in Nums
    BY <1>1, <1>6 DEF SyncAsk, RealInv, RowsNumbered
  <2>3. Polled(w, <<i.j, i.n>>) \in Ended => ray[<<i.j, i.n>>] = Polled(w, <<i.j, i.n>>)
    BY PolledIsReal DEF Ended
  <2>4. RowsNumbered' /\ RealAnswers'
    BY <1>0, <2>1, <2>2, <2>3, TakeKeepsAnswers DEF Ended
  <2>5. UNCHANGED <<att, job>>
    BY <1>6 DEF SyncAsk, db
  <2>6. QED BY <2>4, <2>5
<1>7. CASE RecoverPick(w)
  <2>1. PICK i \in bg[w].todo, x \in Item, pc \in {"ask", "forget"} :
            BgTake(w, i, x, "UNKNOWN", pc) /\ (pc = "ask" => x.n \in Nums)
    BY <1>7, RecoverPickTakes
  <2>2. RowsNumbered' /\ RealAnswers'
    BY <1>0, <2>1, TakeKeepsAnswers DEF Ended
  <2>3. UNCHANGED <<att, job>>
    BY <1>7 DEF RecoverPick, db
  <2>4. QED BY <2>2, <2>3
<1>8. CASE RecoverAsk(w)
  <2>1. PICK x \in bg[w].cur :
           \/ BgGoto(w, "lostStop")
           \/ BgTake(w, x, x, Polled(w, <<x.j, x.n>>), AfterRecovery(x, Polled(w, <<x.j, x.n>>)))
    BY <1>8 DEF RecoverAsk
  <2>2. x \in Item /\ x.n \in Nums
    BY <1>1, <1>8 DEF RecoverAsk, RealInv, RowsNumbered
  <2>3. Polled(w, <<x.j, x.n>>) \in Ended => ray[<<x.j, x.n>>] = Polled(w, <<x.j, x.n>>)
    BY PolledIsReal DEF Ended
  <2>4. AfterRecovery(x, Polled(w, <<x.j, x.n>>)) # "ask"
    BY AfterRecoveryType
  <2>5. RowsNumbered' /\ RealAnswers'
    BY <1>0, <2>1, <2>2, <2>3, <2>4, TakeKeepsAnswers, GotoKeepsAnswers
  <2>6. UNCHANGED <<att, job>>
    BY <1>8 DEF RecoverAsk, db
  <2>7. QED BY <2>5, <2>6
<1>9. CASE ZombieAsk(w) \/ TimeoutStop(w)
  <2>1. PICK i \in bg[w].todo, pc \in {"next", "timeoutAttempt"} : BgTake(w, i, i, "UNKNOWN", pc)
    BY <1>9 DEF ZombieAsk, TimeoutStop
  <2>2. RowsNumbered' /\ RealAnswers'
    BY <1>0, <1>1, <2>1, TakeKeepsAnswers DEF Ended
  <2>3. UNCHANGED <<att, job>>
    BY <1>9 DEF ZombieAsk, TimeoutStop, db
  <2>4. QED BY <2>2, <2>3
<1>10. CASE UpdateAttempt(w)
  <2>1. PICK x \in bg[w].cur :
            att' = [att EXCEPT ![<<x.j, x.n>>] = bg[w].mapped] /\ BgGoto(w, AfterAttempt(x, bg[w].mapped))
    BY <1>10 DEF UpdateAttempt
  <2>2. RowsNumbered' /\ RealAnswers'
    BY <1>0, <2>1, AfterAttemptType, GotoKeepsAnswers
  <2>3. bg[w].mapped \in Ended => ray[<<x.j, x.n>>] = bg[w].mapped
    BY DEF RealInv, RealAnswers
  <2>4. job' = job
    BY <1>10 DEF UpdateAttempt
  <2>5. QED BY <1>0, <2>1, <2>2, <2>3, <2>4 DEF TypeOK, Ended
<1>11. CASE FinalizeJob(w)
  <2>1. PICK x \in bg[w].cur :
           /\ \E pc \in {"event", "next"} : BgGoto(w, pc)
           /\ job' = job \/ (CanTransition("RUNNING", bg[w].mapped) /\ job' = [job EXCEPT ![x.j] = bg[w].mapped])
    BY <1>11 DEF FinalizeJob
  <2>2. RowsNumbered' /\ RealAnswers'
    BY <1>0, <2>1, GotoKeepsAnswers
  <2>3. bg[w].mapped \in Ended => x.n \in Nums /\ ray[<<x.j, x.n>>] = bg[w].mapped
    BY DEF RealInv, RealAnswers
  <2>4. att' = att
    BY <1>11 DEF FinalizeJob
  <2>5. QED BY <1>0, <2>1, <2>2, <2>3, <2>4 DEF TypeOK, Ended
<1>12. CASE FinalEvent(w) \/ LostStop(w) \/ LostEvent(w) \/ TimeoutEvent(w)
  <2>1. UNCHANGED <<att, job>>
        /\ ((\E pc \in {"next", "lostStop", "lostAttempt", "forget"} : BgGoto(w, pc)) \/ BgAbort(w))
    BY <1>12 DEF FinalEvent, LostStop, LostEvent, TimeoutEvent, db
  <2>2. RowsNumbered' /\ RealAnswers'
    BY <1>0, <2>1, GotoKeepsAnswers
  <2>3. QED BY <2>1, <2>2
<1>13. CASE PromoteJob(w) \/ RequeueJob(w) \/ LostJob(w) \/ TimeoutJob(w) \/ RecoverForget(w)
            \/ RecoverCancelJob(w) \/ ResumeJob(w)
  <2>1. /\ \E pc \in {"next", "lostEvent", "timeoutEvent", "cancelAttempt", "resumeAttempt"} : BgGoto(w, pc)
        /\ att' = att
    BY <1>13 DEF PromoteJob, RequeueJob, LostJob, TimeoutJob, RecoverForget, RecoverCancelJob, ResumeJob
  <2>2. RowsNumbered' /\ RealAnswers'
    BY <1>0, <2>1, GotoKeepsAnswers
  <2>3. \A j \in Jobs : job'[j] = "SUCCEEDED" => job[j] = "SUCCEEDED"
    BY <1>0, <1>13
       DEF TypeOK, PromoteJob, RequeueJob, LostJob, TimeoutJob, RecoverForget, RecoverCancelJob, ResumeJob
  <2>4. QED BY <2>1, <2>2, <2>3
<1>14. CASE LostAttempt(w) \/ TimeoutAttempt(w) \/ RecoverCancelAttempt(w) \/ ResumeAttempt(w)
  <2>1. /\ \E pc \in {"lostJob", "timeoutJob", "next"} : BgGoto(w, pc)
        /\ job' = job
    BY <1>14 DEF LostAttempt, TimeoutAttempt, RecoverCancelAttempt, ResumeAttempt
  <2>2. RowsNumbered' /\ RealAnswers'
    BY <1>0, <2>1, GotoKeepsAnswers
  <2>3. \A a \in Attempts : att'[a] \in {"SUCCEEDED", "FAILED"} => att'[a] = att[a]
    BY <1>0, <1>14 DEF TypeOK, LostAttempt, TimeoutAttempt, RecoverCancelAttempt, ResumeAttempt
  <2>4. QED BY <2>1, <2>2, <2>3
<1>15. QED
  BY <1>3, <1>4, <1>5, <1>6, <1>7, <1>8, <1>9, <1>10, <1>11, <1>12, <1>13, <1>14
     DEF Sync, Recover

LEMMA RealOther ==
    ASSUME TInv, HandInv, RealInv, RayStable,
           (\E w \in Workers : Crash(w)) \/ (\E a \in Attempts : RayStart(a) \/ RayFinish(a))
    PROVE  RealInv'
<1>0. TypeOK
  BY DEF TInv
<1>1. UNCHANGED <<att, rid, job>>
  BY DEF Crash, RayStart, RayFinish, db
<1>2. \A w \in Workers : bg'[w] = bg[w] \/ bg'[w] = Down
  BY <1>0 DEF Crash, RayStart, RayFinish, TypeOK
<1>3. \A w \in Workers : \A y \in bg[w].cur : y \in Item
  BY <1>0 DEF TypeOK, BgState
<1>4. RowsNumbered' /\ RealAnswers'
  BY <1>2, <1>3 DEF RealInv, RowsNumbered, RealAnswers, RayStable, Ended, Item, Attempts, Down
<1>5. OutcomeIsReal' /\ SucceededIsReal'
  BY <1>0, <1>1, OutcomesKept DEF RealInv, OutcomeIsReal, SucceededIsReal
<1>6. QED BY <1>4, <1>5 DEF RealInv

LEMMA RealStep == TInv /\ HandInv /\ RealInv /\ [Next]_vars => RealInv'
<1> SUFFICES ASSUME TInv, HandInv, RealInv, [Next]_vars PROVE RealInv'
  OBVIOUS
<1>1. RayStable
  BY RayStep
<1>2. CASE UNCHANGED vars
  BY <1>2 DEF RealInv, RowsNumbered, RealAnswers, OutcomeIsReal, SucceededIsReal, vars
<1>3. CASE Next
  BY <1>1, <1>3, RealRequest, RealThread, RealOther DEF Next
<1>4. QED BY <1>2, <1>3

LEMMA RealInit == Init => RealInv
BY DEF Init, RealInv, RowsNumbered, RealAnswers, OutcomeIsReal, SucceededIsReal, Down, Ended

LEMMA RealInvariant == Spec => []RealInv
BY TypeInvariant, HandInvariant, RealInit, RealStep, PTL DEF Spec

\* The outcome in job_attempts is Ray's, whatever crashed, was lost or was
\* polled late by however many processes.
THEOREM OutcomesAreReal == Spec => []OutcomeIsReal
BY RealInvariant, PTL DEF RealInv

\* ... and no job is SUCCEEDED that Ray did not complete.
THEOREM SuccessesAreReal == Spec => []SucceededIsReal
BY RealInvariant, PTL DEF RealInv

-----------------------------------------------------------------------------
(***************************************************************************)
(* The second part: one server process (the default of                     *)
(* __main__.py; docker-compose.yml sets UVICORN_WORKERS to 2, and nothing  *)
(* here is claimed of that) that never crashes, and an event table that    *)
(* can be written, for any set of jobs and any bound on attempts.  Two of  *)
(* the theorems hold whatever else fails; the third one, about the jobs    *)
(* inside Ray, needs Ray to be reachable and obedient.                     *)
(*                                                                         *)
(* On top of the invariants above:                                         *)
(*   Booted     recovery found nothing, a pass visits one row at a time;   *)
(*   Announced  a terminal status is in the timeline, or the thread that   *)
(*              has set it has the event still to write;                   *)
(*   RowsInv    what stays true of a row after it was read, although the   *)
(*              event loop goes on serving requests;                       *)
(*   ReqInv     what stays true of the attempt a request works on,         *)
(*              although the pass goes on;                                 *)
(*   ActiveInv  an attempt that is QUEUED or RUNNING is its job's latest,  *)
(*              and retry accepts no job that has one;                     *)
(*   LiveInv    the same of the jobs inside Ray.                           *)
(* RowsInv, ReqInv and ActiveInv hold each other up: neither thread would  *)
(* be safe from the other alone.                                           *)
(***************************************************************************)

\* A second process, or one that restarts, recovers while requests are half
\* done.  When an event cannot be written, the except branch marks a job LOST
\* that the event loop may have retried in between.
Steady ==
    /\ \A v, w \in Workers : v = w
    /\ MaxCrashes = 0
    /\ "event" \notin Faults

-----------------------------------------------------------------------------
(* One process from its start on *)

RecoverPc == {"ask", "forget", "cancelJob", "cancelAttempt", "resumeJob", "resumeAttempt"}

\* Recovery ran on an empty database; a pass visits one row at a time.
Booted ==
    \A w \in Workers :
        /\ ~Serving(w) => /\ bg[w].pc \in {"scan", "next"} /\ bg[w].todo = {}
                          /\ api[w] = NoRequest
                          /\ \A j \in Jobs : job[j] = "ABSENT"
        /\ bg[w].pc \notin RecoverPc
        /\ bg[w].pc \in {"scan", "next"} => bg[w].cur = {}
        /\ bg[w].pc = "scan" => bg[w].todo = {}
        /\ \A x, y \in bg[w].cur : x = y

LEMMA GotoFrame ==
    ASSUME TypeOK, NEW w \in Workers, NEW pc, BgGoto(w, pc)
    PROVE  /\ bg'[w].phase = bg[w].phase /\ bg'[w].todo = bg[w].todo /\ bg'[w].pc = pc
           /\ bg'[w].cur = IF pc = "next" THEN {} ELSE bg[w].cur
           /\ pc # "next" => bg'[w].mapped = bg[w].mapped
BY DEF BgGoto, TypeOK, BgState

LEMMA TakeFrame ==
    ASSUME TypeOK, NEW w \in Workers, NEW i, NEW x, NEW m, NEW pc, BgTake(w, i, x, m, pc)
    PROVE  /\ bg'[w].phase = bg[w].phase /\ bg'[w].todo = bg[w].todo \ {i} /\ bg'[w].pc = pc
           /\ bg'[w].cur = IF pc = "next" THEN {} ELSE {x}
           /\ pc # "next" => bg'[w].mapped = m
BY DEF BgTake, TypeOK, BgState

\* The steps of a row move along this graph when events can be written.
RowGoto(w, pc) ==
    \/ bg[w].pc = "attempt" /\ pc \in {"finalize", "promote", "requeue", "next"}
    \/ bg[w].pc = "finalize" /\ pc \in {"event", "next"}
    \/ bg[w].pc \in {"event", "promote", "requeue", "lostEvent", "timeoutEvent"} /\ pc = "next"
    \/ bg[w].pc = "lostStop" /\ pc = "lostAttempt"
    \/ bg[w].pc = "lostAttempt" /\ pc = "lostJob"
    \/ bg[w].pc = "lostJob" /\ pc = "lostEvent"
    \/ bg[w].pc = "timeoutAttempt" /\ pc = "timeoutJob"
    \/ bg[w].pc = "timeoutJob" /\ pc = "timeoutEvent"

\* The steps of a row that has been taken.
RowStep(w) ==
    \/ UpdateAttempt(w) \/ FinalizeJob(w) \/ FinalEvent(w) \/ PromoteJob(w) \/ RequeueJob(w)
    \/ LostStop(w) \/ LostAttempt(w) \/ LostJob(w) \/ LostEvent(w)
    \/ TimeoutAttempt(w) \/ TimeoutJob(w) \/ TimeoutEvent(w)

\* What the thread can still do: start a pass, read its rows, take one, or
\* go on with it.
LEMMA SteadySync ==
    ASSUME Booted, NEW w \in Workers, Sync(w) \/ Recover(w)
    PROVE  Start(w) \/ StartPass(w) \/ Scan(w) \/ SyncAsk(w) \/ ZombieAsk(w) \/ TimeoutStop(w) \/ RowStep(w)
<1>1. bg[w].pc \notin RecoverPc /\ (~Serving(w) => bg[w].pc \in {"scan", "next"} /\ bg[w].todo = {})
  BY DEF Booted
<1>2. ~RecoverPick(w)
  BY <1>1 DEF RecoverPick, Serving
<1>3. ~(RecoverForget(w) \/ RecoverAsk(w) \/ RecoverCancelJob(w) \/ RecoverCancelAttempt(w)
        \/ ResumeJob(w) \/ ResumeAttempt(w))
  BY <1>1 DEF RecoverPc, RecoverForget, RecoverAsk, RecoverCancelJob, RecoverCancelAttempt, ResumeJob,
              ResumeAttempt
<1>4. QED BY <1>2, <1>3 DEF Sync, Recover, RowStep

LEMMA RowSteps ==
    ASSUME Steady, Booted, NEW w \in Workers, RowStep(w)
    PROVE  Serving(w) /\ \E pc : RowGoto(w, pc) /\ BgGoto(w, pc)
<1>0. Serving(w)
  <2>1. bg[w].pc \notin {"scan", "next"}
    BY DEF RowStep, UpdateAttempt, FinalizeJob, FinalEvent, PromoteJob, RequeueJob, LostStop, LostAttempt,
           LostJob, LostEvent, TimeoutAttempt, TimeoutJob, TimeoutEvent
  <2>2. QED BY <2>1 DEF Booted
<1> SUFFICES \E pc : RowGoto(w, pc) /\ BgGoto(w, pc)
  BY <1>0
<1>1. CASE UpdateAttempt(w)
  <2>1. PICK x \in bg[w].cur : BgGoto(w, AfterAttempt(x, bg[w].mapped))
    BY <1>1 DEF UpdateAttempt
  <2>2. QED BY <1>1, <2>1, AfterAttemptType DEF UpdateAttempt, RowGoto
<1>2. CASE FinalizeJob(w)
  BY <1>2 DEF FinalizeJob, RowGoto
<1>3. CASE FinalEvent(w)
  BY <1>3 DEF FinalEvent, RowGoto, Steady
<1>4. CASE PromoteJob(w) \/ RequeueJob(w)
  BY <1>4 DEF PromoteJob, RequeueJob, RowGoto
<1>5. CASE LostStop(w) \/ LostAttempt(w) \/ LostJob(w)
  BY <1>5 DEF LostStop, LostAttempt, LostJob, RowGoto
<1>6. CASE LostEvent(w)
  BY <1>0, <1>6 DEF LostEvent, RowGoto, Steady, Serving
<1>7. CASE TimeoutAttempt(w) \/ TimeoutJob(w)
  BY <1>7 DEF TimeoutAttempt, TimeoutJob, RowGoto
<1>8. CASE TimeoutEvent(w)
  BY <1>8 DEF TimeoutEvent, RowGoto, Steady
<1>9. QED BY <1>0, <1>1, <1>2, <1>3, <1>4, <1>5, <1>6, <1>7, <1>8 DEF RowStep

\* The ways a pass takes a row.
LEMMA TakeSteps ==
    ASSUME TInv, NEW w \in Workers, SyncAsk(w) \/ ZombieAsk(w) \/ TimeoutStop(w)
    PROVE  /\ bg[w].pc = "next" /\ Serving(w)
           /\ \E i \in bg[w].todo, m \in Mapped,
                 pc \in {"next", "lostStop", "attempt", "finalize", "promote", "requeue", "timeoutAttempt"} :
                 BgTake(w, i, i, m, pc)
<1>1. CASE SyncAsk(w)
  BY <1>1, PolledIsReal, AfterAttemptType DEF SyncAsk, Mapped, Serving
<1>2. CASE ZombieAsk(w) \/ TimeoutStop(w)
  BY <1>2 DEF ZombieAsk, TimeoutStop, Mapped, Serving
<1>3. QED BY <1>1, <1>2

LEMMA BootedStep ==
    ASSUME Steady, TInv, Booted, [Next]_vars
    PROVE  Booted'
<1>0. TypeOK
  BY DEF TInv
<1>1. CASE UNCHANGED vars
  BY <1>1 DEF vars, Booted, Serving
<1>2. ASSUME NEW w \in Workers, Accept(w) \/ Handle(w) PROVE Booted'
  <2>1. bg' = bg
    BY <1>2 DEF Accept, SubmitJob, RetryJob, CancelJob, Handle, NumberAttempt, InsertAttempt, QueueJob,
                CallBackend, RecordAttempt, RecordJob, FailAttempt, FailJob, FailEvent, MarkCancelling,
                StopRay, MarkCancelled, CancelAttempts, CancelEvent
  <2>2. Serving(w)
    <3>1. CASE Accept(w)
      BY <3>1 DEF Accept, SubmitJob, RetryJob, CancelJob
    <3>2. CASE Handle(w)
      <4>1. api[w].pc # "idle"
        BY <3>2 DEF Handle, NumberAttempt, InsertAttempt, QueueJob, CallBackend, RecordAttempt, RecordJob,
                    FailAttempt, FailJob, FailEvent, MarkCancelling, StopRay, MarkCancelled,
                    CancelAttempts, CancelEvent
      <4>2. QED BY <4>1 DEF Booted, NoRequest
    <3>3. QED BY <1>2, <3>1, <3>2
  <2>3. QED BY <2>1, <2>2 DEF Booted, Serving, Steady
<1>3. ASSUME NEW w \in Workers, Sync(w) \/ Recover(w) PROVE Booted'
  <2>1. \A v \in Workers : v = w
    BY DEF Steady
  <2>2. CASE Start(w)
    <3>1. /\ bg'[w].phase = "recover" /\ bg'[w].pc = bg[w].pc /\ bg'[w].todo = bg[w].todo
          /\ bg'[w].cur = bg[w].cur
      BY <1>0, <2>2 DEF Start, TypeOK, BgState
    <3>2. UNCHANGED <<job, api>> /\ ~Serving(w)
      BY <2>2 DEF Start, db, Serving
    <3>3. QED BY <2>1, <3>1, <3>2 DEF Booted
  <2>3. CASE StartPass(w)
    <3>1. /\ Serving(w)' /\ bg'[w].pc = "scan" /\ bg'[w].todo = {} /\ bg'[w].cur = bg[w].cur
          /\ bg[w].pc = "next"
      BY <1>0, <2>3 DEF StartPass, TypeOK, BgState, Serving
    <3>2. QED BY <2>1, <3>1 DEF Booted, RecoverPc
  <2>4. CASE Scan(w)
    <3>1. /\ bg'[w].phase = bg[w].phase /\ bg'[w].pc = "next" /\ bg'[w].cur = bg[w].cur /\ bg[w].pc = "scan"
          /\ bg[w].phase = "recover" => bg'[w].todo = RecoverRows
          /\ bg[w].phase # "down"
      BY <1>0, <2>4 DEF Scan, TypeOK, BgState
    <3>2. UNCHANGED <<job, api>>
      BY <2>4 DEF Scan, db
    <3>3. ASSUME ~Serving(w) PROVE bg'[w].todo = {}
      <4>1. bg[w].phase = "recover" /\ \A j \in Jobs : job[j] = "ABSENT"
        BY <1>0, <3>1, <3>3 DEF Booted, Serving, TypeOK, BgState, Phases
      <4>2. RecoverRows = {}
        BY <4>1 DEF RecoverRows
      <4>3. QED BY <3>1, <4>1, <4>2
    <3>4. QED BY <2>1, <3>1, <3>2, <3>3 DEF Booted, RecoverPc, Serving
  <2>5. CASE SyncAsk(w) \/ ZombieAsk(w) \/ TimeoutStop(w)
    <3>1. Serving(w)
      BY <2>5, TakeSteps
    <3>2. PICK i \in bg[w].todo, m \in Mapped,
               pc \in {"next", "lostStop", "attempt", "finalize", "promote", "requeue", "timeoutAttempt"} :
               BgTake(w, i, i, m, pc)
      BY <2>5, TakeSteps
    <3>3. /\ bg'[w].phase = bg[w].phase /\ bg'[w].pc = pc
          /\ bg'[w].cur = IF pc = "next" THEN {} ELSE {i}
      BY <1>0, <3>2, TakeFrame
    <3>4. QED BY <2>1, <3>1, <3>3 DEF Booted, RecoverPc, Serving
  <2>6. CASE RowStep(w)
    <3>1. Serving(w)
      BY <2>6, RowSteps
    <3>2. PICK pc : RowGoto(w, pc) /\ BgGoto(w, pc)
      BY <2>6, RowSteps
    <3>3. pc \notin RecoverPc \cup {"scan"}
      BY <3>2 DEF RowGoto, RecoverPc
    <3>4. QED BY <1>0, <2>1, <3>1, <3>2, <3>3, GotoFrame DEF Booted, Serving
  <2>7. QED BY <1>3, <2>2, <2>3, <2>4, <2>5, <2>6, SteadySync
<1>4. ASSUME NEW w \in Workers, Crash(w) PROVE FALSE
  BY <1>0, <1>4 DEF Crash, Steady, TypeOK
<1>5. ASSUME NEW a \in Attempts, RayStart(a) \/ RayFinish(a) PROVE Booted'
  BY <1>5 DEF RayStart, RayFinish, Booted, Serving, db
<1>6. QED BY <1>1, <1>2, <1>3, <1>4, <1>5 DEF Next

LEMMA BootedInit == Init => Booted
BY DEF Init, Booted, Serving, NoRequest, Down, RecoverPc

LEMMA BootedInvariant ==
    ASSUME Steady
    PROVE  Spec => []Booted
<1>1. Steady
  OBVIOUS
<1>2. TInv /\ Booted /\ [Next]_vars => Booted'
  BY <1>1, BootedStep
<1>3. QED BY <1>2, BootedInit, TypeInvariant, PTL DEF Spec

-----------------------------------------------------------------------------
(* Every terminal status is announced, or a thread is about to announce it *)

\* The request of w has set j's status and has its event still to write.
ToldByRequest(w, j) ==
    \E a \in api[w].on :
        /\ a[1] = j
        /\ \/ api[w].pc = "failEvent" /\ job[j] = "FAILED"
           \/ api[w].pc \in {"cancelAttempts", "cancelEvent"} /\ job[j] = "CANCELLED"

\* ... or the pass of w has.
ToldByPass(w, j) ==
    \E x \in bg[w].cur :
        /\ x.j = j
        /\ \/ bg[w].pc = "event" /\ job[j] = bg[w].mapped
           \/ bg[w].pc = "lostEvent" /\ job[j] = "LOST"
           \/ bg[w].pc = "timeoutEvent" /\ job[j] = "TIMED_OUT"

Announced ==
    \A j \in Jobs :
        job[j] \in Terminal =>
            job[j] \in timeline[j] \/ \E w \in Workers : ToldByRequest(w, j) \/ ToldByPass(w, j)

\* A request that leaves j's status alone does not forget its event, and one
\* that ends j goes on to the event.
LEMMA RequestTells ==
    ASSUME TInv, HandInv, NEW w \in Workers, Accept(w) \/ Handle(w), NEW j \in Jobs, job'[j] \in Terminal
    PROVE  /\ bg' = bg
           /\ timeline[j] \subseteq timeline'[j]
           /\ \/ ToldByRequest(w, j)'
              \/ /\ job'[j] = job[j]
                 /\ ToldByRequest(w, j) => job[j] \in timeline'[j]
<1>0. TypeOK /\ OneEach
  BY DEF TInv, HandInv
<1>1. CASE FailJob(w) \/ MarkCancelled(w)
  <2>1. PICK a \in api[w].on :
           /\ \/ job' = [job EXCEPT ![a[1]] = "FAILED"] /\ ApiGoto(w, "failEvent") /\ api[w].pc = "failJob"
              \/ /\ job' = [job EXCEPT ![a[1]] = "CANCELLED"] /\ ApiGoto(w, "cancelAttempts")
                 /\ api[w].pc = "markCancelled"
           /\ UNCHANGED <<timeline, bg>>
    BY <1>1 DEF FailJob, MarkCancelled
  <2>2. CASE j = a[1]
    BY <1>0, <2>1, <2>2, ApiGotoFrame DEF ToldByRequest, TypeOK
  <2>3. CASE j # a[1]
    BY <1>0, <2>1, <2>3 DEF ToldByRequest, TypeOK
  <2>4. QED BY <2>2, <2>3
<1>2. CASE FailEvent(w) \/ CancelEvent(w)
  <2>1. PICK a \in api[w].on, s \in {"FAILED", "CANCELLED"} :
           /\ timeline' = [timeline EXCEPT ![a[1]] = @ \cup {s}]
           /\ s = "FAILED" => api[w].pc = "failEvent"
           /\ s = "CANCELLED" => api[w].pc = "cancelEvent"
    BY <1>2 DEF FailEvent, CancelEvent
  <2>2. UNCHANGED <<job, bg>>
    BY <1>2 DEF FailEvent, CancelEvent
  <2>3. ToldByRequest(w, j) => j = a[1] /\ job[j] = s
    BY <1>0, <2>1 DEF ToldByRequest, OneEach
  <2>4. timeline[j] \subseteq timeline'[j] /\ (j = a[1] => s \in timeline'[j])
    BY <1>0, <2>1 DEF TypeOK
  <2>5. QED BY <2>2, <2>3, <2>4
<1>3. CASE CancelAttempts(w)
  <2>1. ApiGoto(w, "cancelEvent") /\ api[w].pc = "cancelAttempts" /\ UNCHANGED <<job, timeline, bg>>
    BY <1>3 DEF CancelAttempts
  <2>2. QED BY <1>0, <2>1, ApiGotoFrame DEF ToldByRequest
<1>4. CASE ~(FailJob(w) \/ MarkCancelled(w) \/ FailEvent(w) \/ CancelEvent(w) \/ CancelAttempts(w))
  <2>1. UNCHANGED <<timeline, bg>>
    BY <1>4 DEF Accept, SubmitJob, RetryJob, CancelJob, Handle, NumberAttempt, InsertAttempt, QueueJob,
                CallBackend, RecordAttempt, RecordJob, FailAttempt, MarkCancelling, StopRay, db
  <2>2. job'[j] = job[j]
    BY <1>0, <1>4
       DEF Accept, SubmitJob, RetryJob, CancelJob, Handle, NumberAttempt, InsertAttempt, QueueJob,
           CallBackend, RecordAttempt, RecordJob, FailAttempt, MarkCancelling, StopRay, db, TypeOK, Terminal
  <2>3. api[w].pc \notin {"failEvent", "cancelAttempts", "cancelEvent"}
    <3>1. CASE Accept(w)
      <4>1. api[w] = NoRequest
        BY <3>1 DEF Accept, SubmitJob, RetryJob, CancelJob
      <4>2. QED BY <4>1 DEF NoRequest
    <3>2. CASE Handle(w)
      BY <1>4, <3>2 DEF Handle, NumberAttempt, InsertAttempt, QueueJob, CallBackend, RecordAttempt,
                        RecordJob, FailAttempt, MarkCancelling, StopRay
    <3>3. QED BY <3>1, <3>2
  <2>4. QED BY <2>1, <2>2, <2>3 DEF ToldByRequest
<1>5. QED BY <1>1, <1>2, <1>3, <1>4

\* The same for a pass.
LEMMA PassTells ==
    ASSUME Steady, TInv, Booted, NEW w \in Workers, Sync(w) \/ Recover(w), NEW j \in Jobs, job'[j] \in Terminal
    PROVE  /\ api' = api
           /\ timeline[j] \subseteq timeline'[j]
           /\ \/ ToldByPass(w, j)'
              \/ /\ job'[j] = job[j]
                 /\ ToldByPass(w, j) => job[j] \in timeline'[j]
<1>0. TypeOK /\ MappedFits /\ api' = api /\ \A x, y \in bg[w].cur : x = y
  BY ThreadFrame DEF TInv, Booted
<1>1. CASE Start(w) \/ StartPass(w) \/ Scan(w) \/ SyncAsk(w) \/ ZombieAsk(w) \/ TimeoutStop(w)
  <2>1. UNCHANGED <<job, timeline>>
    BY <1>1 DEF Start, StartPass, Scan, SyncAsk, ZombieAsk, TimeoutStop, db
  <2>2. bg[w].pc \in {"scan", "next"}
    BY <1>1 DEF Start, StartPass, Scan, SyncAsk, ZombieAsk, TimeoutStop, Booted, Serving
  <2>3. QED BY <1>0, <2>1, <2>2 DEF ToldByPass
<1>2. CASE FinalizeJob(w) \/ LostJob(w) \/ TimeoutJob(w)
  <2>1. PICK x \in bg[w].cur, s \in JobStatus, pc \in {"next", "event", "lostEvent", "timeoutEvent"} :
           /\ job' = [job EXCEPT ![x.j] = s] \/ job' = job
           /\ BgGoto(w, pc)
           /\ pc = "next" => job' = job
           /\ pc = "event" => s = bg[w].mapped
           /\ pc = "lostEvent" => s = "LOST"
           /\ pc = "timeoutEvent" => s = "TIMED_OUT"
    <3>1. CASE FinalizeJob(w)
      <4>1. bg[w].mapped \in {"SUCCEEDED", "FAILED"} \/ ~CanTransition("RUNNING", bg[w].mapped)
        BY <1>0 DEF CanTransition, ValidTransitions, TypeOK, BgState, Mapped
      <4>2. QED BY <3>1, <4>1 DEF FinalizeJob, JobStatus, Terminal
    <3>2. CASE LostJob(w) \/ TimeoutJob(w)
      BY <3>2 DEF LostJob, TimeoutJob, JobStatus, Terminal
    <3>3. QED BY <1>2, <3>1, <3>2
  <2>2. timeline' = timeline /\ bg[w].pc \notin {"event", "lostEvent", "timeoutEvent"}
    BY <1>2 DEF FinalizeJob, LostJob, TimeoutJob
  <2>3. bg'[w].pc = pc /\ (pc # "next" => x \in bg'[w].cur /\ bg'[w].mapped = bg[w].mapped)
    BY <1>0, <2>1, GotoFrame
  <2>4. CASE job'[j] = job[j]
    BY <1>0, <2>2, <2>4 DEF ToldByPass
  <2>5. CASE job'[j] # job[j]
    <3>1. x.j = j /\ job'[j] = s /\ pc # "next"
      BY <1>0, <2>1, <2>5 DEF TypeOK
    <3>2. QED BY <1>0, <2>1, <2>2, <2>3, <3>1 DEF ToldByPass
  <2>6. QED BY <1>0, <2>2, <2>4, <2>5
<1>3. CASE FinalEvent(w) \/ LostEvent(w) \/ TimeoutEvent(w)
  <2>0. PICK x \in bg[w].cur : \E s :
           /\ timeline' = [timeline EXCEPT ![x.j] = @ \cup {s}]
           /\ bg[w].pc = "event" => s = bg[w].mapped
           /\ bg[w].pc = "lostEvent" => s = "LOST"
           /\ bg[w].pc = "timeoutEvent" => s = "TIMED_OUT"
    BY <1>3 DEF FinalEvent, LostEvent, TimeoutEvent, Steady
  <2>1. PICK s :
           /\ timeline' = [timeline EXCEPT ![x.j] = @ \cup {s}]
           /\ bg[w].pc = "event" => s = bg[w].mapped
           /\ bg[w].pc = "lostEvent" => s = "LOST"
           /\ bg[w].pc = "timeoutEvent" => s = "TIMED_OUT"
    BY <2>0
  <2>2. job' = job
    BY <1>3 DEF FinalEvent, LostEvent, TimeoutEvent
  <2>3. ToldByPass(w, j) => x.j = j /\ job[j] = s
    BY <1>0, <2>1 DEF ToldByPass
  <2>4. timeline[j] \subseteq timeline'[j] /\ (x.j = j => s \in timeline'[j])
    BY <1>0, <2>1 DEF TypeOK
  <2>5. QED BY <1>0, <2>2, <2>3, <2>4
<1>4. CASE UpdateAttempt(w) \/ PromoteJob(w) \/ RequeueJob(w) \/ LostStop(w) \/ LostAttempt(w)
           \/ TimeoutAttempt(w)
  <2>1. timeline' = timeline /\ bg[w].pc \notin {"event", "lostEvent", "timeoutEvent"}
    BY <1>4 DEF UpdateAttempt, PromoteJob, RequeueJob, LostStop, LostAttempt, TimeoutAttempt, db
  <2>2. job'[j] = job[j]
    BY <1>0, <1>4 DEF UpdateAttempt, PromoteJob, RequeueJob, LostStop, LostAttempt, TimeoutAttempt, db,
                      TypeOK, Terminal
  <2>3. QED BY <1>0, <2>1, <2>2 DEF ToldByPass
<1>5. QED BY <1>1, <1>2, <1>3, <1>4, SteadySync DEF RowStep

LEMMA AnnouncedStep ==
    ASSUME Steady, TInv, HandInv, Booted, Announced, [Next]_vars
    PROVE  Announced'
<1>0. TypeOK
  BY DEF TInv
<1>1. CASE UNCHANGED vars
  BY <1>1 DEF vars, Announced, ToldByRequest, ToldByPass
<1>2. ASSUME NEW w \in Workers, Accept(w) \/ Handle(w) PROVE Announced'
  <2>1. SUFFICES ASSUME NEW j \in Jobs, job'[j] \in Terminal
                 PROVE  job'[j] \in timeline'[j] \/ (\E v \in Workers : ToldByRequest(v, j) \/ ToldByPass(v, j))'
    BY DEF Announced
  <2>2. /\ bg' = bg
        /\ timeline[j] \subseteq timeline'[j]
        /\ \/ ToldByRequest(w, j)'
           \/ /\ job'[j] = job[j]
              /\ ToldByRequest(w, j) => job[j] \in timeline'[j]
    BY <1>2, <2>1, RequestTells
  <2>3. CASE ToldByRequest(w, j)'
    BY <2>3
  <2>4. CASE /\ job'[j] = job[j]
             /\ ToldByRequest(w, j) => job[j] \in timeline'[j]
    <3>1. job[j] \in timeline[j] \/ ToldByRequest(w, j) \/ ToldByPass(w, j)
      BY <2>1, <2>4 DEF Announced, Steady
    <3>2. ToldByPass(w, j) => ToldByPass(w, j)'
      BY <2>2, <2>4 DEF ToldByPass
    <3>3. QED BY <2>2, <2>4, <3>1, <3>2
  <2>5. QED BY <2>2, <2>3, <2>4
<1>3. ASSUME NEW w \in Workers, Sync(w) \/ Recover(w) PROVE Announced'
  <2>1. SUFFICES ASSUME NEW j \in Jobs, job'[j] \in Terminal
                 PROVE  job'[j] \in timeline'[j] \/ (\E v \in Workers : ToldByRequest(v, j) \/ ToldByPass(v, j))'
    BY DEF Announced
  <2>2. /\ api' = api
        /\ timeline[j] \subseteq timeline'[j]
        /\ \/ ToldByPass(w, j)'
           \/ /\ job'[j] = job[j]
              /\ ToldByPass(w, j) => job[j] \in timeline'[j]
    BY <1>3, <2>1, PassTells
  <2>3. CASE ToldByPass(w, j)'
    BY <2>3
  <2>4. CASE /\ job'[j] = job[j]
             /\ ToldByPass(w, j) => job[j] \in timeline'[j]
    <3>1. job[j] \in timeline[j] \/ ToldByRequest(w, j) \/ ToldByPass(w, j)
      BY <2>1, <2>4 DEF Announced, Steady
    <3>2. ToldByRequest(w, j) => ToldByRequest(w, j)'
      BY <2>2, <2>4 DEF ToldByRequest
    <3>3. QED BY <2>2, <2>4, <3>1, <3>2
  <2>5. QED BY <2>2, <2>3, <2>4
<1>4. ASSUME NEW w \in Workers, Crash(w) PROVE FALSE
  BY <1>0, <1>4 DEF Crash, Steady, TypeOK
<1>5. ASSUME NEW a \in Attempts, RayStart(a) \/ RayFinish(a) PROVE Announced'
  BY <1>5 DEF RayStart, RayFinish, Announced, ToldByRequest, ToldByPass, db
<1>6. QED BY <1>1, <1>2, <1>3, <1>4, <1>5 DEF Next

\* Whatever requests and passes of one process interleave, and whatever Ray
\* answers: between two handlings of a job, its timeline holds its terminal
\* status.  A crash or a second process that recovers breaks this (recovery
\* gives a job up without an event).
THEOREM FinishedJobsAnnounced ==
    ASSUME Steady
    PROVE  Spec => []TerminalAnnounced
<1>1. Steady
  OBVIOUS
<1>2. Init => Announced
  BY DEF Init, Announced, Terminal
<1>3. TInv /\ HandInv /\ Booted /\ Announced /\ [Next]_vars => Announced'
  BY <1>1, AnnouncedStep
<1>4. Announced => TerminalAnnounced
  <2>1. SUFFICES ASSUME Announced, Quiet, NEW j \in Jobs, job[j] \in Terminal
                 PROVE  job[j] \in timeline[j]
    BY DEF TerminalAnnounced
  <2>2. \A w \in Workers : api[w].on = {} /\ bg[w].cur = {}
    BY <2>1 DEF Quiet, NoRequest
  <2>3. QED BY <2>1, <2>2 DEF Announced, ToldByRequest, ToldByPass
<1>5. Spec => []Booted
  BY <1>1, BootedInvariant
<1>6. QED
  BY <1>2, <1>3, <1>4, <1>5, TypeInvariant, HandInvariant, PTL DEF Spec

-----------------------------------------------------------------------------
(* At most one attempt of a job is QUEUED or RUNNING *)

\* The attempt a row is about.
Of(x) == <<x.j, x.n>>

\* No attempt of the job has a higher number.
Latest(a) == \A b \in Attempts : b[1] = a[1] /\ att[b] # "ABSENT" => b[2] <= a[2]

\* The program counters at which a pass has still something to write for its
\* row other than the event.
RowPc == {"attempt", "finalize", "promote", "requeue", "lostStop", "lostAttempt", "lostJob",
          "timeoutAttempt", "timeoutJob"}

\* The rows that the pass of w may still write to.
Rows(w) == {x \in bg[w].todo : bg[w].phase \in {"sync", "timeouts"}}
           \cup {x \in bg[w].cur : bg[w].pc \in RowPc}

\* What a row said when it was read may be stale, but it is about the latest
\* attempt of its job, and retry does not accept that job.
RowSound(x) ==
    /\ Of(x) \in Attempts /\ att[Of(x)] # "ABSENT" /\ rid[Of(x)]
    /\ Latest(Of(x))
    /\ job[x.j] \notin Retryable

RowsInv ==
    \A w \in Workers :
        /\ \A x \in Rows(w) : RowSound(x)
        /\ \A x, y \in Rows(w) : x.j = y.j => x = y
        /\ bg[w].pc \in RowPc /\ bg[w].phase \in {"sync", "timeouts"} => bg[w].cur \cap bg[w].todo = {}
        /\ bg[w].phase = "sync" => \A x \in bg[w].todo : x.st \in Active

\* The attempt of a row is over before its job is ended.
DoneInv ==
    \A w \in Workers :
        bg[w].pc \in {"finalize", "lostJob", "timeoutJob"} =>
            \A x \in bg[w].cur : att[Of(x)] \notin Active

\* A request on its way from the attempt number to the end of the attempt.
ReqInv ==
    \A w \in Workers : \A a \in api[w].on :
        /\ job[a[1]] # "ABSENT"
        /\ api[w].pc = "numberAttempt" => job[a[1]] \in Retryable
        /\ api[w].pc = "insertAttempt" =>
              /\ Latest(a)
              /\ \/ job[a[1]] \in Retryable
                 \/ \A b \in Attempts : b[1] = a[1] => att[b] = "ABSENT"
        /\ api[w].pc \in HandPc \cup {"failJob"} =>
              a \in Attempts /\ Latest(a) /\ ~rid[a] /\ att[a] # "ABSENT"
        /\ api[w].pc \in {"callBackend", "recordAttempt", "failAttempt", "failJob"} =>
              job[a[1]] \notin Retryable
        /\ api[w].pc = "failJob" => att[a] \notin Active

\* Retry finds an active attempt only when it has just inserted it itself.
ActiveInv ==
    \A a \in Attempts :
        att[a] \in Active =>
            /\ Latest(a)
            /\ job[a[1]] \in Retryable => \E w \in Workers : api[w].pc = "queueJob" /\ a \in api[w].on

AbsentInv == \A a \in Attempts : job[a[1]] = "ABSENT" => att[a] = "ABSENT"

SteadyInv == RowsInv /\ DoneInv /\ ReqInv /\ ActiveInv /\ AbsentInv

LEMMA LatestUnique ==
    ASSUME NEW a \in Attempts, NEW b \in Attempts, a[1] = b[1], att[a] # "ABSENT", att[b] # "ABSENT",
           Latest(a), Latest(b)
    PROVE  a = b
<1>1. a[2] <= b[2] /\ b[2] <= a[2]
  BY DEF Latest
<1>2. a[2] \in Int /\ b[2] \in Int /\ a = <<a[1], a[2]>> /\ b = <<b[1], b[2]>>
  BY JobRuntimeAssumption DEF Attempts, Nums
<1>3. a[2] = b[2]
  BY <1>1, <1>2
<1>4. QED BY <1>2, <1>3

\* No pass has anything to write for j.
NoRow(j) == \A w \in Workers : \A x \in Rows(w) : x.j # j

\* The two threads stay out of each other's way: a pass has no row of a job
\* whose new attempt is being inserted or handed to Ray.
LEMMA RequestAlone ==
    ASSUME RowsInv, ReqInv, NEW w \in Workers, NEW a \in api[w].on,
           api[w].pc \in HandPc \cup {"insertAttempt", "failJob"}
    PROVE  NoRow(a[1])
<1>1. SUFFICES ASSUME NEW v \in Workers, NEW x \in Rows(v), x.j = a[1] PROVE FALSE
  BY DEF NoRow
<1>2. RowSound(x) /\ Of(x)[1] = a[1]
  BY <1>1 DEF RowsInv, Of
<1>3. CASE api[w].pc = "insertAttempt"
  BY <1>1, <1>2, <1>3 DEF ReqInv, RowSound
<1>4. CASE api[w].pc \in HandPc \cup {"failJob"}
  <2>1. a \in Attempts /\ Latest(a) /\ ~rid[a] /\ att[a] # "ABSENT"
    BY <1>4 DEF ReqInv
  <2>2. Of(x) = a
    BY <1>2, <2>1, LatestUnique DEF RowSound
  <2>3. QED BY <1>2, <2>1, <2>2 DEF RowSound
<1>5. QED BY <1>3, <1>4

\* What a request does to the rows of a pass: it removes no attempt and no
\* Ray id, and where it activates an attempt or makes a job retryable, no
\* pass has a row.
LEMMA RequestEffect ==
    ASSUME TInv, HandInv, RowsInv, ReqInv, NEW w \in Workers, Accept(w) \/ Handle(w)
    PROVE  /\ bg' = bg
           /\ \A a \in Attempts : att[a] # "ABSENT" => att'[a] # "ABSENT"
           /\ \A a \in Attempts : rid[a] => rid'[a]
           /\ \A a \in Attempts :
                 att'[a] # att[a] /\ (att[a] = "ABSENT" \/ att'[a] \in Active) => NoRow(a[1])
           /\ \A j \in Jobs : job'[j] \in Retryable => job[j] \in Retryable \/ NoRow(j)
           /\ \A j \in Jobs : job'[j] = "ABSENT" => job[j] = "ABSENT"
<1>0. TypeOK /\ OneEach
  BY DEF TInv, HandInv
<1>1. CASE InsertAttempt(w) \/ RecordAttempt(w) \/ FailAttempt(w)
  <2>1. PICK a \in api[w].on : att' = att \/ \E s \in {"QUEUED", "RUNNING", "FAILED"} : att' = [att EXCEPT ![a] = s]
    BY <1>1 DEF InsertAttempt, RecordAttempt, FailAttempt
  <2>2. UNCHANGED <<job, bg>> /\ api[w].pc \in HandPc \cup {"insertAttempt", "failJob"}
    BY <1>1 DEF InsertAttempt, RecordAttempt, FailAttempt, HandPc
  <2>3. NoRow(a[1])
    BY <2>2, RequestAlone
  <2>4. \A b \in Attempts : rid[b] => rid'[b]
    BY <1>0, <1>1 DEF InsertAttempt, RecordAttempt, FailAttempt, TypeOK
  <2>5. \A b \in Attempts : att'[b] = att[b] \/ (b = a /\ att'[b] # "ABSENT")
    BY <1>0, <2>1 DEF TypeOK
  <2>6. QED BY <2>2, <2>3, <2>4, <2>5
<1>2. CASE FailJob(w)
  <2>1. PICK a \in api[w].on : job' = [job EXCEPT ![a[1]] = "FAILED"]
    BY <1>2 DEF FailJob
  <2>2. UNCHANGED <<att, rid, bg>> /\ api[w].pc = "failJob"
    BY <1>2 DEF FailJob
  <2>3. NoRow(a[1])
    BY <2>2, RequestAlone
  <2>4. QED BY <1>0, <2>1, <2>2, <2>3 DEF TypeOK
<1>3. CASE CancelAttempts(w)
  BY <1>0, <1>3 DEF CancelAttempts, TypeOK, Active
<1>4. CASE Accept(w) \/ QueueJob(w) \/ RecordJob(w) \/ MarkCancelling(w) \/ MarkCancelled(w)
  <2>1. UNCHANGED <<att, rid, bg>>
    BY <1>4 DEF QueueJob, RecordJob, MarkCancelling, MarkCancelled, Accept, SubmitJob, RetryJob, CancelJob, db
  <2>2. \A j \in Jobs : job'[j] = job[j] \/ job'[j] \in {"SUBMITTED", "QUEUED", "RUNNING", "CANCELLING", "CANCELLED"}
    BY <1>0, <1>4
       DEF QueueJob, RecordJob, MarkCancelling, MarkCancelled, Accept, SubmitJob, RetryJob, CancelJob, db,
           TypeOK
  <2>3. QED BY <2>1, <2>2 DEF Retryable
<1>5. CASE NumberAttempt(w) \/ CallBackend(w) \/ FailEvent(w) \/ StopRay(w) \/ CancelEvent(w)
  BY <1>5 DEF NumberAttempt, CallBackend, FailEvent, StopRay, CancelEvent, db
<1>6. QED BY <1>1, <1>2, <1>3, <1>4, <1>5 DEF Handle

LEMMA RequestKeepsRows ==
    ASSUME TInv, HandInv, RowsInv, ReqInv, DoneInv, NEW w \in Workers, Accept(w) \/ Handle(w)
    PROVE  RowsInv' /\ DoneInv'
<1>0. TypeOK
  BY DEF TInv
<1>1. /\ bg' = bg
      /\ \A a \in Attempts : att[a] # "ABSENT" => att'[a] # "ABSENT"
      /\ \A a \in Attempts : rid[a] => rid'[a]
      /\ \A a \in Attempts :
            att'[a] # att[a] /\ (att[a] = "ABSENT" \/ att'[a] \in Active) => NoRow(a[1])
      /\ \A j \in Jobs : job'[j] \in Retryable => job[j] \in Retryable \/ NoRow(j)
  BY RequestEffect
<1>2. \A v \in Workers : Rows(v)' = Rows(v)
  BY <1>1 DEF Rows
<1>3. ASSUME NEW v \in Workers, NEW x \in Rows(v) PROVE RowSound(x)'
  <2>1. RowSound(x) /\ ~NoRow(x.j) /\ Of(x)[1] = x.j /\ x.j \in Jobs
    BY <1>3 DEF RowsInv, NoRow, Of, RowSound, Attempts
  <2>2. Latest(Of(x))'
    BY <1>1, <2>1 DEF Latest, RowSound
  <2>3. QED BY <1>1, <2>1, <2>2 DEF RowSound, Of
<1>4. RowsInv'
  BY <1>1, <1>2, <1>3 DEF RowsInv
<1>5. ASSUME NEW v \in Workers, bg[v].pc \in {"finalize", "lostJob", "timeoutJob"}, NEW x \in bg[v].cur
      PROVE  att'[Of(x)] \notin Active
  <2>1. x \in Rows(v) /\ att[Of(x)] \notin Active
    BY <1>5 DEF Rows, RowPc, DoneInv
  <2>2. Of(x) \in Attempts /\ ~NoRow(Of(x)[1])
    BY <2>1 DEF RowsInv, RowSound, NoRow, Of
  <2>3. QED BY <1>1, <2>1, <2>2
<1>6. DoneInv'
  BY <1>1, <1>5 DEF DoneInv, Of
<1>7. QED BY <1>4, <1>6

\* A request moves on with the attempt it holds.
LEMMA RequestKeepsReq ==
    ASSUME Steady, TInv, HandInv, SteadyInv, NEW w \in Workers, Accept(w) \/ Handle(w)
    PROVE  ReqInv'
<1>0. TypeOK /\ OneEach /\ ReqInv /\ ActiveInv /\ AbsentInv /\ OnAttempt /\ Unborn /\ \A v \in Workers : v = w
  BY DEF TInv, HandInv, SteadyInv, Steady
<1>a. /\ \A j \in Jobs : job'[j] = "ABSENT" => job[j] = "ABSENT"
      /\ \A v \in Workers : \A a \in api[v].on : a[1] \in Jobs
  BY <1>0, RequestEffect DEF SteadyInv, TypeOK, ApiState
<1>1. CASE Accept(w)
  <2>1. PICK j \in Jobs : SubmitJob(w, j) \/ RetryJob(w, j) \/ CancelJob(w, j)
    BY <1>1 DEF Accept
  <2>2. CASE SubmitJob(w, j)
    <3>1. /\ att' = att /\ job'[j] = "SUBMITTED" /\ job[j] = "ABSENT"
          /\ api'[w].pc = "insertAttempt" /\ api'[w].on = {<<j, 1>>}
      BY <1>0, <2>2 DEF SubmitJob, TypeOK
    <3>2. \A b \in Attempts : b[1] = j => att[b] = "ABSENT"
      BY <1>0, <3>1 DEF AbsentInv
    <3>3. Latest(<<j, 1>>)'
      BY <3>1, <3>2 DEF Latest
    <3>4. QED BY <1>0, <3>1, <3>2, <3>3 DEF ReqInv, HandPc
  <2>3. CASE RetryJob(w, j)
    <3>1. job' = job /\ job[j] \in Retryable /\ api'[w].pc = "numberAttempt" /\ api'[w].on = {<<j, 0>>}
      BY <1>0, <2>3 DEF RetryJob, TypeOK, db
    <3>2. QED BY <1>0, <3>1 DEF ReqInv, HandPc, Retryable
  <2>4. CASE CancelJob(w, j)
    <3>1. /\ job' = job /\ job[j] # "ABSENT"
          /\ api'[w].pc \in {"markCancelling", "markCancelled"} /\ api'[w].on = {<<j, 0>>}
      BY <1>0, <2>4 DEF CancelJob, TypeOK, db, CanTransition, ValidTransitions
    <3>2. QED BY <1>0, <3>1 DEF ReqInv, HandPc
  <2>5. QED BY <2>1, <2>2, <2>3, <2>4
<1>2. CASE NumberAttempt(w)
  <2>1. CASE ApiDone(w)
    BY <1>0, <2>1, ApiDoneFrame DEF ReqInv
  <2>2. CASE ~ApiDone(w)
    <3>1. PICK a \in api[w].on, n \in Nums :
             /\ \A m \in Nums : att[<<a[1], m>>] # "ABSENT" <=> m < n
             /\ api' = [api EXCEPT ![w].pc = "insertAttempt", ![w].on = {<<a[1], n>>}]
      BY <1>2, <2>2 DEF NumberAttempt
    <3>2. /\ UNCHANGED <<job, att>> /\ api[w].pc = "numberAttempt"
          /\ api'[w].pc = "insertAttempt" /\ api'[w].on = {<<a[1], n>>}
      BY <1>0, <1>2, <3>1 DEF NumberAttempt, db, TypeOK, ApiState
    <3>3. job[a[1]] \in Retryable /\ job[a[1]] # "ABSENT"
      BY <1>0, <3>2 DEF ReqInv
    <3>4. Latest(<<a[1], n>>)
      <4>1. SUFFICES ASSUME NEW b \in Attempts, b[1] = a[1], att[b] # "ABSENT" PROVE b[2] <= n
        BY DEF Latest
      <4>2. b = <<a[1], b[2]>> /\ b[2] \in Nums
        BY <4>1 DEF Attempts
      <4>3. b[2] < n
        BY <3>1, <4>1, <4>2
      <4>4. QED BY <4>2, <4>3, JobRuntimeAssumption DEF Nums
    <3>5. Latest(<<a[1], n>>)'
      BY <3>2, <3>4 DEF Latest
    <3>6. QED BY <1>0, <3>2, <3>3, <3>5 DEF ReqInv, HandPc
  <2>3. QED BY <2>1, <2>2
<1>3. CASE InsertAttempt(w)
  <2>1. CASE ApiDone(w)
    BY <1>0, <2>1, ApiDoneFrame DEF ReqInv
  <2>2. CASE ~ApiDone(w)
    <3>1. PICK a \in api[w].on :
              att[a] = "ABSENT" /\ att' = [att EXCEPT ![a] = "QUEUED"] /\ ApiGoto(w, "queueJob")
      BY <1>3, <2>2 DEF InsertAttempt
    <3>2. a \in Attempts /\ api[w].on = {a} /\ api[w].pc = "insertAttempt" /\ UNCHANGED <<job, rid>>
      BY <1>0, <1>3 DEF OnAttempt, OneEach, InsertAttempt
    <3>3. api'[w].on = {a} /\ api'[w].pc = "queueJob"
      BY <1>0, <3>1, <3>2, ApiGotoFrame
    <3>4. att'[a] = "QUEUED" /\ \A b \in Attempts : b # a => att'[b] = att[b]
      BY <1>0, <3>1, <3>2 DEF TypeOK
    <3>5. Latest(a) /\ job[a[1]] # "ABSENT"
      BY <1>0, <3>2 DEF ReqInv
    <3>6. a[2] \in Int
      BY <3>2, JobRuntimeAssumption DEF Attempts, Nums
    <3>7. Latest(a)'
      BY <3>2, <3>4, <3>5, <3>6 DEF Latest
    <3>8. ~rid[a]
      BY <1>0, <3>1, <3>2 DEF Unborn
    <3>9. QED BY <1>0, <3>2, <3>3, <3>4, <3>5, <3>7, <3>8 DEF ReqInv, HandPc
  <2>3. QED BY <2>1, <2>2
<1>4. CASE QueueJob(w)
  <2>1. PICK a \in api[w].on : job' = [job EXCEPT ![a[1]] = "QUEUED"]
    BY <1>4 DEF QueueJob
  <2>2. /\ UNCHANGED <<att, rid>> /\ api[w].pc = "queueJob"
        /\ api'[w].on = api[w].on /\ api'[w].pc = "callBackend"
    BY <1>0, <1>4, ApiGotoFrame DEF QueueJob
  <2>3. \A b \in api[w].on : b = a /\ job'[b[1]] = "QUEUED"
    BY <1>0, <1>a, <2>1 DEF TypeOK, OneEach
  <2>4. QED BY <1>0, <2>2, <2>3 DEF ReqInv, HandPc, Latest, Retryable
<1>5. CASE CallBackend(w)
  <2>1. /\ UNCHANGED <<att, rid, job>> /\ api[w].pc = "callBackend"
        /\ api'[w].on = api[w].on /\ api'[w].pc \in {"recordAttempt", "failAttempt"}
    BY <1>0, <1>5, ApiGotoFrame DEF CallBackend, db
  <2>2. QED BY <1>0, <2>1 DEF ReqInv, HandPc, Latest
<1>6. CASE FailAttempt(w)
  <2>1. PICK a \in api[w].on : att' = [att EXCEPT ![a] = "FAILED"]
    BY <1>6 DEF FailAttempt
  <2>2. /\ UNCHANGED <<job, rid>> /\ api[w].pc = "failAttempt"
        /\ api'[w].on = api[w].on /\ api'[w].pc \in {"failJob", "failEvent"}
    BY <1>0, <1>6, ApiGotoFrame DEF FailAttempt
  <2>3. a \in Attempts /\ Latest(a) /\ ~rid[a] /\ job[a[1]] # "ABSENT" /\ job[a[1]] \notin Retryable
        /\ att[a] # "ABSENT"
    BY <1>0, <2>2 DEF ReqInv, HandPc
  <2>4. att'[a] = "FAILED" /\ \A b \in Attempts : att'[b] # "ABSENT" => att[b] # "ABSENT"
    BY <1>0, <2>1, <2>3 DEF TypeOK
  <2>5. Latest(a)' /\ att'[a] \notin Active
    BY <2>3, <2>4 DEF Latest, Active
  <2>6. api'[w].on = {a}
    BY <1>0, <2>2 DEF OneEach
  <2>7. QED BY <1>0, <2>2, <2>3, <2>4, <2>5, <2>6 DEF ReqInv, HandPc
<1>7. CASE \/ RecordAttempt(w) \/ FailJob(w) \/ MarkCancelling(w) \/ StopRay(w) \/ MarkCancelled(w)
           \/ CancelAttempts(w)
  <2>1. /\ api'[w].on = api[w].on
        /\ api'[w].pc \in {"recordJob", "failEvent", "stopRay", "markCancelled", "cancelAttempts", "cancelEvent"}
    BY <1>0, <1>7, ApiGotoFrame DEF RecordAttempt, FailJob, MarkCancelling, StopRay, MarkCancelled, CancelAttempts
  <2>2. QED BY <1>0, <1>a, <2>1 DEF ReqInv, HandPc
<1>8. CASE RecordJob(w) \/ FailEvent(w) \/ CancelEvent(w)
  <2>1. api'[w].on = {}
    BY <1>0, <1>8, ApiDoneFrame DEF RecordJob, FailEvent, CancelEvent
  <2>2. QED BY <1>0, <2>1 DEF ReqInv
<1>9. QED BY <1>1, <1>2, <1>3, <1>4, <1>5, <1>6, <1>7, <1>8 DEF Handle

\* A request that creates or keeps an attempt keeps it the only active one.
LEMMA RequestKeepsActive ==
    ASSUME Steady, TInv, HandInv, SteadyInv, NEW w \in Workers, Accept(w) \/ Handle(w)
    PROVE  ActiveInv' /\ AbsentInv'
<1>0. TypeOK /\ OneEach /\ ReqInv /\ ActiveInv /\ AbsentInv /\ OnAttempt /\ \A v \in Workers : v = w
  BY DEF TInv, HandInv, SteadyInv, Steady
<1>a. /\ \A j \in Jobs : job'[j] = "ABSENT" => job[j] = "ABSENT"
      /\ \A a \in Attempts : a[1] \in Jobs
  BY RequestEffect DEF SteadyInv, Attempts
<1>1. CASE InsertAttempt(w) /\ ~ApiDone(w)
  <2>1. PICK a \in api[w].on :
            att[a] = "ABSENT" /\ att' = [att EXCEPT ![a] = "QUEUED"] /\ ApiGoto(w, "queueJob")
    BY <1>1 DEF InsertAttempt
  <2>2. a \in Attempts /\ api[w].on = {a} /\ api[w].pc = "insertAttempt" /\ job' = job
    BY <1>0, <1>1 DEF OnAttempt, OneEach, InsertAttempt
  <2>3. api'[w].on = {a} /\ api'[w].pc = "queueJob"
    BY <1>0, <2>1, <2>2, ApiGotoFrame
  <2>4. att'[a] = "QUEUED" /\ \A b \in Attempts : b # a => att'[b] = att[b]
    BY <1>0, <2>1, <2>2 DEF TypeOK
  <2>5. Latest(a) /\ job[a[1]] # "ABSENT"
        /\ (job[a[1]] \in Retryable \/ \A b \in Attempts : b[1] = a[1] => att[b] = "ABSENT")
    BY <1>0, <2>2 DEF ReqInv
  <2>6. a[2] \in Int
    BY <2>2, JobRuntimeAssumption DEF Attempts, Nums
  <2>7. Latest(a)'
    BY <2>2, <2>4, <2>5, <2>6 DEF Latest
  <2>8. ASSUME NEW b \in Attempts, b # a, att[b] \in Active
        PROVE  Latest(b)' /\ job[b[1]] \notin Retryable
    <3>1. Latest(b) /\ job[b[1]] \notin Retryable
      BY <1>0, <2>2, <2>8 DEF ActiveInv
    <3>2. b[1] # a[1]
      BY <2>5, <2>8, <3>1 DEF Active
    <3>3. QED BY <2>4, <3>1, <3>2 DEF Latest
  <2>9. ActiveInv'
    BY <2>2, <2>3, <2>4, <2>7, <2>8 DEF ActiveInv
  <2>10. AbsentInv'
    BY <1>0, <2>2, <2>4, <2>5 DEF AbsentInv
  <2>11. QED BY <2>9, <2>10
<1>2. CASE ~(InsertAttempt(w) /\ ~ApiDone(w))
  <2>1. /\ \A b \in Attempts : att'[b] # "ABSENT" => att[b] # "ABSENT"
        /\ \A b \in Attempts : att'[b] \in Active =>
              att[b] \in Active \/ (api[w].pc = "recordAttempt" /\ b \in api[w].on)
    <3>1. CASE RecordAttempt(w)
      <4>1. PICK a \in api[w].on : att' = [att EXCEPT ![a] = "RUNNING"]
        BY <3>1 DEF RecordAttempt
      <4>2. api[w].pc = "recordAttempt" /\ a \in Attempts /\ att[a] # "ABSENT"
        BY <1>0, <3>1 DEF RecordAttempt, ReqInv, HandPc
      <4>3. QED BY <1>0, <4>1, <4>2 DEF TypeOK
    <3>2. CASE FailAttempt(w)
      <4>1. PICK a \in api[w].on : att' = [att EXCEPT ![a] = "FAILED"]
        BY <3>2 DEF FailAttempt
      <4>2. att[a] # "ABSENT"
        BY <1>0, <3>2 DEF FailAttempt, ReqInv, HandPc
      <4>3. QED BY <1>0, <4>1, <4>2 DEF TypeOK, Active
    <3>3. CASE CancelAttempts(w)
      BY <1>0, <3>3 DEF CancelAttempts, TypeOK, Active
    <3>4. CASE ~(RecordAttempt(w) \/ FailAttempt(w) \/ CancelAttempts(w))
      <4>1. CASE InsertAttempt(w)
        <5>1. ~ApiGoto(w, "queueJob")
          BY <1>0, <1>2, <4>1, ApiGotoFrame, ApiDoneFrame
        <5>2. QED BY <4>1, <5>1 DEF InsertAttempt
      <4>2. CASE ~InsertAttempt(w)
        <5>1. att' = att
          BY <3>4, <4>2
             DEF Accept, SubmitJob, RetryJob, CancelJob, Handle, NumberAttempt, QueueJob, CallBackend,
                 RecordJob, FailJob, FailEvent, MarkCancelling, StopRay, MarkCancelled, CancelEvent, db
        <5>2. QED BY <5>1
      <4>3. QED BY <4>1, <4>2
    <3>5. QED BY <3>1, <3>2, <3>3, <3>4
  <2>2. AbsentInv'
    BY <1>0, <1>a, <2>1 DEF AbsentInv
  <2>3. ASSUME NEW b \in Attempts, att'[b] \in Active PROVE Latest(b)
    BY <1>0, <2>1, <2>3 DEF ActiveInv, ReqInv, HandPc
  <2>4. \A b \in Attempts : att'[b] \in Active => Latest(b)'
    BY <2>1, <2>3 DEF Latest
  <2>5. ASSUME NEW b \in Attempts, att'[b] \in Active PROVE job'[b[1]] \notin Retryable
    <3>1. CASE QueueJob(w)
      <4>1. PICK a \in api[w].on : job' = [job EXCEPT ![a[1]] = "QUEUED"]
        BY <3>1 DEF QueueJob
      <4>2. att' = att /\ \A c \in api[w].on : c = a
        BY <1>0, <3>1 DEF QueueJob, OneEach
      <4>3. CASE b[1] = a[1]
        BY <1>0, <1>a, <4>1, <4>3 DEF TypeOK, Retryable
      <4>4. CASE b[1] # a[1]
        <5>1. job'[b[1]] = job[b[1]]
          BY <1>0, <1>a, <4>1, <4>4 DEF TypeOK
        <5>2. QED BY <1>0, <2>5, <4>2, <4>4, <5>1 DEF ActiveInv
      <4>5. QED BY <4>3, <4>4
    <3>2. CASE FailJob(w)
      <4>1. PICK a \in api[w].on : job' = [job EXCEPT ![a[1]] = "FAILED"]
        BY <3>2 DEF FailJob
      <4>2. att' = att /\ api[w].pc = "failJob"
        BY <3>2 DEF FailJob
      <4>3. a \in Attempts /\ Latest(a) /\ att[a] # "ABSENT" /\ att[a] \notin Active
        BY <1>0, <4>2 DEF ReqInv
      <4>4. Latest(b) /\ job[b[1]] \notin Retryable
        BY <1>0, <2>5, <4>2 DEF ActiveInv
      <4>5. b[1] # a[1]
        BY <2>5, <4>2, <4>3, <4>4, LatestUnique DEF Active
      <4>6. job'[b[1]] = job[b[1]]
        BY <1>0, <1>a, <4>1, <4>5 DEF TypeOK
      <4>7. QED BY <4>4, <4>6
    <3>3. CASE ~(QueueJob(w) \/ FailJob(w))
      <4>1. job[b[1]] \notin Retryable
        <5>1. CASE att[b] \in Active
          <6>1. api[w].pc # "queueJob"
            <7>1. CASE Accept(w)
              <8>1. api[w] = NoRequest
                BY <7>1 DEF Accept, SubmitJob, RetryJob, CancelJob
              <8>2. QED BY <8>1 DEF NoRequest
            <7>2. CASE Handle(w)
              BY <3>3, <7>2 DEF Handle, NumberAttempt, InsertAttempt, CallBackend, RecordAttempt, RecordJob,
                                FailAttempt, FailEvent, MarkCancelling, StopRay, MarkCancelled,
                                CancelAttempts, CancelEvent
            <7>3. QED BY <7>1, <7>2
          <6>2. QED BY <1>0, <5>1, <6>1 DEF ActiveInv
        <5>2. CASE att[b] \notin Active
          BY <1>0, <2>1, <2>5, <5>2 DEF ReqInv
        <5>3. QED BY <5>1, <5>2
      <4>2. job'[b[1]] = job[b[1]]
            \/ job'[b[1]] \in {"SUBMITTED", "RUNNING", "CANCELLING", "CANCELLED"}
        BY <1>0, <1>a, <3>3
           DEF Accept, SubmitJob, RetryJob, CancelJob, Handle, NumberAttempt, InsertAttempt, CallBackend,
               RecordAttempt, RecordJob, FailAttempt, FailEvent, MarkCancelling, StopRay, MarkCancelled,
               CancelAttempts, CancelEvent, db, TypeOK
      <4>3. QED BY <4>1, <4>2 DEF Retryable
    <3>4. QED BY <3>1, <3>2, <3>3
  <2>6. ActiveInv'
    BY <2>4, <2>5 DEF ActiveInv
  <2>7. QED BY <2>2, <2>6
<1>3. QED BY <1>1, <1>2

\* A step that goes on with a row writes to that row's attempt and job only,
\* and the step that makes the job retryable is the last to write to it.
LEMMA RowStepEffect ==
    ASSUME Steady, TInv, Booted, SteadyInv, NEW w \in Workers, RowStep(w)
    PROVE  /\ Rows(w)' \subseteq Rows(w)
           /\ bg'[w].phase = bg[w].phase /\ bg'[w].todo = bg[w].todo
           /\ bg'[w].pc \in RowPc => bg[w].pc \in RowPc /\ bg'[w].cur = bg[w].cur
           /\ \A a \in Attempts :
                 att'[a] = att[a] \/ (att'[a] # "ABSENT" /\ \E x \in Rows(w) : a = Of(x))
           /\ \A j \in Jobs :
                 job'[j] = job[j] \/ (job'[j] # "ABSENT" /\ \E x \in Rows(w) : x.j = j)
           /\ \A j \in Jobs :
                 job'[j] \in Retryable =>
                    \/ job'[j] = job[j]
                    \/ /\ att' = att
                       /\ \E x \in Rows(w) : x.j = j /\ att[Of(x)] \notin Active
                       /\ \A y \in Rows(w)' : y.j # j
           /\ bg'[w].pc \in {"finalize", "lostJob", "timeoutJob"} =>
                 \A x \in bg'[w].cur : att'[Of(x)] \notin Active
<1>0. TypeOK /\ MappedFits /\ RowsInv /\ DoneInv /\ \A x, y \in bg[w].cur : x = y
  BY DEF TInv, SteadyInv, Booted
<1>1. PICK pc : RowGoto(w, pc) /\ BgGoto(w, pc)
  BY RowSteps
<1>2. /\ bg'[w].phase = bg[w].phase /\ bg'[w].todo = bg[w].todo /\ bg'[w].pc = pc
      /\ bg'[w].cur = IF pc = "next" THEN {} ELSE bg[w].cur
  BY <1>0, <1>1, GotoFrame
<1>3. pc \in RowPc => bg[w].pc \in RowPc /\ bg'[w].cur = bg[w].cur
  BY <1>1, <1>2 DEF RowGoto, RowPc
<1>4. Rows(w)' \subseteq Rows(w)
  BY <1>2, <1>3 DEF Rows
<1>5. \A x \in bg[w].cur : x \in Item
  BY <1>0 DEF TypeOK, BgState
<1>6. CASE UpdateAttempt(w) \/ LostAttempt(w) \/ TimeoutAttempt(w)
  <2>1. PICK x \in bg[w].cur, s \in AttStatus \ {"ABSENT"} :
           /\ att' = [att EXCEPT ![Of(x)] = s]
           /\ pc \in {"finalize", "lostJob", "timeoutJob"} => s \notin Active
    <3>1. CASE UpdateAttempt(w)
      <4>1. PICK x \in bg[w].cur :
                att' = [att EXCEPT ![Of(x)] = bg[w].mapped] /\ BgGoto(w, AfterAttempt(x, bg[w].mapped))
        BY <3>1 DEF UpdateAttempt, Of
      <4>2. bg[w].mapped \in AttStatus \ {"ABSENT"}
        BY <1>0, <3>1 DEF UpdateAttempt, MappedFits, TypeOK, BgState, Mapped, AttStatus, Active, Terminal
      <4>3. pc = AfterAttempt(x, bg[w].mapped)
        BY <1>0, <1>2, <4>1, GotoFrame
      <4>4. pc = "finalize" => bg[w].mapped \notin Active
        BY <4>3 DEF AfterAttempt, Outcomes, Active
      <4>5. QED BY <4>1, <4>2, <4>3, <4>4, AfterAttemptType
    <3>2. CASE LostAttempt(w) \/ TimeoutAttempt(w)
      BY <3>2 DEF LostAttempt, TimeoutAttempt, AttStatus, Active, Terminal, Of
    <3>3. QED BY <1>6, <3>1, <3>2
  <2>2. job' = job /\ x \in Rows(w)
    BY <1>6 DEF UpdateAttempt, LostAttempt, TimeoutAttempt, Rows, RowPc
  <2>3. Of(x) \in Attempts
    BY <1>0, <2>2 DEF RowsInv, RowSound
  <2>4. \A a \in Attempts : att'[a] = IF a = Of(x) THEN s ELSE att[a]
    BY <1>0, <2>1 DEF TypeOK
  <2>5. bg'[w].pc \in {"finalize", "lostJob", "timeoutJob"} =>
           \A y \in bg'[w].cur : att'[Of(y)] \notin Active
    BY <1>0, <1>2, <2>1, <2>3, <2>4
  <2>6. QED BY <1>2, <1>3, <1>4, <2>2, <2>4, <2>5
<1>7. CASE PromoteJob(w) \/ RequeueJob(w) \/ FinalizeJob(w) \/ LostJob(w) \/ TimeoutJob(w)
  <2>1. PICK x \in bg[w].cur, s \in JobStatus \ {"ABSENT"} :
           /\ job' = [job EXCEPT ![x.j] = s] \/ job' = job
           /\ s \in Retryable => bg[w].pc \in {"finalize", "lostJob", "timeoutJob"}
    <3>1. CASE FinalizeJob(w)
      <4>1. CanTransition("RUNNING", bg[w].mapped) => bg[w].mapped \in JobStatus \ {"ABSENT"}
        BY DEF CanTransition, ValidTransitions, JobStatus, Terminal
      <4>2. QED BY <3>1, <4>1 DEF FinalizeJob, JobStatus, Terminal
    <3>2. CASE PromoteJob(w) \/ RequeueJob(w) \/ LostJob(w) \/ TimeoutJob(w)
      BY <3>2 DEF PromoteJob, RequeueJob, LostJob, TimeoutJob, JobStatus, Terminal, Retryable
    <3>3. QED BY <1>7, <3>1, <3>2
  <2>2. att' = att /\ x \in Rows(w) /\ bg[w].pc \in RowPc
    BY <1>7 DEF PromoteJob, RequeueJob, FinalizeJob, LostJob, TimeoutJob, Rows, RowPc
  <2>3. pc \in {"next", "event", "lostEvent", "timeoutEvent"}
    BY <1>1, <1>7 DEF RowGoto, PromoteJob, RequeueJob, FinalizeJob, LostJob, TimeoutJob
  <2>4. \A j \in Jobs : job'[j] = job[j] \/ (job'[j] = s /\ x.j = j)
    BY <1>0, <2>1 DEF TypeOK
  <2>5. s \in Retryable => att[Of(x)] \notin Active
    BY <1>0, <2>1 DEF DoneInv
  <2>6. \A y \in Rows(w)' : y.j # x.j
    <3>1. SUFFICES ASSUME NEW y \in Rows(w)', y.j = x.j PROVE FALSE
      OBVIOUS
    <3>2. y = x
      BY <1>0, <1>4, <2>2, <3>1 DEF RowsInv
    <3>3. y \in bg[w].todo /\ bg[w].phase \in {"sync", "timeouts"}
      BY <1>2, <2>3 DEF Rows, RowPc
    <3>4. QED BY <1>0, <2>2, <3>2, <3>3 DEF RowsInv
  <2>7. bg'[w].pc \notin {"finalize", "lostJob", "timeoutJob"}
    BY <1>2, <2>3
  <2>8. QED BY <1>2, <1>3, <1>4, <2>2, <2>4, <2>5, <2>6, <2>7
<1>8. CASE FinalEvent(w) \/ LostStop(w) \/ LostEvent(w) \/ TimeoutEvent(w)
  <2>1. UNCHANGED <<att, job>>
    BY <1>8 DEF FinalEvent, LostStop, LostEvent, TimeoutEvent, db
  <2>2. pc \in {"next", "lostAttempt"}
    BY <1>1, <1>8 DEF RowGoto, FinalEvent, LostStop, LostEvent, TimeoutEvent
  <2>3. QED BY <1>2, <1>3, <1>4, <2>1, <2>2
<1>9. QED BY <1>6, <1>7, <1>8 DEF RowStep

\* Rows are sound when they are read.
LEMMA ScanSound ==
    ASSUME Steady, TInv, HandInv, SteadyInv, NEW x \in SyncRows \cup TimeoutRows
    PROVE  RowSound(x) /\ x.st \in Active
<1>1. PICK a \in Attempts : att[a] \in Active /\ rid[a] /\ x = Row(a)
  BY DEF SyncRows, TimeoutRows, Active
<1>2. Of(x) = a /\ x.j = a[1] /\ x.st = att[a]
  BY <1>1 DEF Of, Row, Attempts
<1>3. Latest(a) /\ job[a[1]] \notin Retryable
  <2>1. \A w \in Workers : ~(api[w].pc = "queueJob" /\ a \in api[w].on)
    BY <1>1 DEF HandInv, HeldFresh, Holds, HandPc
  <2>2. QED BY <1>1, <2>1 DEF SteadyInv, ActiveInv
<1>4. QED BY <1>1, <1>2, <1>3 DEF RowSound, Active

\* The steps at the head of a pass and of a row.
LEMMA PassHeadEffect ==
    ASSUME Steady, TInv, HandInv, Booted, SteadyInv, NEW w \in Workers,
           Start(w) \/ StartPass(w) \/ Scan(w) \/ SyncAsk(w) \/ ZombieAsk(w) \/ TimeoutStop(w)
    PROVE  /\ UNCHANGED <<att, job>>
           /\ \A x \in Rows(w)' : RowSound(x)
           /\ \A x, y \in Rows(w)' : x.j = y.j => x = y
           /\ bg'[w].pc \in RowPc /\ bg'[w].phase \in {"sync", "timeouts"} => bg'[w].cur \cap bg'[w].todo = {}
           /\ bg'[w].phase = "sync" => \A x \in bg'[w].todo : x.st \in Active
           /\ bg'[w].pc \notin {"finalize", "lostJob", "timeoutJob"}
<1>0. TypeOK /\ RowsInv
  BY DEF TInv, SteadyInv
<1>1. UNCHANGED <<att, job>>
  BY DEF Start, StartPass, Scan, SyncAsk, ZombieAsk, TimeoutStop, db
<1>2. CASE Start(w)
  <2>1. bg'[w].phase = "recover" /\ bg'[w].pc = bg[w].pc /\ bg[w].pc \in {"scan", "next"}
    BY <1>0, <1>2 DEF Start, TypeOK, BgState, Booted, Serving
  <2>2. Rows(w)' = {}
    BY <2>1 DEF Rows, RowPc
  <2>3. QED BY <1>1, <2>1, <2>2 DEF RowPc
<1>3. CASE StartPass(w)
  <2>1. bg'[w].pc = "scan" /\ bg'[w].todo = {}
    BY <1>0, <1>3 DEF StartPass, TypeOK, BgState
  <2>2. Rows(w)' = {}
    BY <2>1 DEF Rows, RowPc
  <2>3. QED BY <1>1, <2>1, <2>2 DEF RowPc
<1>4. CASE Scan(w)
  <2>1. /\ bg'[w].phase = bg[w].phase /\ bg'[w].pc = "next"
        /\ bg[w].phase = "sync" => bg'[w].todo = SyncRows
        /\ bg[w].phase = "timeouts" => bg'[w].todo \subseteq TimeoutRows
    <3>1. PICK rows :
             /\ bg[w].phase = "sync" => rows = SyncRows
             /\ bg[w].phase = "timeouts" => rows \subseteq TimeoutRows
             /\ bg' = [bg EXCEPT ![w].todo = rows, ![w].pc = "next"]
      BY <1>4 DEF Scan
    <3>2. QED BY <1>0, <3>1 DEF TypeOK, BgState
  <2>2. Rows(w)' \subseteq SyncRows \cup TimeoutRows
    BY <2>1 DEF Rows, RowPc
  <2>3. \A x \in Rows(w)' : RowSound(x)
    BY <2>2, ScanSound
  <2>4. ASSUME NEW x \in Rows(w)', NEW y \in Rows(w)', x.j = y.j PROVE x = y
    <3>1. PICK a \in Attempts, b \in Attempts : x = Row(a) /\ y = Row(b)
      BY <2>2 DEF SyncRows, TimeoutRows
    <3>2. Of(x) = a /\ Of(y) = b /\ a[1] = b[1]
      BY <2>4, <3>1 DEF Of, Row, Attempts
    <3>3. a = b
      BY <2>3, <3>2, LatestUnique DEF RowSound
    <3>4. QED BY <3>1, <3>3
  <2>5. bg'[w].phase = "sync" => \A x \in bg'[w].todo : x.st \in Active
    BY <2>1, ScanSound
  <2>6. QED BY <1>1, <2>1, <2>3, <2>4, <2>5 DEF RowPc
<1>5. CASE SyncAsk(w) \/ TimeoutStop(w)
  <2>1. PICK i \in bg[w].todo, m \in Mapped, pc \in BgPc \ {"finalize", "lostJob", "timeoutJob"} :
            BgTake(w, i, i, m, pc)
    <3>1. CASE SyncAsk(w)
      <4>1. PICK i \in bg[w].todo :
               \/ BgTake(w, i, i, "UNKNOWN", "lostStop")
               \/ LET m == Polled(w, <<i.j, i.n>>) IN
                  BgTake(w, i, i, m, IF m \in {i.st, "UNKNOWN"} THEN AfterAttempt(i, m) ELSE "attempt")
        BY <3>1 DEF SyncAsk
      <4>2. i.st \in Active
        BY <1>0, <3>1 DEF SyncAsk, RowsInv
      <4> DEFINE m == Polled(w, <<i.j, i.n>>)
                 pc == IF m \in {i.st, "UNKNOWN"} THEN AfterAttempt(i, m) ELSE "attempt"
      <4>3. m \in Mapped
        BY PolledIsReal
      <4> HIDE DEF m
      <4>4. pc \in BgPc \ {"finalize", "lostJob", "timeoutJob"}
        BY <4>2 DEF AfterAttempt, Outcomes, Active, BgPc
      <4>5. BgTake(w, i, i, "UNKNOWN", "lostStop") \/ BgTake(w, i, i, m, pc)
        BY <4>1 DEF m
      <4> HIDE DEF pc
      <4>6. QED BY <4>3, <4>4, <4>5 DEF Mapped, BgPc
    <3>2. CASE TimeoutStop(w)
      BY <3>2 DEF TimeoutStop, Mapped, BgPc
    <3>3. QED BY <1>5, <3>1, <3>2
  <2>2. /\ bg'[w].phase = bg[w].phase /\ bg'[w].todo = bg[w].todo \ {i} /\ bg'[w].pc = pc
        /\ bg'[w].cur = IF pc = "next" THEN {} ELSE {i}
    BY <1>0, <2>1, TakeFrame
  <2>3. bg[w].phase \in {"sync", "timeouts"}
    BY <1>5 DEF SyncAsk, TimeoutStop
  <2>4. Rows(w)' \subseteq Rows(w)
    BY <2>2, <2>3 DEF Rows
  <2>5. bg'[w].cur \cap bg'[w].todo = {}
    BY <2>2
  <2>6. QED BY <1>0, <1>1, <2>1, <2>2, <2>4, <2>5 DEF RowsInv
<1>6. CASE ZombieAsk(w)
  <2>1. PICK i \in bg[w].todo : BgTake(w, i, i, "UNKNOWN", "next")
    BY <1>6 DEF ZombieAsk
  <2>2. bg'[w].phase = "zombies" /\ bg'[w].pc = "next" /\ bg'[w].cur = {}
    BY <1>0, <1>6, <2>1, TakeFrame DEF ZombieAsk
  <2>3. Rows(w)' = {}
    BY <2>2 DEF Rows
  <2>4. QED BY <1>1, <2>2, <2>3 DEF RowPc
<1>7. QED BY <1>2, <1>3, <1>4, <1>5, <1>6

\* A pass keeps what it knows of its rows.
LEMMA PassKeepsRows ==
    ASSUME Steady, TInv, HandInv, Booted, SteadyInv, NEW w \in Workers, Sync(w) \/ Recover(w)
    PROVE  RowsInv' /\ DoneInv'
<1>0. TypeOK /\ RowsInv /\ rid' = rid /\ \A v \in Workers : v = w
  BY ThreadFrame DEF TInv, SteadyInv, Steady
<1>1. CASE Start(w) \/ StartPass(w) \/ Scan(w) \/ SyncAsk(w) \/ ZombieAsk(w) \/ TimeoutStop(w)
  <2>1. /\ UNCHANGED <<att, job>>
        /\ \A x \in Rows(w)' : RowSound(x)
        /\ \A x, y \in Rows(w)' : x.j = y.j => x = y
        /\ bg'[w].pc \in RowPc /\ bg'[w].phase \in {"sync", "timeouts"} => bg'[w].cur \cap bg'[w].todo = {}
        /\ bg'[w].phase = "sync" => \A x \in bg'[w].todo : x.st \in Active
        /\ bg'[w].pc \notin {"finalize", "lostJob", "timeoutJob"}
    BY <1>1, PassHeadEffect
  <2>2. \A x : RowSound(x) => RowSound(x)'
    BY <1>0, <2>1 DEF RowSound, Latest, Of
  <2>3. RowsInv'
    BY <1>0, <2>1, <2>2 DEF RowsInv
  <2>4. DoneInv'
    BY <1>0, <2>1 DEF DoneInv
  <2>5. QED BY <2>3, <2>4
<1>2. CASE RowStep(w)
  <2>1. /\ Rows(w)' \subseteq Rows(w)
        /\ bg'[w].phase = bg[w].phase /\ bg'[w].todo = bg[w].todo
        /\ bg'[w].pc \in RowPc => bg[w].pc \in RowPc /\ bg'[w].cur = bg[w].cur
        /\ \A a \in Attempts : att'[a] = att[a] \/ (att'[a] # "ABSENT" /\ \E x \in Rows(w) : a = Of(x))
        /\ \A j \in Jobs :
              job'[j] \in Retryable => job'[j] = job[j] \/ \A y \in Rows(w)' : y.j # j
        /\ bg'[w].pc \in {"finalize", "lostJob", "timeoutJob"} =>
              \A x \in bg'[w].cur : att'[Of(x)] \notin Active
    BY <1>2, RowStepEffect
  <2>2. \A a \in Attempts : (att'[a] = "ABSENT") <=> (att[a] = "ABSENT")
    BY <1>0, <2>1 DEF RowsInv, RowSound
  <2>3. ASSUME NEW x \in Rows(w)' PROVE RowSound(x)'
    <3>1. RowSound(x) /\ x.j \in Jobs
      BY <1>0, <2>1, <2>3 DEF RowsInv, RowSound, Of, Attempts
    <3>2. Latest(Of(x))'
      BY <2>2, <3>1 DEF RowSound, Latest, Of
    <3>3. job'[x.j] \notin Retryable
      BY <2>1, <2>3, <3>1 DEF RowSound
    <3>4. QED BY <1>0, <2>2, <3>1, <3>2, <3>3 DEF RowSound, Of
  <2>4. RowsInv'
    BY <1>0, <2>1, <2>3 DEF RowsInv
  <2>5. DoneInv'
    BY <1>0, <2>1 DEF DoneInv, Of
  <2>6. QED BY <2>4, <2>5
<1>3. QED BY <1>1, <1>2, SteadySync

\* What a pass does to the attempt and the job of a request: it writes only
\* where it has a row, and it adds and removes no attempt.
LEMMA PassEffect ==
    ASSUME Steady, TInv, HandInv, Booted, SteadyInv, NEW w \in Workers, Sync(w) \/ Recover(w)
    PROVE  /\ \A a \in Attempts : att'[a] = att[a] \/ (att'[a] # "ABSENT" /\ \E x \in Rows(w) : a = Of(x))
           /\ \A a \in Attempts : (att'[a] = "ABSENT") <=> (att[a] = "ABSENT")
           /\ \A j \in Jobs : job'[j] = job[j] \/ (job'[j] # "ABSENT" /\ \E x \in Rows(w) : x.j = j)
           /\ \A j \in Jobs :
                 job'[j] \in Retryable =>
                    job'[j] = job[j] \/ (att' = att /\ \E x \in Rows(w) : x.j = j /\ att[Of(x)] \notin Active)
<1>1. CASE Start(w) \/ StartPass(w) \/ Scan(w) \/ SyncAsk(w) \/ ZombieAsk(w) \/ TimeoutStop(w)
  <2>1. UNCHANGED <<att, job>>
    BY <1>1, PassHeadEffect
  <2>2. QED BY <2>1
<1>2. CASE RowStep(w)
  <2>1. /\ \A a \in Attempts : att'[a] = att[a] \/ (att'[a] # "ABSENT" /\ \E x \in Rows(w) : a = Of(x))
        /\ \A j \in Jobs : job'[j] = job[j] \/ (job'[j] # "ABSENT" /\ \E x \in Rows(w) : x.j = j)
        /\ \A j \in Jobs :
              job'[j] \in Retryable =>
                 job'[j] = job[j] \/ (att' = att /\ \E x \in Rows(w) : x.j = j /\ att[Of(x)] \notin Active)
    BY <1>2, RowStepEffect
  <2>2. \A a \in Attempts : (att'[a] = "ABSENT") <=> (att[a] = "ABSENT")
    BY <2>1 DEF SteadyInv, RowsInv, RowSound
  <2>3. QED BY <2>1, <2>2
<1>3. QED BY <1>1, <1>2, SteadySync

\* ... and what the request of the other thread relies on.
LEMMA PassKeepsRequest ==
    ASSUME Steady, TInv, HandInv, Booted, SteadyInv, NEW w \in Workers, Sync(w) \/ Recover(w)
    PROVE  ReqInv' /\ ActiveInv' /\ AbsentInv'
<1>0. /\ TypeOK /\ RowsInv /\ ReqInv /\ ActiveInv /\ AbsentInv /\ \A v \in Workers : v = w
      /\ api' = api /\ rid' = rid
  BY ThreadFrame DEF TInv, SteadyInv, Steady
<1>1. /\ \A a \in Attempts : att'[a] = att[a] \/ (att'[a] # "ABSENT" /\ \E x \in Rows(w) : a = Of(x))
      /\ \A j \in Jobs : job'[j] = job[j] \/ (job'[j] # "ABSENT" /\ \E x \in Rows(w) : x.j = j)
      /\ \A j \in Jobs :
            job'[j] \in Retryable =>
               job'[j] = job[j] \/ (att' = att /\ \E x \in Rows(w) : x.j = j /\ att[Of(x)] \notin Active)
  BY PassEffect
<1>2. \A a \in Attempts : (att'[a] = "ABSENT") <=> (att[a] = "ABSENT")
  BY PassEffect
<1>3. \A a : Latest(a) => Latest(a)'
  BY <1>2 DEF Latest
<1>4. \A a \in Attempts : a[1] \in Jobs
  BY DEF Attempts
<1>5. ReqInv'
  <2>1. ASSUME NEW a \in api[w].on
        PROVE  /\ job'[a[1]] # "ABSENT"
               /\ api[w].pc = "numberAttempt" => job'[a[1]] \in Retryable
               /\ api[w].pc = "insertAttempt" =>
                     \/ job'[a[1]] \in Retryable
                     \/ \A b \in Attempts : b[1] = a[1] => att'[b] = "ABSENT"
               /\ api[w].pc \in HandPc \cup {"failJob"} => att'[a] # "ABSENT"
               /\ api[w].pc \in {"callBackend", "recordAttempt", "failAttempt", "failJob"} =>
                     job'[a[1]] \notin Retryable
               /\ api[w].pc = "failJob" => att'[a] \notin Active
    <3>1. a[1] \in Jobs
      BY <1>0 DEF TypeOK, ApiState
    <3>2. job'[a[1]] # "ABSENT"
      BY <1>0, <1>1, <3>1 DEF ReqInv
    <3>3. CASE api[w].pc = "numberAttempt"
      <4>1. job[a[1]] \in Retryable
        BY <1>0, <3>3 DEF ReqInv
      <4>2. \A x \in Rows(w) : x.j # a[1]
        BY <1>0, <4>1 DEF RowsInv, RowSound
      <4>3. QED BY <1>1, <3>1, <3>2, <3>3, <4>1, <4>2 DEF HandPc
    <3>4. CASE api[w].pc = "insertAttempt"
      <4>1. NoRow(a[1])
        BY <1>0, <3>4, RequestAlone
      <4>2. \A x \in Rows(w) : x.j # a[1]
        BY <4>1 DEF NoRow
      <4>3. job'[a[1]] = job[a[1]]
        BY <1>1, <3>1, <4>2
      <4>4. QED BY <1>0, <1>2, <3>2, <3>4, <4>3 DEF ReqInv, HandPc
    <3>5. CASE api[w].pc \in HandPc \cup {"failJob"}
      <4>1. NoRow(a[1])
        BY <1>0, <3>5, RequestAlone
      <4>2. \A x \in Rows(w) : x.j # a[1] /\ Of(x) # a
        BY <4>1 DEF NoRow, Of
      <4>3. job'[a[1]] = job[a[1]]
        BY <1>1, <3>1, <4>2
      <4>4. a \in Attempts
        BY <1>0, <3>5 DEF ReqInv
      <4>5. att'[a] = att[a]
        BY <1>1, <4>2, <4>4
      <4>6. QED BY <1>0, <3>2, <3>5, <4>3, <4>5 DEF ReqInv, HandPc
    <3>6. QED BY <3>2, <3>3, <3>4, <3>5 DEF HandPc
  <2>2. QED BY <1>0, <1>3, <2>1 DEF ReqInv
<1>6. ActiveInv'
  <2>1. ASSUME NEW a \in Attempts, att'[a] \in Active
        PROVE  Latest(a)
    BY <1>0, <1>1, <2>1 DEF ActiveInv, RowsInv, RowSound
  <2>2. ASSUME NEW a \in Attempts, att'[a] \in Active, job'[a[1]] \in Retryable
        PROVE  api[w].pc = "queueJob" /\ a \in api[w].on
    <3>1. CASE job'[a[1]] = job[a[1]]
      <4>1. \A x \in Rows(w) : Of(x) # a
        <5>1. SUFFICES ASSUME NEW x \in Rows(w), Of(x) = a PROVE FALSE
          OBVIOUS
        <5>2. x.j = a[1]
          BY <5>1 DEF Of
        <5>3. QED BY <1>0, <2>2, <3>1, <5>1, <5>2 DEF RowsInv, RowSound
      <4>2. att'[a] = att[a]
        BY <1>1, <4>1
      <4>3. QED BY <1>0, <2>2, <3>1, <4>2 DEF ActiveInv
    <3>2. CASE job'[a[1]] # job[a[1]]
      <4>1. PICK x \in Rows(w) : att' = att /\ x.j = a[1] /\ att[Of(x)] \notin Active
        BY <1>1, <1>4, <2>2, <3>2
      <4>2. RowSound(x) /\ Of(x)[1] = a[1] /\ Latest(a) /\ att[a] # "ABSENT"
        BY <1>0, <2>1, <2>2, <4>1 DEF RowsInv, Of, Active
      <4>3. Of(x) = a
        BY <4>2, LatestUnique DEF RowSound
      <4>4. QED BY <2>2, <4>1, <4>3
    <3>3. QED BY <3>1, <3>2
  <2>3. QED BY <1>0, <1>3, <2>1, <2>2 DEF ActiveInv
<1>7. AbsentInv'
  BY <1>0, <1>1, <1>2, <1>4 DEF AbsentInv
<1>8. QED BY <1>5, <1>6, <1>7

LEMMA SteadyInit == Init => SteadyInv
BY DEF Init, SteadyInv, RowsInv, Rows, DoneInv, ReqInv, ActiveInv, AbsentInv, Down, NoRequest, Active, RowPc

LEMMA SteadyStep ==
    ASSUME Steady, TInv, HandInv, Booted, SteadyInv, [Next]_vars
    PROVE  SteadyInv'
<1>0. TypeOK
  BY DEF TInv
<1>1. CASE UNCHANGED vars
  BY <1>1 DEF vars, SteadyInv, RowsInv, RowSound, Rows, Latest, DoneInv, ReqInv, ActiveInv, AbsentInv
<1>2. ASSUME NEW w \in Workers, Accept(w) \/ Handle(w) PROVE SteadyInv'
  <2>1. RowsInv' /\ DoneInv'
    BY <1>2, RequestKeepsRows DEF SteadyInv
  <2>2. QED BY <1>2, <2>1, RequestKeepsReq, RequestKeepsActive DEF SteadyInv
<1>3. ASSUME NEW w \in Workers, Sync(w) \/ Recover(w) PROVE SteadyInv'
  BY <1>3, PassKeepsRows, PassKeepsRequest DEF SteadyInv
<1>4. ASSUME NEW w \in Workers, Crash(w) PROVE FALSE
  BY <1>0, <1>4 DEF Crash, Steady, TypeOK
<1>5. ASSUME NEW a \in Attempts, RayStart(a) \/ RayFinish(a) PROVE SteadyInv'
  <2>1. UNCHANGED <<job, att, rid, api, bg>>
    BY <1>5 DEF RayStart, RayFinish, db
  <2>2. QED
    BY <2>1 DEF SteadyInv, RowsInv, RowSound, Rows, Latest, DoneInv, ReqInv, ActiveInv, AbsentInv
<1>6. QED BY <1>1, <1>2, <1>3, <1>4, <1>5 DEF Next

LEMMA SteadyInvariant ==
    ASSUME Steady
    PROVE  Spec => []SteadyInv
<1>1. Steady
  OBVIOUS
<1>2. TInv /\ HandInv /\ Booted /\ SteadyInv /\ [Next]_vars => SteadyInv'
  BY <1>1, SteadyStep
<1>3. Spec => []Booted
  BY <1>1, BootedInvariant
<1>4. QED BY <1>2, <1>3, SteadyInit, TypeInvariant, HandInvariant, PTL DEF Spec

\* Retries, cancels and passes of one process: at most one attempt of a job is
\* QUEUED or RUNNING, although the UPDATE that moves an attempt looks at its
\* id alone and retry reads the job's status long before it inserts.
THEOREM OneAttemptAtATime ==
    ASSUME Steady
    PROVE  Spec => []OneActiveAttempt
<1>1. Steady
  OBVIOUS
<1>2. SteadyInv => OneActiveAttempt
  BY LatestUnique DEF SteadyInv, ActiveInv, OneActiveAttempt, Active
<1>3. Spec => []SteadyInv
  BY <1>1, SteadyInvariant
<1>4. QED BY <1>2, <1>3, PTL

-----------------------------------------------------------------------------
(* At most one Ray job of a job works *)

\* ... and Ray can be reached: no reply of submit_job is lost, stop_job works
\* and the client was built.
Obedient == Steady /\ Faults \cap {"reply", "stop", "connect"} = {}

ClientInv == \A w \in Workers : IF bg[w].phase = "down" THEN bg[w].pc = "scan" ELSE client[w]

\* A Ray job that works belongs to the latest attempt of a job that retry does
\* not accept; nothing works where a thread is about to end the job.
LiveInv ==
    /\ \A a \in Attempts : ray[a] \in RayLive => Latest(a) /\ job[a[1]] \notin Retryable
    /\ \A w \in Workers :
          bg[w].pc \in {"lostAttempt", "lostJob", "timeoutAttempt", "timeoutJob"} =>
              \A x \in bg[w].cur : ray[Of(x)] \notin RayLive
    /\ \A w \in Workers :
          api[w].pc \in {"failAttempt", "failJob"} => \A a \in api[w].on : ray[a] = "ABSENT"

LEMMA ClientStep ==
    ASSUME Obedient, TInv, Booted, ClientInv, [Next]_vars
    PROVE  ClientInv'
<1>0. TypeOK /\ Steady
  BY DEF TInv, Obedient
<1>1. CASE UNCHANGED vars
  BY <1>1 DEF vars, ClientInv
<1>2. ASSUME NEW w \in Workers, Accept(w) \/ Handle(w) PROVE ClientInv'
  <2>1. UNCHANGED <<bg, client>>
    BY <1>2 DEF Accept, SubmitJob, RetryJob, CancelJob, Handle, NumberAttempt, InsertAttempt, QueueJob,
                CallBackend, RecordAttempt, RecordJob, FailAttempt, FailJob, FailEvent, MarkCancelling,
                StopRay, MarkCancelled, CancelAttempts, CancelEvent
  <2>2. QED BY <2>1 DEF ClientInv
<1>3. ASSUME NEW w \in Workers, Sync(w) \/ Recover(w) PROVE ClientInv'
  <2>1. \A v \in Workers : v = w
    BY <1>0 DEF Steady
  <2>2. CASE Start(w)
    <3>1. client'[w] = TRUE /\ bg'[w].phase = "recover"
      BY <1>0, <2>2 DEF Start, Obedient, TypeOK, BgState
    <3>2. QED BY <2>1, <3>1 DEF ClientInv
  <2>3. CASE StartPass(w)
    <3>1. bg[w].phase # "down" /\ client' = client /\ bg'[w].phase # "down"
      BY <1>0, <2>3 DEF StartPass, TypeOK, BgState, ClientInv
    <3>2. QED BY <2>1, <3>1 DEF ClientInv
  <2>4. CASE Scan(w)
    <3>1. bg[w].phase # "down" /\ client' = client /\ bg'[w].phase = bg[w].phase
      BY <1>0, <2>4 DEF Scan, TypeOK, BgState
    <3>2. QED BY <2>1, <3>1 DEF ClientInv
  <2>5. CASE SyncAsk(w) \/ ZombieAsk(w) \/ TimeoutStop(w)
    <3>1. Serving(w) /\ \E i, m, pc : BgTake(w, i, i, m, pc)
      BY <1>0, <2>5, TakeSteps
    <3>2. client' = client
      BY <2>5 DEF SyncAsk, ZombieAsk, TimeoutStop
    <3>3. bg'[w].phase = bg[w].phase
      BY <1>0, <3>1, TakeFrame
    <3>4. QED BY <2>1, <3>1, <3>2, <3>3 DEF ClientInv, Serving
  <2>6. CASE RowStep(w)
    <3>1. Serving(w) /\ \E pc : BgGoto(w, pc)
      BY <1>0, <2>6, RowSteps
    <3>2. client' = client
      BY <2>6 DEF RowStep, UpdateAttempt, FinalizeJob, FinalEvent, PromoteJob, RequeueJob, LostStop,
                  LostAttempt, LostJob, LostEvent, TimeoutAttempt, TimeoutJob, TimeoutEvent
    <3>3. bg'[w].phase = bg[w].phase
      BY <1>0, <3>1, GotoFrame
    <3>4. QED BY <2>1, <3>1, <3>2, <3>3 DEF ClientInv, Serving
  <2>7. QED BY <1>3, <2>2, <2>3, <2>4, <2>5, <2>6, SteadySync
<1>4. ASSUME NEW w \in Workers, Crash(w) PROVE FALSE
  BY <1>0, <1>4 DEF Crash, Steady, TypeOK
<1>5. ASSUME NEW a \in Attempts, RayStart(a) \/ RayFinish(a) PROVE ClientInv'
  BY <1>5 DEF RayStart, RayFinish, ClientInv
<1>6. QED BY <1>1, <1>2, <1>3, <1>4, <1>5 DEF Next

\* stop_job never brings a job to life, and a call that reaches Ray ends it.
LEMMA StopEnds ==
    ASSUME TypeOK, NEW w \in Workers, NEW a, RayStop(w, a)
    PROVE  /\ \A b \in Attempts : ray'[b] \in RayLive => ray[b] \in RayLive
           /\ a \in Attempts /\ client[w] /\ "stop" \notin Faults => ray'[a] \notin RayLive
BY DEF RayStop, TypeOK, RayStatus, RayLive, Halted

\* Two attempts of one job that both exist and are both the latest are one.
LEMMA LiveUnique ==
    ASSUME HandInv, LiveInv, NEW a \in Attempts, NEW b \in Attempts, a[1] = b[1],
           ray[a] \in RayLive, att[b] # "ABSENT", Latest(b)
    PROVE  a = b
<1>1. Latest(a) /\ att[a] # "ABSENT"
  BY DEF LiveInv, HandInv, Unborn, RayLive
<1>2. QED BY <1>1, LatestUnique

LEMMA LiveRequest ==
    ASSUME Obedient, TInv, HandInv, SteadyInv, LiveInv, NEW w \in Workers, Accept(w) \/ Handle(w)
    PROVE  LiveInv'
<1>0. /\ TypeOK /\ OneEach /\ OnAttempt /\ Unborn /\ HeldFresh /\ RowsInv /\ ReqInv
      /\ \A v \in Workers : v = w
  BY DEF TInv, HandInv, SteadyInv, Obedient, Steady
<1>a. bg' = bg /\ \A a \in Attempts : a[1] \in Jobs
  BY RequestEffect DEF SteadyInv, Attempts
<1>1. \A b \in Attempts :
         ray'[b] \in RayLive => ray[b] \in RayLive \/ (api[w].pc = "callBackend" /\ b \in api[w].on)
  <2>1. CASE CallBackend(w)
    BY <1>0, <2>1 DEF CallBackend, TypeOK
  <2>2. CASE StopRay(w)
    BY <1>0, <2>2, StopEnds DEF StopRay
  <2>3. CASE ~(CallBackend(w) \/ StopRay(w))
    <3>1. ray' = ray
      BY <2>3 DEF Accept, SubmitJob, RetryJob, CancelJob, Handle, NumberAttempt, InsertAttempt, QueueJob,
                  RecordAttempt, RecordJob, FailAttempt, FailJob, FailEvent, MarkCancelling,
                  MarkCancelled, CancelAttempts, CancelEvent
    <3>2. QED BY <3>1
  <2>4. QED BY <2>1, <2>2, <2>3
<1>2. ASSUME NEW b \in Attempts, ray'[b] \in RayLive
      PROVE  Latest(b) /\ att[b] # "ABSENT" /\ job[b[1]] \notin Retryable
  BY <1>0, <1>1, <1>2 DEF LiveInv, Unborn, RayLive, ReqInv, HandPc
<1>3. ASSUME NEW b \in Attempts, ray'[b] \in RayLive PROVE Latest(b)'
  <2>1. CASE InsertAttempt(w)
    <3>1. PICK a \in api[w].on : att' = att \/ (att[a] = "ABSENT" /\ att' = [att EXCEPT ![a] = "QUEUED"])
      BY <2>1 DEF InsertAttempt
    <3>2. job[a[1]] \in Retryable \/ \A c \in Attempts : c[1] = a[1] => att[c] = "ABSENT"
      BY <1>0, <2>1 DEF InsertAttempt, ReqInv
    <3>3. b[1] # a[1]
      BY <1>2, <1>3, <3>2
    <3>4. QED BY <1>0, <1>2, <1>3, <3>1, <3>3 DEF TypeOK, Latest
  <2>2. CASE ~InsertAttempt(w)
    <3>1. \A c \in Attempts : att'[c] # "ABSENT" => att[c] # "ABSENT"
      <4>1. CASE RecordAttempt(w) \/ FailAttempt(w)
        <5>1. PICK a \in api[w].on, s \in AttStatus : att' = [att EXCEPT ![a] = s]
          BY <4>1 DEF RecordAttempt, FailAttempt, AttStatus, Active, Terminal
        <5>2. att[a] # "ABSENT"
          BY <1>0, <4>1 DEF RecordAttempt, FailAttempt, ReqInv, HandPc
        <5>3. QED BY <1>0, <5>1, <5>2 DEF TypeOK
      <4>2. CASE CancelAttempts(w)
        BY <1>0, <4>2 DEF CancelAttempts, TypeOK, Active
      <4>3. CASE ~(RecordAttempt(w) \/ FailAttempt(w) \/ CancelAttempts(w))
        <5>1. att' = att
          BY <2>2, <4>3
             DEF Accept, SubmitJob, RetryJob, CancelJob, Handle, NumberAttempt, QueueJob, CallBackend,
                 RecordJob, FailJob, FailEvent, MarkCancelling, StopRay, MarkCancelled, CancelEvent, db
        <5>2. QED BY <5>1
      <4>4. QED BY <4>1, <4>2, <4>3
    <3>2. QED BY <1>2, <1>3, <3>1 DEF Latest
  <2>3. QED BY <2>1, <2>2
<1>4. ASSUME NEW b \in Attempts, ray'[b] \in RayLive PROVE job'[b[1]] \notin Retryable
  <2>1. CASE FailJob(w)
    <3>1. PICK a \in api[w].on : job' = [job EXCEPT ![a[1]] = "FAILED"]
      BY <2>1 DEF FailJob
    <3>2. ray' = ray /\ api[w].pc = "failJob"
      BY <2>1 DEF FailJob
    <3>3. a \in Attempts /\ Latest(a) /\ att[a] # "ABSENT" /\ ray[a] = "ABSENT"
      BY <1>0, <3>2 DEF ReqInv, LiveInv
    <3>4. b[1] # a[1]
      BY <1>4, <3>2, <3>3, LiveUnique DEF RayLive
    <3>5. job'[b[1]] = job[b[1]]
      BY <1>0, <1>a, <3>1, <3>4 DEF TypeOK
    <3>6. QED BY <1>2, <1>4, <3>5
  <2>2. CASE ~FailJob(w)
    <3>1. job'[b[1]] = job[b[1]]
          \/ job'[b[1]] \in {"SUBMITTED", "QUEUED", "RUNNING", "CANCELLING", "CANCELLED"}
      BY <1>0, <1>a, <2>2
         DEF Accept, SubmitJob, RetryJob, CancelJob, Handle, NumberAttempt, InsertAttempt, QueueJob,
             CallBackend, RecordAttempt, RecordJob, FailAttempt, FailEvent, MarkCancelling, StopRay,
             MarkCancelled, CancelAttempts, CancelEvent, db, TypeOK
    <3>2. QED BY <1>2, <1>4, <3>1 DEF Retryable
  <2>3. QED BY <2>1, <2>2
<1>5. ASSUME NEW v \in Workers, bg[v].pc \in {"lostAttempt", "lostJob", "timeoutAttempt", "timeoutJob"},
             NEW x \in bg[v].cur
      PROVE  ray'[Of(x)] \notin RayLive
  <2>1. x \in Rows(v) /\ ray[Of(x)] \notin RayLive
    BY <1>5 DEF Rows, RowPc, LiveInv
  <2>2. Of(x) \in Attempts
    BY <1>0, <2>1 DEF RowsInv, RowSound
  <2>3. ~(api[w].pc = "callBackend" /\ Of(x) \in api[w].on)
    <3>1. SUFFICES ASSUME api[w].pc = "callBackend", Of(x) \in api[w].on PROVE FALSE
      OBVIOUS
    <3>2. NoRow(Of(x)[1])
      BY <1>0, <3>1, RequestAlone DEF HandPc
    <3>3. QED BY <2>1, <3>2 DEF NoRow, Of
  <2>4. QED BY <1>1, <2>1, <2>2, <2>3
<1>6. ASSUME api'[w].pc \in {"failAttempt", "failJob"}, NEW a \in api'[w].on PROVE ray'[a] = "ABSENT"
  <2>1. CASE CallBackend(w)
    <3>1. "reply" \notin Faults
      BY DEF Obedient
    <3>2. ApiGoto(w, "recordAttempt") => api'[w].pc = "recordAttempt"
      BY <1>0, ApiGotoFrame
    <3>3. ray' = ray
      BY <1>6, <2>1, <3>1, <3>2 DEF CallBackend
    <3>4. api'[w].on = api[w].on
      BY <1>0, <2>1, ApiGotoFrame DEF CallBackend
    <3>5. QED BY <1>0, <1>6, <2>1, <3>3, <3>4 DEF CallBackend, HeldFresh, Holds, HandPc, OnAttempt
  <2>2. CASE FailAttempt(w)
    <3>1. ray' = ray /\ api[w].pc = "failAttempt" /\ api'[w].on = api[w].on
      BY <1>0, <2>2, ApiGotoFrame DEF FailAttempt
    <3>2. QED BY <1>6, <3>1 DEF LiveInv
  <2>3. CASE RecordJob(w) \/ FailEvent(w) \/ CancelEvent(w)
    BY <1>0, <1>6, <2>3, ApiDoneFrame DEF RecordJob, FailEvent, CancelEvent
  <2>4. CASE QueueJob(w) \/ RecordAttempt(w) \/ FailJob(w) \/ MarkCancelling(w) \/ StopRay(w)
             \/ MarkCancelled(w) \/ CancelAttempts(w)
    <3>1. api'[w].pc \in {"callBackend", "recordJob", "failEvent", "stopRay", "markCancelled",
                          "cancelAttempts", "cancelEvent"}
      BY <1>0, <2>4, ApiGotoFrame
         DEF QueueJob, RecordAttempt, FailJob, MarkCancelling, StopRay, MarkCancelled, CancelAttempts
    <3>2. QED BY <1>6, <3>1
  <2>5. CASE InsertAttempt(w)
    BY <1>0, <1>6, <2>5, ApiGotoFrame, ApiDoneFrame DEF InsertAttempt
  <2>6. CASE NumberAttempt(w) \/ Accept(w)
    <3>1. api'[w].pc \in {"idle", "insertAttempt", "numberAttempt", "markCancelling", "markCancelled"}
      <4>1. CASE NumberAttempt(w)
        <5>1. CASE ApiDone(w)
          BY <1>0, <5>1, ApiDoneFrame
        <5>2. CASE ~ApiDone(w)
          BY <1>0, <4>1, <5>2 DEF NumberAttempt, TypeOK, ApiState
        <5>3. QED BY <5>1, <5>2
      <4>2. CASE Accept(w)
        BY <1>0, <4>2 DEF Accept, SubmitJob, RetryJob, CancelJob, TypeOK
      <4>3. QED BY <2>6, <4>1, <4>2
    <3>2. QED BY <1>6, <3>1
  <2>7. QED BY <2>1, <2>2, <2>3, <2>4, <2>5, <2>6 DEF Handle
<1>7. QED BY <1>0, <1>a, <1>3, <1>4, <1>5, <1>6 DEF LiveInv, Of

LEMMA LivePass ==
    ASSUME Obedient, TInv, HandInv, RealInv, Booted, SteadyInv, ClientInv, LiveInv,
           NEW w \in Workers, Sync(w) \/ Recover(w)
    PROVE  LiveInv'
<1>0. /\ TypeOK /\ MappedFits /\ Steady /\ RowsInv /\ "stop" \notin Faults /\ api' = api
      /\ \A v \in Workers : v = w
      /\ \A x, y \in bg[w].cur : x = y
      /\ \A a \in Attempts : ray[a] = "ABSENT" => ray'[a] = "ABSENT"
  BY ThreadFrame DEF TInv, SteadyInv, Obedient, Steady, Booted
<1>1. \A b \in Attempts : ray'[b] \in RayLive => ray[b] \in RayLive
  <2>1. CASE LostStop(w) \/ ZombieAsk(w) \/ TimeoutStop(w)
    BY <1>0, <2>1, StopEnds DEF LostStop, ZombieAsk, TimeoutStop
  <2>2. CASE ~(LostStop(w) \/ ZombieAsk(w) \/ TimeoutStop(w))
    <3>1. ray' = ray
      BY <1>0, <2>2, SteadySync
         DEF RowStep, Start, StartPass, Scan, SyncAsk, UpdateAttempt, FinalizeJob, FinalEvent, PromoteJob,
             RequeueJob, LostAttempt, LostJob, LostEvent, TimeoutAttempt, TimeoutJob, TimeoutEvent
    <3>2. QED BY <3>1
  <2>3. QED BY <2>1, <2>2
<1>2. \A b \in Attempts : Latest(b) => Latest(b)'
  BY <1>0, PassEffect DEF Latest
<1>3. ASSUME NEW b \in Attempts, ray[b] \in RayLive PROVE job'[b[1]] \notin Retryable
  <2>1. job[b[1]] \notin Retryable /\ b[1] \in Jobs
    BY <1>3 DEF LiveInv, Attempts
  <2>2. CASE FinalizeJob(w) \/ LostJob(w) \/ TimeoutJob(w)
    <3>1. PICK x \in bg[w].cur :
             \/ job' = job
             \/ (\E s : job' = [job EXCEPT ![x.j] = s]) /\ ray[Of(x)] \notin RayLive
      <4>1. CASE FinalizeJob(w)
        <5>1. PICK x \in bg[w].cur :
                 job' = job
                 \/ (CanTransition("RUNNING", bg[w].mapped) /\ job' = [job EXCEPT ![x.j] = bg[w].mapped])
          BY <4>1 DEF FinalizeJob
        <5>2. CanTransition("RUNNING", bg[w].mapped) => bg[w].mapped \in Ended
          BY <1>0 DEF CanTransition, ValidTransitions, TypeOK, BgState, Mapped, Ended
        <5>3. bg[w].mapped \in Ended => ray[Of(x)] \notin RayLive
          BY DEF RealInv, RealAnswers, Of, Ended, RayLive
        <5>4. QED BY <5>1, <5>2, <5>3
      <4>2. CASE LostJob(w) \/ TimeoutJob(w)
        BY <4>2 DEF LostJob, TimeoutJob, LiveInv
      <4>3. QED BY <2>2, <4>1, <4>2
    <3>2. x \in Rows(w)
      BY <2>2 DEF FinalizeJob, LostJob, TimeoutJob, Rows, RowPc
    <3>3. RowSound(x) /\ Of(x)[1] = x.j
      BY <1>0, <3>2 DEF RowsInv, Of
    <3>4. CASE job' = job
      BY <2>1, <3>4
    <3>5. CASE (\E s : job' = [job EXCEPT ![x.j] = s]) /\ ray[Of(x)] \notin RayLive
      <4>0. PICK s : job' = [job EXCEPT ![x.j] = s]
        BY <3>5
      <4>1. b[1] # x.j
        BY <1>3, <3>3, <3>5, LiveUnique DEF RowSound
      <4>2. QED BY <1>0, <2>1, <4>0, <4>1 DEF TypeOK
    <3>6. QED BY <3>1, <3>4, <3>5
  <2>3. CASE ~(FinalizeJob(w) \/ LostJob(w) \/ TimeoutJob(w))
    <3>1. job'[b[1]] = job[b[1]] \/ job'[b[1]] \in {"RUNNING", "QUEUED"}
      BY <1>0, <2>1, <2>3, SteadySync
         DEF RowStep, Start, StartPass, Scan, SyncAsk, ZombieAsk, TimeoutStop, UpdateAttempt, FinalEvent,
             PromoteJob, RequeueJob, LostStop, LostAttempt, LostEvent, TimeoutAttempt, TimeoutEvent, db, TypeOK
    <3>2. QED BY <2>1, <3>1 DEF Retryable
  <2>4. QED BY <2>2, <2>3
<1>4. ASSUME bg'[w].pc \in {"lostAttempt", "lostJob", "timeoutAttempt", "timeoutJob"}, NEW x \in bg'[w].cur
      PROVE  ray'[Of(x)] \notin RayLive
  <2>1. CASE RowStep(w)
    <3>1. PICK pc : RowGoto(w, pc) /\ BgGoto(w, pc) /\ Serving(w)
      BY <1>0, <2>1, RowSteps
    <3>2. bg'[w].pc = pc /\ x \in bg[w].cur
      BY <1>0, <1>4, <3>1, GotoFrame
    <3>3. bg[w].pc \in {"lostStop", "lostAttempt", "timeoutAttempt"} /\ x \in Rows(w)
      BY <1>4, <3>1, <3>2 DEF RowGoto, Rows, RowPc
    <3>4. Of(x) \in Attempts
      BY <1>0, <3>3 DEF RowsInv, RowSound
    <3>5. CASE LostStop(w)
      <4>1. client[w] /\ RayStop(w, Of(x))
        BY <1>0, <3>1, <3>2, <3>5 DEF LostStop, ClientInv, Serving, Of
      <4>2. QED BY <1>0, <3>4, <4>1, StopEnds
    <3>6. CASE ~LostStop(w)
      <4>1. bg[w].pc \in {"lostAttempt", "timeoutAttempt"}
        BY <2>1, <3>3, <3>6
           DEF RowStep, UpdateAttempt, FinalizeJob, FinalEvent, PromoteJob, RequeueJob, LostAttempt,
               LostJob, LostEvent, TimeoutAttempt, TimeoutJob, TimeoutEvent
      <4>2. QED BY <1>1, <3>2, <3>4, <4>1 DEF LiveInv
    <3>7. QED BY <3>5, <3>6
  <2>2. CASE SyncAsk(w) \/ ZombieAsk(w)
    <3>1. PICK i \in bg[w].todo, m \in Mapped,
               pc \in {"next", "lostStop", "attempt", "finalize", "promote", "requeue"} :
              BgTake(w, i, i, m, pc)
      BY <2>2, PolledIsReal, AfterAttemptType DEF SyncAsk, ZombieAsk, Mapped
    <3>2. bg'[w].pc = pc
      BY <1>0, <3>1, TakeFrame
    <3>3. QED BY <1>4, <3>1, <3>2
  <2>3. CASE TimeoutStop(w)
    <3>1. PICK i \in bg[w].todo : RayStop(w, Of(i)) /\ BgTake(w, i, i, "UNKNOWN", "timeoutAttempt")
      BY <2>3 DEF TimeoutStop, Of
    <3>2. bg'[w].cur = {i}
      BY <1>0, <3>1 DEF BgTake, TypeOK, BgState
    <3>3. client[w] /\ i \in Rows(w)
      BY <2>3 DEF TimeoutStop, ClientInv, Rows
    <3>4. Of(i) \in Attempts
      BY <1>0, <3>3 DEF RowsInv, RowSound
    <3>5. QED BY <1>0, <1>4, <3>1, <3>2, <3>3, <3>4, StopEnds
  <2>4. CASE Start(w) \/ StartPass(w) \/ Scan(w)
    <3>1. bg'[w].pc \in {"scan", "next"}
      <4>1. CASE Start(w)
        BY <1>0, <4>1 DEF Start, TypeOK, BgState, Booted, Serving
      <4>2. CASE StartPass(w)
        BY <1>0, <4>2 DEF StartPass, TypeOK, BgState
      <4>3. CASE Scan(w)
        BY <1>0, <4>3 DEF Scan, TypeOK, BgState
      <4>4. QED BY <2>4, <4>1, <4>2, <4>3
    <3>2. QED BY <1>4, <3>1
  <2>5. QED BY <2>1, <2>2, <2>3, <2>4, SteadySync
<1>5. ASSUME api[w].pc \in {"failAttempt", "failJob"}, NEW a \in api[w].on PROVE ray'[a] = "ABSENT"
  <2>1. a \in Attempts
    BY <1>5 DEF SteadyInv, ReqInv, HandPc
  <2>2. QED BY <1>0, <1>5, <2>1 DEF LiveInv
<1>6. QED BY <1>0, <1>1, <1>2, <1>3, <1>4, <1>5 DEF LiveInv

LEMMA LiveRay ==
    ASSUME TInv, HandInv, SteadyInv, LiveInv, NEW a \in Attempts, RayStart(a) \/ RayFinish(a)
    PROVE  LiveInv'
<1>0. UNCHANGED <<job, att, api, bg>> /\ TypeOK /\ RowsInv /\ ReqInv
  BY DEF RayStart, RayFinish, db, TInv, SteadyInv
<1>1. /\ \A b \in Attempts : ray'[b] \in RayLive => ray[b] \in RayLive
      /\ \A b \in Attempts : ray[b] = "ABSENT" => ray'[b] = "ABSENT"
  BY <1>0 DEF RayStart, RayFinish, TypeOK, RayLive
<1>2. ASSUME NEW w \in Workers, bg[w].pc \in RowPc, NEW x \in bg[w].cur PROVE Of(x) \in Attempts
  BY <1>0, <1>2 DEF Rows, RowsInv, RowSound
<1>3. ASSUME NEW w \in Workers, api[w].pc \in {"failAttempt", "failJob"}, NEW b \in api[w].on
      PROVE  b \in Attempts
  BY <1>0, <1>3 DEF ReqInv, HandPc
<1>4. QED BY <1>0, <1>1, <1>2, <1>3 DEF LiveInv, Latest, Of, RowPc

LEMMA LiveStep ==
    ASSUME Obedient, TInv, HandInv, RealInv, Booted, SteadyInv, ClientInv, LiveInv, [Next]_vars
    PROVE  LiveInv'
<1>0. TypeOK
  BY DEF TInv
<1>1. CASE UNCHANGED vars
  BY <1>1 DEF vars, LiveInv, Latest
<1>2. ASSUME NEW w \in Workers, Crash(w) PROVE FALSE
  BY <1>0, <1>2 DEF Crash, Obedient, Steady, TypeOK
<1>3. QED BY <1>1, <1>2, LiveRequest, LivePass, LiveRay DEF Next

\* Retries after failures, losses and timeouts: as long as Ray obeys, at most
\* one Ray job of a job works, because every pass stops the Ray job before it
\* ends the job in the database, and retry looks at the database only.
THEOREM OneRayJobAtATime ==
    ASSUME Obedient
    PROVE  Spec => []OneLiveRayJob
<1>1. Obedient /\ Steady
  BY DEF Obedient
<1>2. Init => ClientInv /\ LiveInv
  BY DEF Init, ClientInv, LiveInv, Down, NoRequest, RayLive
<1>3. TInv /\ Booted /\ ClientInv /\ [Next]_vars => ClientInv'
  BY <1>1, ClientStep
<1>4. TInv /\ HandInv /\ RealInv /\ Booted /\ SteadyInv /\ ClientInv /\ LiveInv /\ [Next]_vars => LiveInv'
  BY <1>1, LiveStep
<1>5. HandInv /\ LiveInv => OneLiveRayJob
  <2>1. SUFFICES ASSUME HandInv, LiveInv, NEW a \in Attempts, NEW b \in Attempts, a[1] = b[1],
                        ray[a] \in RayLive, ray[b] \in RayLive
                 PROVE  a = b
    BY DEF OneLiveRayJob
  <2>2. Latest(b) /\ att[b] # "ABSENT"
    BY <2>1 DEF LiveInv, HandInv, Unborn, RayLive
  <2>3. QED BY <2>1, <2>2, LiveUnique
<1>6. Spec => []Booted
  BY <1>1, BootedInvariant
<1>7. Spec => []SteadyInv
  BY <1>1, SteadyInvariant
<1>8. QED
  BY <1>2, <1>3, <1>4, <1>5, <1>6, <1>7, TypeInvariant, HandInvariant, RealInvariant, PTL DEF Spec
=============================================================================
