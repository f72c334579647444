-------------------------- MODULE EventFeedProofs ---------------------------
(***************************************************************************)
(* Proofs about EventFeed, for any set of rows and server processes, any   *)
(* batch and page size, any faults and any number of crashes and of broken *)
(* connections.  They rest on the layers of OutboxProofs.                  *)
(***************************************************************************)
EXTENDS EventFeed, OutboxProofs

\* No two entries, and no two processes, have the same number.
Distinct ==
    /\ \A y \in stream : y.at <= nextval
    /\ \A x, y \in stream : x.at = y.at => x = y
    /\ \A w \in Workers : worker[w].pc = "commit" =>
          /\ worker[w].at \in 1 .. nextval
          /\ \A y \in stream : y.at # worker[w].at
          /\ \A v \in Workers : worker[v].pc = "commit" /\ v # w => worker[v].at # worker[w].at

\* The server is never behind the browser, and not ahead of it while the
\* connection holds.
ReaderInv ==
    /\ up => cursor = last
    /\ last <= cursor
    /\ last = 0 \/ last \in got
    /\ \A n \in got : n <= last
    /\ \A x \in page : x.at > cursor

FInv == TInv /\ FeedTypeOK /\ Distinct /\ ReaderInv

-----------------------------------------------------------------------------
(* The numbers of the stream *)

\* Every step of the outbox keeps the numbers apart: each is drawn once.
LEMMA DistinctStep == TInv /\ Distinct /\ [Next]_vars => Distinct'
<1> DEFINE Goal == Distinct'
<1> SUFFICES ASSUME TInv, Distinct, [Next]_vars PROVE Goal
  OBVIOUS
<1> USE DEF Distinct
<1>0. /\ worker \in [Workers -> WorkerState] /\ nextval \in Nat
      /\ \A v \in Workers : worker[v].at \in Nat
      /\ \A y \in stream : y.at \in Nat
  BY DEF TInv, TypeOK, WorkerState, Entry
<1>1. ASSUME NEW e \in Events, Enqueue(e) PROVE Goal
  BY <1>1, <1>0 DEF Enqueue
<1>2. ASSUME NEW e \in Events, EnqueueCommit(e) PROVE Goal
  BY <1>2, <1>0 DEF EnqueueCommit
<1>3. ASSUME NEW w \in Workers, Select(w) PROVE Goal
  BY <1>3, <1>0 DEF Select, WorkerState
<1>4. ASSUME NEW w \in Workers, Unlock(w) PROVE Goal
  BY <1>4, <1>0 DEF Unlock, WorkerState
<1>5. ASSUME NEW w \in Workers, Visit(w) PROVE Goal
  BY <1>5, <1>0 DEF Visit, WorkerState
<1>6. ASSUME NEW w \in Workers, EndBatch(w) PROVE Goal
  BY <1>6, <1>0 DEF EndBatch, Idle, WorkerState
<1>7. ASSUME NEW w \in Workers, Reject(w) PROVE Goal
  BY <1>7, <1>0 DEF Reject, Leave, WorkerState
<1>8. ASSUME NEW w \in Workers, Emit(w) PROVE Goal
  BY <1>8, <1>0 DEF Emit, WorkerState
<1>9. ASSUME NEW w \in Workers, EmitCommit(w) PROVE Goal
  BY <1>9, <1>0 DEF EmitCommit, WorkerState
<1>10. ASSUME NEW w \in Workers, MarkDone(w) PROVE Goal
  BY <1>10, <1>0 DEF MarkDone, Leave, WorkerState
<1>11. ASSUME NEW w \in Workers, Raised(w) PROVE Goal
  BY <1>11, <1>0 DEF Raised, Idle, WorkerState
<1>12. ASSUME NEW w \in Workers, Crash(w) PROVE Goal
  BY <1>12, <1>0 DEF Crash, Idle, WorkerState
<1>13. CASE UNCHANGED vars
  BY <1>13 DEF vars
<1>14. QED
  BY <1>1, <1>2, <1>3, <1>4, <1>5, <1>6, <1>7, <1>8, <1>9, <1>10, <1>11, <1>12, <1>13 DEF Next, ProcessBatch

\* The outbox only adds to the stream.
LEMMA StreamGrows == [Next]_vars => stream \subseteq stream'
BY DEF Next, vars, Enqueue, EnqueueCommit, ProcessBatch, Select, Unlock, Visit, EndBatch, Reject,
       Emit, EmitCommit, MarkDone, Raised, Crash

-----------------------------------------------------------------------------
(* What arrives, and in which order *)

\* The initial state of the reader.
LEMMA FeedInitInv == FeedInit => FInv
BY TypeInit DEF FeedInit, Init, FInv, FeedTypeOK, TInv, Distinct, ReaderInv, Idle

\* Every step of the outbox, and every step of the reader, keeps the invariant.
LEMMA FeedStep == FInv /\ [FeedNext]_feedVars => FInv'
<1> DEFINE Goal == FInv'
<1> SUFFICES ASSUME FInv, [FeedNext]_feedVars PROVE Goal
  OBVIOUS
<1>0. [Next]_vars
  BY DEF FeedNext, feedVars, vars, Query, Push, Break, Resume
<1>1. TInv' /\ TypeOK' /\ Distinct'
  BY <1>0, TypeStep, DistinctStep DEF FInv, TInv
<1>2. stream \subseteq stream' /\ \A x \in stream : x.at \in Nat
  BY <1>0, StreamGrows DEF FInv, TInv, TypeOK, Entry
<1> USE DEF FInv, FeedTypeOK, ReaderInv
<1>3. CASE UNCHANGED reader
  BY <1>1, <1>2, <1>3 DEF reader
<1>4. CASE Query
  BY <1>1, <1>2, <1>4 DEF Query, vars
<1>5. CASE Push
  <2>1. PICK x \in page :
           /\ \A y \in page : x.at <= y.at
           /\ cursor' = x.at
           /\ page' = page \ {x}
           /\ last' = IF up THEN x.at ELSE last
           /\ got' = IF up THEN got \cup {x.at} ELSE got
    BY <1>5 DEF Push
  <2>2. up' = up /\ stream' = stream
    BY <1>5 DEF Push, vars
  <2>3. \A y \in page' : y.at > x.at
    BY <1>2, <2>1 DEF Distinct
  <2>4. FeedTypeOK'
    BY <1>1, <1>2, <2>1, <2>2
  <2>5. ReaderInv'
    BY <1>2, <2>1, <2>2, <2>3
  <2>6. QED
    BY <1>1, <2>4, <2>5
<1>6. CASE Break
  BY <1>1, <1>2, <1>6 DEF Break, vars
<1>7. CASE Resume
  BY <1>1, <1>2, <1>7 DEF Resume, vars
<1>8. CASE UNCHANGED feedVars
  BY <1>3, <1>8 DEF feedVars, reader
<1>9. QED
  BY <1>3, <1>4, <1>5, <1>6, <1>7, <1>8 DEF FeedNext

\* The reader and its page are well-formed in every reachable state.
THEOREM FeedTypeCorrect == FeedSpec => []FeedTypeOK
<1>1. FeedSpec => []FInv
  BY FeedInitInv, FeedStep, PTL DEF FeedSpec
<1>2. FInv => FeedTypeOK
  BY DEF FInv
<1>3. QED
  BY <1>1, <1>2, PTL

\* Across any number of broken connections the entries arrive in the order of
\* their numbers, none a second time.
THEOREM ArrivesInOrder == FeedSpec => ReceivedInOrder
<1> DEFINE Arrives == last' # last => (\A n \in got : n < last') /\ got' = got \cup {last'}
<1>1. FInv /\ [FeedNext]_feedVars => [Arrives]_feedVars
  <2> SUFFICES ASSUME FInv, FeedNext, last' # last PROVE Arrives
    OBVIOUS
  <2>1. Push
    BY DEF FeedNext, reader, Query, Break, Resume
  <2>2. PICK x \in page : last' = x.at /\ got' = got \cup {x.at} /\ x.at \in Nat
    BY <2>1 DEF Push, FInv, FeedTypeOK, TypeOK, Entry
  <2>3. \A n \in got : n < x.at
    BY <2>2 DEF FInv, ReaderInv, FeedTypeOK, TypeOK, Entry
  <2>4. QED
    BY <2>2, <2>3
<1>2. FeedSpec => []FInv
  BY FeedInitInv, FeedStep, PTL DEF FeedSpec
<1>3. QED
  BY <1>1, <1>2, PTL DEF FeedSpec, ReceivedInOrder

-----------------------------------------------------------------------------
(* What does not get lost *)

\* With one process the stream grows at its end: nothing appears below what the
\* browser has seen, nor below what the server has queried.
SkipInv ==
    /\ NothingSkipped
    /\ \A x \in page, y \in stream : cursor < y.at /\ y.at <= x.at => y \in page

\* What a step of the outbox adds is above what was there.
LEMMA NewOnTop ==
    ASSUME TInv, Numbered, Distinct, [Next]_vars, NEW x \in stream', x \notin stream
    PROVE  x.at > 0 /\ \A y \in stream : y.at < x.at
<1>1. PICK w \in Workers : EmitCommit(w)
  BY DEF Next, vars, Enqueue, EnqueueCommit, ProcessBatch, Select, Unlock, Visit, EndBatch, Reject,
         Emit, MarkDone, Raised, Crash
<1>2. worker[w].pc = "commit" /\ x.at = worker[w].at
  BY <1>1 DEF EmitCommit
<1>3. QED
  BY <1>2 DEF Numbered, Distinct

\* Every step keeps the second invariant of the reader.
LEMMA SkipStep == FInv /\ Numbered /\ SkipInv /\ [FeedNext]_feedVars => SkipInv'
<1> DEFINE Goal == SkipInv'
<1> SUFFICES ASSUME FInv, Numbered, SkipInv, [FeedNext]_feedVars PROVE Goal
  OBVIOUS
<1>0. \A x \in stream : x.at \in Nat
  BY DEF FInv, TInv, TypeOK, Entry
<1> USE DEF SkipInv, NothingSkipped, FInv, FeedTypeOK
<1>1. ASSUME [Next]_vars, UNCHANGED reader PROVE Goal
  <2>1. stream \subseteq stream'
    BY <1>1, StreamGrows
  <2>2. ASSUME NEW x \in stream', x \notin stream
        PROVE  x.at > last /\ \A y \in stream : y.at < x.at
    <3>1. x.at > 0 /\ \A y \in stream : y.at < x.at
      BY <1>1, <2>2, NewOnTop
    <3>2. QED
      BY <3>1 DEF ReaderInv
  <2>3. \A x \in stream', y \in stream : x \notin stream => ~(x.at <= y.at) /\ ~(x.at <= last)
    <3>1. \A x \in stream' : x.at \in Nat
      BY <1>1, TypeStep DEF TInv, TypeOK, Entry
    <3>2. QED
      BY <1>0, <2>2, <3>1
  <2>4. NothingSkipped'
    <3>1. \A x \in stream' : x.at \in Nat
      BY <1>1, TypeStep DEF TInv, TypeOK, Entry
    <3>2. QED
      BY <1>1, <2>2, <3>1 DEF reader
  <2>5. QED
    BY <1>1, <2>3, <2>4 DEF reader
<1>2. CASE Query
  BY <1>0, <1>2 DEF Query, vars
<1>3. CASE Push
  <2>1. PICK x \in page :
           /\ \A y \in page : x.at <= y.at
           /\ cursor' = x.at
           /\ page' = page \ {x}
           /\ last' = IF up THEN x.at ELSE last
           /\ got' = IF up THEN got \cup {x.at} ELSE got
    BY <1>3 DEF Push
  <2>2. stream' = stream /\ page \subseteq stream /\ x \in stream
    BY <1>3, <2>1 DEF Push, vars
  <2>3. \A y \in stream : y.at <= x.at /\ y.at > cursor => y = x
    BY <1>0, <2>1, <2>2 DEF Distinct
  <2>4. NothingSkipped'
    BY <1>0, <2>1, <2>2, <2>3 DEF ReaderInv
  <2>5. QED
    BY <1>0, <2>1, <2>2, <2>4 DEF ReaderInv
<1>4. CASE Break
  BY <1>4 DEF Break, vars
<1>5. CASE Resume
  BY <1>5 DEF Resume, vars
<1>6. CASE UNCHANGED feedVars
  BY <1>1, <1>6 DEF feedVars
<1>7. QED
  BY <1>1, <1>2, <1>3, <1>4, <1>5, <1>6 DEF FeedNext

\* With one process a browser that has received an entry has received all the
\* entries before it, through any number of crashes and broken connections.
THEOREM NothingIsSkipped == ASSUME OneProcess PROVE FeedSpec => []NothingSkipped
<1> DEFINE IInv == FInv /\ Numbered /\ SkipInv
<1>1. FeedInit => IInv
  BY FeedInitInv DEF FeedInit, Init, Numbered, SkipInv, NothingSkipped, Idle
<1>2. IInv /\ [FeedNext]_feedVars => IInv'
  <2>1. [FeedNext]_feedVars => [Next]_vars
    BY DEF FeedNext, feedVars, vars, Query, Push, Break, Resume
  <2>2. QED
    BY <2>1, FeedStep, NumberedStep, SkipStep, OneProcess DEF FInv
<1>3. IInv => NothingSkipped
  BY DEF SkipInv
<1>4. FeedSpec => []IInv
  <2> HIDE DEF IInv
  <2>1. QED
    BY <1>1, <1>2, PTL DEF FeedSpec
<1>5. QED
  BY <1>3, <1>4, PTL
=============================================================================
