--------------------------- MODULE AgeLoadProofs ---------------------------
(***************************************************************************)
(* Proofs about AgeLoad, for any set of sessions, any files, any size of   *)
(* batches and graphs, any largest entry id and any number of calls.  The  *)
(* invariants, after the types of what a session holds:                    *)
(*   EdgeInv    no two edges have one number, and the sequence has drawn   *)
(*              them all;                                                  *)
(*   SeqInv     while calls do not overlap, the sequence of vertices has   *)
(*              passed every id in the table and in the call;              *)
(*   CountInv   every row of a file is still to be read, in the batch, or  *)
(*              inserted, and an inserted edge is nobody else's;           *)
(*   GraphInv   while calls do not overlap, the rows of a generator have   *)
(*              the ids up to the sequence's value without a gap, which is *)
(*              what counting back from the last of them takes for granted.*)
(***************************************************************************)
EXTENDS AgeLoad, FiniteSetTheorems, SequenceTheorems, TLAPS

Row == EntryIds \X EntryIds \X EntryIds

\* What a session holds while it loads vertices, loads edges, or generates.
VertexRun == [op : {"vertices"}, todo : Seq(Nat) \cup Seq({-1}), buf : Seq(EntryIds),
              rows : Seq(EntryIds), ne : {{}}, curr : EntryIds, n : Nat, at : {0}, halves : {0}]
EdgeRun == [op : {"edges"}, todo : Seq(Nat \X Nat), buf : Seq(Row), rows : {<<>>},
            ne : SUBSET Row, curr : {0}, n : Nat, at : {0}, halves : {0}]
GraphRun == [op : {"complete"}, todo : {<<>>}, buf : {<<>>}, rows : Seq(EntryIds),
             ne : SUBSET Row, curr : {0}, n : 1 .. MaxNodes, at : {1, 2}, halves : {1, 2}]
Runs == {Idle} \cup VertexRun \cup EdgeRun \cup GraphRun

TInv ==
    /\ vertices \in [EntryIds -> Nat] /\ edges \subseteq Row
    /\ vseq \in EntryIds /\ eseq \in EntryIds
    /\ run \in [Sessions -> Runs]
    /\ \A s \in Sessions : Len(run[s].buf) < BatchSize

-----------------------------------------------------------------------------
(* Batches *)

\* Every run has its fields.
LEMMA RunFields ==
  ASSUME NEW r \in Runs
  PROVE  /\ r.op \in {"idle", "vertices", "edges", "complete"}
         /\ r.op = "idle" => r = Idle
         /\ r.op = "vertices" => r \in VertexRun
         /\ r.op = "edges" => r \in EdgeRun
         /\ r.op = "complete" => r \in GraphRun
         /\ r.rows \in Seq(EntryIds) /\ r.ne \subseteq Row /\ r.curr \in EntryIds
<1>1. CASE r = Idle
  <2>1. r.op = "idle" /\ r.rows = <<>> /\ r.ne = {} /\ r.curr = 0
    BY <1>1 DEF Idle
  <2>2. 0 \in EntryIds
    BY LoadConstants DEF EntryIds
  <2> QED
    BY <1>1, <2>1, <2>2
<1>2. CASE r \in VertexRun
  BY <1>2 DEF VertexRun
<1>3. CASE r \in EdgeRun
  <2>1. r.rows = <<>> /\ r.ne \subseteq Row /\ r.curr = 0 /\ r.op = "edges"
    BY <1>3 DEF EdgeRun
  <2>2. 0 \in EntryIds
    BY LoadConstants DEF EntryIds
  <2> QED
    BY <1>3, <2>1, <2>2
<1>4. CASE r \in GraphRun
  <2>1. 0 \in EntryIds
    BY LoadConstants DEF EntryIds
  <2> QED
    BY <1>4, <2>1 DEF GraphRun
<1> QED
  BY <1>1, <1>2, <1>3, <1>4 DEF Runs

\* A batch of vertices with its new row, inserted when it is full.
LEMMA BufferedVertices ==
  ASSUME NEW r \in VertexRun, NEW q \in Seq(EntryIds), Len(q) <= BatchSize,
         NEW big \in BOOLEAN
  PROVE  /\ Buffered(r, q, big) \in VertexRun
         /\ Buffered(r, q, big).todo = r.todo /\ Buffered(r, q, big).curr = r.curr /\ Buffered(r, q, big).n = r.n
         /\ Len(Buffered(r, q, big).buf) < BatchSize
         /\ IsFull(q, big) => Buffered(r, q, big).rows = r.rows \o q /\ Buffered(r, q, big).buf = <<>>
         /\ ~IsFull(q, big) => Buffered(r, q, big).rows = r.rows /\ Buffered(r, q, big).buf = q
<1>1. r.rows \o q \in Seq(EntryIds) /\ Len(q) \in Nat
  BY DEF VertexRun
<1>2. CASE IsFull(q, big)
  <2>1. Buffered(r, q, big) = [r EXCEPT !.rows = @ \o q, !.buf = <<>>]
    BY <1>2 DEF Buffered, insert_batch, VertexRun
  <2>2. /\ Buffered(r, q, big) \in VertexRun
        /\ Buffered(r, q, big).todo = r.todo /\ Buffered(r, q, big).curr = r.curr /\ Buffered(r, q, big).n = r.n
        /\ Buffered(r, q, big).rows = r.rows \o q /\ Buffered(r, q, big).buf = <<>>
    <3> DEFINE z == <<>>
    <3>2. z \in Seq(EntryIds)
      OBVIOUS
    <3>3. Buffered(r, q, big) = [r EXCEPT !.rows = @ \o q, !.buf = z]
      BY <2>1
    <3> HIDE DEF z
    <3>4. /\ Buffered(r, q, big) \in VertexRun
          /\ Buffered(r, q, big).todo = r.todo /\ Buffered(r, q, big).curr = r.curr /\ Buffered(r, q, big).n = r.n
          /\ Buffered(r, q, big).rows = r.rows \o q /\ Buffered(r, q, big).buf = z
      BY <1>1, <3>2, <3>3 DEF VertexRun
    <3> QED
      BY <3>4 DEF z
  <2> QED
    BY <1>2, <2>2, LoadConstants
<1>3. CASE ~IsFull(q, big)
  <2>1. Buffered(r, q, big) = [r EXCEPT !.buf = q]
    BY <1>3 DEF Buffered
  <2>2. Len(q) < BatchSize
    BY <1>1, <1>3, LoadConstants DEF IsFull
  <2>3. /\ Buffered(r, q, big) \in VertexRun
        /\ Buffered(r, q, big).todo = r.todo /\ Buffered(r, q, big).curr = r.curr /\ Buffered(r, q, big).n = r.n
        /\ Buffered(r, q, big).rows = r.rows /\ Buffered(r, q, big).buf = q
    BY <2>1 DEF VertexRun
  <2> QED
    BY <1>3, <2>2, <2>3
<1> QED
  BY <1>2, <1>3

\* The same for edges.
LEMMA BufferedEdges ==
  ASSUME NEW r \in EdgeRun, NEW q \in Seq(Row), Len(q) <= BatchSize, NEW big \in BOOLEAN
  PROVE  /\ Buffered(r, q, big) \in EdgeRun
         /\ Buffered(r, q, big).todo = r.todo /\ Buffered(r, q, big).n = r.n
         /\ Len(Buffered(r, q, big).buf) < BatchSize
         /\ Buffered(r, q, big).ne \cup Elems(Buffered(r, q, big).buf) = r.ne \cup Elems(q)
<1>1. Elems(q) \subseteq Row /\ Len(q) \in Nat
  BY DEF Elems
<1>2. CASE IsFull(q, big)
  <2>1. Buffered(r, q, big) = [r EXCEPT !.ne = @ \cup Elems(q), !.buf = <<>>]
    BY <1>2 DEF Buffered, insert_batch, EdgeRun
  <2>2. Elems(<<>>) = {}
    BY DEF Elems
  <2>3. /\ Buffered(r, q, big) \in EdgeRun
        /\ Buffered(r, q, big).todo = r.todo /\ Buffered(r, q, big).n = r.n
        /\ Buffered(r, q, big).ne = r.ne \cup Elems(q) /\ Buffered(r, q, big).buf = <<>>
    <3> DEFINE z == <<>>
    <3>2. z \in Seq(Row)
      OBVIOUS
    <3>3. Buffered(r, q, big) = [r EXCEPT !.ne = @ \cup Elems(q), !.buf = z]
      BY <2>1
    <3> HIDE DEF z
    <3>4. /\ Buffered(r, q, big) \in EdgeRun
          /\ Buffered(r, q, big).todo = r.todo /\ Buffered(r, q, big).n = r.n
          /\ Buffered(r, q, big).ne = r.ne \cup Elems(q) /\ Buffered(r, q, big).buf = z
      BY <1>1, <3>2, <3>3 DEF EdgeRun
    <3> QED
      BY <3>4 DEF z
  <2> QED
    BY <2>2, <2>3, LoadConstants
<1>3. CASE ~IsFull(q, big)
  <2>1. Buffered(r, q, big) = [r EXCEPT !.buf = q]
    BY <1>3 DEF Buffered
  <2>2. Len(q) < BatchSize
    BY <1>1, <1>3, LoadConstants DEF IsFull
  <2>3. /\ Buffered(r, q, big) \in EdgeRun
        /\ Buffered(r, q, big).todo = r.todo /\ Buffered(r, q, big).n = r.n
        /\ Buffered(r, q, big).buf = q /\ Buffered(r, q, big).ne = r.ne
    BY <2>1 DEF EdgeRun
  <2> QED
    BY <2>2, <2>3
<1> QED
  BY <1>2, <1>3

\* Rows that are inserted are counted, and once each when no two are the same.
LEMMA Counted ==
  ASSUME vertices \in [EntryIds -> Nat], NEW q \in Seq(EntryIds)
  PROVE  /\ WithRows(q) \in [EntryIds -> Nat]
         /\ (\A j, k \in DOMAIN q : q[j] = q[k] => j = k) =>
              \A i \in EntryIds :
                 WithRows(q)[i] = vertices[i] + IF i \in Elems(q) THEN 1 ELSE 0
<1> DEFINE At(i) == {k \in DOMAIN q : q[k] = i}
<1>1. IsFiniteSet(DOMAIN q)
  <2>1. Len(q) \in Nat /\ DOMAIN q = 1 .. Len(q)
    OBVIOUS
  <2> QED
    BY <2>1, FS_Interval
<1>2. \A i : IsFiniteSet(At(i)) /\ Cardinality(At(i)) \in Nat
  <2> TAKE i
  <2>1. At(i) \in SUBSET DOMAIN q
    OBVIOUS
  <2> QED
    BY <1>1, <2>1, FS_Subset, FS_CardinalityType
<1>3. WithRows(q) \in [EntryIds -> Nat]
  <2>1. WithRows(q) = [i \in EntryIds |-> vertices[i] + Cardinality(At(i))]
    BY DEF WithRows
  <2> HIDE DEF At
  <2>2. \A i \in EntryIds : vertices[i] + Cardinality(At(i)) \in Nat
    BY <1>2
  <2> QED
    BY <2>1, <2>2
<1>4. ASSUME \A j, k \in DOMAIN q : q[j] = q[k] => j = k, NEW i \in EntryIds
      PROVE  WithRows(q)[i] = vertices[i] + IF i \in Elems(q) THEN 1 ELSE 0
  <2>1. WithRows(q)[i] = vertices[i] + Cardinality(At(i))
    BY DEF WithRows
  <2>2. CASE i \in Elems(q)
    <3>1. PICK k \in DOMAIN q : q[k] = i
      BY <2>2 DEF Elems
    <3>2. At(i) = {k}
      BY <1>4, <3>1
    <3> QED
      BY <2>1, <2>2, <3>2, FS_Singleton
  <2>3. CASE i \notin Elems(q)
    <3>1. At(i) = {}
      BY <2>3 DEF Elems
    <3> QED
      BY <2>1, <2>3, <3>1, FS_EmptySet
  <2> QED
    BY <2>2, <2>3
<1> QED
  BY <1>3, <1>4

-----------------------------------------------------------------------------
(* The edges of a complete graph *)

\* There are finitely many pairs, and their edges have numbers of their own.
LEMMA Numbering ==
  ASSUME NEW n \in Nat, eseq \in EntryIds, NEW lid
  PROVE  /\ Cardinality(PairsOf(n)) \in Nat
         /\ \A e \in EdgeSet(lid, n) : e[1] \in (eseq + 1) .. (eseq + Cardinality(PairsOf(n)))
         /\ \A e, f \in EdgeSet(lid, n) : e[1] = f[1] => e = f
         /\ \A e \in EdgeSet(lid, n) : e = <<e[1], e[2], e[3]>>
<1> DEFINE upTo(p) == {q \in PairsOf(n) : q[1] < p[1] \/ (q[1] = p[1] /\ q[2] <= p[2])}
<1>1. IsFiniteSet(PairsOf(n)) /\ Cardinality(PairsOf(n)) \in Nat
  <2>0. IsFiniteSet(1 .. n)
    BY FS_Interval
  <2>1. IsFiniteSet((1 .. n) \X (1 .. n))
    BY <2>0, FS_Product
  <2>2. PairsOf(n) \in SUBSET ((1 .. n) \X (1 .. n))
    BY DEF PairsOf
  <2> QED
    BY <2>1, <2>2, FS_Subset, FS_CardinalityType
<1>2. \A p \in PairsOf(n) : /\ IsFiniteSet(upTo(p))
                            /\ Cardinality(upTo(p)) \in 1 .. Cardinality(PairsOf(n))
  <2> TAKE p \in PairsOf(n)
  <2>1. upTo(p) \in SUBSET PairsOf(n) /\ p \in upTo(p)
    BY DEF PairsOf
  <2>2. IsFiniteSet(upTo(p)) /\ Cardinality(upTo(p)) <= Cardinality(PairsOf(n))
    BY <1>1, <2>1, FS_Subset
  <2>3. Cardinality(upTo(p)) \in Nat /\ Cardinality(upTo(p)) # 0
    BY <2>1, <2>2, FS_CardinalityType, FS_EmptySet
  <2> QED
    BY <1>1, <2>2, <2>3
<1>3. \A p, q \in PairsOf(n) : Cardinality(upTo(p)) = Cardinality(upTo(q)) => p = q
  <2> SUFFICES ASSUME NEW p \in PairsOf(n), NEW q \in PairsOf(n),
                      Cardinality(upTo(p)) = Cardinality(upTo(q))
               PROVE  p = q
    OBVIOUS
  <2>0. /\ p \in (1 .. n) \X (1 .. n) /\ q \in (1 .. n) \X (1 .. n)
        /\ p = <<p[1], p[2]>> /\ q = <<q[1], q[2]>>
    BY DEF PairsOf
  <2>1. upTo(p) \subseteq upTo(q) \/ upTo(q) \subseteq upTo(p)
    BY <2>0 DEF PairsOf
  <2>2. upTo(p) = upTo(q)
    BY <1>2, <2>1, FS_Subset
  <2>3. p \in upTo(q) /\ q \in upTo(p)
    BY <2>0, <2>2
  <2> QED
    BY <2>0, <2>3
<1> DEFINE edge(p) == <<eseq + Cardinality(upTo(p)), VertexOf(lid, n, p[1]), VertexOf(lid, n, p[2])>>
<1>4. EdgeSet(lid, n) = {edge(p) : p \in PairsOf(n)}
  BY DEF EdgeSet
<1>5. \A p \in PairsOf(n) : edge(p)[1] = eseq + Cardinality(upTo(p))
  OBVIOUS
<1>6. eseq \in Nat /\ \A p \in PairsOf(n) : edge(p) = <<edge(p)[1], edge(p)[2], edge(p)[3]>>
  BY DEF EntryIds
<1> HIDE DEF edge, upTo
<1>7. \A e \in EdgeSet(lid, n) : e[1] \in (eseq + 1) .. (eseq + Cardinality(PairsOf(n)))
  BY <1>1, <1>2, <1>4, <1>5, <1>6
<1>8. ASSUME NEW e \in EdgeSet(lid, n), NEW f \in EdgeSet(lid, n), e[1] = f[1] PROVE e = f
  <2>1. PICK p \in PairsOf(n) : e = edge(p)
    BY <1>4
  <2>2. PICK q \in PairsOf(n) : f = edge(q)
    BY <1>4
  <2>3. Cardinality(upTo(p)) = Cardinality(upTo(q))
    BY <1>2, <1>5, <1>6, <1>8, <2>1, <2>2
  <2> QED
    BY <1>3, <2>1, <2>2, <2>3
<1> QED
  BY <1>1, <1>4, <1>6, <1>7, <1>8

-----------------------------------------------------------------------------
(* What the steps of a call do *)

IdleNow(s) == run' = [run EXCEPT ![s] = Idle]
Becomes(s, r) == run' = [run EXCEPT ![s] = r]
Given(file, withIds) == [i \in DOMAIN file |-> IF withIds THEN file[i] ELSE -1]

\* The remembered value and the sequence after a row whose id is id.
Moved(r0, r, id) ==
    \/ Head(r0.todo) = -1 /\ id = vseq + 1 /\ vseq' = id /\ r.curr = r0.curr
    \/ Head(r0.todo) = id /\ id > r0.curr /\ vseq' = id /\ r.curr = id
    \/ Head(r0.todo) = id /\ id <= r0.curr /\ vseq' = vseq /\ r.curr = r0.curr

\* The batch after this row: not full, or inserted.
Joined(s, r, q) ==
    \/ r.rows = run[s].rows /\ r.buf = q
    \/ /\ r.rows = run[s].rows \o q /\ r.buf = <<>>
       /\ ~insert_batch_fails(s, q)

\* The head of what is left to load is an id, or -1, and the tail is alike.
LEMMA TodoParts ==
  ASSUME NEW todo \in Seq(Nat) \cup Seq({-1}), todo # <<>>
  PROVE  /\ Head(todo) \in Nat \cup {-1}
         /\ Tail(todo) \in Seq(Nat) \cup Seq({-1})
         /\ todo \in Seq(Nat) => Head(todo) \in Nat /\ Tail(todo) \in Seq(Nat)
         /\ todo \in Seq({-1}) => Head(todo) = -1 /\ Tail(todo) \in Seq({-1})
<1>1. CASE todo \in Seq(Nat)
  <2>1. Head(todo) \in Nat /\ Tail(todo) \in Seq(Nat)
    BY <1>1, HeadTailProperties
  <2>2. ~(todo \in Seq({-1}))
    <3>1. 1 \in 1 .. Len(todo) /\ Head(todo) = todo[1]
      BY <1>1
    <3> QED
      BY <2>1, <3>1
  <2> QED
    BY <2>1, <2>2
<1>2. CASE todo \in Seq({-1})
  <2>1. Head(todo) = -1 /\ Tail(todo) \in Seq({-1})
    BY <1>2, HeadTailProperties
  <2>2. ~(todo \in Seq(Nat))
    <3>1. 1 \in 1 .. Len(todo) /\ Head(todo) = todo[1]
      BY <1>2
    <3> QED
      BY <2>1, <3>1
  <2> QED
    BY <2>1, <2>2
<1> QED
  BY <1>1, <1>2

\* A row of a vertex file: an error before anything happened, or its id is
\* known, and the row is in the batch or the batch failed.
LEMMA VertexRow ==
  ASSUME TInv, NEW s \in Sessions, process_vertex_row(s)
  PROVE  /\ run[s] \in VertexRun /\ run[s].todo # <<>>
         /\ UNCHANGED <<vertices, edges, eseq, overlap>>
         /\ \/ Fail(s)
            \/ \E id \in EntryIds, r \in VertexRun :
                 /\ Moved(run[s], r, id) /\ vseq' \in EntryIds
                 /\ r.todo = Tail(run[s].todo) /\ r.n = run[s].n
                 /\ \/ IdleNow(s)
                    \/ /\ Becomes(s, r) /\ Len(r.buf) < BatchSize
                       /\ Joined(s, r, Append(run[s].buf, id))
<1> DEFINE given == Head(run[s].todo)
           id == IF given = -1 THEN vseq + 1 ELSE given
           moves == given # -1 /\ MovesSequence(s, given)
           q == Batch(s, id)
           r0 == [run[s] EXCEPT !.todo = Tail(@), !.curr = IF moves THEN id ELSE @]
<1>1. run[s] \in VertexRun /\ run[s].todo # <<>> /\ Len(run[s].buf) < BatchSize
  BY RunFields DEF TInv, process_vertex_row
<1>2. UNCHANGED <<vertices, edges, eseq, overlap>>
  BY DEF process_vertex_row, Fail, Advance, Stay
<1>0. PICK big \in BOOLEAN : entry_id_is_valid(id) =>
          IF IsFull(q, big) /\ insert_batch_fails(s, q) THEN IdleNow(s)
          ELSE Becomes(s, Buffered(r0, q, big))
  BY DEF process_vertex_row, Advance, IdleNow, Becomes
<1>3. CASE ~entry_id_is_valid(id)
  BY <1>1, <1>2, <1>3 DEF process_vertex_row
<1>4. CASE entry_id_is_valid(id)
  <2>0. given \in Nat \cup {-1} /\ Tail(run[s].todo) \in Seq(Nat) \cup Seq({-1})
    BY <1>1, TodoParts DEF VertexRun
  <2>1. id \in EntryIds /\ vseq \in EntryIds /\ run[s].curr \in EntryIds
    BY <1>1, <1>4 DEF entry_id_is_valid, VertexRun, TInv
  <2>2. q = Append(run[s].buf, id) /\ q \in Seq(EntryIds) /\ Len(q) <= BatchSize
    BY <1>1, <2>1, LoadConstants DEF Batch, VertexRun
  <2>3. /\ r0 \in VertexRun /\ r0.todo = Tail(run[s].todo) /\ r0.n = run[s].n
        /\ r0.rows = run[s].rows /\ r0.buf = run[s].buf
        /\ r0.curr = IF moves THEN id ELSE run[s].curr
    BY <1>1, <2>0, <2>1 DEF VertexRun
  <2>4. /\ Buffered(r0, q, big) \in VertexRun /\ Buffered(r0, q, big).todo = Tail(run[s].todo)
        /\ Buffered(r0, q, big).curr = r0.curr /\ Len(Buffered(r0, q, big).buf) < BatchSize
        /\ Buffered(r0, q, big).n = run[s].n
        /\ IsFull(q, big) => Buffered(r0, q, big).rows = run[s].rows \o q /\ Buffered(r0, q, big).buf = <<>>
        /\ ~IsFull(q, big) => Buffered(r0, q, big).rows = run[s].rows /\ Buffered(r0, q, big).buf = q
    <3>1. r0 \in VertexRun /\ q \in Seq(EntryIds) /\ Len(q) <= BatchSize
      BY <2>2, <2>3
    <3> DEFINE b == Buffered(r0, q, big)
    <3> HIDE DEF r0, q
    <3>2. /\ b \in VertexRun /\ b.todo = r0.todo /\ b.curr = r0.curr /\ Len(b.buf) < BatchSize
          /\ b.n = r0.n
          /\ IsFull(q, big) => b.rows = r0.rows \o q /\ b.buf = <<>>
          /\ ~IsFull(q, big) => b.rows = r0.rows /\ b.buf = q
      BY <3>1, BufferedVertices
    <3> HIDE DEF b
    <3>3. r0.todo = Tail(run[s].todo) /\ r0.rows = run[s].rows /\ r0.n = run[s].n
      BY <2>3
    <3> QED
      BY <3>2, <3>3 DEF b
  <2>5. vseq' = IF given = -1 \/ moves THEN id ELSE vseq
    BY <1>4 DEF process_vertex_row
  <2>6. \/ IdleNow(s)
        \/ ~(IsFull(q, big) /\ insert_batch_fails(s, q)) /\ Becomes(s, Buffered(r0, q, big))
    BY <1>0, <1>4
  <2>7. Moved(run[s], Buffered(r0, q, big), id) /\ vseq' \in EntryIds
    <3>1. moves <=> (given # -1 /\ given > run[s].curr)
      BY DEF MovesSequence
    <3>2. given \in Int /\ run[s].curr \in Int
      BY <2>0, <2>1 DEF EntryIds
    <3> HIDE DEF moves, r0, q
    <3>3. Buffered(r0, q, big).curr = IF moves THEN id ELSE run[s].curr
      BY <2>3, <2>4
    <3>4. CASE given = -1
      BY <2>1, <2>5, <3>1, <3>3, <3>4 DEF Moved
    <3>5. CASE given # -1
      BY <2>1, <2>5, <3>1, <3>2, <3>3, <3>5 DEF Moved
    <3> QED
      BY <3>4, <3>5
  <2>8. Becomes(s, Buffered(r0, q, big)) /\ ~(IsFull(q, big) /\ insert_batch_fails(s, q))
        => Joined(s, Buffered(r0, q, big), q)
    BY <2>4 DEF Joined
  <2>9. q = Append(run[s].buf, id)
    BY <2>2
  <2> DEFINE b == Buffered(r0, q, big)
  <2> HIDE DEF id, moves, r0, q
  <2>10. /\ b \in VertexRun /\ b.todo = Tail(run[s].todo) /\ b.n = run[s].n
         /\ Len(b.buf) < BatchSize /\ Moved(run[s], b, id) /\ vseq' \in EntryIds
         /\ IdleNow(s) \/ (Becomes(s, b) /\ Joined(s, b, q))
    BY <2>4, <2>6, <2>7, <2>8
  <2> HIDE DEF b
  <2> QED
    BY <1>1, <1>2, <2>1, <2>9, <2>10
<1> QED
  BY <1>3, <1>4

\* A row of an edge file: the next number of the sequence, and the edge with
\* it in the batch or the end of the call.
LEMMA EdgeRowStep ==
  ASSUME TInv, NEW s \in Sessions, process_edge_row(s)
  PROVE  /\ run[s] \in EdgeRun /\ run[s].todo # <<>>
         /\ UNCHANGED <<vertices, edges, vseq, overlap>>
         /\ \/ Fail(s)
            \/ /\ eseq' = eseq + 1 /\ eseq' \in EntryIds
               /\ \/ IdleNow(s)
                  \/ \E r \in EdgeRun, e \in Row :
                       /\ Becomes(s, r) /\ Len(r.buf) < BatchSize
                       /\ e[1] = eseq + 1
                       /\ r.todo = Tail(run[s].todo) /\ r.n = run[s].n
                       /\ r.ne \cup Elems(r.buf) = run[s].ne \cup Elems(run[s].buf) \cup {e}
<1> DEFINE row == Head(run[s].todo)
           r0 == [run[s] EXCEPT !.todo = Tail(@)]
           e == <<eseq + 1, row[1], row[2]>>
           q == Batch(s, e)
<1>1. run[s] \in EdgeRun /\ run[s].todo # <<>> /\ Len(run[s].buf) < BatchSize
  BY RunFields DEF TInv, process_edge_row
<1>2. UNCHANGED <<vertices, edges, vseq, overlap>>
  BY DEF process_edge_row, Fail, Advance, Stay
<1>0. PICK big \in BOOLEAN :
          eseq # EntryIdMax /\ entry_id_is_valid(row[1]) /\ entry_id_is_valid(row[2])
              => Becomes(s, Buffered(r0, q, big))
  BY DEF process_edge_row, Advance, Becomes
<1>3. CASE eseq = EntryIdMax
  BY <1>1, <1>2, <1>3 DEF process_edge_row
<1>4. CASE eseq # EntryIdMax
  <2>1. eseq' = eseq + 1 /\ eseq' \in EntryIds
    BY <1>4, LoadConstants DEF process_edge_row, TInv, EntryIds
  <2>2. CASE ~(entry_id_is_valid(row[1]) /\ entry_id_is_valid(row[2]))
    <3>1. IdleNow(s)
      BY <1>4, <2>2 DEF process_edge_row, Advance, IdleNow
    <3> QED
      BY <1>1, <1>2, <2>1, <3>1
  <2>3. CASE entry_id_is_valid(row[1]) /\ entry_id_is_valid(row[2])
    <3>1. e \in Row
      BY <2>1, <2>3 DEF Row, entry_id_is_valid
    <3>2. run[s].buf \in Seq(Row) /\ Len(run[s].buf) \in Nat /\ q = Append(run[s].buf, e)
      BY <1>1 DEF EdgeRun, Batch
    <3>3. q \in Seq(Row) /\ Len(q) <= BatchSize /\ Elems(q) = Elems(run[s].buf) \cup {e}
      <4> HIDE DEF e
      <4>1. /\ q \in Seq(Row) /\ Len(q) = Len(run[s].buf) + 1
            /\ \A i \in 1 .. Len(run[s].buf) : q[i] = run[s].buf[i]
            /\ q[Len(run[s].buf) + 1] = e
        BY <3>1, <3>2, AppendProperties
      <4> HIDE DEF q
      <4>2. DOMAIN q = 1 .. (Len(run[s].buf) + 1) /\ DOMAIN run[s].buf = 1 .. Len(run[s].buf)
        BY <3>2, <4>1, LenProperties
      <4> QED
        BY <1>1, <3>2, <4>1, <4>2, LoadConstants DEF Elems
    <3>4. /\ r0 \in EdgeRun /\ r0.ne = run[s].ne
          /\ r0.todo = Tail(run[s].todo) /\ r0.n = run[s].n
      <4>1. Tail(run[s].todo) \in Seq(Nat \X Nat)
        BY <1>1, HeadTailProperties DEF EdgeRun
      <4> QED
        BY <1>1, <4>1 DEF EdgeRun
    <3>5. Becomes(s, Buffered(r0, q, big))
      BY <1>0, <1>4, <2>3
    <3>6. /\ Buffered(r0, q, big) \in EdgeRun /\ Len(Buffered(r0, q, big).buf) < BatchSize
          /\ Buffered(r0, q, big).todo = Tail(run[s].todo) /\ Buffered(r0, q, big).n = run[s].n
          /\ Buffered(r0, q, big).ne \cup Elems(Buffered(r0, q, big).buf)
             = run[s].ne \cup Elems(run[s].buf) \cup {e}
      <4> HIDE DEF r0, q, e
      <4> QED
        BY <3>3, <3>4, BufferedEdges
    <3>7. e[1] = eseq + 1
      OBVIOUS
    <3> HIDE DEF r0, q, e
    <3> QED
      BY <1>1, <1>2, <2>1, <3>1, <3>5, <3>6, <3>7
  <2> QED
    BY <2>2, <2>3
<1> QED
  BY <1>3, <1>4

\* The end of a file: the last batch is inserted and all becomes visible.
LEMMA FinishStep ==
  ASSUME TInv, NEW s \in Sessions, finish_batch_insert(s)
  PROVE  /\ UNCHANGED <<vseq, eseq, overlap>>
         /\ \/ Fail(s)
            \/ /\ run[s] \in VertexRun /\ IdleNow(s) /\ edges' = edges
               /\ ~insert_batch_fails(s, run[s].buf)
               /\ vertices' = WithRows(run[s].rows \o run[s].buf)
            \/ /\ run[s] \in EdgeRun /\ IdleNow(s)
               /\ vertices' = WithRows(<<>>)
               /\ edges' = edges \cup run[s].ne \cup Elems(run[s].buf)
<1>1. UNCHANGED <<vseq, eseq, overlap>>
  BY DEF finish_batch_insert, Fail, Stay
<1>2. CASE insert_batch_fails(s, run[s].buf)
  BY <1>1, <1>2 DEF finish_batch_insert
<1>3. CASE ~insert_batch_fails(s, run[s].buf)
  <2>1. /\ IdleNow(s)
        /\ vertices' = WithRows(Flushed(s).rows) /\ edges' = edges \cup Flushed(s).ne
    BY <1>3 DEF finish_batch_insert, IdleNow
  <2>2. CASE run[s].op = "vertices"
    <3>1. run[s] \in VertexRun
      BY <2>2, RunFields DEF TInv
    <3>2. Flushed(s).rows = run[s].rows \o run[s].buf /\ Flushed(s).ne = {}
      BY <2>2, <3>1 DEF Flushed, insert_batch, VertexRun
    <3> QED
      BY <1>1, <1>3, <2>1, <3>1, <3>2
  <2>3. CASE run[s].op = "edges"
    <3>1. run[s] \in EdgeRun
      BY <2>3, RunFields DEF TInv
    <3>2. Flushed(s).rows = <<>> /\ Flushed(s).ne = run[s].ne \cup Elems(run[s].buf)
      BY <2>3, <3>1 DEF Flushed, insert_batch, EdgeRun
    <3> QED
      BY <1>1, <2>1, <3>1, <3>2
  <2> QED
    BY <2>2, <2>3 DEF finish_batch_insert
<1> QED
  BY <1>2, <1>3

\* One vertex of a generated graph.
LEMMA VertexSimple ==
  ASSUME TInv, NEW s \in Sessions, insert_vertex_simple(s)
  PROVE  /\ run[s] \in GraphRun
         /\ UNCHANGED <<vertices, edges, eseq, overlap>>
         /\ \/ Fail(s)
            \/ /\ vseq' = vseq + 1 /\ vseq' \in EntryIds
               /\ vseq' \notin InFlight(s)
               /\ \/ IdleNow(s)
                  \/ /\ vseq' \notin Committed \cup Elems(run[s].rows)
                     /\ \E r \in GraphRun :
                          /\ Becomes(s, r) /\ r.rows = Append(run[s].rows, vseq')
                          /\ r.ne = run[s].ne
<1>1. run[s] \in GraphRun
  BY RunFields DEF TInv, insert_vertex_simple
<1>2. UNCHANGED <<vertices, edges, eseq, overlap>>
  BY DEF insert_vertex_simple, Fail, Advance, Stay
<1>3. CASE vseq = EntryIdMax
  BY <1>1, <1>2, <1>3 DEF insert_vertex_simple
<1>4. CASE vseq # EntryIdMax
  <2> DEFINE r == [run[s] EXCEPT !.rows = Append(@, vseq + 1)]
  <2>1. vseq' = vseq + 1 /\ vseq' \in EntryIds /\ vseq' \notin InFlight(s)
    BY <1>4, LoadConstants DEF insert_vertex_simple, TInv, EntryIds
  <2>2. /\ vseq' \in Committed \cup Elems(run[s].rows) => IdleNow(s)
        /\ vseq' \notin Committed \cup Elems(run[s].rows) => Becomes(s, r)
    BY <1>4, <2>1 DEF insert_vertex_simple, Advance, IdleNow, Becomes
  <2>3. r \in GraphRun /\ r.rows = Append(run[s].rows, vseq') /\ r.ne = run[s].ne
    <3>1. Append(run[s].rows, vseq + 1) \in Seq(EntryIds)
      BY <1>1, <2>1 DEF GraphRun
    <3> QED
      BY <1>1, <2>1, <3>1 DEF GraphRun
  <2> HIDE DEF r
  <2> QED
    BY <1>1, <1>2, <2>1, <2>2, <2>3
<1> QED
  BY <1>3, <1>4

\* The edges of a generated graph: they have new numbers, and either the other
\* half of a barbell follows or all becomes visible.
LEMMA EdgesSimple ==
  ASSUME TInv, NEW s \in Sessions, insert_edge_simple(s)
  PROVE  /\ run[s] \in GraphRun
         /\ UNCHANGED <<vseq, overlap>>
         /\ \/ Fail(s)
            \/ \E new \in SUBSET Row :
                 /\ eseq' \in EntryIds /\ eseq <= eseq'
                 /\ \A e \in new : e[1] \in (eseq + 1) .. eseq'
                 /\ \A e, f \in new : e[1] = f[1] => e = f
                 /\ \/ /\ UNCHANGED <<vertices, edges>>
                       /\ \E r \in GraphRun : /\ Becomes(s, r) /\ r.rows = run[s].rows
                                              /\ r.ne = run[s].ne \cup new
                    \/ /\ IdleNow(s) /\ vertices' = WithRows(run[s].rows)
                       /\ edges' = edges \cup run[s].ne \cup new
<1> DEFINE r == run[s]
           k == Cardinality(PairsOf(r.n))
           bridge == IF r.at = 2 THEN {<<eseq + k + 1, 1, 2 * r.n>>} ELSE {}
           lid == r.rows[Len(r.rows)]
           all == r.ne \cup EdgeSet(lid, r.n) \cup bridge
           drawn == eseq + k + Cardinality(bridge)
           new == EdgeSet(lid, r.n) \cup bridge
<1>1. r \in GraphRun
  BY RunFields DEF TInv, insert_edge_simple
<1>2. UNCHANGED <<vseq, overlap>>
  BY DEF insert_edge_simple, Fail, Advance, Stay
<1>3. /\ insert_edge_simple(s) => IF drawn > EntryIdMax \/ \E e \in all : {e[2], e[3]} \ EntryIds # {}
         THEN Fail(s)
         ELSE /\ eseq' = drawn
              /\ IF r.at < r.halves
                 THEN Advance(s, [r EXCEPT !.ne = all, !.at = @ + 1])
                 ELSE /\ vertices' = WithRows(r.rows) /\ edges' = edges \cup all
                      /\ IdleNow(s)
  BY DEF insert_edge_simple, IdleNow
<1>4. CASE drawn > EntryIdMax \/ \E e \in all : {e[2], e[3]} \ EntryIds # {}
  <2>1. Fail(s)
    <3> HIDE DEF drawn, all
    <3> QED
      BY <1>3, <1>4
  <2> QED
    BY <1>1, <1>2, <2>1
<1>5. CASE ~(drawn > EntryIdMax) /\ ~\E e \in all : {e[2], e[3]} \ EntryIds # {}
  <2>0. eseq \in EntryIds /\ eseq \in Nat /\ r.n \in Nat
    BY <1>1, LoadConstants DEF TInv, EntryIds, GraphRun
  <2>1. /\ k \in Nat
        /\ \A e \in EdgeSet(lid, r.n) : e[1] \in (eseq + 1) .. (eseq + k)
        /\ \A e, f \in EdgeSet(lid, r.n) : e[1] = f[1] => e = f
    BY <2>0, Numbering
  <2>2. Cardinality(bridge) \in {0, 1} /\ (bridge # {} => Cardinality(bridge) = 1)
    BY FS_EmptySet, FS_Singleton
  <2>3. \A e \in bridge : e[1] = eseq + k + 1
    OBVIOUS
  <2>4. \A e, f \in bridge : e = f
    OBVIOUS
  <2>5. drawn \in EntryIds /\ eseq <= drawn
    <3>1. ~(drawn > EntryIdMax)
      BY <1>5
    <3> HIDE DEF k, bridge
    <3> QED
      BY <3>1, <2>0, <2>1, <2>2, LoadConstants DEF EntryIds
  <2>6. \A e \in new : e[1] \in (eseq + 1) .. drawn
    <3> HIDE DEF k, bridge, lid
    <3> QED
      BY <2>0, <2>1, <2>2, <2>3
  <2>7. \A e, f \in new : e[1] = f[1] => e = f
    <3> HIDE DEF k, bridge, lid
    <3> QED
      BY <2>0, <2>1, <2>3, <2>4
  <2>8. new \subseteq Row
    <3>1. \A e \in new : e[2] \in EntryIds /\ e[3] \in EntryIds
      BY <1>5
    <3>2. \A e \in new : e = <<e[1], e[2], e[3]>>
      <4>1. \A e \in EdgeSet(lid, r.n) : e = <<e[1], e[2], e[3]>>
        BY <2>0, Numbering
      <4>2. \A e \in bridge : e = <<e[1], e[2], e[3]>>
        OBVIOUS
      <4> HIDE DEF bridge
      <4> QED
        BY <4>1, <4>2
    <3>3. \A e \in new : e[1] \in EntryIds
      <4> HIDE DEF new, drawn
      <4> QED
        BY <2>0, <2>5, <2>6, LoadConstants DEF EntryIds
    <3> HIDE DEF new
    <3> QED
      BY <3>1, <3>2, <3>3 DEF Row
  <2>9. all = r.ne \cup new
    OBVIOUS
  <2>10. /\ eseq' = drawn
         /\ IF r.at < r.halves
            THEN Advance(s, [r EXCEPT !.ne = all, !.at = @ + 1])
            ELSE /\ vertices' = WithRows(r.rows) /\ edges' = edges \cup all
                 /\ IdleNow(s)
    <3> HIDE DEF drawn, all, r
    <3> QED
      BY <1>3, <1>5
  <2> HIDE DEF k, bridge, lid, all, drawn, new
  <2>11. CASE r.at < r.halves
    <3> DEFINE next == [r EXCEPT !.ne = all, !.at = @ + 1]
    <3>1. UNCHANGED <<vertices, edges>> /\ Becomes(s, next)
      BY <2>10, <2>11 DEF Advance, Becomes
    <3>2. next \in GraphRun /\ next.rows = r.rows /\ next.ne = r.ne \cup new
      <4>1. r.at + 1 \in {1, 2}
        BY <1>1, <2>11 DEF GraphRun
      <4>2. all \in SUBSET Row
        BY <1>1, <2>8, <2>9 DEF GraphRun
      <4> HIDE DEF r
      <4> QED
        BY <1>1, <2>9, <4>1, <4>2 DEF GraphRun
    <3> HIDE DEF next
    <3> QED
      BY <1>1, <1>2, <2>5, <2>6, <2>7, <2>8, <2>10, <3>1, <3>2
  <2>12. CASE ~(r.at < r.halves)
    <3>1. edges' = edges \cup r.ne \cup new /\ vertices' = WithRows(r.rows) /\ IdleNow(s)
      BY <2>9, <2>10, <2>12
    <3> QED
      BY <1>1, <1>2, <2>5, <2>6, <2>7, <2>8, <2>10, <3>1
  <2> QED
    BY <2>11, <2>12
<1> QED
  BY <1>4, <1>5

-----------------------------------------------------------------------------
(* Types *)

\* A session's run is replaced by another one.
LEMMA RunReplaced ==
  ASSUME TInv, NEW s \in Sessions, NEW r \in Runs, Len(r.buf) < BatchSize, Becomes(s, r)
  PROVE  run' \in [Sessions -> Runs] /\ \A t \in Sessions : Len(run'[t].buf) < BatchSize
BY DEF TInv, Becomes

\* The idle run is one.
LEMMA IdleRun == Idle \in Runs /\ Len(Idle.buf) < BatchSize
BY LoadConstants DEF Runs, Idle

\* The end of a call leaves the other runs.
LEMMA RunEnded ==
  ASSUME TInv, NEW s \in Sessions, IdleNow(s)
  PROVE  run' \in [Sessions -> Runs] /\ \A t \in Sessions : Len(run'[t].buf) < BatchSize
BY IdleRun, RunReplaced DEF IdleNow, Becomes

\* What a failed call leaves.
LEMMA Failed ==
  ASSUME TInv, NEW s \in Sessions, Fail(s)
  PROVE  TInv' /\ IdleNow(s) /\ UNCHANGED <<vertices, edges, vseq, eseq, overlap>>
<1>1. IdleNow(s) /\ UNCHANGED <<vertices, edges, vseq, eseq, overlap>>
  BY DEF Fail, IdleNow, Stay
<1> QED
  BY <1>1, RunEnded DEF TInv

\* The initial state has the types.
LEMMA LoadTypeInit == Init => TInv
BY IdleRun, LoadConstants DEF Init, TInv, EntryIds

\* A file that is about to be loaded is a list of ids, or of -1.
LEMMA LoadStarts ==
  ASSUME TInv, NEW s \in Sessions, NEW file \in Files, NEW withIds \in BOOLEAN,
         load_labels_from_file(s, file, withIds)
  PROVE  \E r \in VertexRun :
           /\ Becomes(s, r) /\ Len(r.buf) < BatchSize /\ r.rows = <<>> /\ r.buf = <<>>
           /\ vseq' \in EntryIds /\ vseq <= vseq' /\ Len(r.todo) = r.n
           /\ r.todo \in Seq({-1}) \/ (r.todo \in Seq(Nat) /\ r.curr = vseq')
<1> DEFINE todo == Given(file, withIds)
           r == [Idle EXCEPT !.op = "vertices", !.n = Len(file), !.todo = todo,
                   !.curr = IF withIds THEN vseq + 1 ELSE 0]
<1>1. Becomes(s, r)
  BY DEF load_labels_from_file, Call, Becomes, Given
<1>2. vseq \in EntryIds /\ vseq \in Nat /\ 0 \in EntryIds
  BY LoadConstants DEF TInv, EntryIds
<1>3. /\ vseq' = IF withIds THEN vseq + 1 ELSE vseq
      /\ withIds => vseq < EntryIdMax
  BY DEF load_labels_from_file
<1>4. vseq' \in EntryIds /\ vseq <= vseq' /\ (withIds => vseq + 1 = vseq')
  BY <1>2, <1>3, LoadConstants DEF EntryIds
<1>5. file \in Seq(Nat) /\ Len(file) \in Nat
  BY LoadConstants
<1>n. Len(todo) = Len(file)
  <2>1. todo = [i \in 1 .. Len(file) |-> IF withIds THEN file[i] ELSE -1]
    BY <1>5 DEF Given
  <2> QED
    BY <1>5, <2>1
<1>6. CASE withIds
  <2>1. todo \in Seq(Nat)
    BY <1>5, <1>6 DEF Given
  <2>2. r = [Idle EXCEPT !.op = "vertices", !.n = Len(file), !.todo = todo, !.curr = vseq']
    BY <1>4, <1>6
  <2>a. Len(todo) = Len(file)
    BY <1>n
  <2> HIDE DEF todo, r
  <2>3. r \in VertexRun /\ r.rows = <<>> /\ r.buf = <<>> /\ r.todo = todo /\ r.curr = vseq' /\ r.n = Len(file)
    <3> DEFINE z == <<>>
    <3>1. z \in Seq(EntryIds)
      OBVIOUS
    <3>2. r = [op |-> "vertices", todo |-> todo, buf |-> z, rows |-> z, ne |-> {},
               curr |-> vseq', n |-> Len(file), at |-> 0, halves |-> 0]
      BY <2>2 DEF Idle
    <3> HIDE DEF z
    <3>3. r \in VertexRun /\ r.rows = z /\ r.buf = z /\ r.todo = todo /\ r.curr = vseq' /\ r.n = Len(file)
      BY <1>4, <1>5, <2>1, <3>1, <3>2 DEF VertexRun
    <3> QED
      BY <3>3 DEF z
  <2> QED
    BY <1>1, <1>4, <2>a, <2>1, <2>3, LoadConstants
<1>7. CASE ~withIds
  <2>1. todo \in Seq({-1})
    <3>1. todo = [i \in 1 .. Len(file) |-> -1]
      BY <1>5, <1>7 DEF Given
    <3> HIDE DEF todo
    <3> QED
      BY <1>5, <3>1
  <2>2. r = [Idle EXCEPT !.op = "vertices", !.n = Len(file), !.todo = todo, !.curr = 0]
    BY <1>7
  <2>a. Len(todo) = Len(file)
    BY <1>n
  <2> HIDE DEF todo, r
  <2>3. r \in VertexRun /\ r.rows = <<>> /\ r.buf = <<>> /\ r.todo = todo /\ r.n = Len(file)
    <3> DEFINE z == <<>>
    <3>1. z \in Seq(EntryIds)
      OBVIOUS
    <3>2. r = [op |-> "vertices", todo |-> todo, buf |-> z, rows |-> z, ne |-> {},
               curr |-> 0, n |-> Len(file), at |-> 0, halves |-> 0]
      BY <2>2 DEF Idle
    <3> HIDE DEF z
    <3>3. r \in VertexRun /\ r.rows = z /\ r.buf = z /\ r.todo = todo /\ r.n = Len(file)
      BY <1>2, <1>5, <2>1, <3>1, <3>2 DEF VertexRun
    <3> QED
      BY <3>3 DEF z
  <2> QED
    BY <1>1, <1>4, <2>a, <2>1, <2>3, LoadConstants
<1> QED
  BY <1>6, <1>7

\* The beginning of the other calls.
LEMMA EdgesStart ==
  ASSUME NEW s \in Sessions, NEW file \in EdgeFiles, load_edges_from_file(s, file)
  PROVE  \E r \in EdgeRun : Becomes(s, r) /\ r.buf = <<>> /\ r.ne = {} /\ Len(r.todo) = r.n
<1> DEFINE r == [Idle EXCEPT !.op = "edges", !.n = Len(file), !.todo = file]
<1>1. Becomes(s, r)
  BY DEF load_edges_from_file, Call, Becomes
<1>2. file \in Seq(Nat \X Nat) /\ Len(file) \in Nat
  BY LoadConstants
<1>3. r \in EdgeRun /\ r.buf = <<>> /\ r.ne = {} /\ Len(r.todo) = r.n
  <2> DEFINE z == <<>>
  <2>1. z \in Seq(Row) /\ z \in {<<>>}
    OBVIOUS
  <2>2. r = [op |-> "edges", todo |-> file, buf |-> z, rows |-> z, ne |-> {},
             curr |-> 0, n |-> Len(file), at |-> 0, halves |-> 0]
    <3>1. r = [Idle EXCEPT !.op = "edges", !.n = Len(file), !.todo = file]
      OBVIOUS
    <3> HIDE DEF r
    <3> QED
      BY <3>1 DEF Idle
  <2> HIDE DEF z, r
  <2>3. r \in EdgeRun /\ r.buf = z /\ r.ne = {} /\ r.todo = file /\ r.n = Len(file)
    BY <1>2, <2>1, <2>2 DEF EdgeRun
  <2> QED
    BY <2>3 DEF z
<1> HIDE DEF r
<1> QED
  BY <1>1, <1>3

\* A generator starts without rows.
LEMMA GraphStarts ==
  ASSUME NEW s \in Sessions, NEW n \in 1 .. MaxNodes, NEW h \in {1, 2},
         create_complete_graph(s, n, h)
  PROVE  \E r \in GraphRun : Becomes(s, r) /\ r.rows = <<>> /\ r.ne = {}
<1> DEFINE r == [Idle EXCEPT !.op = "complete", !.n = n, !.at = 1, !.halves = h]
<1>1. Becomes(s, r)
  BY DEF create_complete_graph, Call, Becomes
<1>2. r \in GraphRun /\ r.rows = <<>> /\ r.ne = {}
  <2> DEFINE z == <<>>
  <2>1. z \in Seq(EntryIds) /\ z \in {<<>>}
    OBVIOUS
  <2>2. r = [op |-> "complete", todo |-> z, buf |-> z, rows |-> z, ne |-> {},
             curr |-> 0, n |-> n, at |-> 1, halves |-> h]
    <3>1. r = [Idle EXCEPT !.op = "complete", !.n = n, !.at = 1, !.halves = h]
      OBVIOUS
    <3> HIDE DEF r
    <3> QED
      BY <3>1 DEF Idle
  <2> HIDE DEF z, r
  <2>3. r \in GraphRun /\ r.rows = z /\ r.ne = {}
    BY <2>1, <2>2 DEF GraphRun
  <2> QED
    BY <2>3 DEF z
<1> HIDE DEF r
<1> QED
  BY <1>1, <1>2

\* A generator holds no batch.
LEMMA NoBatch ==
  ASSUME NEW r \in GraphRun
  PROVE  r.buf = <<>> /\ Len(r.buf) < BatchSize /\ r \in Runs /\ r.op = "complete"
BY LoadConstants DEF GraphRun, Runs

\* One vertex created by another client.
LEMMA VertexCreated ==
  ASSUME TInv, NEW s \in Sessions, create_vertex(s)
  PROVE  /\ run' = run /\ run[s] = Idle /\ UNCHANGED <<edges, eseq>>
         /\ vseq' = vseq + 1 /\ vseq' \in EntryIds /\ vseq' \notin InFlight(s)
         /\ vertices' = vertices \/ (vertices[vseq'] = 0 /\ vertices' = WithRows(<<vseq'>>))
<1>1. run[s] = Idle
  BY RunFields DEF TInv, create_vertex, Call
<1>2. run' = run
  BY <1>1 DEF TInv, create_vertex, Call
<1>3. vseq' = vseq + 1 /\ vseq' \in EntryIds /\ vseq' \notin InFlight(s)
  BY LoadConstants DEF create_vertex, TInv, EntryIds
<1>4. vertices[vseq'] \in Nat
  BY <1>3 DEF TInv
<1> QED
  BY <1>1, <1>2, <1>3, <1>4 DEF create_vertex

\* Every step keeps the types.
LEMMA LoadTypeStep == TInv /\ [Next]_vars => TInv'
<1> SUFFICES ASSUME TInv, [Next]_vars PROVE TInv'
  OBVIOUS
<1>1. ASSUME NEW s \in Sessions, NEW f \in Files, NEW b \in BOOLEAN,
             load_labels_from_file(s, f, b)
      PROVE TInv'
  <2>1. PICK r \in VertexRun : Becomes(s, r) /\ Len(r.buf) < BatchSize /\ vseq' \in EntryIds
    BY <1>1, LoadStarts
  <2>2. r \in Runs
    BY DEF Runs
  <2> QED
    BY <1>1, <2>1, <2>2, RunReplaced DEF TInv, load_labels_from_file
<1>2. ASSUME NEW s \in Sessions, process_vertex_row(s) PROVE TInv'
  <2>1. CASE Fail(s)
    BY <2>1, Failed
  <2>2. CASE ~Fail(s)
    <3>1. PICK r \in VertexRun : vseq' \in EntryIds /\ (IdleNow(s) \/ (Becomes(s, r) /\ Len(r.buf) < BatchSize))
      BY <1>2, <2>2, VertexRow
    <3>2. r \in Runs
      BY DEF Runs
    <3>3. UNCHANGED <<vertices, edges, eseq>>
      BY <1>2, VertexRow
    <3> QED
      BY <3>1, <3>2, <3>3, RunEnded, RunReplaced DEF TInv
  <2> QED
    BY <2>1, <2>2
<1>3. ASSUME NEW s \in Sessions, NEW f \in EdgeFiles, load_edges_from_file(s, f) PROVE TInv'
  <2>1. PICK r \in EdgeRun : Becomes(s, r) /\ r.buf = <<>>
    BY <1>3, EdgesStart
  <2>2. r \in Runs /\ Len(r.buf) < BatchSize
    BY <2>1, LoadConstants DEF Runs
  <2> QED
    BY <1>3, <2>1, <2>2, RunReplaced DEF TInv, load_edges_from_file
<1>4. ASSUME NEW s \in Sessions, process_edge_row(s) PROVE TInv'
  <2>1. CASE Fail(s)
    BY <2>1, Failed
  <2>2. CASE ~Fail(s)
    <3>1. eseq' \in EntryIds /\ \E r \in EdgeRun :
             IdleNow(s) \/ (Becomes(s, r) /\ Len(r.buf) < BatchSize)
      BY <1>4, <2>2, EdgeRowStep
    <3>2. EdgeRun \subseteq Runs
      BY DEF Runs
    <3>3. UNCHANGED <<vertices, edges, vseq>>
      BY <1>4, EdgeRowStep
    <3> QED
      BY <3>1, <3>2, <3>3, RunEnded, RunReplaced DEF TInv
  <2> QED
    BY <2>1, <2>2
<1>5. ASSUME NEW s \in Sessions, finish_batch_insert(s) PROVE TInv'
  <2>1. CASE Fail(s)
    BY <2>1, Failed
  <2>2. CASE ~Fail(s)
    <3>1. UNCHANGED <<vseq, eseq>> /\ IdleNow(s)
      BY <1>5, <2>2, FinishStep
    <3>2. CASE run[s] \in VertexRun /\ edges' = edges /\ vertices' = WithRows(run[s].rows \o run[s].buf)
      <4>1. run[s].rows \o run[s].buf \in Seq(EntryIds)
        BY <3>2 DEF VertexRun
      <4> QED
        BY <3>1, <3>2, <4>1, Counted, RunEnded DEF TInv
    <3>3. CASE /\ run[s] \in EdgeRun /\ vertices' = WithRows(<<>>)
               /\ edges' = edges \cup run[s].ne \cup Elems(run[s].buf)
      <4>1. <<>> \in Seq(EntryIds)
        OBVIOUS
      <4>2. run[s].ne \subseteq Row /\ Elems(run[s].buf) \subseteq Row
        BY <3>3 DEF EdgeRun, Elems
      <4>3. vertices' \in [EntryIds -> Nat]
        BY <3>3, <4>1, Counted DEF TInv
      <4> QED
        BY <3>1, <3>3, <4>2, <4>3, RunEnded DEF TInv
    <3> QED
      BY <1>5, <2>2, <3>2, <3>3, FinishStep
  <2> QED
    BY <2>1, <2>2
<1>6. ASSUME NEW s \in Sessions, NEW n \in 1 .. MaxNodes, NEW h \in {1, 2},
             create_complete_graph(s, n, h)
      PROVE TInv'
  <2>1. PICK r \in GraphRun : Becomes(s, r)
    BY <1>6, GraphStarts
  <2> QED
    BY <1>6, <2>1, NoBatch, RunReplaced DEF TInv, create_complete_graph
<1>7. ASSUME NEW s \in Sessions, insert_vertex_simple(s) PROVE TInv'
  <2>1. CASE Fail(s)
    BY <2>1, Failed
  <2>2. CASE ~Fail(s)
    <3>1. vseq' \in EntryIds /\ (IdleNow(s) \/ \E r \in GraphRun : Becomes(s, r))
      BY <1>7, <2>2, VertexSimple
    <3>2. UNCHANGED <<vertices, edges, eseq>>
      BY <1>7, VertexSimple
    <3> QED
      BY <3>1, <3>2, NoBatch, RunEnded, RunReplaced DEF TInv
  <2> QED
    BY <2>1, <2>2
<1>8. ASSUME NEW s \in Sessions, insert_edge_simple(s) PROVE TInv'
  <2>1. CASE Fail(s)
    BY <2>1, Failed
  <2>2. CASE ~Fail(s)
    <3>0. run[s] \in GraphRun /\ vseq' = vseq
      BY <1>8, EdgesSimple
    <3>1. PICK new \in SUBSET Row :
             /\ eseq' \in EntryIds
             /\ \/ UNCHANGED <<vertices, edges>> /\ \E r \in GraphRun : Becomes(s, r)
                \/ /\ IdleNow(s) /\ vertices' = WithRows(run[s].rows)
                   /\ edges' = edges \cup run[s].ne \cup new
      BY <1>8, <2>2, EdgesSimple
    <3>2. run[s].rows \in Seq(EntryIds) /\ run[s].ne \subseteq Row
      BY <3>0 DEF GraphRun
    <3>3. WithRows(run[s].rows) \in [EntryIds -> Nat]
      BY <3>2, Counted DEF TInv
    <3> QED
      BY <3>0, <3>1, <3>2, <3>3, NoBatch, RunEnded, RunReplaced DEF TInv
  <2> QED
    BY <2>1, <2>2
<1>9. ASSUME NEW s \in Sessions, create_vertex(s) PROVE TInv'
  <2>1. /\ run' = run /\ UNCHANGED <<edges, eseq>> /\ vseq' \in EntryIds
        /\ vertices' = vertices \/ vertices' = WithRows(<<vseq'>>)
    BY <1>9, VertexCreated
  <2>2. <<vseq'>> \in Seq(EntryIds)
    BY <2>1
  <2>3. WithRows(<<vseq'>>) \in [EntryIds -> Nat]
    BY <2>2, Counted DEF TInv
  <2> QED
    BY <2>1, <2>3 DEF TInv
<1>10. ASSUME NEW s \in Sessions, Abort(s) PROVE TInv'
  BY <1>10, Failed DEF Abort
<1>11. CASE UNCHANGED vars
  BY <1>11 DEF vars, TInv
<1> QED
  BY <1>1, <1>2, <1>3, <1>4, <1>5, <1>6, <1>7, <1>8, <1>9, <1>10, <1>11 DEF Next

\* Every value stays of its type, and no batch overflows (ag_load_labels.c,
\* ag_load_edges.c, graph_generation.c).
THEOREM LoadTypeCorrect == Spec => []TypeOK
<1>1. TInv => TypeOK
  <2> SUFFICES ASSUME TInv PROVE TypeOK
    OBVIOUS
  <2>1. \A s \in Sessions : run[s].curr \in EntryIds
    BY RunFields DEF TInv
  <2> QED
    BY <2>1 DEF TInv, TypeOK, Row
<1> QED
  BY <1>1, LoadTypeInit, LoadTypeStep, PTL DEF Spec

-----------------------------------------------------------------------------
(* Ids of vertices *)

Once(q) == \A j, k \in DOMAIN q : q[j] = q[k] => j = k

\* Every id is in the table once, or in one place of one session's rows.
VertexInv ==
    /\ \A i \in EntryIds : vertices[i] <= 1
    /\ \A s \in Sessions : Once(run[s].rows) /\ \A i \in Elems(run[s].rows) : vertices[i] = 0
    /\ \A s, t \in Sessions : s # t => Elems(run[s].rows) \cap Elems(run[t].rows) = {}

\* What an insertion may add: ids that are nowhere yet.
Fresh(s, q) ==
    /\ q \in Seq(EntryIds) /\ Once(q)
    /\ \A i \in Elems(q) : vertices[i] = 0 /\ i \notin Elems(run[s].rows) /\ i \notin InFlight(s)

\* A batch that fails no unique index is fresh.
LEMMA InsertedIsFresh ==
  ASSUME TInv, NEW s \in Sessions, run[s].op = "vertices", NEW q \in Seq(EntryIds),
         ~insert_batch_fails(s, q)
  PROVE  Fresh(s, q)
<1>1. DOMAIN q = 1 .. Len(q) /\ Len(q) \in Nat /\ Elems(q) \subseteq EntryIds
  BY DEF Elems
<1>2. q \in Surjection(1 .. Len(q), Elems(q))
  BY <1>1 DEF Surjection, Elems
<1>3. IsFiniteSet(1 .. Len(q)) /\ Cardinality(1 .. Len(q)) = Len(q)
  BY <1>1, FS_Interval
<1>4. /\ IsFiniteSet(Elems(q)) /\ Cardinality(Elems(q)) <= Len(q)
      /\ Cardinality(Elems(q)) = Len(q) => q \in Injection(1 .. Len(q), Elems(q))
  BY <1>2, <1>3, FS_Surjection
<1>5. Cardinality(Elems(q)) \in Nat
  BY <1>4, FS_CardinalityType
<1>6. Cardinality(Elems(q)) = Len(q)
  BY <1>1, <1>4, <1>5 DEF insert_batch_fails
<1>7. Once(q)
  BY <1>1, <1>4, <1>6 DEF Injection, IsInjective, Once
<1>8. ASSUME NEW i \in Elems(q)
      PROVE  vertices[i] = 0 /\ i \notin Elems(run[s].rows) /\ i \notin InFlight(s)
  <2>1. i \notin Committed /\ i \notin Elems(run[s].rows) /\ i \notin InFlight(s)
    BY DEF insert_batch_fails
  <2>2. vertices[i] \in Nat
    BY <1>1 DEF TInv
  <2> QED
    BY <1>1, <2>1, <2>2 DEF Committed
<1> QED
  BY <1>7, <1>8 DEF Fresh

\* The rows of a session with fresh ones behind them.
LEMMA RowsGrow ==
  ASSUME VertexInv, NEW s \in Sessions, run[s].rows \in Seq(EntryIds), NEW q, Fresh(s, q)
  PROVE  LET rows == run[s].rows \o q IN
         /\ rows \in Seq(EntryIds) /\ Once(rows)
         /\ Elems(rows) = Elems(run[s].rows) \cup Elems(q)
         /\ \A i \in Elems(rows) : vertices[i] = 0
         /\ \A t \in Sessions : t # s => Elems(rows) \cap Elems(run[t].rows) = {}
<1> DEFINE a == run[s].rows
           rows == a \o q
<1>1. q \in Seq(EntryIds) /\ a \in Seq(EntryIds)
  BY DEF Fresh
<1>2. /\ rows \in Seq(EntryIds) /\ Len(rows) = Len(a) + Len(q)
      /\ \A i \in 1 .. Len(a) + Len(q) : rows[i] = IF i <= Len(a) THEN a[i] ELSE q[i - Len(a)]
  BY <1>1, ConcatProperties
<1>3. /\ Len(a) \in Nat /\ DOMAIN a = 1 .. Len(a) /\ Len(q) \in Nat /\ DOMAIN q = 1 .. Len(q)
      /\ DOMAIN rows = 1 .. (Len(a) + Len(q))
  BY <1>1, <1>2, LenProperties
<1>4. Once(a) /\ Once(q) /\ Elems(a) \cap Elems(q) = {}
  BY DEF VertexInv, Fresh
<1>a. \A i \in Elems(a) : vertices[i] = 0
  BY DEF VertexInv
<1>b. \A t \in Sessions : t # s => Elems(a) \cap Elems(run[t].rows) = {}
  BY DEF VertexInv
<1> HIDE DEF rows, a
<1>5. ASSUME NEW i \in DOMAIN rows
      PROVE  \/ i \in DOMAIN a /\ rows[i] = a[i]
             \/ i \notin DOMAIN a /\ i - Len(a) \in DOMAIN q /\ rows[i] = q[i - Len(a)]
  BY <1>2, <1>3
<1>c. \A i \in DOMAIN a : a[i] \in Elems(a)
  BY DEF Elems
<1>d. \A i \in DOMAIN q : q[i] \in Elems(q)
  BY DEF Elems
<1>e. Once(rows)
  <2> SUFFICES ASSUME NEW j \in DOMAIN rows, NEW k \in DOMAIN rows, rows[j] = rows[k]
               PROVE  j = k
    BY DEF Once
  <2>1. j \in Int /\ k \in Int
    BY <1>3
  <2>2. CASE j \in DOMAIN a /\ k \in DOMAIN a
    BY <1>4, <1>5, <2>2 DEF Once
  <2>3. CASE j \notin DOMAIN a /\ k \notin DOMAIN a
    <3>1. j - Len(a) = k - Len(a)
      BY <1>4, <1>5, <2>3 DEF Once
    <3> QED
      BY <1>3, <2>1, <3>1
  <2>4. CASE j \in DOMAIN a /\ k \notin DOMAIN a
    BY <1>4, <1>5, <1>c, <1>d, <2>4
  <2>5. CASE j \notin DOMAIN a /\ k \in DOMAIN a
    BY <1>4, <1>5, <1>c, <1>d, <2>5
  <2> QED
    BY <2>2, <2>3, <2>4, <2>5
<1>6. Elems(rows) = Elems(a) \cup Elems(q)
  <2>1. \A i \in DOMAIN rows : rows[i] \in Elems(a) \cup Elems(q)
    BY <1>5, <1>c, <1>d
  <2>2. \A i \in DOMAIN a : i \in DOMAIN rows /\ rows[i] = a[i]
    BY <1>2, <1>3
  <2>3. \A i \in DOMAIN q : i + Len(a) \in DOMAIN rows /\ rows[i + Len(a)] = q[i]
    BY <1>2, <1>3
  <2>4. Elems(a) \cup Elems(q) \subseteq Elems(rows)
    BY <2>2, <2>3 DEF Elems
  <2> QED
    BY <2>1, <2>4 DEF Elems
<1>7. \A i \in Elems(rows) : vertices[i] = 0
  BY <1>a, <1>6 DEF Fresh
<1>8. \A t \in Sessions : t # s => Elems(rows) \cap Elems(run[t].rows) = {}
  <2>1. \A t \in Sessions : t # s => Elems(q) \cap Elems(run[t].rows) = {}
    BY DEF Fresh, InFlight, Others
  <2> QED
    BY <1>6, <1>b, <2>1
<1> QED
  BY <1>2, <1>6, <1>7, <1>8, <1>e DEF rows, a

\* The rows of a session go or stay.
LEMMA RowsKept ==
  ASSUME TInv, VertexInv, NEW s \in Sessions, NEW r, Becomes(s, r), vertices' = vertices,
         r.rows = <<>> \/ r.rows = run[s].rows
  PROVE  VertexInv'
<1>1. \A t \in Sessions : run'[t] = IF t = s THEN r ELSE run[t]
  BY DEF TInv, Becomes
<1>2. Once(<<>>) /\ Elems(<<>>) = {}
  BY DEF Once, Elems
<1>3. \A t \in Sessions : run'[t].rows = run[t].rows \/ run'[t].rows = <<>>
  BY <1>1
<1>4. \A t \in Sessions : /\ Elems(run'[t].rows) \subseteq Elems(run[t].rows)
                          /\ Once(run[t].rows) => Once(run'[t].rows)
  <2> TAKE t \in Sessions
  <2>1. CASE run'[t].rows = run[t].rows
    BY <2>1
  <2>2. CASE run'[t].rows = <<>>
    BY <1>2, <2>2
  <2> QED
    BY <1>3, <2>1, <2>2
<1> QED
  BY <1>4 DEF VertexInv

\* A session's rows grow by fresh ones.
LEMMA RowsAdded ==
  ASSUME TInv, VertexInv, NEW s \in Sessions, NEW r, Becomes(s, r), vertices' = vertices,
         NEW q, Fresh(s, q), r.rows = run[s].rows \o q
  PROVE  VertexInv'
<1>1. \A t \in Sessions : run'[t] = IF t = s THEN r ELSE run[t]
  BY DEF TInv, Becomes
<1>2. run[s].rows \in Seq(EntryIds)
  BY RunFields DEF TInv
<1> DEFINE rows == run[s].rows \o q
<1>3. /\ Once(rows)
      /\ \A i \in Elems(rows) : vertices[i] = 0
      /\ \A t \in Sessions : t # s => Elems(rows) \cap Elems(run[t].rows) = {}
  BY <1>2, RowsGrow
<1>4. r.rows = rows
  OBVIOUS
<1> HIDE DEF rows
<1> QED
  BY <1>1, <1>3, <1>4 DEF VertexInv

\* A session's rows, and fresh ones, become visible.
LEMMA RowsVisible ==
  ASSUME TInv, VertexInv, NEW s \in Sessions, IdleNow(s) \/ (run' = run /\ run[s] = Idle),
         NEW q, Fresh(s, q), vertices' = WithRows(run[s].rows \o q)
  PROVE  VertexInv'
<1> DEFINE rows == run[s].rows \o q
<1>1. \A t \in Sessions : run'[t] = IF t = s THEN Idle ELSE run[t]
  BY DEF TInv, IdleNow
<1>2. run[s].rows \in Seq(EntryIds)
  BY RunFields DEF TInv
<1>3. /\ rows \in Seq(EntryIds) /\ Once(rows)
      /\ \A i \in Elems(rows) : vertices[i] = 0
      /\ \A t \in Sessions : t # s => Elems(rows) \cap Elems(run[t].rows) = {}
  BY <1>2, RowsGrow
<1> HIDE DEF rows
<1>4. \A i \in EntryIds : vertices'[i] = vertices[i] + IF i \in Elems(rows) THEN 1 ELSE 0
  BY <1>3, Counted DEF TInv, rows, Once
<1>5. \A i \in EntryIds : vertices[i] \in Nat
  BY DEF TInv
<1>6. Idle.rows = <<>> /\ Once(<<>>) /\ Elems(<<>>) = {}
  BY DEF Idle, Once, Elems
<1>7. \A t \in Sessions : Elems(run[t].rows) \subseteq EntryIds
  BY RunFields DEF TInv, Elems
<1>8. \A i \in EntryIds : vertices'[i] <= 1
  BY <1>3, <1>4, <1>5 DEF VertexInv
<1>9. \A t \in Sessions : t # s => \A i \in Elems(run[t].rows) : vertices'[i] = 0
  BY <1>3, <1>4, <1>5, <1>7 DEF VertexInv
<1> QED
  BY <1>1, <1>6, <1>8, <1>9 DEF VertexInv

\* Nothing is fresh, and so is an id that nobody holds.
LEMMA FreshOnes ==
  ASSUME NEW s \in Sessions
  PROVE  /\ Fresh(s, <<>>)
         /\ \A i \in EntryIds :
              vertices[i] = 0 /\ i \notin Elems(run[s].rows) /\ i \notin InFlight(s)
                => Fresh(s, <<i>>)
<1>1. Fresh(s, <<>>)
  BY DEF Fresh, Once, Elems
<1>2. ASSUME NEW i \in EntryIds, vertices[i] = 0, i \notin Elems(run[s].rows), i \notin InFlight(s)
      PROVE  Fresh(s, <<i>>)
  <2>1. Elems(<<i>>) = {i} /\ Once(<<i>>)
    BY DEF Elems, Once
  <2>2. <<i>> \in Seq(EntryIds)
    OBVIOUS
  <2> QED
    BY <1>2, <2>1, <2>2 DEF Fresh
<1> QED
  BY <1>1, <1>2

\* A run that ends without effect, or begins.
LEMMA RowsGone ==
  ASSUME TInv, VertexInv, NEW s \in Sessions, IdleNow(s), vertices' = vertices
  PROVE  VertexInv'
<1>1. Idle.rows = <<>>
  BY DEF Idle
<1> QED
  BY <1>1, RowsKept DEF IdleNow, Becomes

\* Every step keeps the ids apart.
LEMMA VertexStep == TInv /\ VertexInv /\ [Next]_vars => VertexInv'
<1> SUFFICES ASSUME TInv, VertexInv, [Next]_vars PROVE VertexInv'
  OBVIOUS
<1>0. ASSUME NEW s \in Sessions, Fail(s) PROVE VertexInv'
  BY <1>0, Failed, RowsGone
<1>1. ASSUME NEW s \in Sessions, NEW f \in Files, NEW b \in BOOLEAN,
             load_labels_from_file(s, f, b)
      PROVE VertexInv'
  <2>1. PICK r \in VertexRun : Becomes(s, r) /\ r.rows = <<>>
    BY <1>1, LoadStarts
  <2> QED
    BY <1>1, <2>1, RowsKept DEF load_labels_from_file
<1>2. ASSUME NEW s \in Sessions, process_vertex_row(s) PROVE VertexInv'
  <2>0. run[s] \in VertexRun /\ vertices' = vertices /\ run[s].op = "vertices"
    BY <1>2, VertexRow DEF VertexRun
  <2>1. CASE ~Fail(s)
    <3>1. PICK id \in EntryIds, r \in VertexRun :
             \/ IdleNow(s)
             \/ Becomes(s, r) /\ Joined(s, r, Append(run[s].buf, id))
      BY <1>2, <2>1, VertexRow
    <3> DEFINE q == Append(run[s].buf, id)
    <3>2. q \in Seq(EntryIds)
      BY <2>0 DEF VertexRun
    <3> HIDE DEF q
    <3>3. CASE IdleNow(s)
      BY <2>0, <3>3, RowsGone
    <3>4. CASE Becomes(s, r) /\ r.rows = run[s].rows
      BY <2>0, <3>4, RowsKept
    <3>5. CASE /\ Becomes(s, r) /\ r.rows = run[s].rows \o q
               /\ ~insert_batch_fails(s, q)
      <4>1. Fresh(s, q)
        BY <2>0, <3>2, <3>5, InsertedIsFresh
      <4> QED
        BY <2>0, <3>5, <4>1, RowsAdded
    <3> QED
      BY <3>1, <3>3, <3>4, <3>5 DEF Joined, q
  <2> QED
    BY <1>0, <2>1
<1>3. ASSUME NEW s \in Sessions, NEW f \in EdgeFiles, load_edges_from_file(s, f) PROVE VertexInv'
  <2>1. PICK r \in EdgeRun : Becomes(s, r)
    BY <1>3, EdgesStart
  <2>2. r.rows = <<>>
    BY DEF EdgeRun
  <2> QED
    BY <1>3, <2>1, <2>2, RowsKept DEF load_edges_from_file
<1>4. ASSUME NEW s \in Sessions, process_edge_row(s) PROVE VertexInv'
  <2>0. vertices' = vertices
    BY <1>4, EdgeRowStep
  <2>1. CASE ~Fail(s)
    <3>1. PICK r \in EdgeRun : IdleNow(s) \/ Becomes(s, r)
      BY <1>4, <2>1, EdgeRowStep
    <3>2. r.rows = <<>>
      BY DEF EdgeRun
    <3> QED
      BY <2>0, <3>1, <3>2, RowsKept, RowsGone
  <2> QED
    BY <1>0, <2>1
<1>5. ASSUME NEW s \in Sessions, finish_batch_insert(s) PROVE VertexInv'
  <2>1. CASE /\ run[s] \in VertexRun /\ IdleNow(s)
             /\ ~insert_batch_fails(s, run[s].buf)
             /\ vertices' = WithRows(run[s].rows \o run[s].buf)
    <3>1. Fresh(s, run[s].buf)
      BY <2>1, InsertedIsFresh DEF VertexRun
    <3> QED
      BY <2>1, <3>1, RowsVisible
  <2>2. CASE run[s] \in EdgeRun /\ IdleNow(s) /\ vertices' = WithRows(<<>>)
    <3>1. run[s].rows = <<>>
      BY <2>2 DEF EdgeRun
    <3>2. run[s].rows \o <<>> = <<>>
      BY <3>1
    <3>3. vertices' = WithRows(run[s].rows \o <<>>)
      BY <2>2, <3>2
    <3> QED
      BY <2>2, <3>3, FreshOnes, RowsVisible
  <2> QED
    BY <1>0, <1>5, <2>1, <2>2, FinishStep
<1>6. ASSUME NEW s \in Sessions, NEW n \in 1 .. MaxNodes, NEW h \in {1, 2},
             create_complete_graph(s, n, h)
      PROVE VertexInv'
  <2>1. PICK r \in GraphRun : Becomes(s, r) /\ r.rows = <<>>
    BY <1>6, GraphStarts
  <2> QED
    BY <1>6, <2>1, RowsKept DEF create_complete_graph
<1>7. ASSUME NEW s \in Sessions, insert_vertex_simple(s) PROVE VertexInv'
  <2>0. vertices' = vertices /\ run[s] \in GraphRun
    BY <1>7, VertexSimple
  <2>1. CASE IdleNow(s)
    BY <2>0, <2>1, RowsGone
  <2>2. CASE ~Fail(s) /\ ~IdleNow(s)
    <3>1. PICK r \in GraphRun : /\ Becomes(s, r) /\ r.rows = Append(run[s].rows, vseq')
                                /\ vseq' \notin Committed \cup Elems(run[s].rows)
                                /\ vseq' \in EntryIds /\ vseq' \notin InFlight(s)
      BY <1>7, <2>2, VertexSimple
    <3>2. vertices[vseq'] = 0
      BY <3>1 DEF Committed, TInv
    <3>3. Fresh(s, <<vseq'>>)
      BY <3>1, <3>2, FreshOnes
    <3>4. r.rows = run[s].rows \o <<vseq'>>
      BY <2>0, <3>1, AppendIsConcat DEF GraphRun
    <3> QED
      BY <2>0, <3>1, <3>3, <3>4, RowsAdded
  <2> QED
    BY <1>0, <2>1, <2>2
<1>8. ASSUME NEW s \in Sessions, insert_edge_simple(s) PROVE VertexInv'
  <2>0. run[s] \in GraphRun
    BY <1>8, EdgesSimple
  <2>1. CASE ~Fail(s)
    <3>1. \/ vertices' = vertices /\ \E r \in GraphRun : Becomes(s, r) /\ r.rows = run[s].rows
          \/ IdleNow(s) /\ vertices' = WithRows(run[s].rows)
      BY <1>8, <2>1, EdgesSimple
    <3>2. CASE vertices' = vertices /\ \E r \in GraphRun : Becomes(s, r) /\ r.rows = run[s].rows
      BY <3>2, RowsKept
    <3>3. CASE IdleNow(s) /\ vertices' = WithRows(run[s].rows)
      <4>1. run[s].rows \o <<>> = run[s].rows
        BY <2>0, ConcatEmptySeq DEF GraphRun
      <4>2. vertices' = WithRows(run[s].rows \o <<>>)
        BY <3>3, <4>1
      <4> QED
        BY <3>3, <4>2, FreshOnes, RowsVisible
    <3> QED
      BY <3>1, <3>2, <3>3
  <2> QED
    BY <1>0, <2>1
<1>9. ASSUME NEW s \in Sessions, create_vertex(s) PROVE VertexInv'
  <2>0. /\ run' = run /\ run[s] = Idle /\ vseq' \in EntryIds /\ vseq' \notin InFlight(s)
        /\ vertices' = vertices \/ (vertices[vseq'] = 0 /\ vertices' = WithRows(<<vseq'>>))
    BY <1>9, VertexCreated
  <2>1. CASE vertices' = vertices
    BY <2>0, <2>1 DEF VertexInv
  <2>2. CASE vertices[vseq'] = 0 /\ vertices' = WithRows(<<vseq'>>)
    <3>1. run[s].rows = <<>> /\ Elems(run[s].rows) = {}
      BY <2>0 DEF Idle, Elems
    <3>2. Fresh(s, <<vseq'>>)
      BY <2>0, <2>2, <3>1, FreshOnes
    <3>3. run[s].rows \o <<vseq'>> = <<vseq'>>
      BY <2>0, <3>1
    <3>4. vertices' = WithRows(run[s].rows \o <<vseq'>>)
      BY <2>2, <3>3
    <3> QED
      BY <2>0, <3>2, <3>4, RowsVisible
  <2> QED
    BY <2>0, <2>1, <2>2
<1>10. ASSUME NEW s \in Sessions, Abort(s) PROVE VertexInv'
  BY <1>0, <1>10 DEF Abort
<1>11. CASE UNCHANGED vars
  BY <1>11 DEF vars, VertexInv
<1> QED
  BY <1>1, <1>2, <1>3, <1>4, <1>5, <1>6, <1>7, <1>8, <1>9, <1>10, <1>11 DEF Next

-----------------------------------------------------------------------------
(* Numbers of edges *)

\* The edges a run has inserted or buffered, and all edges there are.
HeldBy(r) == r.ne \cup IF r.op = "edges" THEN Elems(r.buf) ELSE {}
AllEdges == edges \cup UNION {HeldBy(run[s]) : s \in Sessions}

\* The sequence is at or beyond every number, and no number is there twice.
EdgeInv ==
    /\ \A e \in AllEdges : e[1] <= eseq
    /\ \A e, f \in AllEdges : e[1] = f[1] => e = f

\* Edges are triples of entry ids.
LEMMA EdgesAreRows ==
  ASSUME TInv
  PROVE  AllEdges \subseteq Row
<1>1. \A s \in Sessions : HeldBy(run[s]) \subseteq Row
  <2> TAKE s \in Sessions
  <2>1. run[s].ne \subseteq Row /\ (run[s].op = "edges" => run[s] \in EdgeRun)
    BY RunFields DEF TInv
  <2>2. run[s].op = "edges" => Elems(run[s].buf) \subseteq Row
    BY <2>1 DEF EdgeRun, Elems
  <2> QED
    BY <2>1, <2>2 DEF HeldBy
<1> QED
  BY <1>1 DEF AllEdges, TInv

\* New edges whose numbers are beyond the sequence keep the numbers apart.
LEMMA NewNumbers ==
  ASSUME TInv, EdgeInv, NEW s \in Sessions, NEW r, Becomes(s, r), NEW new,
         eseq' \in EntryIds, eseq <= eseq',
         \A e \in new : e[1] \in (eseq + 1) .. eseq',
         \A e, f \in new : e[1] = f[1] => e = f,
         HeldBy(r) \subseteq AllEdges \cup new, edges' \subseteq AllEdges \cup new
  PROVE  EdgeInv'
<1>1. \A t \in Sessions : run'[t] = IF t = s THEN r ELSE run[t]
  BY DEF TInv, Becomes
<1>2. AllEdges' = edges' \cup UNION {HeldBy(run'[t]) : t \in Sessions}
  BY DEF AllEdges, HeldBy
<1>3. \A t \in Sessions : HeldBy(run'[t]) \subseteq AllEdges \cup new
  <2> TAKE t \in Sessions
  <2>1. CASE t = s
    <3>1. run'[t] = r
      BY <1>1, <2>1
    <3> QED
      BY <3>1
  <2>2. CASE t # s
    <3>1. run'[t] = run[t]
      BY <1>1, <2>2
    <3> QED
      BY <3>1 DEF AllEdges
  <2> QED
    BY <2>1, <2>2
<1>4. AllEdges' \subseteq AllEdges \cup new
  BY <1>2, <1>3
<1>5. \A e \in AllEdges : e[1] \in Nat /\ e[1] <= eseq
  BY EdgesAreRows, LoadConstants DEF EdgeInv, Row, EntryIds
<1>6. eseq \in Nat /\ eseq' \in Nat
  BY LoadConstants DEF TInv, EntryIds
<1>7. \A e \in AllEdges' : e[1] <= eseq'
  BY <1>4, <1>5, <1>6
<1>8. \A e, f \in AllEdges' : e[1] = f[1] => e = f
  BY <1>4, <1>5, <1>6 DEF EdgeInv
<1> QED
  BY <1>7, <1>8 DEF EdgeInv

\* A session's edges, all of them, are among the others; an idle one has none.
LEMMA HeldByRuns ==
  /\ \A s \in Sessions : HeldBy(run[s]) \subseteq AllEdges
  /\ HeldBy(Idle) = {}
  /\ \A r \in VertexRun : HeldBy(r) = {}
  /\ \A r \in GraphRun : HeldBy(r) = r.ne
  /\ \A r \in EdgeRun : HeldBy(r) = r.ne \cup Elems(r.buf)
  /\ edges \subseteq AllEdges
<1>1. HeldBy(Idle) = {}
  BY DEF HeldBy, Idle
<1>2. \A r \in VertexRun : HeldBy(r) = {}
  BY DEF HeldBy, VertexRun
<1>3. \A r \in GraphRun : HeldBy(r) = r.ne
  BY DEF HeldBy, GraphRun
<1>4. \A r \in EdgeRun : HeldBy(r) = r.ne \cup Elems(r.buf)
  BY DEF HeldBy, EdgeRun
<1> QED
  BY <1>1, <1>2, <1>3, <1>4 DEF AllEdges

\* A step that brings no edge, and leaves or drops those of a session.
LEMMA NoNewEdges ==
  ASSUME TInv, EdgeInv, NEW s \in Sessions, NEW r, Becomes(s, r), UNCHANGED <<edges, eseq>>,
         HeldBy(r) \subseteq AllEdges
  PROVE  EdgeInv'
<1>1. eseq' \in EntryIds /\ eseq <= eseq'
  BY LoadConstants DEF TInv, EntryIds
<1> QED
  BY <1>1, HeldByRuns, NewNumbers

\* Every step keeps the numbers of edges apart.
LEMMA EdgeStep == TInv /\ EdgeInv /\ [Next]_vars => EdgeInv'
<1> SUFFICES ASSUME TInv, EdgeInv, [Next]_vars PROVE EdgeInv'
  OBVIOUS
<1>0. ASSUME NEW s \in Sessions, IdleNow(s), UNCHANGED <<edges, eseq>> PROVE EdgeInv'
  BY <1>0, HeldByRuns, NoNewEdges DEF IdleNow, Becomes
<1>f. ASSUME NEW s \in Sessions, Fail(s) PROVE EdgeInv'
  BY <1>0, <1>f, Failed
<1>1. ASSUME NEW s \in Sessions, NEW f \in Files, NEW b \in BOOLEAN,
             load_labels_from_file(s, f, b)
      PROVE EdgeInv'
  <2>1. PICK r \in VertexRun : Becomes(s, r)
    BY <1>1, LoadStarts
  <2>2. HeldBy(r) \subseteq AllEdges
    BY HeldByRuns
  <2> QED
    BY <1>1, <2>1, <2>2, NoNewEdges DEF load_labels_from_file
<1>2. ASSUME NEW s \in Sessions, process_vertex_row(s) PROVE EdgeInv'
  <2>1. CASE ~Fail(s)
    <3>0. UNCHANGED <<edges, eseq>>
      BY <1>2, VertexRow
    <3>1. PICK r \in VertexRun : IdleNow(s) \/ Becomes(s, r)
      BY <1>2, <2>1, VertexRow
    <3>2. HeldBy(r) \subseteq AllEdges
      BY HeldByRuns
    <3> QED
      BY <1>0, <3>0, <3>1, <3>2, NoNewEdges
  <2> QED
    BY <1>f, <2>1
<1>3. ASSUME NEW s \in Sessions, NEW f \in EdgeFiles, load_edges_from_file(s, f) PROVE EdgeInv'
  <2>1. PICK r \in EdgeRun : Becomes(s, r) /\ r.buf = <<>> /\ r.ne = {}
    BY <1>3, EdgesStart
  <2>2. HeldBy(r) \subseteq AllEdges
    BY <2>1, HeldByRuns DEF Elems
  <2> QED
    BY <1>3, <2>1, <2>2, NoNewEdges DEF load_edges_from_file
<1>4. ASSUME NEW s \in Sessions, process_edge_row(s) PROVE EdgeInv'
  <2>0. edges' = edges /\ run[s] \in EdgeRun /\ eseq \in Nat
    BY <1>4, EdgeRowStep, LoadConstants DEF TInv, EntryIds
  <2>1. CASE ~Fail(s)
    <3>1. eseq' = eseq + 1 /\ eseq' \in EntryIds
      BY <1>4, <2>1, EdgeRowStep
    <3>2. CASE IdleNow(s)
      <4>1. Becomes(s, Idle)
        BY <3>2 DEF IdleNow, Becomes
      <4> DEFINE new == {}
      <4>2. HeldBy(Idle) \subseteq AllEdges \cup new /\ edges' \subseteq AllEdges \cup new
        BY <2>0, HeldByRuns
      <4>3. eseq <= eseq' /\ new = {}
        BY <2>0, <3>1
      <4> HIDE DEF new
      <4> QED
        BY <3>1, <4>1, <4>2, <4>3, NewNumbers
    <3>3. CASE ~IdleNow(s)
      <4>1. PICK r \in EdgeRun, e \in Row :
               /\ Becomes(s, r) /\ e[1] = eseq + 1
               /\ r.ne \cup Elems(r.buf) = run[s].ne \cup Elems(run[s].buf) \cup {e}
        BY <1>4, <2>1, <3>3, EdgeRowStep
      <4>2. HeldBy(r) \subseteq AllEdges \cup {e}
        BY <2>0, <4>1, HeldByRuns
      <4>3. edges' \subseteq AllEdges \cup {e}
        BY <2>0, HeldByRuns
      <4> DEFINE new == {e}
      <4>4. \A g \in new : g[1] \in (eseq + 1) .. eseq'
        BY <2>0, <3>1, <4>1
      <4>5. \A g, h \in new : g = h
        OBVIOUS
      <4>6. HeldBy(r) \subseteq AllEdges \cup new /\ edges' \subseteq AllEdges \cup new
        BY <4>2, <4>3
      <4> HIDE DEF new
      <4> QED
        BY <2>0, <3>1, <4>1, <4>4, <4>5, <4>6, NewNumbers
    <3> QED
      BY <3>2, <3>3
  <2> QED
    BY <1>f, <2>1
<1>5. ASSUME NEW s \in Sessions, finish_batch_insert(s) PROVE EdgeInv'
  <2>1. CASE ~Fail(s)
    <3>0. eseq' = eseq /\ eseq \in EntryIds /\ eseq <= eseq' /\ IdleNow(s)
      BY <1>5, <2>1, FinishStep, LoadConstants DEF TInv, EntryIds
    <3>1. CASE edges' = edges
      BY <1>0, <3>0, <3>1
    <3>2. CASE run[s] \in EdgeRun /\ edges' = edges \cup run[s].ne \cup Elems(run[s].buf)
      <4>1. edges' \subseteq AllEdges
        BY <3>2, HeldByRuns
      <4> QED
        BY <3>0, <4>1, HeldByRuns, NewNumbers DEF IdleNow, Becomes
    <3> QED
      BY <1>5, <2>1, <3>1, <3>2, FinishStep
  <2> QED
    BY <1>f, <2>1
<1>6. ASSUME NEW s \in Sessions, NEW n \in 1 .. MaxNodes, NEW h \in {1, 2},
             create_complete_graph(s, n, h)
      PROVE EdgeInv'
  <2>1. PICK r \in GraphRun : Becomes(s, r) /\ r.ne = {}
    BY <1>6, GraphStarts
  <2>2. HeldBy(r) \subseteq AllEdges
    BY <2>1, HeldByRuns
  <2> QED
    BY <1>6, <2>1, <2>2, NoNewEdges DEF create_complete_graph
<1>7. ASSUME NEW s \in Sessions, insert_vertex_simple(s) PROVE EdgeInv'
  <2>0. UNCHANGED <<edges, eseq>> /\ run[s] \in GraphRun
    BY <1>7, VertexSimple
  <2>1. CASE IdleNow(s)
    BY <1>0, <2>0, <2>1
  <2>2. CASE ~Fail(s) /\ ~IdleNow(s)
    <3>1. PICK r \in GraphRun : Becomes(s, r) /\ r.ne = run[s].ne
      BY <1>7, <2>2, VertexSimple
    <3>2. HeldBy(r) \subseteq AllEdges
      BY <2>0, <3>1, HeldByRuns
    <3> QED
      BY <2>0, <3>1, <3>2, NoNewEdges
  <2> QED
    BY <1>f, <2>1, <2>2
<1>8. ASSUME NEW s \in Sessions, insert_edge_simple(s) PROVE EdgeInv'
  <2>0. run[s] \in GraphRun
    BY <1>8, EdgesSimple
  <2>1. CASE ~Fail(s)
    <3>1. PICK new \in SUBSET Row :
             /\ eseq' \in EntryIds /\ eseq <= eseq'
             /\ \A e \in new : e[1] \in (eseq + 1) .. eseq'
             /\ \A e, f \in new : e[1] = f[1] => e = f
             /\ \/ /\ UNCHANGED <<vertices, edges>>
                   /\ \E r \in GraphRun : /\ Becomes(s, r) /\ r.rows = run[s].rows
                                          /\ r.ne = run[s].ne \cup new
                \/ /\ IdleNow(s) /\ vertices' = WithRows(run[s].rows)
                   /\ edges' = edges \cup run[s].ne \cup new
      BY <1>8, <2>1, EdgesSimple
    <3>2. run[s].ne \subseteq AllEdges
      BY <2>0, HeldByRuns
    <3>3. CASE edges' = edges /\ \E r \in GraphRun : Becomes(s, r) /\ r.ne = run[s].ne \cup new
      <4>1. PICK r \in GraphRun : Becomes(s, r) /\ r.ne = run[s].ne \cup new
        BY <3>3
      <4>2. HeldBy(r) \subseteq AllEdges \cup new /\ edges' \subseteq AllEdges \cup new
        BY <3>2, <3>3, <4>1, HeldByRuns
      <4> QED
        BY <3>1, <4>1, <4>2, NewNumbers
    <3>4. CASE IdleNow(s) /\ edges' = edges \cup run[s].ne \cup new
      <4>1. HeldBy(Idle) \subseteq AllEdges \cup new /\ edges' \subseteq AllEdges \cup new
        BY <3>2, <3>4, HeldByRuns
      <4>2. Becomes(s, Idle)
        BY <3>4 DEF IdleNow, Becomes
      <4> QED
        BY <3>1, <4>1, <4>2, NewNumbers
    <3> QED
      BY <3>1, <3>3, <3>4
  <2> QED
    BY <1>f, <2>1
<1>9. ASSUME NEW s \in Sessions, create_vertex(s) PROVE EdgeInv'
  <2>1. run' = run /\ UNCHANGED <<edges, eseq>>
    BY <1>9, VertexCreated
  <2> QED
    BY <2>1 DEF EdgeInv, AllEdges, HeldBy
<1>10. ASSUME NEW s \in Sessions, Abort(s) PROVE EdgeInv'
  BY <1>f, <1>10 DEF Abort
<1>11. CASE UNCHANGED vars
  BY <1>11 DEF vars, EdgeInv, AllEdges, HeldBy
<1> QED
  BY <1>1, <1>2, <1>3, <1>4, <1>5, <1>6, <1>7, <1>8, <1>9, <1>10, <1>11 DEF Next

\* Nothing is there initially.
LEMMA UniqueInit == Init => TInv /\ VertexInv /\ EdgeInv
<1> SUFFICES ASSUME Init PROVE TInv /\ VertexInv /\ EdgeInv
  OBVIOUS
<1>1. TInv
  BY LoadTypeInit
<1>2. /\ \A i \in EntryIds : vertices[i] = 0
      /\ \A s \in Sessions : run[s] = Idle
      /\ edges = {}
  BY DEF Init
<1>3. Idle.rows = <<>> /\ Once(<<>>) /\ Elems(<<>>) = {}
  BY DEF Idle, Once, Elems
<1>4. VertexInv
  <2>1. \A s \in Sessions : Once(run[s].rows) /\ Elems(run[s].rows) = {}
    BY <1>2, <1>3
  <2> QED
    BY <1>2, <2>1 DEF VertexInv
<1>5. AllEdges = {}
  BY <1>2, HeldByRuns DEF AllEdges
<1> QED
  BY <1>1, <1>4, <1>5 DEF EdgeInv

\* No two vertices of a label share an id, and no two edges share a number,
\* whatever ids the files give and however the calls interleave
\* (insert_batch, insert_vertex_simple, nextval).
THEOREM IdsAreUnique == Spec => []UniqueIds
<1>1. VertexInv /\ EdgeInv => UniqueIds
  BY HeldByRuns DEF VertexInv, EdgeInv, UniqueIds
<1> QED
  BY <1>1, UniqueInit, LoadTypeStep, VertexStep, EdgeStep, PTL DEF Spec

-----------------------------------------------------------------------------
(* The sequence of the vertices *)

\* A run whose ids the number n covers.
Covered(r, n) ==
    /\ \A i \in Elems(r.rows) : i <= n
    /\ r.op = "vertices" =>
         /\ \A i \in Elems(r.buf) : i <= n
         /\ r.todo \in Seq({-1}) \/ (r.todo \in Seq(Nat) /\ r.curr = n)

\* The calls do not overlap, and the sequence covers the table and the call.
SeqInv == ~overlap =>
    /\ \A s, t \in Sessions : s # t => run[s].op = "idle" \/ run[t].op = "idle"
    /\ \A i \in Committed : i <= vseq
    /\ \A s \in Sessions : Covered(run[s], vseq)

\* No other session is in a call, nor was when this one began.
Alone(s) == ~overlap /\ \A t \in Others(s) : run[t].op = "idle"

\* The elements of a sequence with others behind it.
LEMMA ElemsOfConcat ==
  ASSUME NEW S, NEW a \in Seq(S), NEW b \in Seq(S)
  PROVE  Elems(a \o b) \subseteq Elems(a) \cup Elems(b)
<1> DEFINE q == a \o b
<1>1. /\ q \in Seq(S) /\ Len(q) = Len(a) + Len(b)
      /\ \A i \in 1 .. Len(a) + Len(b) : q[i] = IF i <= Len(a) THEN a[i] ELSE b[i - Len(a)]
  BY ConcatProperties
<1>2. /\ Len(a) \in Nat /\ DOMAIN a = 1 .. Len(a) /\ Len(b) \in Nat /\ DOMAIN b = 1 .. Len(b)
      /\ DOMAIN q = 1 .. (Len(a) + Len(b))
  BY <1>1, LenProperties
<1> HIDE DEF q
<1>3. \A i \in DOMAIN q : \/ i \in DOMAIN a /\ q[i] = a[i]
                          \/ i - Len(a) \in DOMAIN b /\ q[i] = b[i - Len(a)]
  BY <1>1, <1>2
<1>4. Elems(q) \subseteq Elems(a) \cup Elems(b)
  BY <1>3 DEF Elems
<1> QED
  BY <1>4 DEF q

\* The elements of a sequence with one more.
LEMMA ElemsOfAppend ==
  ASSUME NEW S, NEW a \in Seq(S), NEW x \in S
  PROVE  Elems(Append(a, x)) \subseteq Elems(a) \cup {x}
<1>1. Append(a, x) = a \o <<x>> /\ <<x>> \in Seq(S)
  BY AppendIsConcat
<1>2. Elems(<<x>>) = {x}
  BY DEF Elems
<1> QED
  BY <1>1, <1>2, ElemsOfConcat

\* What is in the table once rows are inserted.
LEMMA CommittedWith ==
  ASSUME TInv, NEW q \in Seq(EntryIds), vertices' = WithRows(q)
  PROVE  Committed' \subseteq Committed \cup Elems(q)
<1> SUFFICES ASSUME NEW i \in EntryIds, vertices'[i] > 0, i \notin Elems(q)
             PROVE  vertices[i] > 0
  BY DEF Committed
<1> DEFINE at == {k \in DOMAIN q : q[k] = i}
<1>1. vertices'[i] = vertices[i] + Cardinality(at)
  BY DEF WithRows
<1>2. at = {}
  BY DEF Elems
<1>3. Cardinality(at) = 0 /\ vertices[i] \in Nat
  BY <1>2, FS_EmptySet DEF TInv
<1> HIDE DEF at
<1> QED
  BY <1>1, <1>3

\* What a larger number covers.
LEMMA CoveredIds ==
  /\ \A n : Covered(Idle, n)
  /\ \A r \in EdgeRun : \A n : Covered(r, n)
  /\ \A r \in GraphRun : \A n : (\A i \in Elems(r.rows) : i <= n) => Covered(r, n)
  /\ \A r \in VertexRun : \A n : r.rows = <<>> => \A i \in Elems(r.rows) : i <= n
<1>1. Elems(<<>>) = {}
  BY DEF Elems
<1>2. Idle.rows = <<>> /\ Idle.op = "idle"
  BY DEF Idle
<1>3. \A r \in EdgeRun : r.rows = <<>> /\ r.op = "edges"
  BY DEF EdgeRun
<1>4. \A r \in GraphRun : r.op = "complete"
  BY DEF GraphRun
<1>5. \A n : Covered(Idle, n)
  BY <1>1, <1>2 DEF Covered
<1>6. \A r \in EdgeRun : \A n : Covered(r, n)
  BY <1>1, <1>3 DEF Covered
<1>7. \A r \in GraphRun : \A n : (\A i \in Elems(r.rows) : i <= n) => Covered(r, n)
  BY <1>4 DEF Covered
<1>8. \A r \in VertexRun : \A n : r.rows = <<>> => \A i \in Elems(r.rows) : i <= n
  BY <1>1
<1> QED
  BY <1>5, <1>6, <1>7, <1>8

\* The step of a session that is alone: it has to cover its own run.
LEMMA AloneStep ==
  ASSUME TInv, SeqInv, NEW s \in Sessions, NEW r, Becomes(s, r),
         ~overlap' => /\ Alone(s) /\ Covered(r, vseq')
                      /\ \A i \in Committed' : i <= vseq'
  PROVE  SeqInv'
<1> SUFFICES ASSUME ~overlap'
             PROVE  /\ \A p, t \in Sessions : p # t => run'[p].op = "idle" \/ run'[t].op = "idle"
                    /\ \A i \in Committed' : i <= vseq'
                    /\ \A t \in Sessions : Covered(run'[t], vseq')
  BY DEF SeqInv, Covered
<1>1. \A t \in Sessions : run'[t] = IF t = s THEN r ELSE run[t]
  BY DEF TInv, Becomes
<1>2. \A t \in Sessions : t # s => run[t] = Idle /\ run[t].op = "idle"
  BY RunFields DEF Alone, Others, TInv
<1>3. \A t \in Sessions : t # s => run'[t] = Idle /\ run'[t].op = "idle"
  BY <1>1, <1>2
<1>4. \A t \in Sessions : Covered(run'[t], vseq')
  <2> TAKE t \in Sessions
  <2>1. CASE t = s
    <3>1. run'[t] = r
      BY <1>1, <2>1
    <3> QED
      BY <3>1
  <2>2. CASE t # s
    BY <1>3, <2>2, CoveredIds
  <2> QED
    BY <2>1, <2>2
<1> QED
  BY <1>3, <1>4

\* A session in a call is alone while none overlap; one that begins a call
\* is, or the calls overlap from then on.
LEMMA WhoIsAlone ==
  ASSUME TInv, SeqInv, NEW s \in Sessions
  PROVE  /\ run[s].op # "idle" /\ overlap' = overlap => (~overlap' => Alone(s))
         /\ overlap' = (overlap \/ \E t \in Others(s) : run[t].op # "idle") => (~overlap' => Alone(s))
         /\ ~overlap => /\ \A i \in Committed : i <= vseq
                        /\ Covered(run[s], vseq)
<1>1. ASSUME run[s].op # "idle", overlap' = overlap, ~overlap' PROVE Alone(s)
  <2>1. ~overlap
    BY <1>1, Zenon
  <2>2. \A t \in Sessions : s # t => run[t].op = "idle"
    BY <1>1, <2>1 DEF SeqInv
  <2> QED
    BY <2>1, <2>2 DEF Alone, Others
<1>2. ASSUME overlap' = (overlap \/ \E t \in Others(s) : run[t].op # "idle"), ~overlap'
      PROVE  Alone(s)
  BY <1>2, Zenon DEF Alone
<1>3. ASSUME ~overlap PROVE (\A i \in Committed : i <= vseq) /\ Covered(run[s], vseq)
  BY <1>3 DEF SeqInv
<1> QED
  BY <1>1, <1>2, <1>3

\* The ids of a batch and of the rows after one more row of a file.
LEMMA RowIsCovered ==
  ASSUME TInv, NEW s \in Sessions, run[s] \in VertexRun, run[s].todo # <<>>,
         Covered(run[s], vseq), NEW id \in EntryIds, NEW r \in VertexRun,
         Moved(run[s], r, id), r.todo = Tail(run[s].todo), vseq' \in EntryIds
  PROVE  /\ vseq <= vseq'
         /\ Joined(s, r, Append(run[s].buf, id)) => Covered(r, vseq')
<1> DEFINE todo == run[s].todo
           q == Append(run[s].buf, id)
<1>1. /\ run[s].op = "vertices" /\ r.op = "vertices"
      /\ todo \in Seq(Nat) \cup Seq({-1}) /\ run[s].curr \in EntryIds
      /\ run[s].buf \in Seq(EntryIds) /\ run[s].rows \in Seq(EntryIds)
  BY DEF VertexRun
<1>2. vseq \in Nat /\ vseq' \in Nat /\ id \in Nat /\ run[s].curr \in Nat
  BY <1>1, LoadConstants DEF TInv, EntryIds
<1>3. /\ todo \in Seq(Nat) => Head(todo) \in Nat /\ Tail(todo) \in Seq(Nat)
      /\ todo \in Seq({-1}) => Head(todo) = -1 /\ Tail(todo) \in Seq({-1})
  BY <1>1, TodoParts
<1>4. todo \in Seq({-1}) \/ (todo \in Seq(Nat) /\ run[s].curr = vseq)
  BY <1>1 DEF Covered
<1>5. vseq <= vseq' /\ id <= vseq' /\ (r.todo \in Seq({-1}) \/ (r.todo \in Seq(Nat) /\ r.curr = vseq'))
  <2>1. CASE todo \in Seq({-1})
    <3>1. Head(todo) = -1 /\ r.todo \in Seq({-1})
      BY <1>3, <2>1
    <3>2. vseq' = id /\ id = vseq + 1
      BY <1>2, <3>1 DEF Moved
    <3> QED
      BY <1>2, <3>1, <3>2
  <2>2. CASE todo \in Seq(Nat) /\ run[s].curr = vseq
    <3>1. Head(todo) # -1 /\ r.todo \in Seq(Nat)
      BY <1>3, <2>2
    <3>2. \/ id > run[s].curr /\ vseq' = id /\ r.curr = id
          \/ id <= run[s].curr /\ vseq' = vseq /\ r.curr = run[s].curr
      BY <3>1 DEF Moved
    <3> QED
      BY <1>2, <2>2, <3>1, <3>2
  <2> QED
    BY <1>4, <2>1, <2>2
<1>6. /\ \A i \in Elems(run[s].buf) : i \in Nat /\ i <= vseq
      /\ \A i \in Elems(run[s].rows) : i \in Nat /\ i <= vseq
  <2>1. Elems(run[s].buf) \subseteq EntryIds /\ Elems(run[s].rows) \subseteq EntryIds
    BY <1>1 DEF Elems
  <2> QED
    BY <1>1, <2>1, LoadConstants DEF Covered, EntryIds
<1>7. q \in Seq(EntryIds) /\ \A i \in Elems(q) : i <= vseq'
  <2>1. q \in Seq(EntryIds) /\ Elems(q) \subseteq Elems(run[s].buf) \cup {id}
    BY <1>1, ElemsOfAppend
  <2> QED
    BY <1>2, <1>5, <1>6, <2>1
<1>8. \A i \in Elems(run[s].rows \o q) : i <= vseq'
  <2>1. Elems(run[s].rows \o q) \subseteq Elems(run[s].rows) \cup Elems(q)
    BY <1>1, <1>7, ElemsOfConcat
  <2> QED
    BY <1>2, <1>5, <1>6, <1>7, <2>1
<1>9. \A i \in Elems(run[s].rows) : i <= vseq'
  BY <1>2, <1>5, <1>6
<1>10. Elems(<<>>) = {}
  BY DEF Elems
<1> HIDE DEF q
<1>11. CASE r.rows = run[s].rows /\ r.buf = q
  BY <1>5, <1>7, <1>9, <1>11 DEF Covered
<1>12. CASE r.rows = run[s].rows \o q /\ r.buf = <<>>
  BY <1>5, <1>8, <1>10, <1>12 DEF Covered
<1> QED
  BY <1>5, <1>11, <1>12 DEF Joined, q

\* Every step keeps the sequence ahead.
LEMMA SeqStep == TInv /\ SeqInv /\ [Next]_vars => SeqInv'
<1> SUFFICES ASSUME TInv, SeqInv, [Next]_vars PROVE SeqInv'
  OBVIOUS
<1>a. vseq \in Nat /\ \A i \in Committed : i \in Nat
  BY LoadConstants DEF TInv, EntryIds, Committed
<1>b. \A i \in EntryIds : i \in Nat
  BY LoadConstants DEF EntryIds
<1>0. ASSUME NEW s \in Sessions, run[s].op # "idle", IdleNow(s), UNCHANGED <<vertices, overlap>>,
             vseq' \in Nat, ~overlap => vseq <= vseq'
      PROVE  SeqInv'
  <2>1. Becomes(s, Idle) /\ Covered(Idle, vseq')
    BY <1>0, CoveredIds DEF IdleNow, Becomes
  <2>2. ~overlap' => Alone(s) /\ \A i \in Committed' : i <= vseq'
    BY <1>0, <1>a, WhoIsAlone DEF Committed
  <2> QED
    BY <2>1, <2>2, AloneStep
<1>f. ASSUME NEW s \in Sessions, run[s].op # "idle", Fail(s) PROVE SeqInv'
  BY <1>0, <1>a, <1>f, Failed
<1>1. ASSUME NEW s \in Sessions, NEW f \in Files, NEW b \in BOOLEAN,
             load_labels_from_file(s, f, b)
      PROVE SeqInv'
  <2>1. PICK r \in VertexRun :
           /\ Becomes(s, r) /\ r.rows = <<>> /\ r.buf = <<>>
           /\ vseq' \in EntryIds /\ vseq <= vseq'
           /\ r.todo \in Seq({-1}) \/ (r.todo \in Seq(Nat) /\ r.curr = vseq')
    BY <1>1, LoadStarts
  <2>2. vertices' = vertices /\ overlap' = (overlap \/ \E t \in Others(s) : run[t].op # "idle")
    BY <1>1 DEF load_labels_from_file, Call
  <2>3. Covered(r, vseq')
    BY <2>1 DEF Covered, Elems
  <2>4. ~overlap' => Alone(s) /\ \A i \in Committed' : i <= vseq'
    BY <1>a, <1>b, <2>1, <2>2, WhoIsAlone DEF Committed, Alone
  <2> QED
    BY <2>1, <2>3, <2>4, AloneStep
<1>2. ASSUME NEW s \in Sessions, process_vertex_row(s) PROVE SeqInv'
  <2>0. /\ run[s] \in VertexRun /\ run[s].todo # <<>> /\ UNCHANGED <<vertices, overlap>>
        /\ run[s].op # "idle"
    BY <1>2, VertexRow DEF VertexRun
  <2>1. CASE ~Fail(s)
    <3>1. PICK id \in EntryIds, r \in VertexRun :
             /\ Moved(run[s], r, id) /\ vseq' \in EntryIds /\ r.todo = Tail(run[s].todo)
             /\ \/ IdleNow(s)
                \/ Becomes(s, r) /\ Joined(s, r, Append(run[s].buf, id))
      BY <1>2, <2>1, VertexRow
    <3>2. ~overlap => /\ vseq <= vseq' /\ vseq' \in Nat
                      /\ Joined(s, r, Append(run[s].buf, id)) => Covered(r, vseq')
      BY <1>b, <2>0, <3>1, RowIsCovered, WhoIsAlone
    <3>3. CASE IdleNow(s)
      BY <1>0, <1>b, <2>0, <3>1, <3>2, <3>3
    <3>4. CASE Becomes(s, r) /\ Joined(s, r, Append(run[s].buf, id))
      <4>1. ~overlap' => Alone(s) /\ Covered(r, vseq') /\ \A i \in Committed' : i <= vseq'
        BY <1>a, <2>0, <3>2, <3>4, WhoIsAlone DEF Committed
      <4> QED
        BY <3>4, <4>1, AloneStep
    <3> QED
      BY <3>1, <3>3, <3>4
  <2> QED
    BY <1>f, <2>0, <2>1
<1>3. ASSUME NEW s \in Sessions, NEW f \in EdgeFiles, load_edges_from_file(s, f) PROVE SeqInv'
  <2>1. PICK r \in EdgeRun : Becomes(s, r)
    BY <1>3, EdgesStart
  <2>2. /\ UNCHANGED <<vertices, vseq>>
        /\ overlap' = (overlap \/ \E t \in Others(s) : run[t].op # "idle")
    BY <1>3 DEF load_edges_from_file, Call
  <2>3. ~overlap' => Alone(s) /\ Covered(r, vseq') /\ \A i \in Committed' : i <= vseq'
    BY <2>2, CoveredIds, WhoIsAlone DEF Committed, Alone
  <2> QED
    BY <2>1, <2>3, AloneStep
<1>4. ASSUME NEW s \in Sessions, process_edge_row(s) PROVE SeqInv'
  <2>0. UNCHANGED <<vertices, vseq, overlap>> /\ run[s].op # "idle"
    BY <1>4, EdgeRowStep DEF EdgeRun
  <2>1. CASE ~Fail(s)
    <3>1. PICK r \in EdgeRun : IdleNow(s) \/ Becomes(s, r)
      BY <1>4, <2>1, EdgeRowStep
    <3>2. CASE IdleNow(s)
      BY <1>0, <1>a, <2>0, <3>2
    <3>3. CASE Becomes(s, r)
      <4>1. ~overlap' => Alone(s) /\ Covered(r, vseq') /\ \A i \in Committed' : i <= vseq'
        BY <2>0, CoveredIds, WhoIsAlone DEF Committed
      <4> QED
        BY <3>3, <4>1, AloneStep
    <3> QED
      BY <3>1, <3>2, <3>3
  <2> QED
    BY <1>f, <2>0, <2>1
<1>5. ASSUME NEW s \in Sessions, finish_batch_insert(s) PROVE SeqInv'
  <2>0. UNCHANGED <<vseq, overlap>> /\ run[s].op # "idle"
    BY <1>5, FinishStep DEF finish_batch_insert
  <2>1. ASSUME IdleNow(s), NEW q \in Seq(EntryIds), vertices' = WithRows(q),
               ~overlap => \A i \in Elems(q) : i <= vseq
        PROVE  SeqInv'
    <3>1. Becomes(s, Idle) /\ Covered(Idle, vseq')
      BY <2>1, CoveredIds DEF IdleNow, Becomes
    <3>2. Committed' \subseteq Committed \cup Elems(q)
      BY <2>1, CommittedWith
    <3>3. ~overlap' => Alone(s) /\ \A i \in Committed' : i <= vseq'
      BY <2>0, <2>1, <3>2, WhoIsAlone
    <3> QED
      BY <3>1, <3>3, AloneStep
  <2>2. CASE run[s] \in VertexRun /\ IdleNow(s) /\ vertices' = WithRows(run[s].rows \o run[s].buf)
    <3>1. /\ run[s].rows \in Seq(EntryIds) /\ run[s].buf \in Seq(EntryIds) /\ run[s].op = "vertices"
          /\ run[s].rows \o run[s].buf \in Seq(EntryIds)
      BY <2>2 DEF VertexRun
    <3>2. Elems(run[s].rows \o run[s].buf) \subseteq Elems(run[s].rows) \cup Elems(run[s].buf)
      BY <3>1, ElemsOfConcat
    <3>3. ~overlap => \A i \in Elems(run[s].rows \o run[s].buf) : i <= vseq
      BY <3>1, <3>2, WhoIsAlone DEF Covered
    <3> QED
      BY <2>1, <2>2, <3>1, <3>3
  <2>3. CASE IdleNow(s) /\ vertices' = WithRows(<<>>)
    <3>1. <<>> \in Seq(EntryIds) /\ Elems(<<>>) = {}
      BY DEF Elems
    <3> QED
      BY <2>1, <2>3, <3>1
  <2> QED
    BY <1>5, <1>f, <2>0, <2>2, <2>3, FinishStep
<1>6. ASSUME NEW s \in Sessions, NEW n \in 1 .. MaxNodes, NEW h \in {1, 2},
             create_complete_graph(s, n, h)
      PROVE SeqInv'
  <2>1. PICK r \in GraphRun : Becomes(s, r) /\ r.rows = <<>>
    BY <1>6, GraphStarts
  <2>2. /\ UNCHANGED <<vertices, vseq>>
        /\ overlap' = (overlap \/ \E t \in Others(s) : run[t].op # "idle")
    BY <1>6 DEF create_complete_graph, Call
  <2>3. Elems(r.rows) = {}
    BY <2>1 DEF Elems
  <2>4. ~overlap' => Alone(s) /\ Covered(r, vseq') /\ \A i \in Committed' : i <= vseq'
    BY <2>2, <2>3, CoveredIds, WhoIsAlone DEF Committed, Alone
  <2> QED
    BY <2>1, <2>4, AloneStep
<1>7. ASSUME NEW s \in Sessions, insert_vertex_simple(s) PROVE SeqInv'
  <2>0. UNCHANGED <<vertices, overlap>> /\ run[s] \in GraphRun /\ run[s].op # "idle"
    BY <1>7, VertexSimple DEF GraphRun
  <2>1. CASE ~Fail(s)
    <3>1. vseq' = vseq + 1 /\ vseq' \in EntryIds
      BY <1>7, <2>1, VertexSimple
    <3>2. vseq' \in Nat /\ vseq <= vseq'
      BY <1>a, <3>1
    <3>3. CASE IdleNow(s)
      BY <1>0, <2>0, <3>2, <3>3
    <3>4. CASE ~IdleNow(s)
      <4>1. PICK r \in GraphRun : Becomes(s, r) /\ r.rows = Append(run[s].rows, vseq')
        BY <1>7, <2>1, <3>4, VertexSimple
      <4>2. run[s].rows \in Seq(EntryIds) /\ Elems(run[s].rows) \subseteq EntryIds
        BY <2>0 DEF GraphRun, Elems
      <4>3. Elems(r.rows) \subseteq Elems(run[s].rows) \cup {vseq'}
        BY <3>1, <4>1, <4>2, ElemsOfAppend
      <4>4. ~overlap => \A i \in Elems(run[s].rows) : i <= vseq'
        <5>1. ~overlap => \A i \in Elems(run[s].rows) : i <= vseq
          BY WhoIsAlone DEF Covered
        <5> QED
          BY <1>a, <1>b, <3>2, <4>2, <5>1
      <4>5. ~overlap => Covered(r, vseq')
        <5>1. ~overlap => \A i \in Elems(r.rows) : i <= vseq'
          BY <3>2, <4>3, <4>4
        <5> QED
          BY <5>1, CoveredIds
      <4>6. ~overlap' => Alone(s) /\ Covered(r, vseq') /\ \A i \in Committed' : i <= vseq'
        BY <1>a, <2>0, <3>2, <4>5, WhoIsAlone DEF Committed
      <4> QED
        BY <4>1, <4>6, AloneStep
    <3> QED
      BY <3>3, <3>4
  <2> QED
    BY <1>f, <2>0, <2>1
<1>8. ASSUME NEW s \in Sessions, insert_edge_simple(s) PROVE SeqInv'
  <2>0. UNCHANGED <<vseq, overlap>> /\ run[s] \in GraphRun /\ run[s].op # "idle"
    BY <1>8, EdgesSimple DEF GraphRun
  <2>1. run[s].rows \in Seq(EntryIds) /\ (~overlap => \A i \in Elems(run[s].rows) : i <= vseq)
    BY <2>0, WhoIsAlone DEF GraphRun, Covered
  <2>2. CASE vertices' = vertices /\ \E r \in GraphRun : Becomes(s, r) /\ r.rows = run[s].rows
    <3>1. PICK r \in GraphRun : Becomes(s, r) /\ r.rows = run[s].rows
      BY <2>2
    <3>2. ~overlap' => Alone(s) /\ Covered(r, vseq') /\ \A i \in Committed' : i <= vseq'
      BY <2>0, <2>1, <2>2, <3>1, CoveredIds, WhoIsAlone DEF Committed
    <3> QED
      BY <3>1, <3>2, AloneStep
  <2>3. CASE IdleNow(s) /\ vertices' = WithRows(run[s].rows)
    <3>1. Becomes(s, Idle) /\ Covered(Idle, vseq')
      BY <2>3, CoveredIds DEF IdleNow, Becomes
    <3>2. Committed' \subseteq Committed \cup Elems(run[s].rows)
      BY <2>1, <2>3, CommittedWith
    <3>3. ~overlap' => Alone(s) /\ \A i \in Committed' : i <= vseq'
      BY <2>0, <2>1, <3>2, WhoIsAlone
    <3> QED
      BY <3>1, <3>3, AloneStep
  <2> QED
    BY <1>8, <1>f, <2>0, <2>2, <2>3, EdgesSimple
<1>9. ASSUME NEW s \in Sessions, create_vertex(s) PROVE SeqInv'
  <2>0. /\ run' = run /\ run[s] = Idle /\ vseq' = vseq + 1 /\ vseq' \in EntryIds
        /\ vertices' = vertices \/ vertices' = WithRows(<<vseq'>>)
    BY <1>9, VertexCreated
  <2>1. overlap' = (overlap \/ \E t \in Others(s) : run[t].op # "idle")
    BY <1>9 DEF create_vertex, Call
  <2>2. Becomes(s, Idle) /\ Covered(Idle, vseq')
    BY <2>0, CoveredIds DEF TInv, Becomes
  <2>3. <<vseq'>> \in Seq(EntryIds) /\ Elems(<<vseq'>>) = {vseq'}
    BY <2>0 DEF Elems
  <2>4. Committed' \subseteq Committed \cup {vseq'}
    <3>1. CASE vertices' = vertices
      BY <3>1 DEF Committed
    <3>2. CASE vertices' = WithRows(<<vseq'>>)
      BY <2>3, <3>2, CommittedWith
    <3> QED
      BY <2>0, <3>1, <3>2
  <2>5. ~overlap' => Alone(s) /\ \A i \in Committed' : i <= vseq'
    BY <1>a, <2>0, <2>1, <2>4, WhoIsAlone DEF Alone
  <2> QED
    BY <2>2, <2>5, AloneStep
<1>10. ASSUME NEW s \in Sessions, Abort(s) PROVE SeqInv'
  BY <1>f, <1>10 DEF Abort
<1>11. CASE UNCHANGED vars
  BY <1>11 DEF vars, SeqInv, Covered, Committed
<1> QED
  BY <1>1, <1>2, <1>3, <1>4, <1>5, <1>6, <1>7, <1>8, <1>9, <1>10, <1>11 DEF Next

\* Nothing is ahead of the sequence initially.
LEMMA SeqInit == Init => SeqInv
<1> SUFFICES ASSUME Init PROVE SeqInv
  OBVIOUS
<1>1. Committed = {} /\ \A s \in Sessions : run[s] = Idle
  BY DEF Init, Committed
<1>2. Idle.op = "idle"
  BY DEF Idle
<1> QED
  BY <1>1, <1>2, CoveredIds DEF SeqInv

\* While no two calls overlap, the sequence stays at or beyond every id in the
\* table, whatever ids the files bring in whatever order, so that no CREATE
\* that follows draws an id in use (process_vertex_row, ag_load_labels.c).
THEOREM SequenceKeepsUp == Spec => []SequenceCovers
<1>1. SeqInv => SequenceCovers
  BY DEF SeqInv, SequenceCovers
<1> QED
  BY <1>1, LoadTypeInit, SeqInit, LoadTypeStep, SeqStep, PTL DEF Spec


-----------------------------------------------------------------------------
(* Rows of a file *)

\* Every row of the file that r loads is somewhere.
AllThere(r) ==
    /\ r.op = "vertices" => Len(r.todo) + Len(r.buf) + Len(r.rows) = r.n
    /\ r.op = "edges" => /\ IsFiniteSet(HeldBy(r))
                         /\ Len(r.todo) + Cardinality(HeldBy(r)) = r.n

\* What a session has inserted, nobody else has.
CountInv ==
    /\ \A s, t \in Sessions : s # t => HeldBy(run[s]) \cap HeldBy(run[t]) = {}
    /\ \A s \in Sessions : HeldBy(run[s]) \cap edges = {}
    /\ \A s \in Sessions : AllThere(run[s])

\* Edges that a session draws new numbers for, holds, or commits.
LEMMA HeldApart ==
  ASSUME TInv, EdgeInv, CountInv, NEW s \in Sessions, NEW r, Becomes(s, r), AllThere(r),
         NEW new, \A e \in new : e[1] \in Int /\ e[1] > eseq,
         HeldBy(r) \subseteq HeldBy(run[s]) \cup new,
         edges' \subseteq edges \cup HeldBy(run[s]) \cup new,
         edges' = edges \/ HeldBy(r) = {}
  PROVE  CountInv'
<1>1. \A t \in Sessions : run'[t] = IF t = s THEN r ELSE run[t]
  BY DEF TInv, Becomes
<1>2. \A e \in AllEdges : e[1] \in Nat /\ e[1] <= eseq
  BY EdgesAreRows, LoadConstants DEF EdgeInv, Row, EntryIds
<1>3. eseq \in Nat
  BY LoadConstants DEF TInv, EntryIds
<1>4. new \cap AllEdges = {}
  BY <1>2, <1>3
<1>5. \A t \in Sessions : HeldBy(run[t]) \subseteq AllEdges
  BY HeldByRuns
<1>6. edges \subseteq AllEdges
  BY HeldByRuns
<1>7. \A t \in Sessions : t # s => /\ HeldBy(r) \cap HeldBy(run[t]) = {}
                                   /\ edges' \cap HeldBy(run[t]) = {}
  BY <1>4, <1>5 DEF CountInv
<1>8. HeldBy(r) \cap edges' = {}
  BY <1>4, <1>6 DEF CountInv
<1>9. \A t \in Sessions : HeldBy(run'[t]) = IF t = s THEN HeldBy(r) ELSE HeldBy(run[t])
  BY <1>1
<1>10. \A t \in Sessions : AllThere(run'[t])
  BY <1>1 DEF CountInv
<1>11. \A t, u \in Sessions : t # u => HeldBy(run'[t]) \cap HeldBy(run'[u]) = {}
  BY <1>7, <1>9 DEF CountInv
<1>12. \A t \in Sessions : HeldBy(run'[t]) \cap edges' = {}
  BY <1>7, <1>8, <1>9
<1>13. CountInv' <=> /\ \A t, u \in Sessions : t # u => HeldBy(run'[t]) \cap HeldBy(run'[u]) = {}
                     /\ \A t \in Sessions : HeldBy(run'[t]) \cap edges' = {}
                     /\ \A t \in Sessions : AllThere(run'[t])
  BY DEF CountInv, HeldBy, AllThere
<1> QED
  BY <1>10, <1>11, <1>12, <1>13

\* A step that brings no edge.
LEMMA SameEdges ==
  ASSUME TInv, EdgeInv, CountInv, NEW s \in Sessions, NEW r, Becomes(s, r), AllThere(r),
         edges' = edges, HeldBy(r) \subseteq HeldBy(run[s])
  PROVE  CountInv'
<1> DEFINE new == {}
<1>1. /\ \A e \in new : e[1] \in Int /\ e[1] > eseq
      /\ HeldBy(r) \subseteq HeldBy(run[s]) \cup new
      /\ edges' \subseteq edges \cup HeldBy(run[s]) \cup new
  OBVIOUS
<1> HIDE DEF new
<1> QED
  BY <1>1, HeldApart

\* The runs that load nothing have no rows to account for.
LEMMA NothingToLoad ==
  AllThere(Idle) /\ \A r \in GraphRun : AllThere(r)
BY DEF AllThere, Idle, GraphRun

\* Every step accounts for all rows.
LEMMA CountStep == TInv /\ EdgeInv /\ CountInv /\ [Next]_vars => CountInv'
<1> SUFFICES ASSUME TInv, EdgeInv, CountInv, [Next]_vars PROVE CountInv'
  OBVIOUS
<1>0. ASSUME NEW s \in Sessions, IdleNow(s), edges' = edges PROVE CountInv'
  <2>1. Becomes(s, Idle) /\ HeldBy(Idle) \subseteq HeldBy(run[s])
    BY <1>0, HeldByRuns DEF IdleNow, Becomes
  <2> QED
    BY <1>0, <2>1, NothingToLoad, SameEdges
<1>f. ASSUME NEW s \in Sessions, Fail(s) PROVE CountInv'
  BY <1>0, <1>f, Failed
<1>1. ASSUME NEW s \in Sessions, NEW f \in Files, NEW b \in BOOLEAN,
             load_labels_from_file(s, f, b)
      PROVE CountInv'
  <2>1. PICK r \in VertexRun : /\ Becomes(s, r) /\ r.rows = <<>> /\ r.buf = <<>>
                               /\ Len(r.todo) = r.n
    BY <1>1, LoadStarts
  <2>2. HeldBy(r) = {} /\ r.op = "vertices" /\ r.n \in Nat
    BY HeldByRuns DEF VertexRun
  <2>3. AllThere(r)
    BY <2>1, <2>2 DEF AllThere
  <2> QED
    BY <1>1, <2>1, <2>2, <2>3, SameEdges DEF load_labels_from_file
<1>2. ASSUME NEW s \in Sessions, process_vertex_row(s) PROVE CountInv'
  <2>0. edges' = edges /\ run[s] \in VertexRun /\ run[s].todo # <<>>
    BY <1>2, VertexRow
  <2>1. CASE ~Fail(s) /\ ~IdleNow(s)
    <3>1. PICK id \in EntryIds, r \in VertexRun :
             /\ Becomes(s, r) /\ r.todo = Tail(run[s].todo) /\ r.n = run[s].n
             /\ Joined(s, r, Append(run[s].buf, id))
      BY <1>2, <2>1, VertexRow
    <3> DEFINE q == Append(run[s].buf, id)
    <3>2. /\ run[s].op = "vertices" /\ r.op = "vertices"
          /\ run[s].buf \in Seq(EntryIds) /\ run[s].rows \in Seq(EntryIds)
          /\ run[s].todo \in Seq(Nat) \cup Seq({-1}) /\ run[s].n \in Nat
      BY <2>0 DEF VertexRun
    <3>3. q \in Seq(EntryIds) /\ Len(q) = Len(run[s].buf) + 1
      BY <3>2
    <3>4. Len(r.todo) = Len(run[s].todo) - 1 /\ Len(run[s].todo) \in Nat
      <4>1. CASE run[s].todo \in Seq(Nat)
        BY <2>0, <3>1, <4>1, HeadTailProperties
      <4>2. CASE run[s].todo \in Seq({-1})
        BY <2>0, <3>1, <4>2, HeadTailProperties
      <4> QED
        BY <3>2, <4>1, <4>2
    <3>5. Len(run[s].todo) + Len(run[s].buf) + Len(run[s].rows) = run[s].n
      BY <3>2 DEF CountInv, AllThere
    <3>6. Len(run[s].buf) \in Nat /\ Len(run[s].rows) \in Nat
      BY <3>2
    <3> DEFINE todo0 == Len(run[s].todo)
               buf0 == Len(run[s].buf)
               rows0 == Len(run[s].rows)
               buf1 == Len(r.buf)
               rows1 == Len(r.rows)
    <3>7. buf0 \in Nat /\ rows0 \in Nat /\ buf1 + rows1 = (buf0 + 1) + rows0
      <4>1. CASE r.rows = run[s].rows /\ r.buf = q
        <5>1. buf1 = buf0 + 1 /\ rows1 = rows0
          BY <3>3, <4>1
        <5> HIDE DEF buf0, buf1, rows0, rows1
        <5> QED
          BY <3>6, <5>1 DEF buf0, rows0
      <4>2. CASE r.rows = run[s].rows \o q /\ r.buf = <<>>
        <5>1. Len(run[s].rows \o q) = rows0 + Len(q)
          BY <3>2, <3>3, ConcatProperties
        <5>2. rows1 = rows0 + (buf0 + 1) /\ buf1 = 0
          BY <3>3, <4>2, <5>1
        <5>3. buf0 \in Nat /\ rows0 \in Nat
          BY <3>6
        <5> HIDE DEF buf0, buf1, rows0, rows1
        <5> QED
          BY <5>2, <5>3
      <4> QED
        BY <3>1, <4>1, <4>2 DEF Joined, q
    <3>8. buf1 \in Nat /\ rows1 \in Nat
      BY DEF VertexRun
    <3>9. AllThere(r)
      <4>1. Len(r.todo) + buf1 + rows1 = r.n
        <5>1. r.n = run[s].n /\ Len(r.todo) = todo0 - 1 /\ todo0 \in Nat
          BY <3>1, <3>4
        <5>2. todo0 + buf0 + rows0 = run[s].n
          BY <3>5
        <5> DEFINE todo1 == Len(r.todo)
        <5>3. todo1 = todo0 - 1
          BY <5>1
        <5> HIDE DEF todo0, todo1, buf0, buf1, rows0, rows1
        <5>4. todo1 + buf1 + rows1 = run[s].n
          BY <3>7, <3>8, <5>1, <5>2, <5>3
        <5> QED
          BY <5>1, <5>4 DEF todo1
      <4> QED
        BY <3>2, <4>1 DEF AllThere
    <3>10. HeldBy(r) = {}
      BY HeldByRuns
    <3> QED
      BY <2>0, <3>1, <3>9, <3>10, SameEdges
  <2> QED
    BY <1>0, <1>f, <2>0, <2>1
<1>3. ASSUME NEW s \in Sessions, NEW f \in EdgeFiles, load_edges_from_file(s, f) PROVE CountInv'
  <2>1. PICK r \in EdgeRun : Becomes(s, r) /\ r.buf = <<>> /\ r.ne = {} /\ Len(r.todo) = r.n
    BY <1>3, EdgesStart
  <2>2. HeldBy(r) = {} /\ r.op = "edges" /\ r.n \in Nat
    BY <2>1, HeldByRuns DEF EdgeRun, Elems
  <2>3. AllThere(r)
    BY <2>1, <2>2, FS_EmptySet DEF AllThere
  <2> QED
    BY <1>3, <2>1, <2>2, <2>3, SameEdges DEF load_edges_from_file
<1>4. ASSUME NEW s \in Sessions, process_edge_row(s) PROVE CountInv'
  <2>0. edges' = edges /\ run[s] \in EdgeRun /\ run[s].todo # <<>> /\ eseq \in Nat
    BY <1>4, EdgeRowStep, LoadConstants DEF TInv, EntryIds
  <2>1. CASE ~Fail(s) /\ ~IdleNow(s)
    <3>1. PICK r \in EdgeRun, e \in Row :
             /\ Becomes(s, r) /\ e[1] = eseq + 1
             /\ r.todo = Tail(run[s].todo) /\ r.n = run[s].n
             /\ r.ne \cup Elems(r.buf) = run[s].ne \cup Elems(run[s].buf) \cup {e}
      BY <1>4, <2>1, EdgeRowStep
    <3>2. HeldBy(r) = HeldBy(run[s]) \cup {e}
      BY <2>0, <3>1, HeldByRuns
    <3>3. e \notin HeldBy(run[s])
      <4>1. \A g \in AllEdges : g[1] \in Nat /\ g[1] <= eseq
        BY EdgesAreRows, LoadConstants DEF EdgeInv, Row, EntryIds
      <4> QED
        BY <2>0, <3>1, <4>1, HeldByRuns
    <3>4. /\ run[s].op = "edges" /\ r.op = "edges" /\ run[s].n \in Nat
          /\ run[s].todo \in Seq(Nat \X Nat)
      BY <2>0 DEF EdgeRun
    <3>5. Len(r.todo) = Len(run[s].todo) - 1 /\ Len(run[s].todo) \in Nat
      BY <2>0, <3>1, <3>4, HeadTailProperties
    <3>6. /\ IsFiniteSet(HeldBy(run[s]))
          /\ Len(run[s].todo) + Cardinality(HeldBy(run[s])) = run[s].n
      BY <3>4 DEF CountInv, AllThere
    <3>7. /\ IsFiniteSet(HeldBy(r))
          /\ Cardinality(HeldBy(r)) = Cardinality(HeldBy(run[s])) + 1
      BY <3>2, <3>3, <3>6, FS_AddElement
    <3>8. Cardinality(HeldBy(run[s])) \in Nat
      BY <3>6, FS_CardinalityType
    <3>9. AllThere(r)
      BY <3>1, <3>4, <3>5, <3>6, <3>7, <3>8 DEF AllThere
    <3> DEFINE new == {e}
    <3>10. \A g \in new : g[1] \in Int /\ g[1] > eseq
      BY <2>0, <3>1
    <3>11. HeldBy(r) \subseteq HeldBy(run[s]) \cup new
      BY <3>2
    <3> HIDE DEF new
    <3> QED
      BY <2>0, <3>1, <3>9, <3>10, <3>11, HeldApart
  <2> QED
    BY <1>0, <1>f, <2>0, <2>1
<1>5. ASSUME NEW s \in Sessions, finish_batch_insert(s) PROVE CountInv'
  <2>1. CASE ~Fail(s)
    <3>1. Becomes(s, Idle) /\ HeldBy(Idle) = {} /\ IdleNow(s)
      BY <1>5, <2>1, FinishStep, HeldByRuns DEF IdleNow, Becomes
    <3>2. CASE edges' = edges
      BY <1>0, <3>1, <3>2
    <3>3. CASE run[s] \in EdgeRun /\ edges' = edges \cup run[s].ne \cup Elems(run[s].buf)
      <4> DEFINE new == {}
      <4>1. edges' \subseteq edges \cup HeldBy(run[s]) \cup new
        BY <3>3, HeldByRuns
      <4>2. HeldBy(Idle) \subseteq HeldBy(run[s]) \cup new
        BY <3>1
      <4>3. \A e \in new : e[1] \in Int /\ e[1] > eseq
        OBVIOUS
      <4> HIDE DEF new
      <4> QED
        BY <3>1, <4>1, <4>2, <4>3, NothingToLoad, HeldApart
    <3> QED
      BY <1>5, <2>1, <3>2, <3>3, FinishStep
  <2> QED
    BY <1>f, <2>1
<1>6. ASSUME NEW s \in Sessions, NEW n \in 1 .. MaxNodes, NEW h \in {1, 2},
             create_complete_graph(s, n, h)
      PROVE CountInv'
  <2>1. PICK r \in GraphRun : Becomes(s, r) /\ r.ne = {}
    BY <1>6, GraphStarts
  <2>2. HeldBy(r) = {}
    BY <2>1, HeldByRuns
  <2> QED
    BY <1>6, <2>1, <2>2, NothingToLoad, SameEdges DEF create_complete_graph
<1>7. ASSUME NEW s \in Sessions, insert_vertex_simple(s) PROVE CountInv'
  <2>0. edges' = edges /\ run[s] \in GraphRun
    BY <1>7, VertexSimple
  <2>1. CASE ~Fail(s) /\ ~IdleNow(s)
    <3>1. PICK r \in GraphRun : Becomes(s, r) /\ r.ne = run[s].ne
      BY <1>7, <2>1, VertexSimple
    <3>2. HeldBy(r) \subseteq HeldBy(run[s])
      BY <2>0, <3>1, HeldByRuns
    <3> QED
      BY <2>0, <3>1, <3>2, NothingToLoad, SameEdges
  <2> QED
    BY <1>0, <1>f, <2>0, <2>1
<1>8. ASSUME NEW s \in Sessions, insert_edge_simple(s) PROVE CountInv'
  <2>0. run[s] \in GraphRun /\ HeldBy(run[s]) = run[s].ne /\ eseq \in Nat
    BY <1>8, EdgesSimple, HeldByRuns, LoadConstants DEF TInv, EntryIds
  <2>1. CASE ~Fail(s)
    <3>1. PICK new \in SUBSET Row :
             /\ eseq' \in EntryIds
             /\ \A e \in new : e[1] \in (eseq + 1) .. eseq'
             /\ \/ /\ edges' = edges
                   /\ \E r \in GraphRun : Becomes(s, r) /\ r.ne = run[s].ne \cup new
                \/ IdleNow(s) /\ edges' = edges \cup run[s].ne \cup new
      BY <1>8, <2>1, EdgesSimple
    <3>2. \A e \in new : e[1] \in Int /\ e[1] > eseq
      BY <2>0, <3>1, LoadConstants DEF EntryIds
    <3>3. CASE edges' = edges /\ \E r \in GraphRun : Becomes(s, r) /\ r.ne = run[s].ne \cup new
      <4>1. PICK r \in GraphRun : Becomes(s, r) /\ r.ne = run[s].ne \cup new
        BY <3>3
      <4>2. HeldBy(r) \subseteq HeldBy(run[s]) \cup new
        BY <2>0, <4>1, HeldByRuns
      <4> QED
        BY <3>2, <3>3, <4>1, <4>2, NothingToLoad, HeldApart
    <3>4. CASE IdleNow(s) /\ edges' = edges \cup run[s].ne \cup new
      <4>1. Becomes(s, Idle) /\ HeldBy(Idle) = {}
        BY <3>4, HeldByRuns DEF IdleNow, Becomes
      <4>2. edges' \subseteq edges \cup HeldBy(run[s]) \cup new
        BY <2>0, <3>4
      <4>3. HeldBy(Idle) \subseteq HeldBy(run[s]) \cup new
        BY <4>1
      <4> QED
        BY <3>2, <4>1, <4>2, <4>3, NothingToLoad, HeldApart
    <3> QED
      BY <3>1, <3>3, <3>4
  <2> QED
    BY <1>f, <2>1
<1>9. ASSUME NEW s \in Sessions, create_vertex(s) PROVE CountInv'
  <2>1. run' = run /\ edges' = edges
    BY <1>9, VertexCreated
  <2> QED
    BY <2>1 DEF CountInv, AllThere, HeldBy
<1>10. ASSUME NEW s \in Sessions, Abort(s) PROVE CountInv'
  BY <1>f, <1>10 DEF Abort
<1>11. CASE UNCHANGED vars
  BY <1>11 DEF vars, CountInv, AllThere, HeldBy
<1> QED
  BY <1>1, <1>2, <1>3, <1>4, <1>5, <1>6, <1>7, <1>8, <1>9, <1>10, <1>11 DEF Next

\* A sequence without repetition has as many elements as places.
LEMMA OnceCounted ==
  ASSUME NEW S, NEW q \in Seq(S), Once(q)
  PROVE  Cardinality(Elems(q)) = Len(q)
<1>1. DOMAIN q = 1 .. Len(q) /\ Len(q) \in Nat
  BY LenProperties
<1>2. IsFiniteSet(1 .. Len(q)) /\ Cardinality(1 .. Len(q)) = Len(q)
  BY <1>1, FS_Interval
<1>3. q \in Bijection(1 .. Len(q), Elems(q))
  BY <1>1 DEF Bijection, Injection, IsInjective, Surjection, Elems, Once
<1> QED
  BY <1>2, <1>3, FS_Bijection DEF ExistsBijection

\* A session's step leaves the calls of the others.
LEMMA OwnRun ==
  ASSUME TInv, NEW s \in Sessions,
         \/ \E f \in Files, b \in BOOLEAN : load_labels_from_file(s, f, b)
         \/ process_vertex_row(s)
         \/ \E f \in EdgeFiles : load_edges_from_file(s, f)
         \/ process_edge_row(s)
         \/ finish_batch_insert(s)
         \/ \E n \in 1 .. MaxNodes, h \in {1, 2} : create_complete_graph(s, n, h)
         \/ insert_vertex_simple(s)
         \/ insert_edge_simple(s)
         \/ create_vertex(s)
         \/ Abort(s)
  PROVE  \A t \in Sessions : t # s => run'[t] = run[t]
<1>1. CASE \E f \in Files, b \in BOOLEAN : load_labels_from_file(s, f, b)
  BY <1>1, LoadStarts DEF Becomes, TInv
<1>2. CASE process_vertex_row(s)
  BY <1>2, VertexRow DEF Becomes, IdleNow, Fail, TInv
<1>3. CASE \E f \in EdgeFiles : load_edges_from_file(s, f)
  BY <1>3, EdgesStart DEF Becomes, TInv
<1>4. CASE process_edge_row(s)
  BY <1>4, EdgeRowStep DEF Becomes, IdleNow, Fail, TInv
<1>5. CASE finish_batch_insert(s)
  BY <1>5, FinishStep DEF Becomes, IdleNow, Fail, TInv
<1>6. CASE \E n \in 1 .. MaxNodes, h \in {1, 2} : create_complete_graph(s, n, h)
  BY <1>6, GraphStarts DEF Becomes, TInv
<1>7. CASE insert_vertex_simple(s)
  BY <1>7, VertexSimple DEF Becomes, IdleNow, Fail, TInv
<1>8. CASE insert_edge_simple(s)
  BY <1>8, EdgesSimple DEF Becomes, IdleNow, Fail, TInv
<1>9. CASE create_vertex(s)
  BY <1>9, VertexCreated
<1>10. CASE Abort(s)
  BY <1>10 DEF Abort, Fail, TInv
<1> QED
  BY <1>1, <1>2, <1>3, <1>4, <1>5, <1>6, <1>7, <1>8, <1>9, <1>10

\* The end of a load makes as many rows visible as the file has.
LEMMA FinishCounts ==
  ASSUME TInv, VertexInv, CountInv, NEW s \in Sessions, finish_batch_insert(s), ~Fail(s)
  PROVE  \/ Cardinality(edges' \ edges) = run[s].n
         \/ Cardinality({i \in EntryIds : vertices'[i] > vertices[i]}) = run[s].n
<1>0. run[s].todo = <<>> /\ Len(run[s].todo) = 0
  BY DEF finish_batch_insert
<1>1. CASE /\ run[s] \in VertexRun
           /\ ~insert_batch_fails(s, run[s].buf)
           /\ vertices' = WithRows(run[s].rows \o run[s].buf)
  <2> DEFINE a == run[s].rows
             b == run[s].buf
             q == a \o b
  <2>1. /\ run[s].op = "vertices" /\ a \in Seq(EntryIds) /\ b \in Seq(EntryIds)
        /\ run[s].n \in Nat
    BY <1>1 DEF VertexRun
  <2>2. Fresh(s, b)
    BY <1>1, <2>1, InsertedIsFresh
  <2>3. q \in Seq(EntryIds) /\ Once(q) /\ \A i \in Elems(q) : vertices[i] = 0
    BY <2>1, <2>2, RowsGrow
  <2>4. Len(q) = Len(a) + Len(b) /\ Len(a) \in Nat /\ Len(b) \in Nat
    BY <2>1, ConcatProperties
  <2>5. Len(q) = run[s].n
    <3>1. Len(run[s].todo) + Len(b) + Len(a) = run[s].n
      BY <2>1 DEF CountInv, AllThere
    <3> HIDE DEF q, a, b
    <3> QED
      BY <1>0, <2>1, <2>4, <3>1
  <2>6. vertices' = WithRows(q)
    BY <1>1
  <2> HIDE DEF q, a, b
  <2>7. \A i \in EntryIds : vertices'[i] = vertices[i] + IF i \in Elems(q) THEN 1 ELSE 0
    BY <2>3, <2>6, Counted DEF TInv, Once
  <2>8. Elems(q) \subseteq EntryIds /\ \A i \in EntryIds : vertices[i] \in Nat
    BY <2>3 DEF Elems, TInv
  <2>9. {i \in EntryIds : vertices'[i] > vertices[i]} = Elems(q)
    BY <2>7, <2>8
  <2> QED
    BY <2>3, <2>5, <2>9, OnceCounted
<1>2. CASE run[s] \in EdgeRun /\ edges' = edges \cup run[s].ne \cup Elems(run[s].buf)
  <2>1. edges' \ edges = HeldBy(run[s])
    BY <1>2, HeldByRuns DEF CountInv
  <2>2. IsFiniteSet(HeldBy(run[s])) /\ 0 + Cardinality(HeldBy(run[s])) = run[s].n
    BY <1>0, <1>2 DEF CountInv, AllThere, EdgeRun
  <2>3. Cardinality(HeldBy(run[s])) = run[s].n
    BY <2>2, FS_CardinalityType
  <2> QED
    BY <2>1, <2>3
<1> QED
  BY <1>1, <1>2, FinishStep

\* A load that commits has brought every row of its file, whatever the size of
\* the batches and the rows left in the last of them (insert_batch,
\* finish_batch_insert; the loops of create_labels_from_csv_file and
\* create_edges_from_csv_file).
THEOREM LoadsBringEveryRow == Spec => LoadsWholeFile
<1>1. TInv /\ VertexInv /\ CountInv /\ [Next]_vars =>
        [\A s \in Sessions :
           /\ run[s].op \in {"vertices", "edges"} /\ run'[s].op = "idle"
           /\ <<vertices', edges'>> # <<vertices, edges>>
           => \/ Cardinality(edges' \ edges) = run[s].n
              \/ Cardinality({i \in EntryIds : vertices'[i] > vertices[i]}) = run[s].n]_vars
  <2> SUFFICES ASSUME TInv, VertexInv, CountInv, Next, NEW s \in Sessions,
                      run[s].op \in {"vertices", "edges"}, run'[s].op = "idle",
                      <<vertices', edges'>> # <<vertices, edges>>
               PROVE  \/ Cardinality(edges' \ edges) = run[s].n
                      \/ Cardinality({i \in EntryIds : vertices'[i] > vertices[i]}) = run[s].n
    OBVIOUS
  <2>1. \/ \E f \in Files, b \in BOOLEAN : load_labels_from_file(s, f, b)
        \/ process_vertex_row(s)
        \/ \E f \in EdgeFiles : load_edges_from_file(s, f)
        \/ process_edge_row(s)
        \/ finish_batch_insert(s)
        \/ \E n \in 1 .. MaxNodes, h \in {1, 2} : create_complete_graph(s, n, h)
        \/ insert_vertex_simple(s)
        \/ insert_edge_simple(s)
        \/ create_vertex(s)
        \/ Abort(s)
    BY OwnRun DEF Next
  <2>2. CASE finish_batch_insert(s)
    <3>1. ~Fail(s)
      BY DEF Fail
    <3> QED
      BY <2>2, <3>1, FinishCounts
  <2>3. CASE process_vertex_row(s) \/ process_edge_row(s) \/ Abort(s)
    BY <2>3, VertexRow, EdgeRowStep, Failed DEF Abort
  <2>4. CASE ~(finish_batch_insert(s) \/ process_vertex_row(s) \/ process_edge_row(s) \/ Abort(s))
    <3>1. run[s].op \in {"idle", "complete"}
      BY <2>1, <2>4 DEF load_labels_from_file, load_edges_from_file, create_complete_graph,
                        insert_vertex_simple, insert_edge_simple, create_vertex, Call
    <3> QED
      BY <3>1
  <2> QED
    BY <2>2, <2>3, <2>4
<1>2. Init => TInv /\ VertexInv /\ EdgeInv /\ CountInv
  <2> SUFFICES ASSUME Init PROVE CountInv
    BY UniqueInit
  <2>1. edges = {} /\ \A s \in Sessions : run[s] = Idle
    BY DEF Init
  <2> QED
    BY <2>1, HeldByRuns, NothingToLoad DEF CountInv
<1> QED
  BY <1>1, <1>2, LoadTypeStep, VertexStep, EdgeStep, CountStep, PTL DEF Spec, LoadsWholeFile
-----------------------------------------------------------------------------
(* Generated graphs *)

\* E joins each two of the n vertices that follow id m, once.
Clique(E, m, n) ==
    /\ \A e \in E : \E p \in PairsOf(n) : e[2] = m + p[1] /\ e[3] = m + p[2]
    /\ \A p \in PairsOf(n) : \E e \in E : e[2] = m + p[1] /\ e[3] = m + p[2]
    /\ \A e, f \in E : e[2] = f[2] /\ e[3] = f[3] => e = f

\* A generator whose rows are the ids that follow m.
Growing(r, m) ==
    /\ m \in Nat /\ Len(r.rows) <= r.at * r.n
    /\ \A i \in 1 .. Len(r.rows) : r.rows[i] = m + i
    /\ r.at = 1 => r.ne = {}
    /\ r.at = 2 => r.n <= Len(r.rows) /\ Clique(r.ne, m, r.n)

\* Two cliques, one behind the other, and a bridge from id 1 to id 2n.
Bridged(all, E, F, b, m, n) ==
    /\ all = E \cup F \cup {b}
    /\ Clique(E, m, n) /\ Clique(F, m + n, n)
    /\ b[2] = 1 /\ b[3] = 2 * n

\* A graph that a generator committed: one clique, or two and a bridge.
Made(g) == \E m \in Nat :
    /\ g.n \in Nat \ {0}
    /\ \A i \in 1 .. Len(g.rows) : g.rows[i] = m + i
    /\ \/ Len(g.rows) = g.n /\ Clique(g.edges, m, g.n)
       \/ /\ Len(g.rows) = 2 * g.n
          /\ \E E, F, b : Bridged(g.edges, E, F, b, m, g.n)

\* Nobody else draws ids while calls do not overlap.
GraphInv == ~overlap =>
    /\ \A s \in Sessions : run[s].op = "complete" => Growing(run[s], vseq - Len(run[s].rows))
    /\ \A g \in generated : Made(g)

\* Counting back from the last of n ids without a gap finds them all.
LEMMA EdgeSetIsClique ==
  ASSUME NEW n \in Nat, NEW m \in Int
  PROVE  Clique(EdgeSet(m + n, n), m, n)
<1> DEFINE upTo(p) == {q \in PairsOf(n) : q[1] < p[1] \/ (q[1] = p[1] /\ q[2] <= p[2])}
           edge(p) == <<eseq + Cardinality(upTo(p)), VertexOf(m + n, n, p[1]), VertexOf(m + n, n, p[2])>>
           E == EdgeSet(m + n, n)
<1>1. E = {edge(p) : p \in PairsOf(n)}
  BY DEF EdgeSet
<1>2. \A p \in PairsOf(n) : p = <<p[1], p[2]>> /\ p[1] \in Int /\ p[2] \in Int
  BY DEF PairsOf
<1>3. \A p \in PairsOf(n) : edge(p)[2] = m + p[1] /\ edge(p)[3] = m + p[2]
  BY <1>2 DEF VertexOf
<1> HIDE DEF edge, E
<1>4. \A e \in E : \E p \in PairsOf(n) : e = edge(p) /\ e[2] = m + p[1] /\ e[3] = m + p[2]
  BY <1>1, <1>3
<1>5. \A p \in PairsOf(n) : \E e \in E : e[2] = m + p[1] /\ e[3] = m + p[2]
  BY <1>1, <1>3
<1>6. ASSUME NEW e \in E, NEW f \in E, e[2] = f[2], e[3] = f[3] PROVE e = f
  <2>1. PICK p \in PairsOf(n) : e = edge(p) /\ e[2] = m + p[1] /\ e[3] = m + p[2]
    BY <1>4
  <2>2. PICK q \in PairsOf(n) : f = edge(q) /\ f[2] = m + q[1] /\ f[3] = m + q[2]
    BY <1>4
  <2>3. p[1] = q[1] /\ p[2] = q[2]
    BY <1>2, <1>6, <2>1, <2>2
  <2>4. p = q
    BY <1>2, <2>3
  <2> QED
    BY <2>1, <2>2, <2>4
<1>7. Clique(E, m, n)
  BY <1>4, <1>5, <1>6 DEF Clique
<1> QED
  BY <1>7 DEF E

\* The ends of a clique's edges, and that unordered pairs tell them apart.
LEMMA CliqueEnds ==
  ASSUME NEW n \in Nat, NEW m \in Nat, NEW E, Clique(E, m, n)
  PROVE  /\ \A e \in E : /\ e[2] \in (m + 1) .. (m + n) /\ e[3] \in (m + 1) .. (m + n)
                         /\ e[2] < e[3]
         /\ \A e, f \in E : {e[2], e[3]} = {f[2], f[3]} => e = f
<1>1. \A p \in PairsOf(n) : p[1] \in 1 .. n /\ p[2] \in 1 .. n /\ p[1] < p[2]
  BY DEF PairsOf
<1>2. \A e \in E : /\ e[2] \in (m + 1) .. (m + n) /\ e[3] \in (m + 1) .. (m + n)
                   /\ e[2] < e[3]
  <2> TAKE e \in E
  <2>1. PICK p \in PairsOf(n) : e[2] = m + p[1] /\ e[3] = m + p[2]
    BY DEF Clique
  <2> QED
    BY <1>1, <2>1
<1>3. ASSUME NEW e \in E, NEW f \in E, {e[2], e[3]} = {f[2], f[3]} PROVE e = f
  <2>1. e[2] \in Int /\ e[3] \in Int /\ f[2] \in Int /\ f[3] \in Int /\ e[2] < e[3] /\ f[2] < f[3]
    BY <1>2
  <2>2. \/ e[2] = f[2] /\ e[3] = f[3]
        \/ e[2] = f[3] /\ e[3] = f[2]
    BY <1>3, <2>1
  <2>3. e[2] = f[2] /\ e[3] = f[3]
    BY <2>1, <2>2
  <2> QED
    BY <2>3 DEF Clique
<1> QED
  BY <1>2, <1>3

\* The pairs of different members of A, and those that edges of E join.
PairsIn(A) == {{a, b} : a, b \in A} \ {{a} : a \in A}
JoinedIn(E, A) == {{e[2], e[3]} : e \in {f \in E : f[2] \in A /\ f[3] \in A}}

LEMMA InPairs ==
  ASSUME NEW A, NEW x
  PROVE  x \in PairsIn(A) <=> \E a, b \in A : x = {a, b} /\ a # b
<1>1. x \in PairsIn(A) <=> (\E a, b \in A : x = {a, b}) /\ ~\E a \in A : x = {a}
  BY DEF PairsIn
<1>2. \A a, b : a # b => \A c : {a, b} # {c}
  OBVIOUS
<1>3. \A a : {a, a} = {a}
  OBVIOUS
<1> QED
  BY <1>1, <1>2, <1>3

LEMMA InJoined ==
  ASSUME NEW E, NEW A, NEW x
  PROVE  x \in JoinedIn(E, A) <=> \E e \in E : e[2] \in A /\ e[3] \in A /\ x = {e[2], e[3]}
BY DEF JoinedIn

\* The edges of all that stay within the vertices after m are a clique there:
\* they join each two of them.
LEMMA CliqueJoins ==
  ASSUME NEW n \in Nat, NEW m \in Nat, NEW E, Clique(E, m, n), NEW all, E \subseteq all,
         NEW A, A = (m + 1) .. (m + n),
         \A e \in all : e[2] \in A /\ e[3] \in A => e \in E
  PROVE  PairsIn(A) = JoinedIn(all, A)
<1>1. \A e \in E : e[2] \in A /\ e[3] \in A /\ e[2] # e[3]
  BY CliqueEnds
<1>2. ASSUME NEW a \in A, NEW b \in A, a < b PROVE \E e \in E : {e[2], e[3]} = {a, b}
  <2> DEFINE p == <<a - m, b - m>>
  <2>1. p \in PairsOf(n) /\ m + p[1] = a /\ m + p[2] = b
    BY <1>2 DEF PairsOf
  <2> HIDE DEF p
  <2>2. PICK e \in E : e[2] = m + p[1] /\ e[3] = m + p[2]
    BY <2>1 DEF Clique
  <2> QED
    BY <2>1, <2>2
<1>3. ASSUME NEW a \in A, NEW b \in A, a # b PROVE \E e \in E : {e[2], e[3]} = {a, b}
  <2>1. a < b \/ b < a
    BY <1>3
  <2>2. CASE b < a
    <3>1. PICK e \in E : {e[2], e[3]} = {b, a}
      BY <1>2, <2>2
    <3> QED
      BY <3>1
  <2> QED
    BY <1>2, <2>1, <2>2
<1>4. ASSUME NEW x PROVE x \in PairsIn(A) <=> x \in JoinedIn(all, A)
  <2>1. ASSUME x \in PairsIn(A) PROVE x \in JoinedIn(all, A)
    <3>1. PICK a \in A, b \in A : x = {a, b} /\ a # b
      BY <2>1, InPairs
    <3>2. PICK e \in E : {e[2], e[3]} = x
      BY <1>3, <3>1
    <3> QED
      BY <1>1, <3>2, InJoined
  <2>2. ASSUME x \in JoinedIn(all, A) PROVE x \in PairsIn(A)
    <3>1. PICK e \in all : e[2] \in A /\ e[3] \in A /\ x = {e[2], e[3]}
      BY <2>2, InJoined
    <3> QED
      BY <1>1, <3>1, InPairs
  <2> QED
    BY <2>1, <2>2
<1> QED
  BY <1>4

\* Each of the two is complete, and the bridge joins no pair again.
LEMMA TwoCliques ==
  ASSUME NEW n \in Nat \ {0}, NEW m \in Nat, NEW all, NEW E, NEW F, NEW b,
         Bridged(all, E, F, b, m, n)
  PROVE  LET A == (m + 1) .. (m + n)
             B == ((m + n) + 1) .. ((m + n) + n)
         IN  /\ PairsIn(A) = JoinedIn(all, A)
             /\ PairsIn(B) = JoinedIn(all, B)
             /\ \A e, f \in all : {e[2], e[3]} = {f[2], f[3]} => e = f
<1> DEFINE mid == m + n
           A == (m + 1) .. (m + n)
           B == (mid + 1) .. (mid + n)
<1>1. /\ all = E \cup F \cup {b} /\ Clique(E, m, n) /\ Clique(F, mid, n)
      /\ b[2] = 1 /\ b[3] = 2 * n
  BY DEF Bridged
<1>2. A = (m + 1) .. (m + n) /\ B = (mid + 1) .. (mid + n) /\ mid = m + n
  OBVIOUS
<1>3. mid \in Nat
  OBVIOUS
<1> HIDE DEF A, B, mid
<1>4. \A e \in E : e[2] \in A /\ e[3] \in A /\ e[2] < e[3]
  BY <1>1, <1>2, CliqueEnds
<1>5. \A e \in F : e[2] \in B /\ e[3] \in B /\ e[2] < e[3]
  BY <1>1, <1>2, <1>3, CliqueEnds
<1>6. \A i \in A : i \notin B /\ i \in Int
  BY <1>2
<1>7. ~(b[2] \in A /\ b[3] \in A) /\ ~(b[2] \in B /\ b[3] \in B)
  BY <1>1, <1>2
<1>8. PairsIn(A) = JoinedIn(all, A)
  <2>1. \A e \in all : e[2] \in A /\ e[3] \in A => e \in E
    BY <1>1, <1>5, <1>6, <1>7
  <2>2. E \subseteq all /\ n \in Nat
    BY <1>1
  <2> QED
    BY <1>1, <1>2, <2>1, <2>2, CliqueJoins
<1>9. PairsIn(B) = JoinedIn(all, B)
  <2>1. \A e \in all : e[2] \in B /\ e[3] \in B => e \in F
    BY <1>1, <1>4, <1>6, <1>7
  <2>2. F \subseteq all /\ n \in Nat
    BY <1>1
  <2> QED
    BY <1>1, <1>2, <1>3, <2>1, <2>2, CliqueJoins
<1>10. ASSUME NEW e \in all, NEW f \in all, {e[2], e[3]} = {f[2], f[3]} PROVE e = f
  <2>1. CASE e \in E /\ f \in E
    BY <1>1, <1>10, <2>1, CliqueEnds
  <2>2. CASE e \in F /\ f \in F
    BY <1>1, <1>3, <1>10, <2>2, CliqueEnds
  <2>3. \A x \in E : \A y : {x[2], x[3]} = {y[2], y[3]} => y[2] \in A /\ y[3] \in A
    BY <1>4
  <2>4. \A x \in F : \A y : {x[2], x[3]} = {y[2], y[3]} => y[2] \in B /\ y[3] \in B
    BY <1>5
  <2>5. ~(e \in E /\ f \in F) /\ ~(e \in F /\ f \in E)
    BY <1>5, <1>6, <1>10, <2>3
  <2>6. ~(e \in E \cup F /\ f = b) /\ ~(f \in E \cup F /\ e = b)
    BY <1>7, <1>10, <2>3, <2>4
  <2> QED
    BY <1>1, <2>1, <2>2, <2>5, <2>6
<1> QED
  BY <1>8, <1>9, <1>10 DEF A, B, mid

\* A graph that was made is complete, or its halves are.
LEMMA MadeIsComplete ==
  ASSUME NEW g, Made(g), NEW k \in 0 .. (Len(g.rows) \div g.n - 1)
  PROVE  LET half == {g.rows[i] : i \in (k * g.n + 1) .. ((k + 1) * g.n)} IN
         /\ PairsIn(half) = JoinedIn(g.edges, half)
         /\ \A e, f \in g.edges : {e[2], e[3]} = {f[2], f[3]} => e = f
<1> DEFINE n == g.n
           all == g.edges
           rows == g.rows
           len == Len(g.rows)
           half == {rows[i] : i \in (k * n + 1) .. ((k + 1) * n)}
<1>1. PICK m \in Nat :
        /\ n \in Nat \ {0}
        /\ \A i \in 1 .. len : rows[i] = m + i
        /\ \/ len = n /\ Clique(all, m, n)
           \/ /\ len = 2 * n
              /\ \E E, F, b : Bridged(all, E, F, b, m, n)
  BY DEF Made
<1>2. k \in 0 .. (len \div n - 1)
  OBVIOUS
<1> HIDE DEF n, all, rows, len
<1>5. ASSUME NEW lo \in Int, NEW hi \in Int, 1 <= lo, hi <= len, len \in Nat
      PROVE  {rows[i] : i \in lo .. hi} = (m + lo) .. (m + hi)
  <2>1. \A i \in lo .. hi : i \in Int /\ rows[i] = m + i
    BY <1>1, <1>5
  <2>2. \A j \in (m + lo) .. (m + hi) : j - m \in lo .. hi /\ rows[j - m] = j
    BY <1>1, <2>1
  <2>3. m \in Int /\ lo \in Int /\ hi \in Int
    BY <1>1, <1>5
  <2> QED
    BY <2>1, <2>2, <2>3
<1>3. CASE len = n /\ Clique(all, m, n)
  <2>1. k = 0
    BY <1>1, <1>2, <1>3
  <2>2. k * n + 1 = 1 /\ (k + 1) * n = n
    BY <1>1, <2>1
  <2>3. half = (m + 1) .. (m + n)
    <3>1. half = {rows[i] : i \in 1 .. n}
      BY <2>2
    <3>2. {rows[i] : i \in 1 .. n} = (m + 1) .. (m + n)
      BY <1>1, <1>3, <1>5
    <3> QED
      BY <3>1, <3>2
  <2>4. PairsIn(half) = JoinedIn(all, half)
    <3> HIDE DEF half
    <3> QED
      BY <1>1, <1>3, <2>3, CliqueJoins
  <2>5. \A e, f \in all : {e[2], e[3]} = {f[2], f[3]} => e = f
    BY <1>1, <1>3, CliqueEnds
  <2> QED
    BY <2>4, <2>5 DEF n, all, rows
<1>4. CASE /\ len = 2 * n
           /\ \E E, F, b : Bridged(all, E, F, b, m, n)
  <2> DEFINE A == (m + 1) .. (m + n)
             B == ((m + n) + 1) .. ((m + n) + n)
  <2>1. k = 0 \/ k = 1
    BY <1>1, <1>2, <1>4
  <2>2. /\ k = 0 => k * n + 1 = 1 /\ (k + 1) * n = n
        /\ k = 1 => k * n + 1 = n + 1 /\ (k + 1) * n = 2 * n
    BY <1>1
  <2>3. half = A \/ half = B
    <3>1. CASE k = 0
      <4>1. half = {rows[i] : i \in 1 .. n}
        BY <2>2, <3>1
      <4>2. n \in Int /\ len \in Nat /\ 1 \in Int /\ 1 <= 1 /\ n <= len
        BY <1>1, <1>4
      <4>3. {rows[i] : i \in 1 .. n} = A
        BY <4>2, <1>5
      <4> QED
        BY <4>1, <4>3
    <3>2. CASE k = 1
      <4> DEFINE lo == n + 1
                 hi == 2 * n
      <4>1. half = {rows[i] : i \in lo .. hi}
        BY <2>2, <3>2
      <4>2. lo \in Int /\ hi \in Int /\ len \in Nat /\ 1 <= lo /\ hi <= len
        BY <1>1, <1>4
      <4>3. (m + lo) .. (m + hi) = B
        BY <1>1
      <4> HIDE DEF lo, hi, B
      <4>4. {rows[i] : i \in lo .. hi} = (m + lo) .. (m + hi)
        BY <4>2, <1>5
      <4> QED
        BY <4>1, <4>3, <4>4
    <3> QED
      BY <2>1, <3>1, <3>2
  <2>4. /\ PairsIn(A) = JoinedIn(all, A)
        /\ PairsIn(B) = JoinedIn(all, B)
        /\ \A e, f \in all : {e[2], e[3]} = {f[2], f[3]} => e = f
    <3>1. PICK E, F, b : Bridged(all, E, F, b, m, n)
      BY <1>4
    <3> QED
      BY <1>1, <3>1, TwoCliques
  <2> HIDE DEF half
  <2>5. PairsIn(half) = JoinedIn(all, half)
    BY <2>3, <2>4
  <2> QED
    BY <2>4, <2>5 DEF n, all, rows, half
<1> QED
  BY <1>1, <1>3, <1>4

\* A run that is no generator's.
LEMMA NoGenerator ==
  /\ Idle.op # "complete"
  /\ \A r \in VertexRun \cup EdgeRun : r.op # "complete"
BY DEF Idle, VertexRun, EdgeRun

\* The step of a session that is alone: its own run has to grow as it should,
\* and what it commits has to be made.
LEMMA GraphFrame ==
  ASSUME TInv, GraphInv, NEW s \in Sessions, NEW r, Becomes(s, r),
         ~overlap' => /\ Alone(s)
                      /\ r.op = "complete" => Growing(r, vseq' - Len(r.rows))
                      /\ \A g \in generated' : g \in generated \/ Made(g)
  PROVE  GraphInv'
<1> SUFFICES ASSUME ~overlap'
             PROVE  /\ \A t \in Sessions : run'[t].op = "complete" =>
                         Growing(run'[t], vseq' - Len(run'[t].rows))
                    /\ \A g \in generated' : Made(g)
  BY DEF GraphInv
<1>1. \A t \in Sessions : run'[t] = IF t = s THEN r ELSE run[t]
  BY DEF TInv, Becomes
<1>2. \A t \in Sessions : t # s => run'[t].op = "idle"
  BY <1>1 DEF Alone, Others
<1>3. ~overlap
  BY DEF Alone
<1>4. \A g \in generated' : Made(g)
  BY <1>3 DEF GraphInv
<1>5. run'[s] = r
  BY <1>1
<1> QED
  BY <1>2, <1>4, <1>5

\* A generator's next vertex follows the others.
LEMMA NextVertexGrows ==
  ASSUME TInv, SeqInv, GraphInv, NEW s \in Sessions, insert_vertex_simple(s), ~overlap,
         NEW r \in GraphRun, r = [run[s] EXCEPT !.rows = Append(@, vseq + 1)], run[s] \in GraphRun,
         Len(run[s].rows) < run[s].at * run[s].n
  PROVE  Growing(r, (vseq + 1) - Len(r.rows))
<1> DEFINE rows == run[s].rows
           len == Len(rows)
           m == vseq - len
<1>1. /\ run[s].op = "complete" /\ rows \in Seq(EntryIds) /\ run[s].n \in Nat
      /\ run[s].at \in {1, 2} /\ vseq \in Nat
  BY LoadConstants DEF GraphRun, TInv, EntryIds
<1>2. Growing(run[s], m)
  BY <1>1 DEF GraphInv
<1>3. /\ r.rows = Append(rows, vseq + 1) /\ r.at = run[s].at /\ r.n = run[s].n
      /\ r.ne = run[s].ne
  BY DEF GraphRun
<1>4. /\ len \in Nat /\ Len(r.rows) = len + 1 /\ r.rows[len + 1] = vseq + 1
      /\ \A i \in 1 .. len : r.rows[i] = rows[i]
  <2>1. vseq + 1 \in EntryIds
    BY <1>1, <1>3, LoadConstants DEF GraphRun, insert_vertex_simple, EntryIds
  <2> QED
    BY <1>1, <1>3, <2>1, AppendProperties
<1>5. m \in Nat /\ \A i \in 1 .. len : rows[i] = m + i
  BY <1>2 DEF Growing
<1>6. (vseq + 1) - Len(r.rows) = m
  BY <1>1, <1>4
<1> DEFINE len1 == Len(r.rows)
<1>7. len1 = len + 1 /\ m = vseq - len /\ len \in Nat
  BY <1>4
<1>8. len < run[s].at * run[s].n
  OBVIOUS
<1>9. r.at = 1 => r.ne = {}
  BY <1>2, <1>3 DEF Growing
<1>10. r.at = 2 => run[s].n <= len /\ Clique(r.ne, m, r.n)
  BY <1>2, <1>3 DEF Growing
<1> HIDE DEF len, m, len1, rows
<1>11. \A i \in 1 .. len1 : r.rows[i] = m + i
  <2> TAKE i \in 1 .. len1
  <2>1. CASE i \in 1 .. len
    BY <1>4, <1>5, <2>1
  <2>2. CASE i = len + 1
    BY <1>1, <1>4, <1>7, <2>2
  <2>3. i \in 1 .. len \/ i = len + 1
    BY <1>7
  <2> QED
    BY <2>1, <2>2, <2>3
<1>12. len1 <= r.at * r.n
  <2>1. run[s].at * run[s].n \in Nat
    BY <1>1
  <2> DEFINE bound == run[s].at * run[s].n
  <2>2. bound \in Nat /\ len < bound /\ r.at * r.n = bound
    BY <1>3, <1>8, <2>1
  <2> HIDE DEF bound
  <2> QED
    BY <1>7, <2>2
<1>13. r.at = 2 => r.n <= len1
  BY <1>1, <1>3, <1>7, <1>10
<1>14. Growing(r, m)
  BY <1>5, <1>9, <1>10, <1>11, <1>12, <1>13 DEF Growing, len1
<1> QED
  BY <1>6, <1>14

\* A generator whose vertices are all there: its last row, and how many it has.
Full(r) == Len(r.rows) = r.at * r.n

LEMMA LastOfGrowing ==
  ASSUME NEW r \in GraphRun, NEW m, Growing(r, m), Full(r), NEW len, len = Len(r.rows)
  PROVE  /\ len \in Nat
         /\ r.at = 1 => len = r.n /\ r.rows[len] = m + r.n
         /\ r.at = 2 => len = 2 * r.n /\ r.rows[len] = (m + r.n) + r.n
<1>1. r.n \in Nat \ {0} /\ r.at \in {1, 2}
  BY LoadConstants DEF GraphRun
<1>2. m \in Nat /\ \A i \in 1 .. len : r.rows[i] = m + i
  BY DEF Growing
<1>0. len = r.at * r.n
  BY DEF Full
<1>3. CASE r.at = 1
  <2>1. len = r.n
    BY <1>0, <1>1, <1>3
  <2>2. len \in 1 .. len
    BY <1>1, <2>1
  <2> QED
    BY <1>1, <1>2, <1>3, <2>1, <2>2
<1>4. CASE r.at = 2
  <2> DEFINE n == r.n
  <2>1. n \in Nat \ {0} /\ len = 2 * n
    BY <1>0, <1>1, <1>4
  <2> HIDE DEF n
  <2>2. len \in 1 .. len /\ m + len = (m + n) + n /\ len \in Nat
    BY <1>2, <2>1
  <2>3. r.rows[len] = (m + n) + n
    BY <1>2, <2>2
  <2> QED
    BY <1>4, <2>1, <2>2, <2>3 DEF n
<1> QED
  BY <1>1, <1>3, <1>4

\* The edges of a generated graph are drawn once all its vertices are there:
\* one half is complete, and then either the other one follows or the graph is
\* made.
LEMMA EdgesMake ==
  ASSUME TInv, SeqInv, GraphInv, NEW s \in Sessions, insert_edge_simple(s), ~Fail(s), ~overlap
  PROVE  \/ /\ generated' = generated
            /\ \E r \in GraphRun : Becomes(s, r) /\ Growing(r, vseq - Len(r.rows))
         \/ IdleNow(s) /\ \A g \in generated' : g \in generated \/ Made(g)
<1> DEFINE r == run[s]
           n == r.n
           k == Cardinality(PairsOf(r.n))
           b == <<eseq + k + 1, 1, 2 * r.n>>
           bridge == IF r.at = 2 THEN {b} ELSE {}
           lid == r.rows[Len(r.rows)]
           new == EdgeSet(lid, r.n)
           all == r.ne \cup new \cup bridge
           drawn == eseq + k + Cardinality(bridge)
           g == [rows |-> r.rows, n |-> r.n, edges |-> all]
           next == [r EXCEPT !.ne = all, !.at = @ + 1]
           len == Len(r.rows)
           m == vseq - len
<1>1. /\ IF drawn > EntryIdMax \/ \E e \in all : {e[2], e[3]} \ EntryIds # {} THEN Fail(s)
         ELSE IF r.at < r.halves
              THEN Advance(s, next)
              ELSE generated' = generated \cup {g} /\ IdleNow(s)
      /\ r.op = "complete" /\ len = r.at * r.n
  BY DEF insert_edge_simple, IdleNow
<1>2. ~(drawn > EntryIdMax) /\ ~\E e \in all : {e[2], e[3]} \ EntryIds # {}
  <2> HIDE DEF drawn, all, next, g, len
  <2> QED
    BY <1>1
<1>3. /\ r.at < r.halves => Becomes(s, next) /\ generated' = generated
      /\ ~(r.at < r.halves) => generated' = generated \cup {g} /\ IdleNow(s)
  <2> HIDE DEF drawn, all, next, g, len
  <2> QED
    BY <1>1, <1>2 DEF Advance, Becomes
<1>4. /\ r \in GraphRun /\ r.rows \in Seq(EntryIds) /\ n \in 1 .. MaxNodes /\ r.at \in {1, 2}
      /\ r.halves \in {1, 2} /\ vseq \in Nat /\ eseq \in EntryIds
  BY RunFields, LoadConstants DEF GraphRun, TInv, EntryIds, insert_edge_simple
<1>5. n \in Nat \ {0} /\ len \in Nat
  BY <1>4, LoadConstants
<1>6. Growing(r, m)
  BY <1>1 DEF GraphInv
<1>7. m \in Nat /\ \A i \in 1 .. len : r.rows[i] = m + i
  BY <1>6 DEF Growing
<1>l. /\ r.at = 1 => len = n /\ lid = m + n
      /\ r.at = 2 => len = 2 * n /\ lid = (m + n) + n
  <2> DEFINE q == run[s]
  <2>1. q \in GraphRun /\ Growing(q, m) /\ Full(q) /\ len = Len(q.rows)
    BY <1>1, <1>4, <1>6 DEF Full
  <2>2. lid = q.rows[len] /\ n = q.n /\ r.at = q.at
    OBVIOUS
  <2> HIDE DEF q, len, m, lid, n
  <2>3. /\ q.at = 1 => len = q.n /\ q.rows[len] = m + q.n
        /\ q.at = 2 => len = 2 * q.n /\ q.rows[len] = (m + q.n) + q.n
    BY <2>1, LastOfGrowing
  <2> QED
    BY <2>2, <2>3
<1>8. r.at = 1 => r.ne = {} /\ bridge = {} /\ len = n
  BY <1>6, <1>l DEF Growing
<1>9. r.at = 2 => Clique(r.ne, m, n) /\ bridge = {b} /\ len = 2 * n
  BY <1>6, <1>l DEF Growing
<1>a. b[2] = 1 /\ b[3] = 2 * n
  OBVIOUS
<1>b. m = vseq - len
  OBVIOUS
<1>c. all = r.ne \cup new \cup bridge
  OBVIOUS
<1>10. n \in Nat /\ m \in Int /\ m + n \in Int
  BY <1>5, <1>7
<1>d. new = EdgeSet(lid, n)
  OBVIOUS
<1> HIDE DEF b, bridge, k, drawn, m, n, lid, new
<1>11. r.at = 1 => Clique(new, m, n)
  BY <1>l, <1>d, <1>10, EdgeSetIsClique
<1>12. r.at = 2 => Clique(new, m + n, n)
  <2> DEFINE mid == m + n
  <2>1. mid \in Int /\ n \in Nat
    BY <1>10
  <2>2. r.at = 2 => new = EdgeSet(mid + n, n)
    BY <1>l, <1>d
  <2> HIDE DEF mid
  <2>3. Clique(EdgeSet(mid + n, n), mid, n)
    BY <2>1, EdgeSetIsClique
  <2>4. r.at = 2 => Clique(new, mid, n)
    BY <2>2, <2>3
  <2> QED
    BY <2>4 DEF mid
<1> HIDE DEF all
<1>13. CASE r.at < r.halves
  <2>1. r.at = 1
    BY <1>4, <1>13
  <2>2. Clique(all, m, n)
    <3>1. all = new
      BY <1>8, <1>c, <2>1
    <3> QED
      BY <1>11, <2>1, <3>1
  <2>3. all \subseteq Row
    <3>1. /\ \A e \in new : e[1] \in (eseq + 1) .. (eseq + k)
          /\ \A e \in new : e = <<e[1], e[2], e[3]>>
          /\ k \in Nat
      BY <1>4, <1>5, Numbering DEF new, k, n
    <3>2. all = new /\ drawn = eseq + k
      <4>1. Cardinality({}) = 0
        BY FS_EmptySet
      <4>2. eseq \in Nat
        BY <1>4, LoadConstants DEF EntryIds
      <4>3. all = new /\ bridge = {}
        BY <1>8, <1>c, <2>1
      <4>4. drawn = eseq + k + Cardinality(bridge)
        BY DEF drawn
      <4>5. drawn = eseq + k + 0
        BY <4>1, <4>3, <4>4
      <4> QED
        BY <3>1, <4>2, <4>3, <4>5
    <3>3. \A e \in new : e[1] \in EntryIds
      BY <1>2, <1>4, <3>1, <3>2, LoadConstants DEF EntryIds
    <3>4. \A e \in all : e[2] \in EntryIds /\ e[3] \in EntryIds
      BY <1>2
    <3> QED
      BY <3>1, <3>2, <3>3, <3>4 DEF Row
  <2>4. next \in GraphRun /\ next.rows = r.rows /\ next.ne = all /\ next.at = 2 /\ next.n = n
    <3> DEFINE at == r.at + 1
    <3>1. at \in {1, 2} /\ all \in SUBSET Row /\ r \in GraphRun /\ at = 2
      BY <1>4, <2>1, <2>3
    <3>2. next = [r EXCEPT !.ne = all, !.at = at]
      OBVIOUS
    <3> HIDE DEF at, next, r
    <3> QED
      BY <3>1, <3>2 DEF GraphRun, n
  <2>5. Len(next.rows) = len /\ len = n
    BY <1>8, <2>1, <2>4
  <2> HIDE DEF next, len
  <2>6. len <= 2 * n /\ n <= len
    BY <1>5, <2>5
  <2>7. Growing(next, m)
    BY <1>7, <2>2, <2>4, <2>5, <2>6 DEF Growing
  <2>8. vseq - Len(next.rows) = m
    BY <1>b, <2>5
  <2> QED
    BY <1>3, <1>13, <2>4, <2>7, <2>8
<1>14. CASE ~(r.at < r.halves)
  <2>1. Made(g)
    <3>1. g.rows = r.rows /\ g.n = n /\ g.edges = all /\ Len(g.rows) = len
      BY DEF n
    <3>2. (len = n /\ Clique(all, m, n)) \/ (len = 2 * n /\ Bridged(all, r.ne, new, b, m, n))
      <4>1. CASE r.at = 1
        <5>1. all = new
          BY <1>8, <1>c, <4>1
        <5> QED
          BY <1>8, <1>11, <4>1, <5>1
      <4>2. CASE r.at = 2
        BY <1>9, <1>12, <1>a, <1>c, <4>2 DEF Bridged
      <4> QED
        BY <1>4, <4>1, <4>2
    <3> HIDE DEF g, len, n
    <3> QED
      BY <1>5, <1>7, <3>1, <3>2 DEF Made
  <2> QED
    BY <1>3, <1>14, <2>1
<1> QED
  BY <1>13, <1>14

\* Every step keeps the ids of a generator without a gap.
LEMMA GraphStep == TInv /\ SeqInv /\ GraphInv /\ [Next]_vars => GraphInv'
<1> SUFFICES ASSUME TInv, SeqInv, GraphInv, [Next]_vars PROVE GraphInv'
  OBVIOUS
<1>0. ASSUME NEW s \in Sessions, NEW r, Becomes(s, r), r.op # "complete", generated' = generated,
             \/ run[s].op # "idle" /\ overlap' = overlap
             \/ overlap' = (overlap \/ \E t \in Others(s) : run[t].op # "idle")
      PROVE  GraphInv'
  <2>1. ~overlap' => Alone(s)
    BY <1>0, WhoIsAlone
  <2> QED
    BY <1>0, <2>1, GraphFrame
<1>f. ASSUME NEW s \in Sessions, run[s].op # "idle", Fail(s) PROVE GraphInv'
  BY <1>0, <1>f, NoGenerator DEF Fail, Becomes, Stay
<1>1. ASSUME NEW s \in Sessions, NEW f \in Files, NEW b \in BOOLEAN,
             load_labels_from_file(s, f, b)
      PROVE GraphInv'
  <2>1. PICK r \in VertexRun : Becomes(s, r)
    BY <1>1, LoadStarts
  <2> QED
    BY <1>0, <1>1, <2>1, NoGenerator DEF load_labels_from_file, Call
<1>2. ASSUME NEW s \in Sessions, process_vertex_row(s) PROVE GraphInv'
  <2>0. run[s].op # "idle" /\ overlap' = overlap /\ generated' = generated
    BY <1>2 DEF process_vertex_row, Fail, Advance, Stay
  <2>1. CASE ~Fail(s)
    <3>1. PICK r \in VertexRun : IdleNow(s) \/ Becomes(s, r)
      BY <1>2, <2>1, VertexRow
    <3> QED
      BY <1>0, <2>0, <3>1, NoGenerator DEF IdleNow, Becomes
  <2> QED
    BY <1>f, <2>0, <2>1
<1>3. ASSUME NEW s \in Sessions, NEW f \in EdgeFiles, load_edges_from_file(s, f) PROVE GraphInv'
  <2>1. PICK r \in EdgeRun : Becomes(s, r)
    BY <1>3, EdgesStart
  <2> QED
    BY <1>0, <1>3, <2>1, NoGenerator DEF load_edges_from_file, Call
<1>4. ASSUME NEW s \in Sessions, process_edge_row(s) PROVE GraphInv'
  <2>0. run[s].op # "idle" /\ overlap' = overlap /\ generated' = generated
    BY <1>4 DEF process_edge_row, Fail, Advance, Stay
  <2>1. CASE ~Fail(s)
    <3>1. PICK r \in EdgeRun : IdleNow(s) \/ Becomes(s, r)
      BY <1>4, <2>1, EdgeRowStep
    <3> QED
      BY <1>0, <2>0, <3>1, NoGenerator DEF IdleNow, Becomes
  <2> QED
    BY <1>f, <2>0, <2>1
<1>5. ASSUME NEW s \in Sessions, finish_batch_insert(s) PROVE GraphInv'
  <2>0. run[s].op # "idle" /\ overlap' = overlap /\ generated' = generated
    BY <1>5 DEF finish_batch_insert, Fail, Stay
  <2>1. Becomes(s, Idle)
    BY <1>5 DEF finish_batch_insert, Fail, Becomes
  <2> QED
    BY <1>0, <2>0, <2>1, NoGenerator
<1>6. ASSUME NEW s \in Sessions, NEW n \in 1 .. MaxNodes, NEW h \in {1, 2},
             create_complete_graph(s, n, h)
      PROVE GraphInv'
  <2> DEFINE r == [Idle EXCEPT !.op = "complete", !.n = n, !.at = 1, !.halves = h]
  <2>1. Becomes(s, r) /\ generated' = generated /\ vseq' = vseq
    BY <1>6 DEF create_complete_graph, Call, Becomes
  <2>2. ~overlap' => Alone(s)
    BY <1>6, WhoIsAlone DEF create_complete_graph, Call
  <2>3. r.rows = <<>> /\ r.ne = {} /\ r.at = 1 /\ r.n = n
    BY DEF Idle
  <2> HIDE DEF r
  <2>4. Len(r.rows) = 0 /\ vseq \in Nat
    BY <2>3, LoadConstants DEF TInv, EntryIds
  <2>5. Growing(r, vseq')
    BY <2>1, <2>3, <2>4 DEF Growing
  <2>6. vseq' - Len(r.rows) = vseq'
    BY <2>1, <2>4
  <2> QED
    BY <2>1, <2>2, <2>5, <2>6, GraphFrame
<1>7. ASSUME NEW s \in Sessions, insert_vertex_simple(s) PROVE GraphInv'
  <2>0. run[s] \in GraphRun /\ run[s].op # "idle" /\ overlap' = overlap /\ generated' = generated
    BY <1>7, VertexSimple DEF insert_vertex_simple, Fail, Advance, Stay
  <2>1. CASE ~Fail(s) /\ ~IdleNow(s)
    <3> DEFINE r == [run[s] EXCEPT !.rows = Append(@, vseq + 1)]
    <3>1. Becomes(s, r) /\ vseq' = vseq + 1 /\ Len(run[s].rows) < run[s].at * run[s].n
      BY <1>7, <2>1 DEF insert_vertex_simple, Advance, IdleNow, Becomes
    <3>2. vseq' \in EntryIds
      BY <1>7, <2>1, VertexSimple
    <3>3. r \in GraphRun
      <4>1. Append(run[s].rows, vseq + 1) \in Seq(EntryIds)
        BY <2>0, <3>1, <3>2 DEF GraphRun
      <4> QED
        BY <2>0, <4>1 DEF GraphRun
    <3>4. r = [run[s] EXCEPT !.rows = Append(@, vseq + 1)]
      OBVIOUS
    <3> HIDE DEF r
    <3>5. ~overlap' => Alone(s) /\ Growing(r, vseq' - Len(r.rows))
      <4>1. ~overlap => Growing(r, (vseq + 1) - Len(r.rows))
        BY <1>7, <2>0, <3>1, <3>3, <3>4, NextVertexGrows
      <4>2. ~overlap' => Alone(s)
        BY <2>0, WhoIsAlone
      <4>3. ~overlap' => ~overlap
        BY <2>0
      <4>4. vseq' = vseq + 1
        BY <3>1
      <4> QED
        BY <4>1, <4>2, <4>3, <4>4
    <3> QED
      BY <2>0, <3>1, <3>5, GraphFrame
  <2>2. CASE IdleNow(s)
    BY <1>0, <2>0, <2>2, NoGenerator DEF IdleNow, Becomes
  <2> QED
    BY <1>f, <2>0, <2>1, <2>2
<1>8. ASSUME NEW s \in Sessions, insert_edge_simple(s) PROVE GraphInv'
  <2>0. run[s].op # "idle" /\ UNCHANGED <<vseq, overlap>>
    BY <1>8, EdgesSimple DEF insert_edge_simple
  <2>1. CASE ~Fail(s) /\ ~overlap
    <3>1. ~overlap' => Alone(s)
      BY <2>0, WhoIsAlone
    <3>2. CASE /\ generated' = generated
               /\ \E r \in GraphRun : Becomes(s, r) /\ Growing(r, vseq - Len(r.rows))
      BY <2>0, <3>1, <3>2, GraphFrame
    <3>3. CASE IdleNow(s) /\ \A g \in generated' : g \in generated \/ Made(g)
      <4>1. Becomes(s, Idle) /\ Idle.op # "complete"
        BY <3>3, NoGenerator DEF IdleNow, Becomes
      <4> QED
        BY <3>1, <3>3, <4>1, GraphFrame
    <3> QED
      BY <1>8, <2>1, <3>2, <3>3, EdgesMake
  <2>2. CASE overlap
    BY <2>0, <2>2 DEF GraphInv
  <2> QED
    BY <1>f, <2>0, <2>1, <2>2
<1>9. ASSUME NEW s \in Sessions, create_vertex(s) PROVE GraphInv'
  <2>1. run' = run /\ run[s] = Idle
    BY <1>9, VertexCreated
  <2>2. Becomes(s, Idle)
    BY <2>1 DEF TInv, Becomes
  <2> QED
    BY <1>0, <1>9, <2>2, NoGenerator DEF create_vertex, Call
<1>10. ASSUME NEW s \in Sessions, Abort(s) PROVE GraphInv'
  BY <1>f, <1>10 DEF Abort
<1>11. CASE UNCHANGED vars
  BY <1>11 DEF vars, GraphInv
<1> QED
  BY <1>1, <1>2, <1>3, <1>4, <1>5, <1>6, <1>7, <1>8, <1>9, <1>10, <1>11 DEF Next

\* While no two calls overlap, a generated graph joins each two of the vertices
\* that the same call made, once, and a barbell each half that way
\* (create_complete_graph: "start_vertex_graphid" and "end_vertex_graphid" are
\* counted back from the last id drawn).
THEOREM CompleteGraphsAreComplete == Spec => []CompleteGraphIsComplete
<1>1. GraphInv => CompleteGraphIsComplete
  <2> DEFINE half(g, k) == {g.rows[i] : i \in (k * g.n + 1) .. ((k + 1) * g.n)}
             whole(g) == \A k \in 0 .. (Len(g.rows) \div g.n - 1) :
                           /\ PairsIn(half(g, k)) = JoinedIn(g.edges, half(g, k))
                           /\ \A e, f \in g.edges : {e[2], e[3]} = {f[2], f[3]} => e = f
  <2>1. ASSUME NEW g, Made(g) PROVE whole(g)
    BY <2>1, MadeIsComplete
  <2>2. CompleteGraphIsComplete <=> (~overlap => \A g \in generated : whole(g))
    BY DEF CompleteGraphIsComplete, PairsIn, JoinedIn
  <2> HIDE DEF whole
  <2> QED
    BY <2>1, <2>2 DEF GraphInv
<1>2. Init => TInv /\ SeqInv /\ GraphInv
  <2> SUFFICES ASSUME Init PROVE SeqInv /\ GraphInv
    BY LoadTypeInit
  <2>1. generated = {} /\ \A s \in Sessions : run[s] = Idle
    BY DEF Init
  <2> QED
    BY <2>1, SeqInit, NoGenerator DEF GraphInv
<1> QED
  BY <1>1, <1>2, LoadTypeStep, SeqStep, GraphStep, PTL DEF Spec

=============================================================================
