------------------------------ MODULE AgeLoad -------------------------------
(***************************************************************************)
(* The writers of Apache AGE that choose ids themselves: the CSV loaders   *)
(* of vertices and edges (utils/load) and the generators of complete and   *)
(* barbell graphs (graph_generation.c), beside sessions that create single *)
(* vertices, all on one vertex label and one edge label.  Ids come from    *)
(* the labels' sequences, which nextval and setval change at once and no   *)
(* rollback restores; rows become visible at the end of the call.  Ids are *)
(* entry ids: the label half of a graphid is the same for every row here.  *)
(***************************************************************************)
EXTENDS Integers, FiniteSets, Sequences

CONSTANTS Sessions,
          EntryIdMax,   \* ENTRY_ID_MAX, the sequences' MAXVALUE
          BatchSize,    \* BATCH_SIZE rows are buffered before they are inserted
          Files,        \* vertex files: sequences of ids
          EdgeFiles,    \* edge files: sequences of <<start id, end id>>
          MaxNodes,     \* largest graph generated
          MaxCalls      \* bound on the calls made

ASSUME LoadConstants ==
    /\ EntryIdMax \in Nat /\ BatchSize \in Nat \ {0}
    /\ MaxNodes \in Nat /\ MaxCalls \in Nat
    /\ Files \subseteq Seq(Nat) /\ EdgeFiles \subseteq Seq(Nat \X Nat)

VARIABLES
    vertices,  \* committed rows of the vertex label: how many have each id
    edges,     \* committed rows of the edge label: <<id, start, end>>
    vseq,      \* last value of the vertex label's sequence, 0 before the first
    eseq,      \* last value of the edge label's sequence
    run,       \* per session, the call in progress
    generated, \* what each generator call committed
    overlap,   \* a call was made while another session was in one
    calls      \* calls made

vars == <<vertices, edges, vseq, eseq, run, generated, overlap, calls>>

EntryIds == 0 .. EntryIdMax
entry_id_is_valid(i) == i \in EntryIds

Elems(q) == {q[i] : i \in DOMAIN q}

\* todo: rows of the file not read yet; buf: the batch; rows, ne: vertices (in
\* order) and edges inserted and not committed; curr: curr_seq_num; n: rows of
\* the file, or vertices of each of the complete graphs (halves), at being the
\* one that is made
Idle == [op |-> "idle", todo |-> <<>>, buf |-> <<>>, rows |-> <<>>, ne |-> {},
         curr |-> 0, n |-> 0, at |-> 0, halves |-> 0]

TypeOK ==
    /\ vertices \in [EntryIds -> Nat]
    /\ \A e \in edges : e[1] \in EntryIds /\ e[2] \in EntryIds /\ e[3] \in EntryIds
    /\ vseq \in EntryIds /\ eseq \in EntryIds
    /\ \A s \in Sessions : Len(run[s].buf) < BatchSize /\ run[s].curr \in EntryIds

Init ==
    /\ vertices = [i \in EntryIds |-> 0] /\ edges = {}
    /\ vseq = 0 /\ eseq = 0
    /\ run = [s \in Sessions |-> Idle]
    /\ generated = {}
    /\ overlap = FALSE
    /\ calls = 0

-----------------------------------------------------------------------------
Others(s) == Sessions \ {s}
Committed == {i \in EntryIds : vertices[i] > 0}
InFlight(s) == UNION {Elems(run[t].rows) : t \in Others(s)}
WithRows(q) == [i \in EntryIds |-> vertices[i] + Cardinality({k \in DOMAIN q : q[k] = i})]

\* a call begins; the guard on calls is a bound
Call(s, r) ==
    /\ run[s].op = "idle" /\ calls < MaxCalls
    /\ calls' = calls + 1
    /\ run' = [run EXCEPT ![s] = r]
    /\ overlap' = (overlap \/ \E t \in Others(s) : run[t].op # "idle")
Stay == UNCHANGED <<overlap, calls>>

\* an error: the rows go, the sequences stay
Fail(s) ==
    /\ run' = [run EXCEPT ![s] = Idle]
    /\ UNCHANGED <<vertices, edges, vseq, eseq, generated>> /\ Stay

Advance(s, r) ==
    /\ run' = [run EXCEPT ![s] = r]
    /\ UNCHANGED <<vertices, edges, generated>> /\ Stay

-----------------------------------------------------------------------------
(* insert_batch: the whole batch enters the table and its indexes.  Only   *)
(* the vertex id has a unique index, checked with noDupErr: an id that     *)
(* another transaction has inserted and not committed is a duplicate at    *)
(* once, where a single insert waits for the end of that transaction.      *)
NeverConflicts(s, q) == FALSE
insert_batch_fails(s, q) ==
    /\ run[s].op = "vertices"
    /\ \/ Cardinality(Elems(q)) < Len(q)
       \/ Elems(q) \cap (Committed \cup Elems(run[s].rows) \cup InFlight(s)) # {}
insert_batch(r, q) ==
    IF r.op = "vertices" THEN [r EXCEPT !.rows = @ \o q, !.buf = <<>>]
                         ELSE [r EXCEPT !.ne = @ \cup Elems(q), !.buf = <<>>]

\* a row joins the batch, which is inserted when it is full, or big: when the
\* properties of its rows fill MAX_BUFFERED_BYTES
Batch(s, row) == Append(run[s].buf, row)
IsFull(q, big) == Len(q) = BatchSize \/ big
Buffered(r, q, big) == IF IsFull(q, big) THEN insert_batch(r, q) ELSE [r EXCEPT !.buf = q]

-----------------------------------------------------------------------------
(* load_labels_from_file.  With an id column the loader first draws one    *)
(* value, to know where the sequence stands.                               *)
load_labels_from_file(s, file, withIds) ==
    /\ withIds => vseq < EntryIdMax
    /\ Call(s, [Idle EXCEPT !.op = "vertices", !.n = Len(file),
                  !.todo = [i \in DOMAIN file |-> IF withIds THEN file[i] ELSE -1],
                  !.curr = IF withIds THEN vseq + 1 ELSE 0])
    /\ vseq' = IF withIds THEN vseq + 1 ELSE vseq
    /\ UNCHANGED <<vertices, edges, eseq, generated>>

\* an id given beyond the value remembered moves the sequence there
NoSetval(s, id) == FALSE
MovesSequence(s, id) == id > run[s].curr

\* -1 stands for a row without an id, which takes the sequence's next value
process_vertex_row(s) == \E big \in BOOLEAN :
    LET given == Head(run[s].todo)
        id == IF given = -1 THEN vseq + 1 ELSE given
        moves == given # -1 /\ MovesSequence(s, given)
        q == Batch(s, id)
        r == [run[s] EXCEPT !.todo = Tail(@), !.curr = IF moves THEN id ELSE @]
    IN
    /\ run[s].op = "vertices" /\ run[s].todo # <<>>
    /\ IF ~entry_id_is_valid(id) THEN Fail(s)
       ELSE /\ vseq' = IF given = -1 \/ moves THEN id ELSE vseq
            /\ UNCHANGED eseq
            /\ Advance(s, IF IsFull(q, big) /\ insert_batch_fails(s, q) THEN Idle
                          ELSE Buffered(r, q, big))

(* load_edges_from_file.  The ends are taken from the file as they are;    *)
(* nothing asks whether such vertices exist.                               *)
load_edges_from_file(s, file) ==
    /\ Call(s, [Idle EXCEPT !.op = "edges", !.n = Len(file), !.todo = file])
    /\ UNCHANGED <<vertices, edges, vseq, eseq, generated>>

process_edge_row(s) == \E big \in BOOLEAN :
    LET row == Head(run[s].todo)
        r == [run[s] EXCEPT !.todo = Tail(@)]
    IN
    /\ run[s].op = "edges" /\ run[s].todo # <<>>
    /\ IF eseq = EntryIdMax THEN Fail(s)
       ELSE /\ eseq' = eseq + 1 /\ UNCHANGED vseq
            /\ Advance(s, IF entry_id_is_valid(row[1]) /\ entry_id_is_valid(row[2])
                          THEN Buffered(r, Batch(s, <<eseq + 1, row[1], row[2]>>), big)
                          ELSE Idle)

\* end of the file: what is left in the batch is inserted, the call returns
KeepsBuffer(s) == run[s]
Flushed(s) == insert_batch(run[s], run[s].buf)

finish_batch_insert(s) ==
    /\ run[s].op \in {"vertices", "edges"} /\ run[s].todo = <<>>
    /\ IF insert_batch_fails(s, run[s].buf) THEN Fail(s)
       ELSE /\ vertices' = WithRows(Flushed(s).rows)
            /\ edges' = edges \cup Flushed(s).ne
            /\ run' = [run EXCEPT ![s] = Idle]
            /\ UNCHANGED <<vseq, eseq, generated>> /\ Stay

-----------------------------------------------------------------------------
(* create_complete_graph: n vertices, each with the sequence's next value, *)
(* then an edge for every pair, whose ends are counted back from the last  *)
(* value drawn.  age_create_barbell_graph calls it twice and joins the two *)
(* with an edge from id 1 to id 2n.                                        *)
create_complete_graph(s, n, halves) ==
    /\ Call(s, [Idle EXCEPT !.op = "complete", !.n = n, !.at = 1, !.halves = halves])
    /\ UNCHANGED <<vertices, edges, vseq, eseq, generated>>

insert_vertex_simple(s) ==
    /\ run[s].op = "complete" /\ Len(run[s].rows) < run[s].at * run[s].n
    /\ vseq + 1 \notin InFlight(s)
    /\ IF vseq = EntryIdMax THEN Fail(s)
       ELSE /\ vseq' = vseq + 1 /\ UNCHANGED eseq
            /\ Advance(s, IF vseq + 1 \in Committed \cup Elems(run[s].rows) THEN Idle
                          ELSE [run[s] EXCEPT !.rows = Append(@, vseq + 1)])

\* the id of the i-th of n vertices, lid being the last
VertexBefore(lid, n, i) == lid - n + i - 1
VertexOf(lid, n, i) == lid - n + i

PairsOf(n) == {p \in (1 .. n) \X (1 .. n) : p[1] < p[2]}
EdgeSet(lid, n) ==   \* in the order of the two loops
    LET upTo(p) == {q \in PairsOf(n) : q[1] < p[1] \/ (q[1] = p[1] /\ q[2] <= p[2])}
    IN  {<<eseq + Cardinality(upTo(p)), VertexOf(lid, n, p[1]), VertexOf(lid, n, p[2])>> :
             p \in PairsOf(n)}

\* the edges of one complete graph, then the other one, or the bridge and the
\* end; make_graphid refuses what is no entry id
insert_edge_simple(s) ==
    LET r == run[s]
        k == Cardinality(PairsOf(r.n))
        bridge == IF r.at = 2 THEN {<<eseq + k + 1, 1, 2 * r.n>>} ELSE {}
        all == r.ne \cup EdgeSet(r.rows[Len(r.rows)], r.n) \cup bridge
        drawn == eseq + k + Cardinality(bridge)
    IN
    /\ r.op = "complete" /\ Len(r.rows) = r.at * r.n
    /\ IF drawn > EntryIdMax \/ \E e \in all : {e[2], e[3]} \ EntryIds # {} THEN Fail(s)
       ELSE /\ eseq' = drawn /\ UNCHANGED vseq
            /\ IF r.at < r.halves
               THEN Advance(s, [r EXCEPT !.ne = all, !.at = @ + 1])
               ELSE /\ vertices' = WithRows(r.rows)
                    /\ edges' = edges \cup all
                    /\ generated' = generated \cup {[rows |-> r.rows, n |-> r.n, edges |-> all]}
                    /\ run' = [run EXCEPT ![s] = Idle]
                    /\ Stay

-----------------------------------------------------------------------------
(* CREATE of one vertex by another client: the id column's default.        *)
create_vertex(s) ==
    /\ vseq < EntryIdMax /\ vseq + 1 \notin InFlight(s)
    /\ Call(s, Idle)
    /\ vseq' = vseq + 1
    /\ vertices' = IF vertices[vseq + 1] > 0 THEN vertices ELSE WithRows(<<vseq + 1>>)
    /\ UNCHANGED <<edges, eseq, generated>>

Abort(s) == run[s].op # "idle" /\ Fail(s)

Next == \E s \in Sessions :
    \/ \E f \in Files, b \in BOOLEAN : load_labels_from_file(s, f, b)
    \/ process_vertex_row(s)
    \/ \E f \in EdgeFiles : load_edges_from_file(s, f)
    \/ process_edge_row(s)
    \/ finish_batch_insert(s)
    \/ \E n \in 1 .. MaxNodes, h \in {1, 2} : create_complete_graph(s, n, h)
    \/ insert_vertex_simple(s)
    \/ insert_edge_simple(s)
    \/ create_vertex(s)
    \/ Abort(s)

Spec == Init /\ [][Next]_vars

-----------------------------------------------------------------------------
(* Two vertices of a label never share an id, and neither do two edges,    *)
(* whatever ids the files give and however loads, generators and CREATEs   *)
(* interleave.                                                             *)
UniqueIds ==
    /\ \A i \in EntryIds : vertices[i] <= 1
    /\ \A e, f \in edges : e[1] = f[1] => e = f

(* While no two calls overlap, the vertex sequence stands at or beyond     *)
(* every id in the table ("to ensure the sequence is up-to-date"), so that *)
(* the next CREATE cannot draw an id that a file has brought.              *)
SequenceCovers == ~overlap => \A i \in Committed : i <= vseq

(* While no two calls overlap, a complete graph joins each two of the      *)
(* vertices that the same call made, once, and a barbell joins each half   *)
(* that way.                                                               *)
CompleteGraphIsComplete == ~overlap =>
    \A g \in generated :
        LET half(k) == {g.rows[i] : i \in (k * g.n + 1) .. ((k + 1) * g.n)}
            joined(A) == {{e[2], e[3]} : e \in {f \in g.edges : f[2] \in A /\ f[3] \in A}}
            pairs(A) == {{a, b} : a, b \in A} \ {{a} : a \in A}
        IN  \A k \in 0 .. (Len(g.rows) \div g.n - 1) :
              /\ pairs(half(k)) = joined(half(k))
              /\ \A e, f \in g.edges : {e[2], e[3]} = {f[2], f[3]} => e = f

(* A load that commits has brought every row of its file, whatever the     *)
(* size of the batches and the rows left in the last of them.              *)
LoadsWholeFile ==
    [][\A s \in Sessions :
         /\ run[s].op \in {"vertices", "edges"} /\ run'[s].op = "idle"
         /\ <<vertices', edges'>> # <<vertices, edges>>
         => \/ Cardinality(edges' \ edges) = run[s].n
            \/ Cardinality({i \in EntryIds : vertices'[i] > vertices[i]}) = run[s].n]_vars

(* "The barbell graph is two complete graphs connected by a bridge path"   *)
(* (graph_generation.c:209): an edge leads from one half to the other.     *)
BarbellIsJoined ==
    \A g \in generated : Len(g.rows) = 2 * g.n =>
        \E e \in g.edges, i \in 1 .. g.n, j \in 1 .. g.n :
            e[2] = g.rows[i] /\ e[3] = g.rows[g.n + j]

=============================================================================
