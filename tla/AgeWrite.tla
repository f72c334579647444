------------------------------ MODULE AgeWrite ------------------------------
(***************************************************************************)
(* The writing clauses of Apache AGE (backend/executor): CREATE, SET and   *)
(* REMOVE, DELETE and DETACH DELETE, and MERGE, run by sessions inside     *)
(* transactions of PostgreSQL.                                             *)
(*                                                                         *)
(* A statement reads driving rows (MATCH, UNWIND), and every row goes up   *)
(* through the clauses before the next one is read.  What a clause sees    *)
(* of the rows its own statement wrote depends on command ids: the         *)
(* snapshot's curcid, raised by one for every clause and lowered while a   *)
(* clause reads from the one below, against the current command id of the  *)
(* transaction, raised by CommandCounterIncrement().                       *)
(*                                                                         *)
(* A label table is a set of versions stamped with the transaction and the *)
(* command that made them and removed them.  It fits one page, so that a   *)
(* scan decides what it sees once.  Labels, access rights and row security *)
(* are left out.                                                           *)
(***************************************************************************)
EXTENDS Integers, FiniteSets, SequencesExt, TLC

CONSTANTS
    Session,        \* backends
    Prop,           \* property names
    Value,          \* property values
    Name,           \* variables of statements
    Statement,      \* the statements a client may send, see below
    Graph,          \* the entities committed before the first statement
    MaxStatements   \* bound on the statements sent

None == "none"      \* a property an entity does not have
NoXid == -1
Null == [id |-> 0, ends |-> <<>>, prop |-> [p \in Prop |-> None]]

\* A statement has a source, clauses from the first to the last, and returns
\* rows or nothing.  A path is a sequence of vertices, each new or an existing
\* variable; props maps some properties to a value or to "i", the value of UNWIND.
Source ==
    [kind : {"unwind"}, values : Seq(Value)] \cup [kind : {"edges"}]
    \cup [kind : {"vertices"}, names : SUBSET Name]
    \cup [kind : {"optional"}, p : Prop, v : Value]
Node == [var : Name, new : BOOLEAN, props : UNION {[P -> Value \cup {"i"}] : P \in SUBSET Prop}]
Item == [var : Name, p : Prop, v : Value \cup {None}]
Clause ==
    [op : {"create"}, paths : Seq(Seq(Node))] \cup [op : {"merge"}, path : Seq(Node)]
    \cup [op : {"set"}, items : Seq(Item)]
    \cup [op : {"delete"}, names : Seq(Name), detach : BOOLEAN]

\* Variables of earlier clauses in the paths, whose entities must still exist:
\* all but those SAFE_TO_SKIP_EXISTENCE_CHECK names.
Earlier(paths) ==
    LET nodes == UNION {ToSet(path) : path \in ToSet(paths)}
    IN  {x.var : x \in nodes} \ {x.var : x \in {y \in nodes : y.new}}

Nodes(c) ==
    CASE c.op = "create" -> UNION {ToSet(path) : path \in ToSet(c.paths)}
      [] c.op = "merge"  -> ToSet(c.path)
      [] OTHER           -> {}

\* The variables that the source binds, and those that it and the clauses before
\* the k-th one bind.
Sourced(source) ==
    CASE source.kind = "unwind"   -> {}
      [] source.kind = "vertices" -> source.names
      [] source.kind = "edges"    -> {"a", "r", "b"}
      [] source.kind = "optional" -> {"a", "b"}

NewNames(c) == {x.var : x \in {y \in Nodes(c) : y.new}}
OldNames(c) == {x.var : x \in {y \in Nodes(c) : ~y.new}}

EdgeNames(source) == IF source.kind = "edges" THEN {"r"} ELSE {}

Scope(st, k) == Sourced(st.source) \cup UNION {NewNames(st.clauses[j]) : j \in 1..k - 1}

\* What the parser lets pass: a clause names variables that are bound, a path has
\* vertices, and there is something to do.  (A MERGE that uses a new variable of
\* its own again is left out.)
Parsed(st) ==
    /\ st \in [source : Source, clauses : Seq(Clause), returns : BOOLEAN] /\ st.clauses # <<>>
    /\ \A k \in DOMAIN st.clauses :
         LET c == st.clauses[k]
         IN  /\ c.op = "create" => Earlier(c.paths) \subseteq Scope(st, k)
             /\ c.op = "merge" => OldNames(c) \subseteq Scope(st, k)
             /\ NewNames(c) \cap Scope(st, k) = {} /\ OldNames(c) \cap EdgeNames(st.source) = {}
             /\ c.op = "set" => c.items # <<>> /\ {i.var : i \in ToSet(c.items)} \subseteq Scope(st, k)
             /\ c.op = "delete" => c.names # <<>> /\ ToSet(c.names) \subseteq Scope(st, k)

ASSUME StatementsAssumption ==
    /\ {"a", "r", "b"} \subseteq Name
    /\ MaxStatements \in Nat /\ \A st \in Statement : Parsed(st)

\* The ids of the first graph were drawn one by one, and its edges have vertices.
ASSUME GraphAssumption ==
    /\ IsFiniteSet(Graph)
    /\ Graph \subseteq [id : 1..Cardinality(Graph), ends : Seq(Nat), prop : [Prop -> Value \cup {None}]]
    /\ \A e, f \in Graph : e.id = f.id => e = f
    /\ \A e \in Graph : \A i \in DOMAIN e.ends : \E v \in Graph : v.id = e.ends[i] /\ v.ends = <<>>

VARIABLES
    heap,       \* versions of the rows of all label tables
    committed,  \* transactions that committed
    ids,        \* last id drawn from a label's sequence
    run,        \* what each session is doing
    started,    \* statements sent
    overlap     \* has a statement started during another session's transaction

vars == <<heap, committed, ids, run, started, overlap>>

Idle == [phase |-> "idle", xid |-> NoXid, G |-> 0, used |-> FALSE, said |-> {}]

-----------------------------------------------------------------------------
(* Versions, snapshots and locks, as the executor meets them in PostgreSQL. *)

Entity(v) == [id |-> v.id, ends |-> v.ends, prop |-> v.prop]

Version(e, xid, cid) ==
    [id |-> e.id, ends |-> e.ends, prop |-> e.prop,
     xmin |-> xid, cmin |-> cid, xmax |-> NoXid, cmax |-> 0]

\* curcid is unsigned: lowered below zero, it is above every command id.
CidBefore(cid, c) == c < 0 \/ cid < c

\* The snapshot of run r with curcid c contains transaction x from command cid on.
Sees(r, x, cid, c) == IF x = r.xid THEN CidBefore(cid, c) ELSE x \in r.snap

Visible(r, c) ==
    {v \in heap : Sees(r, v.xmin, v.cmin, c) /\ ~Sees(r, v.xmax, v.cmax, c)}

View(r, c) == {Entity(v) : v \in Visible(r, c)}

\* Mutant: a version that another transaction replaced is written again.
LockWithoutUpdated(r, v) ==
    CASE v.xmax = r.xid -> "SelfModified"
      [] v.xmax = NoXid \/ v.xmax \in committed -> "Ok"
      [] OTHER -> "busy"

\* heap_lock_tuple of a visible version; the caller waits while it is "busy".
LockResult(r, v) ==
    CASE v.xmax = r.xid -> "SelfModified"
      [] v.xmax \in committed -> "Updated"
      [] v.xmax = NoXid -> "Ok"
      [] OTHER -> "busy"

\* CommandCounterIncrement().
Incremented(r) == IF r.used THEN [r EXCEPT !.G = @ + 1, !.used = FALSE] ELSE r

\* Version v is removed by the current command of r.
Closed(r, v) == (heap \ {v}) \cup {[v EXCEPT !.xmax = r.xid, !.cmax = r.G]}

\* An error or a cancelled statement: the transaction is rolled back.
Fail(s) ==
    /\ heap' = {IF v.xmax = run[s].xid THEN [v EXCEPT !.xmax = NoXid, !.cmax = 0] ELSE v :
                v \in {w \in heap : w.xmin # run[s].xid}}
    /\ run' = [run EXCEPT ![s] = Idle]
    /\ UNCHANGED <<committed, ids>>

-----------------------------------------------------------------------------
(* The rows that reach the first clause.  A row binds variables to copies of *)
(* entities; i is the value of UNWIND and n numbers the rows.                *)

Row(n, i, ent) == [n |-> n, i |-> i, ent |-> ent]

\* The variables of new are bound too.
Extended(ent, new) ==
    [x \in DOMAIN new \cup DOMAIN ent |-> IF x \in DOMAIN new THEN new[x] ELSE ent[x]]

\* taken once, with the command id of the start; a source that a nested loop
\* scans again for a row is left out
DrivingRows(r, src, c) ==
    LET vertices == {e \in View(r, c) : e.ends = <<>>}
        edges    == View(r, c) \ vertices
    IN  CASE src.kind = "unwind" ->
               {Row(k, src.values[k], <<>>) : k \in DOMAIN src.values}
          [] src.kind = "vertices" ->
               {Row(0, None, f) : f \in [src.names -> vertices]}
          [] src.kind = "edges" ->
               {Row(0, None, [x \in {"a", "r", "b"} |->
                               CASE x = "a" -> m[1] [] x = "r" -> m[2] [] x = "b" -> m[3]]) :
                  m \in {x \in vertices \X edges \X vertices :
                            x[2].ends = <<x[1].id, x[3].id>>}}
          [] src.kind = "optional" ->
               LET found == {e \in vertices : e.prop[src.p] = src.v}
               IN  {Row(0, None, [x \in {"a", "b"} |-> IF x = "a" THEN a ELSE b]) :
                      a \in IF found = {} THEN {Null} ELSE found, b \in vertices}

-----------------------------------------------------------------------------
(* Paths of CREATE and MERGE: a sequence of vertices, each new or an existing *)
(* variable, with an edge from each to the next.                              *)

Eval(props, row) ==
    [p \in Prop |-> CASE p \notin DOMAIN props -> None
                      [] props[p] = "i" -> row.i
                      [] OTHER -> props[p]]

\* What paths draw ids for, and in which order: path by path, first the new
\* vertices (create_vertex and merge_vertex go down the path), then the edges
\* from the last (create_edge and merge_edge, on the way back).
NewVertices(paths) ==
    UNION {{<<p, 0, k>> : k \in {i \in DOMAIN paths[p] : paths[p][i].new}} : p \in DOMAIN paths}
NewEdges(paths) ==
    UNION {{<<p, 1, k>> : k \in 1..Len(paths[p]) - 1} : p \in DOMAIN paths}
Draws(paths) == NewVertices(paths) \cup NewEdges(paths)

NotAfter(c, d) ==
    \/ c[1] < d[1]
    \/ c[1] = d[1] /\ c[2] < d[2]
    \/ c[1] = d[1] /\ c[2] = d[2] /\ (IF c[2] = 0 THEN c[3] <= d[3] ELSE d[3] <= c[3])

\* Mutant: the last id drawn is used again.
DrawnAgain(paths, d) == ids - 1 + Cardinality({c \in Draws(paths) : NotAfter(c, d)})

\* The id of a new vertex or edge.
Drawn(paths, d) == ids + Cardinality({c \in Draws(paths) : NotAfter(c, d)})

\* New paths are made for row: the row with its new variables, the entities,
\* and the last id drawn.
MadePaths(row, paths) ==
    LET node(d)   == paths[d[1]][d[3]]
        vertex(d) == [id |-> Drawn(paths, d), ends |-> <<>>, prop |-> Eval(node(d).props, row)]
        ent       == Extended(row.ent,
                        [x \in {node(d).var : d \in NewVertices(paths)} |->
                            vertex(CHOOSE d \in NewVertices(paths) : node(d).var = x)])
        end(p, k) == ent[paths[p][k].var].id
        edge(d)   == [id |-> Drawn(paths, d), ends |-> <<end(d[1], d[3]), end(d[1], d[3] + 1)>>,
                      prop |-> Eval(<<>>, row)]
    IN  [row |-> [row EXCEPT !.ent = ent], last |-> ids + Cardinality(Draws(paths)),
         made |-> {vertex(d) : d \in NewVertices(paths)} \cup {edge(d) : d \in NewEdges(paths)}]

entity_exists(r, c, id) == \E v \in Visible(r, c) : v.id = id

\* The paths of the graph view that match the pattern of MERGE for row.  The
\* vertex of an existing variable is the row's, and is not looked up.
Matches(view, path, row) ==
    LET vertices == {e \in view : e.ends = <<>>}
        fits(node) ==
            IF node.new
            THEN {e \in vertices : \A p \in DOMAIN node.props : e.prop[p] = Eval(node.props, row)[p]}
            ELSE {row.ent[node.var]}
    IN  {m \in [vs : {vs \in [DOMAIN path -> UNION {fits(node) : node \in ToSet(path)}] :
                        \A k \in DOMAIN path : vs[k] \in fits(path[k])},
                es : [1..Len(path) - 1 -> view \ vertices]] :
            \A k \in 1..Len(path) - 1 : m.es[k].ends = <<m.vs[k].id, m.vs[k + 1].id>>}

\* The row of a match: new variables of the pattern are bound.
Bound(row, path, m) ==
    [row EXCEPT !.ent =
        Extended(@, [x \in {path[k].var : k \in {j \in DOMAIN path : path[j].new}} |->
                        m.vs[CHOOSE k \in DOMAIN path : path[k].var = x]])]

\* What MERGE compares created paths by: the ids of existing vertices, and the
\* properties of new ones.
PathKey(path, row) ==
    [k \in DOMAIN path |-> IF path[k].new THEN Eval(path[k].props, row)
                                          ELSE row.ent[path[k].var].id]

\* Mutant: created paths are never found again.
NeverFound(lhs, rhs) == FALSE

compare_2_paths(lhs, rhs) == lhs = rhs

-----------------------------------------------------------------------------
(* Statements. *)

\* Starts st, in the session's transaction or in a new one.  fixed is the
\* planner's choice for a MERGE after other clauses: its pattern is matched
\* against the view of the first row, or against the view of each row.
Start(s) ==
    /\ started < MaxStatements
    /\ run[s].phase \in {"idle", "ready"}
    /\ started' = started + 1
    /\ overlap' = (overlap \/ \E t \in Session \ {s} : run[t].phase # "idle")
    /\ \E st \in Statement, fixed \in BOOLEAN :
          LET old == Incremented(run[s])
              r   == [phase |-> "rows", xid |-> IF old.xid = NoXid THEN started' ELSE old.xid,
                      stmt |-> st, at |-> started', snap |-> committed,
                      G |-> old.G, used |-> FALSE, base |-> old.G, b |-> old.G,
                      rows |-> {}, n |-> 0, todo |-> <<>>, level |-> Len(st.clauses),
                      deleted |-> [k \in DOMAIN st.clauses |-> {}],
                      created |-> [k \in DOMAIN st.clauses |-> {}],
                      fixed |-> fixed, inner |-> [k \in DOMAIN st.clauses |-> <<>>], said |-> old.said]
          IN  /\ fixed => \E k \in 2..Len(st.clauses) : st.clauses[k].op = "merge"
              /\ run' = [run EXCEPT ![s] = [r EXCEPT !.rows = DrivingRows(r, st.source, r.b)]]
    /\ UNCHANGED <<heap, committed, ids>>

\* The next driving row goes up to the first clause: those of a table in any
\* order, those of UNWIND in the order of its list.
Pull(s) ==
    /\ run[s].phase = "rows" /\ run[s].todo = <<>>
    /\ \E row \in run[s].rows :
          /\ \A q \in run[s].rows : row.n <= q.n
          /\ run' = [run EXCEPT ![s].rows = @ \ {row}, ![s].n = @ + 1,
                                ![s].todo = <<[k |-> 1, j |-> 1, row |-> [row EXCEPT !.n = run[s].n + 1]]>>]
    /\ UNCHANGED <<heap, committed, ids, started, overlap>>

\* The clause (of kind op) and the row that session s works on, item j of the clause.
At(s, op) ==
    /\ run[s].phase = "rows" /\ run[s].todo # <<>>
    /\ run[s].stmt.clauses[Head(run[s].todo).k].op = op

Terminal(r, k) == k = Len(r.stmt.clauses) /\ ~r.stmt.returns

\* Clause k is done with a row and hands rows to the clause above.
Passed(r, k, rows) ==
    [r EXCEPT !.todo = (IF k = Len(r.stmt.clauses) THEN <<>>
                        ELSE [i \in DOMAIN rows |-> [k |-> k + 1, j |-> 1, row |-> rows[i]]])
                       \o Tail(@)]

\* Mutant: the command is not counted when a row is done.
RowNotCounted(r, k, row) == Passed(r, k, <<row>>)

\* The same for CREATE and SET, which end a row with CommandCounterIncrement()
\* unless they are the last clause and nothing is returned.
RowWritten(r, k, row) == Passed(IF Terminal(r, k) THEN r ELSE Incremented(r), k, <<row>>)

exec_cypher_create(s) ==
    /\ At(s, "create")
    /\ LET r    == run[s]
           w    == Head(r.todo)
           c    == r.stmt.clauses[w.k]
           made == MadePaths(w.row, c.paths)
       IN  IF \A x \in Earlier(c.paths) : entity_exists(r, r.b + w.k, w.row.ent[x].id)
           THEN /\ heap' = heap \cup {Version(e, r.xid, r.G) : e \in made.made}
                /\ ids' = made.last
                /\ run' = [run EXCEPT ![s] = RowWritten([r EXCEPT !.used = TRUE], w.k, made.row)]
                /\ UNCHANGED committed
           ELSE Fail(s)
    /\ UNCHANGED <<started, overlap>>

\* Items of SET are numbered from 0; a NULL entity is passed over without
\* counting its item, and a version is written at the last item of its variable.
LoopIndex(items, row, j) ==
    Cardinality({i \in 1..j - 1 : row.ent[items[i].var] # Null})

LastUpdate(items, j) == Max({i \in DOMAIN items : items[i].var = items[j].var}) - 1

\* The entity after an item of SET, or of REMOVE (a value of None).
Altered(e, item) == [e EXCEPT !.prop[item.p] = item.v]

\* update_entity_tuple: version v is replaced by entity e.
Written(r, v, e) == Closed(r, v) \cup {Version(e, r.xid, r.G)}

\* One item of SET or REMOVE.  The item changes the entity in the row, and the
\* last item of its variable writes what the row then holds.
process_update_list(s) ==
    /\ At(s, "set")
    /\ LET r       == run[s]
           w       == Head(r.todo)
           items   == r.stmt.clauses[w.k].items
           item    == items[w.j]
           e       == w.row.ent[item.var]
           row     == IF e = Null THEN w.row ELSE [w.row EXCEPT !.ent[item.var] = Altered(e, item)]
           said    == IF e = Null THEN r.said
                      ELSE r.said \cup {[at |-> r.at, id |-> e.id, n |-> w.row.n, k |-> w.k, j |-> w.j,
                                         var |-> item.var, p |-> item.p, v |-> item.v,
                                         nulls |-> \E i \in DOMAIN items : w.row.ent[items[i].var] = Null]}
           next(q) == LET t == [q EXCEPT !.said = said]
                      IN  IF w.j < Len(items)
                          THEN [t EXCEPT !.todo[1].j = w.j + 1, !.todo[1].row = row]
                          ELSE RowWritten(t, w.k, row)
           written == {v \in Visible(r, r.G) : v.id = e.id}
       IN  \/ /\ \/ e = Null
                 \/ LoopIndex(items, w.row, w.j) # LastUpdate(items, w.j)
                 \/ written = {}
              /\ run' = [run EXCEPT ![s] = next(r)]
              /\ UNCHANGED <<heap, committed, ids>>
           \/ /\ e # Null
              /\ LoopIndex(items, w.row, w.j) = LastUpdate(items, w.j)
              /\ \E v \in written :
                    \/ /\ LockResult(r, v) = "Ok"
                       /\ heap' = Written(r, v, Altered(e, item))
                       /\ run' = [run EXCEPT ![s] = next([r EXCEPT !.used = TRUE])]
                       /\ UNCHANGED <<committed, ids>>
                    \/ /\ LockResult(r, v) = "SelfModified"
                       /\ run' = [run EXCEPT ![s] = next([r EXCEPT !.used = TRUE])]
                       /\ UNCHANGED <<heap, committed, ids>>
                    \/ LockResult(r, v) = "Updated" /\ Fail(s)
    /\ UNCHANGED <<started, overlap>>

\* delete_entity: version v goes, and curcid follows the command id.
Deleted(r, k) ==
    LET q == Incremented([r EXCEPT !.used = TRUE]) IN [q EXCEPT !.b = q.G - k]

\* One item of DELETE.
process_delete_list(s) ==
    /\ At(s, "delete")
    /\ LET r       == run[s]
           w       == Head(r.todo)
           names   == r.stmt.clauses[w.k].names
           e       == w.row.ent[names[w.j]]
           next(q) == IF w.j < Len(names) THEN [q EXCEPT !.todo[1].j = w.j + 1]
                                          ELSE Passed(q, w.k, <<w.row>>)
           q       == [r EXCEPT !.b = r.G - w.k]
           listed  == IF e.ends = <<>> THEN [q EXCEPT !.deleted[w.k] = @ \cup {e.id}] ELSE q
           there   == {v \in Visible(r, r.G) : v.id = e.id}
       IN  \/ /\ e = Null \/ \A v \in there : LockResult(r, v) = "SelfModified"
              /\ run' = [run EXCEPT ![s] =
                           next(IF e = Null THEN r ELSE IF there = {} THEN q ELSE listed)]
              /\ UNCHANGED <<heap, committed, ids>>
           \/ /\ e # Null
              /\ \E v \in there :
                    \/ /\ LockResult(r, v) = "Ok"
                       /\ heap' = Closed(r, v)
                       /\ run' = [run EXCEPT ![s] = next(Deleted(listed, w.k))]
                       /\ UNCHANGED <<committed, ids>>
                    \/ LockResult(r, v) = "Updated" /\ Fail(s)
    /\ UNCHANGED <<started, overlap>>

\* merge_vertex and merge_edge insert with the command id the statement began
\* with, and count that command when it is still the current one.
Inserted(r) == IF r.G = r.base THEN Incremented([r EXCEPT !.used = TRUE]) ELSE r

\* Entity e of an earlier clause may stand in the path that clause k makes.
Known(r, k, e) == e # Null /\ entity_exists(r, r.b + k, e.id)

\* MERGE passes on the matches of its pattern, and without one makes the path,
\* unless this clause already made it for an earlier row.
exec_cypher_merge(s) ==
    /\ At(s, "merge")
    /\ LET r     == run[s]
           w     == Head(r.todo)
           path  == r.stmt.clauses[w.k].path
           view  == IF r.inner[w.k] # <<>> THEN r.inner[w.k][1] ELSE View(r, r.b + w.k - 1)
           q     == IF r.fixed THEN [r EXCEPT !.inner[w.k] = <<view>>] ELSE r
           found == Matches(view, path, w.row)
           key   == PathKey(path, w.row)
           again == {m \in r.created[w.k] : compare_2_paths(key, m.key)}
           made  == MadePaths(w.row, <<path>>)
       IN  \/ /\ found # {}
              /\ \E ms \in SetToSeqs(found) :
                    run' = [run EXCEPT ![s] =
                              Passed(q, w.k, [i \in DOMAIN ms |-> Bound(w.row, path, ms[i])])]
              /\ UNCHANGED <<heap, committed, ids>>
           \/ /\ found = {}
              /\ \A x \in Earlier(<<path>>) : Known(r, w.k, w.row.ent[x])
              /\ \/ \E m \in again :
                       /\ run' = [run EXCEPT ![s] = Passed(q, w.k, <<Bound(w.row, path, m)>>)]
                       /\ UNCHANGED <<heap, committed, ids>>
                 \/ /\ again = {}
                    /\ heap' = heap \cup {Version(e, r.xid, r.base) : e \in made.made}
                    /\ ids' = made.last
                    /\ run' = [run EXCEPT ![s] =
                         Passed([Inserted(q) EXCEPT !.created[w.k] = @ \cup
                                   {[key |-> key, vs |-> [k \in DOMAIN path |-> made.row.ent[path[k].var]]]}],
                                w.k, <<made.row>>)]
                    /\ UNCHANGED committed
           \/ found = {} /\ (\E x \in Earlier(<<path>>) : ~Known(r, w.k, w.row.ent[x])) /\ Fail(s)
    /\ UNCHANGED <<started, overlap>>

\* No row is left: a last SET that returns nothing counts its command now.
Exhausted(s) ==
    /\ run[s].phase = "rows" /\ run[s].todo = <<>> /\ run[s].rows = {}
    /\ LET r == run[s]
           k == Len(r.stmt.clauses)
       IN  run' = [run EXCEPT ![s] =
                     [(IF Terminal(r, k) /\ r.stmt.clauses[k].op \in {"create", "set"}
                       THEN Incremented(r) ELSE r) EXCEPT !.phase = "ending"]]
    /\ UNCHANGED <<heap, committed, ids, started, overlap>>

-----------------------------------------------------------------------------
(* The end of a statement goes from its last clause to its first. *)

Ending(s, ops) ==
    /\ run[s].phase = "ending"
    /\ run[s].stmt.clauses[run[s].level].op \in ops

EndedLevel(r) ==
    IF r.level = 1 THEN [r EXCEPT !.phase = "ready"] ELSE [r EXCEPT !.level = @ - 1]

end_cypher_clause(s) ==
    /\ Ending(s, {"create", "set", "merge"})
    /\ LET r == run[s]
       IN  run' = [run EXCEPT ![s] =
                     EndedLevel(IF r.stmt.clauses[r.level].op = "set" THEN r ELSE Incremented(r))]
    /\ UNCHANGED <<heap, committed, ids, started, overlap>>

\* Mutant: only the start of an edge is looked up.
StartsOnly(r) ==
    {v \in Visible(r, r.G) : v.ends # <<>> /\ v.ends[1] \in r.deleted[r.level]}

\* Edges of the vertices a DELETE removed, as its end sees them.
ConnectedEdges(r) ==
    {v \in Visible(r, r.G) : \E i \in DOMAIN v.ends : v.ends[i] \in r.deleted[r.level]}

\* DETACH DELETE removes them one by one, DELETE refuses.
check_for_connected_edges(s) ==
    /\ Ending(s, {"delete"})
    /\ LET r == run[s]
       IN  \/ /\ ConnectedEdges(r) = {}
              /\ run' = [run EXCEPT ![s] = EndedLevel([r EXCEPT !.b = r.G])]
              /\ UNCHANGED <<heap, committed, ids>>
           \/ /\ r.stmt.clauses[r.level].detach
              /\ \E v \in ConnectedEdges(r) :
                    \/ /\ LockResult(r, v) = "Ok"
                       /\ heap' = Closed(r, v)
                       /\ run' = [run EXCEPT ![s] = Deleted(r, 0)]
                       /\ UNCHANGED <<committed, ids>>
                    \/ LockResult(r, v) = "Updated" /\ Fail(s)
           \/ ~r.stmt.clauses[r.level].detach /\ ConnectedEdges(r) # {} /\ Fail(s)
    /\ UNCHANGED <<started, overlap>>

Commit(s) ==
    /\ run[s].phase = "ready"
    /\ committed' = committed \cup {run[s].xid}
    /\ run' = [run EXCEPT ![s] = Idle]
    /\ UNCHANGED <<heap, ids, started, overlap>>

\* ROLLBACK, a cancelled statement, a lost connection, or a deadlock's victim.
Abort(s) == run[s].phase # "idle" /\ Fail(s) /\ UNCHANGED <<started, overlap>>

Init ==
    /\ heap = {Version(e, 0, 0) : e \in Graph}
    /\ committed = {0}
    /\ ids = Cardinality(Graph)
    /\ run = [s \in Session |-> Idle]
    /\ started = 0
    /\ overlap = FALSE

Next == \E s \in Session :
    \/ Start(s) \/ Pull(s) \/ Exhausted(s) \/ Commit(s) \/ Abort(s)
    \/ exec_cypher_create(s) \/ exec_cypher_merge(s)
    \/ process_update_list(s) \/ process_delete_list(s)
    \/ end_cypher_clause(s) \/ check_for_connected_edges(s)

Spec == Init /\ [][Next]_vars

-----------------------------------------------------------------------------
(* Properties. *)

\* Version v is in the committed graph.
Stands(v) == v.xmin \in committed /\ v.xmax \notin committed

\* Values are in their sets, ids were drawn from a sequence, and no two
\* versions of an entity are open.
TypeOK ==
    /\ \A v \in heap : v.id \in 1..ids /\ v.prop \in [Prop -> Value \cup {None}]
    /\ \A v, w \in heap : v.id = w.id /\ v.xmax = NoXid /\ w.xmax = NoXid => v = w
    /\ \A s \in Session : run[s].phase \in {"idle", "rows", "ending", "ready"}

\* Statements that never overlapped leave no edge without both its vertices:
\* the end of DELETE sees the edges of every clause above it, and CREATE and
\* MERGE refuse a vertex that a clause below them, or an earlier row, removed.
\* (Of statements that are Firm, see below.)
NoDanglingEdges ==
    ~overlap => \A e \in heap : Stands(e) =>
        \A i \in DOMAIN e.ends : \E v \in heap : Stands(v) /\ v.id = e.ends[i]

Kinds(st, op) == {k \in 1 .. Len(st.clauses) : st.clauses[k].op = op}

\* The variables that MERGE binds.
MergeVars(st) == UNION {NewNames(st.clauses[k]) : k \in Kinds(st, "merge")}

\* No clause before a DELETE makes an edge at a vertex that a MERGE found or made.
\* After a DELETE the clauses before it read the next row with a curcid that may
\* lie below the statement's first command, so that such a MERGE finds what an
\* earlier statement of the transaction removed.
Firm(st) == \A d \in Kinds(st, "delete") : \A k \in 1 .. d - 1 :
               OldNames(st.clauses[k]) \cap MergeVars(st) = {}

\* After a statement whose only writing clause is MERGE, of a path of at most one
\* edge, its pattern matches what it matched before, or exactly one path that was
\* made, for every row: rows that ask for the same path share it (compare_2_paths).
\* A pattern of two edges may also match edges that were made for different rows:
\* MATCH (a) MERGE (a)-[]->(b)-[]->(c) joins the path made for one a to another's.
MergeOnce ==
    \A s \in Session : LET r == run[s] IN
        (/\ r.phase = "ready" /\ Len(r.stmt.clauses) = 1
         /\ r.stmt.clauses[1].op = "merge" /\ Len(r.stmt.clauses[1].path) <= 2) =>
            \A row \in DrivingRows(r, r.stmt.source, r.base) :
                LET path   == r.stmt.clauses[1].path
                    before == Matches(View(r, r.base), path, row)
                    after  == Matches(View(r, r.G), path, row)
                IN  IF before = {} THEN Cardinality(after) = 1 ELSE after = before

\* A version that a transaction writes over a committed one differs from it
\* only in what the transaction itself SET: the properties in a row's copy
\* are not written over what another transaction committed meanwhile, and an
\* entity that another one removed does not come back.
NoLostUpdate ==
    [][\A v \in heap' : (\A u \in heap : <<u.id, u.xmin, u.cmin>> # <<v.id, v.xmin, v.cmin>>) =>
          LET before == {w \in heap : w.id = v.id /\ w.xmin \in committed}
          IN  /\ before # {} => \E w \in before : Stands(w)
              /\ \A w \in before, p \in Prop :
                    Stands(w) /\ v.prop[p] # w.prop[p] =>
                       \E s \in Session : /\ run[s].xid = v.xmin
                                          /\ \E m \in run'[s].said : m.id = v.id /\ m.p = p]_vars

Ready == {s \in Session : run[s].phase = "ready"}

\* What the last statement of session s set, item by item.
Said(s) == {m \in run[s].said : m.at = run[s].at}

\* The last value said of a property of an entity that only one row and one
\* variable of the statement stand for.
Decides(m, said) ==
    \A o \in said : o.id = m.id =>
        /\ o.n = m.n /\ o.var = m.var
        /\ o.p = m.p => o.k < m.k \/ (o.k = m.k /\ o.j <= m.j)

Kept(s, ms) ==
    \A m \in ms, e \in View(run[s], run[s].G) : e.id = m.id => e.prop[m.p] = m.v

\* What a statement SETs of an entity that one row and one variable stand for
\* is there at its end, whatever other items, clauses and rows it has, as long
\* as no variable of the SET is NULL.
SetsAreKept ==
    \A s \in Ready : Kept(s, {m \in Said(s) : Decides(m, Said(s)) /\ ~m.nulls})

\* The same although another variable of the SET is NULL.
NullSkipsItself ==
    \A s \in Ready : Kept(s, {m \in Said(s) : Decides(m, Said(s))})

\* The same of an entity that several rows stand for, when each sets another
\* of its properties.
SharedSetsKept ==
    \A s \in Ready :
        Kept(s, {m \in Said(s) : \A o \in Said(s) : o.id = m.id /\ o.p = m.p => o = m})

\* CREATE refuses no vertex as "deleted" that is there for the command that runs.
RefusesOnlyDeleted ==
    \A s \in Session : LET r == run[s] IN
        r.phase = "rows" /\ r.todo # <<>> =>
            LET w == Head(r.todo)
                c == r.stmt.clauses[w.k]
            IN  c.op = "create" => \A x \in Earlier(c.paths) :
                    entity_exists(r, r.G + 1, w.row.ent[x].id)
                        => entity_exists(r, r.b + w.k, w.row.ent[x].id)
=============================================================================
