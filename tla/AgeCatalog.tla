----------------------------- MODULE AgeCatalog -----------------------------
(***************************************************************************)
(* The catalog of Apache AGE: ag_graph and ag_label, the functions that    *)
(* create, rename and drop graphs and labels, and the backend-local caches *)
(* every lookup goes through.  Sessions run transactions at the same time: *)
(* a session sees the committed rows and its own changes, its caches hold  *)
(* rows it has read, and the invalidation messages of the transactions     *)
(* that committed wait for it until it accepts them.                       *)
(*                                                                         *)
(* A statement that waits for the lock or the unique-index entry of        *)
(* another transaction is taken to start after that transaction ended; it  *)
(* may fail there, which Abort covers.  A failed statement ends its        *)
(* transaction.  Names stand for identifiers; which of them the naming     *)
(* rules accept is a constant.                                             *)
(*                                                                         *)
(* The object access hook belongs to a backend: DROP EXTENSION takes it    *)
(* out, a ROLLBACK does not put it back, and only a new backend installs   *)
(* it again.  Next lets a session without it do everything but drop a      *)
(* graph or a table before it reconnects: see CatalogConsistent.           *)
(***************************************************************************)
EXTENDS Integers, FiniteSets

CONSTANTS Sessions,     \* backends
          Names,        \* graph names a client may give
          BadNames,     \* those the naming rules refuse
          Labels,       \* label names a client may give
          LabelIdMax,   \* LABEL_ID_MAX, 65535 in the code
          MaxOid,       \* bound on the objects ever created
          MaxSteps      \* bound on transactions begun and statements run

DefaultVertex == "_ag_label_vertex"
DefaultEdge   == "_ag_label_edge"
InvalidLabelId == 0
Namespace == 0           \* the message about a namespace; others carry a relation

ASSUME CatalogConstants ==
    /\ LabelIdMax \in Nat /\ LabelIdMax >= 2
    /\ MaxOid \in Nat /\ MaxSteps \in Nat /\ BadNames \subseteq Names
    /\ {DefaultVertex, DefaultEdge} \cap Labels = {}

VARIABLES
    cat,      \* the committed rows: graphs, labels, and rows of label tables
    tx,       \* per session, the rows its transaction inserted and deleted
    cache,    \* per session, the rows its hash tables hold
    inval,    \* per session, the invalidation messages it has not accepted
    seq,      \* per graph, the last value of its _label_id_seq (never undone)
    oids,     \* the last oid given out
    steps,    \* transactions begun and statements that changed rows
    res,      \* per session, how its last statement ended
    hook      \* per session, whether its backend has the object access hook

vars == <<cat, tx, cache, inval, seq, oids, steps, res, hook>>

Oids == 1 .. MaxOid
AllLabels == Labels \cup {DefaultVertex, DefaultEdge}
\* dg is the graph name written into the DEFAULT expression of the id column
GraphRow == [name : Names, oid : Oids]
LabelRow == [name : AllLabels, graph : Oids, id : 1 .. LabelIdMax,
             kind : {"v", "e"}, rel : Oids, dg : Names]
VertexRow == [rel : Oids, lid : 1 .. LabelIdMax]
NoChange == [on |-> FALSE, gi |-> {}, gd |-> {}, li |-> {}, ld |-> {}, vi |-> {}]
EmptyCache == [gname |-> {}, gns |-> {}, lname |-> {}, lid |-> {}]

TypeOK ==
    /\ cat \in [graphs : SUBSET GraphRow, labels : SUBSET LabelRow,
                rows : SUBSET VertexRow]
    /\ \A s \in Sessions :
         /\ tx[s].gi \cup tx[s].gd \subseteq GraphRow
         /\ tx[s].li \cup tx[s].ld \subseteq LabelRow
         /\ tx[s].vi \subseteq VertexRow
         /\ cache[s].gname \cup cache[s].gns \subseteq GraphRow
         /\ cache[s].lname \cup cache[s].lid \subseteq LabelRow
         /\ inval[s] \subseteq Oids \cup {Namespace}
    /\ seq \in [Oids -> 0 .. LabelIdMax]
    /\ oids \in 0 .. MaxOid /\ steps \in 0 .. MaxSteps
    /\ hook \in [Sessions -> BOOLEAN]

Init ==
    /\ cat = [graphs |-> {}, labels |-> {}, rows |-> {}]
    /\ tx = [s \in Sessions |-> NoChange]
    /\ cache = [s \in Sessions |-> EmptyCache]
    /\ inval = [s \in Sessions |-> {}]
    /\ seq = [o \in Oids |-> 0]
    /\ oids = 0
    /\ steps = 0
    /\ res = [s \in Sessions |-> "ok"]
    /\ hook = [s \in Sessions |-> TRUE]

-----------------------------------------------------------------------------
\* every transaction begun and every statement that changes rows counts
Step == steps < MaxSteps /\ steps' = steps + 1

(* What a session sees, and what others have changed and not committed.    *)
Graphs(s) == (cat.graphs \ tx[s].gd) \cup tx[s].gi
LabelRows(s) == (cat.labels \ tx[s].ld) \cup tx[s].li
Others(s) == Sessions \ {s}

\* Another transaction holds what this one needs: the schema's name in its
\* unique index; a label, which is being dropped or written to; any label of
\* a graph that is to be dropped; the parent table of a new label, which the
\* creation of another label of that kind keeps locked, or the new label's
\* entry in a unique index.
NameBusy(s, n) == \E t \in Others(s) : \E g \in tx[t].gi \cup tx[t].gd : g.name = n
LabelBusy(s, row) == \E t \in Others(s) :
    row \in tx[t].ld \/ \E r \in tx[t].vi : r.rel = row.rel
GraphBusy(s, o) == \E t \in Others(s) :
    \/ \E l \in tx[t].li \cup tx[t].ld : l.graph = o
    \/ \E r \in tx[t].vi, l \in LabelRows(s) : l.graph = o /\ l.rel = r.rel
NewLabelBusy(s, new, up) == \E t \in Others(s) :
    \/ up \cap tx[t].ld # {}
    \/ \E l \in tx[t].li \cup tx[t].ld :
         l.graph = new.graph /\ (l.name = new.name \/ l.id = new.id)
    \/ \E l \in tx[t].li : l.graph = new.graph /\ l.kind = new.kind

-----------------------------------------------------------------------------
(* Lookups (ag_cache.c): the cached row when there is one, else the row of *)
(* the table, which enters the cache.  A row that is not there is not      *)
(* remembered.                                                             *)
search_graph_name_cache(s, n) ==
    LET hit == {g \in cache[s].gname : g.name = n}
    IN  IF hit # {} THEN hit ELSE {g \in Graphs(s) : g.name = n}

search_graph_namespace_cache(s, o) ==
    LET hit == {g \in cache[s].gns : g.oid = o}
    IN  IF hit # {} THEN hit ELSE {g \in Graphs(s) : g.oid = o}

search_label_name_graph_cache(s, n, o) ==
    LET hit == {l \in cache[s].lname : l.name = n /\ l.graph = o}
    IN  IF hit # {} THEN hit ELSE {l \in LabelRows(s) : l.name = n /\ l.graph = o}

search_label_graph_oid_cache(s, o, i) ==
    LET hit == {l \in cache[s].lid : l.graph = o /\ l.id = i}
    IN  IF hit # {} THEN hit ELSE {l \in LabelRows(s) : l.graph = o /\ l.id = i}

label_id_exists(s, o, i) == search_label_graph_oid_cache(s, o, i) # {}

\* a hit never happens here: the miss handler fills the entry from its first
\* byte, over the hash key
search_label_relation_cache(s, r) == {l \in LabelRows(s) : l.rel = r}

Filled(c, which, rows) == [c EXCEPT ![which] = @ \cup rows]

(* Invalidation: a message about a namespace flushes both graph caches, one *)
(* about a relation removes its entries from the label caches.             *)
invalidate_graph_caches(c) == [c EXCEPT !.gname = {}, !.gns = {}]
InvalidateNamesOnly(c, rels) == [c EXCEPT !.lname = {l \in @ : l.rel \notin rels}]
invalidate_label_caches(c, rels) ==
    [c EXCEPT !.lname = {l \in @ : l.rel \notin rels},
              !.lid   = {l \in @ : l.rel \notin rels}]

Invalidated(c, msgs) ==
    LET d == IF Namespace \in msgs THEN invalidate_graph_caches(c) ELSE c
    IN  invalidate_label_caches(d, msgs \ {Namespace})

Messages(t) == {l.rel : l \in t.li \cup t.ld}
               \cup (IF t.gi \cup t.gd # {} THEN {Namespace} ELSE {})

-----------------------------------------------------------------------------
(* Transactions.                                                           *)
Begin(s) ==
    /\ ~tx[s].on /\ Step
    /\ tx' = [tx EXCEPT ![s].on = TRUE]
    /\ cache' = [cache EXCEPT ![s] = Invalidated(@, inval[s])]
    /\ inval' = [inval EXCEPT ![s] = {}]
    /\ res' = [res EXCEPT ![s] = "ok"]
    /\ UNCHANGED <<cat, seq, oids, hook>>

\* (a session that holds no entry has nothing to forget: it gets no message)
Commit(s) ==
    /\ tx[s].on
    /\ cat' = [graphs |-> Graphs(s), labels |-> LabelRows(s),
               rows |-> {r \in cat.rows \cup tx[s].vi :
                           \E l \in LabelRows(s), g \in Graphs(s) :
                             l.rel = r.rel /\ l.graph = g.oid}]
    /\ inval' = [t \in Sessions |->
                   IF t = s \/ cache[t] = EmptyCache THEN inval[t]
                   ELSE inval[t] \cup Messages(tx[s])]
    /\ tx' = [tx EXCEPT ![s] = NoChange]
    /\ UNCHANGED <<cache, seq, oids, res, steps, hook>>

\* rollback, or any statement that fails with the error e; of the errors only
\* that of get_new_label_id is remembered
Fail(s, e) ==
    /\ tx' = [tx EXCEPT ![s] = NoChange]
    /\ cache' = [cache EXCEPT ![s] = Invalidated(@, Messages(tx[s]))]
    /\ res' = [res EXCEPT ![s] = IF e = "no more labels" THEN e ELSE "ok"]
    /\ UNCHANGED <<cat, inval, seq, oids, steps, hook>>
Abort(s) == tx[s].on /\ Fail(s, "rollback")

\* a null cache entry is dereferenced: the server restarts
Crash ==
    /\ tx' = [t \in Sessions |-> NoChange]
    /\ cache' = [t \in Sessions |-> EmptyCache]
    /\ inval' = [t \in Sessions |-> {}]
    /\ hook' = [t \in Sessions |-> TRUE]
    /\ UNCHANGED <<cat, seq, oids, res, steps>>

\* the client of a session whose backend lost the hook connects again
Reconnect(s) ==
    /\ ~tx[s].on /\ ~hook[s]
    /\ hook' = [hook EXCEPT ![s] = TRUE]
    /\ cache' = [cache EXCEPT ![s] = EmptyCache]
    /\ inval' = [inval EXCEPT ![s] = {}]
    /\ UNCHANGED <<cat, tx, seq, oids, res, steps>>

\* messages accepted in the middle of a transaction, at any lock
Accept(s) ==
    /\ tx[s].on /\ inval[s] # {}
    /\ cache' = [cache EXCEPT ![s] = Invalidated(@, inval[s])]
    /\ inval' = [inval EXCEPT ![s] = {}]
    /\ UNCHANGED <<cat, tx, seq, oids, res, steps, hook>>

\* the message queue overflowed: every cache is flushed
Reset(s) ==
    /\ cache[s] # EmptyCache
    /\ cache' = [cache EXCEPT ![s] = EmptyCache]
    /\ inval' = [inval EXCEPT ![s] = {}]
    /\ UNCHANGED <<cat, tx, seq, oids, res, steps, hook>>

-----------------------------------------------------------------------------
(* Graphs (graph_commands.c).                                              *)
is_valid_graph_name(n) == n \notin BadNames

\* the k-th value nextval gives when last is the sequence's; it cycles
AfterWithoutCycle(last, k) == last + k
After(last, k) ==
    IF last + k <= LabelIdMax THEN last + k ELSE last + k - LabelIdMax

\* LABEL_ID_MAX values are tried, until one is not used
get_new_label_id(last, used) ==
    LET free == {k \in 1 .. LabelIdMax : After(last, k) \notin used}
    IN  IF free = {} THEN InvalidLabelId
        ELSE After(last, CHOOSE k \in free : \A j \in free : k <= j)
\* the values it tries before the value i
Tried(last, i) == {After(last, k) : k \in
    {k \in 1 .. LabelIdMax : \A m \in 1 .. k : After(last, m) # i}}

\* the row create_label inserts; its id default names the graph by its name
build_id_default_func_expr(g) == g.name
NewLabel(g, n, k, r, i) ==
    [name |-> n, graph |-> g.oid, id |-> i, kind |-> k, rel |-> r,
     dg |-> build_id_default_func_expr(g)]

\* schema and sequence, the ag_graph row, then the two default labels
create_graph(s, n) ==
    /\ tx[s].on /\ ~NameBusy(s, n)
    /\ IF ~is_valid_graph_name(n) THEN Fail(s, "invalid name")
       ELSE IF search_graph_name_cache(s, n) # {} THEN Fail(s, "already exists")
       ELSE LET g == [name |-> n, oid |-> oids + 1]
                dv == NewLabel(g, DefaultVertex, "v", oids + 2, 1)
                de == NewLabel(g, DefaultEdge, "e", oids + 3, 2)
            IN  /\ oids + 3 <= MaxOid
                /\ IF \E h \in Graphs(s) : h.name = n
                   THEN Fail(s, "duplicate key")
                   ELSE /\ oids' = oids + 3
                        /\ seq' = [seq EXCEPT ![g.oid] = 2]
                        /\ tx' = [tx EXCEPT ![s].gi = @ \cup {g},
                                            ![s].li = @ \cup {dv, de}]
                        /\ cache' = [cache EXCEPT ![s] =
                              Filled(invalidate_graph_caches(@), "gname", {g})]
                        /\ res' = [res EXCEPT ![s] = "ok"]
                        /\ UNCHANGED <<cat, inval, hook>> /\ Step

\* DROP SCHEMA CASCADE deletes every label table; the object access hook
\* deletes the ag_label row of each before the graph's own row goes
Tables(s, o) == {l \in LabelRows(s) : l.graph = o}
NoHook(s, o) == {}
object_access(s, o) == IF hook[s] THEN Tables(s, o) ELSE {}

Dropped(t, gs, ls) ==
    [t EXCEPT !.gi = @ \ gs, !.gd = @ \cup (gs \cap cat.graphs),
              !.li = @ \ ls, !.ld = @ \cup (ls \cap cat.labels),
              !.vi = {r \in @ : \A l \in ls : l.rel # r.rel}]
drop_graph(s, n, cascade) ==
    LET found == search_graph_name_cache(s, n) IN
    /\ tx[s].on /\ ~NameBusy(s, n) /\ \A g \in found : ~GraphBusy(s, g.oid)
    /\ IF found = {} THEN Fail(s, "does not exist")
       ELSE LET g == CHOOSE h \in found : TRUE
                tables == Tables(s, g.oid)
            IN  IF ~cascade /\ tables # {} THEN Fail(s, "other objects depend on it")
                ELSE IF g \notin Graphs(s) THEN Fail(s, "catalog is corrupted")
                ELSE /\ tx' = [tx EXCEPT ![s] = Dropped(@, {g}, object_access(s, g.oid))]
                     /\ cache' = [cache EXCEPT ![s] =
                          Invalidated(@, {Namespace} \cup {l.rel : l \in tables})]
                     /\ res' = [res EXCEPT ![s] = "ok"]
                     /\ UNCHANGED <<cat, inval, seq, oids, hook>> /\ Step

\* the schema is renamed and the ag_graph row updated; the label tables and
\* their id defaults are not
rename_graph(s, n, m) ==
    LET found == search_graph_name_cache(s, n) IN
    /\ tx[s].on /\ n # m /\ ~NameBusy(s, n) /\ ~NameBusy(s, m)
    /\ IF ~is_valid_graph_name(m) THEN Fail(s, "invalid name")
       ELSE IF found = {} THEN Fail(s, "does not exist")
       ELSE IF \E g \in Graphs(s) : g.name = m THEN Fail(s, "already exists")
       ELSE LET g == CHOOSE h \in found : TRUE
                t == Dropped(tx[s], {g}, {})
            IN  IF g \notin Graphs(s) THEN Fail(s, "catalog is corrupted")
                ELSE /\ tx' = [tx EXCEPT ![s] =
                            [t EXCEPT !.gi = @ \cup {[g EXCEPT !.name = m]}]]
                     /\ cache' = [cache EXCEPT ![s] = invalidate_graph_caches(@)]
                     /\ res' = [res EXCEPT ![s] = "ok"]
                     /\ UNCHANGED <<cat, inval, seq, oids, hook>> /\ Step

\* DROP EXTENSION drops every graph the session sees, takes the hook out of
\* its backend, and drops ag_graph and ag_label themselves.  A transaction that
\* has just made a graph no longer locks ag_graph: that case is left out.  A
\* client that goes on has created the extension again.
drop_age_extension(s) ==
    LET gs == Graphs(s)
        ls == LabelRows(s)
    IN  /\ tx[s].on
        /\ \A g \in gs : ~NameBusy(s, g.name) /\ ~GraphBusy(s, g.oid)
        /\ \A t \in Others(s) : tx[t].gi = {}
        /\ tx' = [tx EXCEPT ![s] = Dropped(@, gs, ls)]
        /\ cache' = [cache EXCEPT ![s] =
                       Invalidated(@, {Namespace} \cup {l.rel : l \in ls})]
        /\ hook' = [hook EXCEPT ![s] = FALSE]
        /\ res' = [res EXCEPT ![s] = "ok"]
        /\ UNCHANGED <<cat, inval, seq, oids>> /\ Step

-----------------------------------------------------------------------------
(* Labels (label_commands.c).  create_vlabel and create_elabel.            *)
create_label(s, n, l, k) ==
    LET found == search_graph_name_cache(s, n)
        parent == IF k = "v" THEN DefaultVertex ELSE DefaultEdge
    IN
    /\ tx[s].on
    /\ IF found = {} THEN Fail(s, "does not exist")
       ELSE LET g == CHOOSE h \in found : TRUE
                same == search_label_name_graph_cache(s, l, g.oid)
                up == search_label_name_graph_cache(s, parent, g.oid)
                used == {j \in 1 .. LabelIdMax : label_id_exists(s, g.oid, j)}
                i == get_new_label_id(seq[g.oid], used)
                tried == UNION {search_label_graph_oid_cache(s, g.oid, j) :
                                  j \in Tried(seq[g.oid], i)}
                row == NewLabel(g, l, k, oids + 1, i)
            IN  IF same # {} THEN Fail(s, "already exists")
                ELSE IF up = {} THEN Crash
                ELSE IF g \notin Graphs(s) \/ up \cap LabelRows(s) = {}
                THEN Fail(s, "schema does not exist")
                ELSE IF i = InvalidLabelId THEN Fail(s, "no more labels")
                ELSE /\ oids < MaxOid /\ ~NewLabelBusy(s, row, up)
                     /\ oids' = oids + 1
                     /\ seq' = [seq EXCEPT ![g.oid] = i]
                     /\ tx' = [tx EXCEPT ![s].li = @ \cup {row}]
                     /\ cache' = [cache EXCEPT ![s] =
                          Filled(Filled(Filled(@, "gname", found), "lname", up), "lid", tried)]
                     /\ res' = [res EXCEPT ![s] = "ok"]
                     /\ UNCHANGED <<cat, inval, hook>> /\ Step

create_vlabel(s, n, l) == create_label(s, n, l, "v")
create_elabel(s, n, l) == create_label(s, n, l, "e")

\* DROP TABLE RESTRICT: a default label goes only when nothing inherits it
remove_relation(s, row) ==
    row.name \in Labels \/ {x \in LabelRows(s) : x.graph = row.graph /\ x.kind = row.kind} = {row}
drop_label(s, n, l) ==
    LET found == search_graph_name_cache(s, n) IN
    /\ tx[s].on
    /\ IF found = {} THEN Fail(s, "does not exist")
       ELSE LET g == CHOOSE h \in found : TRUE
                rows == search_label_name_graph_cache(s, l, g.oid)
            IN  IF rows = {} THEN Fail(s, "does not exist")
                ELSE LET row == CHOOSE x \in rows : TRUE
                     IN  IF row \notin LabelRows(s) THEN Fail(s, "catalog is corrupted")
                         ELSE IF ~remove_relation(s, row)
                         THEN Fail(s, "other objects depend on it")
                         ELSE /\ ~LabelBusy(s, row)
                              /\ \A t \in Others(s) : \A x \in tx[t].li : x.graph # g.oid \/ l \in Labels
                              /\ tx' = [tx EXCEPT ![s] = Dropped(@, {}, {row})]
                              /\ cache' = [cache EXCEPT ![s] = invalidate_label_caches(
                                             Filled(@, "gname", found), {row.rel})]
                              /\ res' = [res EXCEPT ![s] = "ok"]
                              /\ UNCHANGED <<cat, inval, seq, oids, hook>> /\ Step

\* DROP TABLE or DROP SCHEMA by hand: the hook refuses what backs a graph
user_drop(s, l) ==
    /\ tx[s].on /\ l \in LabelRows(s)
    /\ search_label_relation_cache(s, l.rel) # {}
    /\ Fail(s, "table is for label")

-----------------------------------------------------------------------------
(* Ids.  The id column's default is _graphid(_label_id(graph, label), ...) *)
(* with the names the label was created under; an id that is not valid     *)
(* makes _graphid fail.                                                    *)
_label_id(s, gname, lname) ==
    LET g == search_graph_name_cache(s, gname)
        l == UNION {search_label_name_graph_cache(s, lname, x.oid) : x \in g}
    IN  IF l = {} THEN InvalidLabelId ELSE (CHOOSE x \in l : TRUE).id

insert_vertex(s, n, l) ==
    LET found == search_graph_name_cache(s, n)
        rows == UNION {search_label_name_graph_cache(s, l, g.oid) : g \in found}
    IN
    /\ tx[s].on /\ rows # {} /\ \A t \in Others(s) : rows \cap tx[t].ld = {}
    /\ LET row == CHOOSE x \in rows : TRUE
           i == _label_id(s, row.dg, row.name)
       IN  IF row \notin LabelRows(s) THEN Fail(s, "relation does not exist")
           ELSE IF i = InvalidLabelId THEN Fail(s, "label_id must be 1 .. LABEL_ID_MAX")
           ELSE /\ tx' = [tx EXCEPT ![s].vi = @ \cup {[rel |-> row.rel, lid |-> i]}]
                /\ cache' = [cache EXCEPT ![s] =
                               Filled(Filled(@, "gname", found), "lname", rows)]
                /\ res' = [res EXCEPT ![s] = "ok"]
                /\ UNCHANGED <<cat, inval, seq, oids, hook>> /\ Step

\* the label's name from a graphid: the graph by namespace, the label by id
_label_name(s, o, i) ==
    LET g == search_graph_namespace_cache(s, o)
        l == search_label_graph_oid_cache(s, o, i)
    IN
    /\ tx[s].on
    /\ IF g = {} THEN Fail(s, "does not exist")
       ELSE IF l = {} THEN Fail(s, "label does not exist")
       ELSE /\ cache' = [cache EXCEPT ![s] = Filled(Filled(@, "gns", g), "lid", l)]
            /\ res' = [res EXCEPT ![s] = "ok"]
            /\ UNCHANGED <<cat, tx, inval, seq, oids, steps, hook>>

-----------------------------------------------------------------------------
Next ==
    \E s \in Sessions :
       \/ Begin(s) \/ Commit(s) \/ Abort(s) \/ Accept(s) \/ Reset(s) \/ Reconnect(s)
       \/ \E n \in Names : create_graph(s, n)
       \/ hook[s] /\ \E n \in Names, c \in BOOLEAN : drop_graph(s, n, c)
       \/ \E n, m \in Names : rename_graph(s, n, m)
       \/ drop_age_extension(s)
       \/ \E n \in Names, l \in Labels : create_vlabel(s, n, l)
       \/ \E n \in Names, l \in Labels : create_elabel(s, n, l)
       \/ hook[s] /\ \E n \in Names, l \in AllLabels : drop_label(s, n, l)
       \/ hook[s] /\ \E l \in cat.labels \cup tx[s].li : user_drop(s, l)
       \/ \E n \in Names, l \in AllLabels : insert_vertex(s, n, l)
       \/ \E o \in 1 .. oids, i \in 1 .. LabelIdMax : _label_name(s, o, i)

Spec == Init /\ [][Next]_vars

-----------------------------------------------------------------------------
(* A cached graph or label row is one the session sees, unless a message   *)
(* about it is still waiting: no commit, rollback, rename or drop by any   *)
(* session leaves a stale entry behind (ag_cache.c registers the flushes   *)
(* on the namespace and relation caches of PostgreSQL, never on ag_graph   *)
(* and ag_label themselves).                                               *)
CacheFresh == \A s \in Sessions : inval[s] = {} =>
    /\ cache[s].gname \cup cache[s].gns \subseteq Graphs(s)
    /\ cache[s].lname \cup cache[s].lid \subseteq LabelRows(s)

(* What is committed is a catalog: every label belongs to a graph that     *)
(* exists, whatever was dropped by whom, and names one id of it.  A graph  *)
(* goes through the hook of the session that drops it; of a backend that   *)
(* has lost the hook to a DROP EXTENSION this is false (AgeUnhooked.cfg),  *)
(* and Next has that session reconnect first.                              *)
CatalogConsistent ==
    /\ \A g, h \in cat.graphs : (g.name = h.name \/ g.oid = h.oid) => g = h
    /\ \A l \in cat.labels : \E g \in cat.graphs : g.oid = l.graph
    /\ \A l, m \in cat.labels :
         l.graph = m.graph /\ (l.name = m.name \/ l.id = m.id) => l = m

(* "no more new labels are available" (label_commands.c:829) is true when  *)
(* it is said: label_id_exists asks a cache, and no entry of a label that  *)
(* is gone, dropped by this session or by another or rolled back, makes an *)
(* id look used for a session that has taken in its messages.              *)
FullGraph(s, g) == \A i \in 1 .. LabelIdMax :
    \E l \in LabelRows(s) : l.graph = g.oid /\ l.id = i
ShortageIsReal == [][\A s \in Sessions :
    inval[s] = {} /\ res[s] # "no more labels" /\ res'[s] = "no more labels"
        => \E g \in Graphs(s) : FullGraph(s, g)]_vars

(* _label_name: "Using the graph name and the vertex/edge's graphid, find  *)
(* the correct label name" (ag_label.c:184): the label id in the id of a   *)
(* row is the id of the label whose table holds the row.                   *)
LabelNameIsCorrect == \A r \in cat.rows :
    \E l \in cat.labels : l.rel = r.rel /\ l.id = r.lid

=============================================================================
