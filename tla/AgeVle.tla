------------------------------- MODULE AgeVle -------------------------------
(***************************************************************************)
(* Variable length edges: -[*1..3]- in MATCH.  A backend keeps the graph   *)
(* it loaded under some snapshot, and keeps for each VLE of a statement a  *)
(* context with the stacks of its search, for the next time the statement, *)
(* prepared or in a function, is executed.  One call of age_vle gives one  *)
(* path; a step is one iteration of the loop that looks for it.  Other     *)
(* backends change the graph in transactions of their own.                 *)
(* There is one graph; a transaction has its xid from what it wrote        *)
(* elsewhere, and makes one change to the graph.                           *)
(***************************************************************************)
EXTENDS Integers, FiniteSets, SequencesExt, TLC

CONSTANTS Vertices, Edges,   \* sequences of ids, in the order of their tables
          Shapes,            \* the ways to lay the edges: functions to <<start, end>>
          First,             \* what is stored at first
          Changes,           \* changes a transaction may make
          Nodes,             \* the VLEs of the statements, with their arguments
          MaxContexts,       \* MAXIMUM_NUMBER_OF_CACHED_LOCAL_CONTEXTS
          MaxXid,            \* bound: transactions
          MaxRunning,        \* bound: transactions that run at the same time
          Cancels,           \* where a query may be cancelled: "load", "fetch"
          None

\* a graph: the rows that are stored and the edges with the properties asked for
Graph(rows, tagged) == [rows |-> rows, tagged |-> tagged]
Dirs == {"right", "left", "none"}

ASSUME AgeVleConstants ==
    /\ MaxContexts \in Nat /\ MaxXid \in Nat /\ MaxRunning \in Nat /\ Vertices # <<>>
    /\ Vertices \in Seq(Range(Vertices)) /\ Edges \in Seq(Range(Edges))
    /\ IsInjective(Vertices) /\ IsInjective(Edges)
    /\ Shapes \subseteq [Range(Edges) -> Range(Vertices) \X Range(Vertices)]
    /\ \A n \in DOMAIN Nodes : Nodes[n].dir \in Dirs /\ Nodes[n].lidx \in Nat
    /\ None \notin Nat /\ None \notin Changes
    /\ Cancels \subseteq {"load", "fetch"}

VARIABLES shape,      \* where the edges lie
          stored,     \* the committed graph
          running,    \* the transactions that run: their changes, or None, by xid
          own,        \* the xid of the backend's transaction, or None
          completed,  \* latestCompletedXid
          nextXid,
          context,    \* GRAPH_global_context of the graph, or None
          locked,     \* mutex_lock, between two calls
          cache,      \* global_vle_local_contexts but the one in use
          call        \* the call of age_vle, and the paths it gave
store == <<stored, running, own, completed, nextXid>>
vars == <<shape, store, context, locked, cache, call>>

-----------------------------------------------------------------------------
(* PostgreSQL: what a snapshot sees, and what it is recognised by.         *)
Changed(g, c) ==
    CASE c[1] = "insert" -> [g EXCEPT !.rows = @ \cup {c[2]}]
      [] c[1] = "delete" -> [g EXCEPT !.rows = @ \ {c[2]}]
      [] c[1] = "set"    -> [g EXCEPT !.tagged = IF c[2] \in @ THEN @ \ {c[2]} ELSE @ \cup {c[2]}]
Seen == IF own = None THEN stored
        ELSE IF running[own] = None THEN stored ELSE Changed(stored, running[own])
Snapshot == [xmin |-> Min(DOMAIN running \cup {completed + 1}), xmax |-> completed + 1,
             curcid |-> IF own = None THEN 0 ELSE IF running[own] = None THEN 1 ELSE 2]

-----------------------------------------------------------------------------
(* The loaded graph.                                                       *)
\* the members of S, in the order of their table
InOrder(table, S) ==
    LET T == {i \in DOMAIN table : table[i] \in S}
    IN  [n \in 1 .. Cardinality(T) |-> table[CHOOSE i \in T : Cardinality({j \in T : j <= i}) = n]]
vertices(g) == InOrder(Vertices, g.rows)
HasVertex(g, v) == v \in Range(Vertices) /\ v \in g.rows
get_edge_entry_start_vertex_id(e) == shape[e][1]
get_edge_entry_end_vertex_id(e) == shape[e][2]
IsLoop(e) == shape[e][1] = shape[e][2]
(* insert_vertex_edge: an edge without its end is in the list of its start *)
(* all the same, one without its start is in no list.                      *)
Loaded(g) == {e \in Range(Edges) : e \in g.rows}
edges_self(g, v) == {e \in Loaded(g) : IsLoop(e) /\ shape[e][1] = v}
edges_out(g, v) == {e \in Loaded(g) : ~IsLoop(e) /\ shape[e][1] = v}
edges_in(g, v) == {e \in Loaded(g) : ~IsLoop(e) /\ shape[e][2] = v /\ HasVertex(g, shape[e][1])}

\* whatever the command wrote
IgnoresCommands(ctx) == ctx.key.xmin # Snapshot.xmin \/ ctx.key.xmax # Snapshot.xmax
is_ggctx_invalid(ctx) == ctx.key # Snapshot

find_GRAPH_global_context == context
Loads == IF context = None THEN TRUE ELSE is_ggctx_invalid(context)
NewContext(key, g) == [key |-> key, graph |-> g]

-----------------------------------------------------------------------------
(* A local context: the arguments, and the three stacks, top first; next   *)
(* is the list of start vertices from next_vertex on.  With an end, paths  *)
(* are searched between two vertices though no start is given, so that the *)
(* first vertex is the only start: VLE_FUNCTION_PATHS_TO is never used.    *)
Unseen == [e \in Range(Edges) |-> "unmatched"]
NewLocal(n, from, to, g) ==
    [node |-> n, start |-> IF from = None THEN vertices(g)[1] ELSE from, end |-> to,
     next |-> IF from = None THEN Tail(vertices(g)) ELSE vertices(g),
     path_function |-> IF to # None THEN "between" ELSE IF from = None THEN "all" ELSE "from",
     used |-> {}, matched |-> Unseen, vertex_stack |-> <<>>, edge_stack |-> <<>>,
     path_stack |-> <<>>, is_dirty |-> TRUE]
Args(l) == Nodes[l.node]
Push(x, stack) == <<x>> \o stack
WithinUpper(l, n) == IF Args(l).uidx = None THEN TRUE ELSE n <= Args(l).uidx

is_an_edge_match(l, g, e) == Args(l).tagged => e \in g.tagged

\* an edge is compared with the properties once, and its state kept
Matched(l, g, e) == IF l.matched[e] = "unmatched" THEN is_an_edge_match(l, g, e) ELSE l.matched[e] = "yes"
\* the edges of the lists of v that are not in the path are pushed one by one
add_valid_vertex_edges(l, g, v) ==
    LET out == IF Args(l).dir \in {"right", "none"} THEN edges_out(g, v) ELSE {}
        in == IF Args(l).dir \in {"left", "none"} THEN edges_in(g, v) ELSE {}
        met == (out \cup in \cup edges_self(g, v)) \ l.used
        new == {e \in met : Matched(l, g, e)}
        pushed == Reverse(InOrder(Edges, out \cap new) \o InOrder(Edges, in \cap new)
                          \o InOrder(Edges, edges_self(g, v) \cap new))
    IN  [l EXCEPT !.matched = [e \in Range(Edges) |-> IF e \in new THEN "yes" ELSE
                                                      IF e \in met THEN "no" ELSE l.matched[e]],
                  !.edge_stack = pushed \o @,
                  !.vertex_stack = IF Args(l).dir = "none" THEN [i \in DOMAIN pushed |-> v] \o @ ELSE @]

do_vsid_and_veid_exist(l, g) ==
    HasVertex(g, l.start) /\ (l.path_function = "between" => HasVertex(g, l.end))
load_initial_dfs_stacks(l, g) ==
    IF do_vsid_and_veid_exist(l, g) THEN add_valid_vertex_edges(l, g, l.start) ELSE l

\* the edge's own end, wherever the search came from
FollowsEdge(l, e) == IF Args(l).dir = "left" THEN shape[e][1] ELSE shape[e][2]

get_next_vertex(l, e) ==
    CASE Args(l).dir = "right" -> shape[e][2]
      [] Args(l).dir = "left" -> shape[e][1]
      [] Args(l).dir = "none" -> IF shape[e][1] = Head(l.vertex_stack) THEN shape[e][2] ELSE shape[e][1]

\* the source of the edge stays behind
KeepsVertex(l) ==
    LET e == Head(l.edge_stack) IN
    [l EXCEPT !.path_stack = IF Head(@) = e THEN Tail(@) ELSE @,
              !.used = IF Head(l.path_stack) = e THEN @ \ {e} ELSE @,
              !.edge_stack = Tail(@)]
\* the edge on top has been explored: take it off the path and the stacks
BackUp(l) ==
    LET e == Head(l.edge_stack) IN
    [l EXCEPT !.path_stack = IF Head(@) = e THEN Tail(@) ELSE @,
              !.used = IF Head(l.path_stack) = e THEN @ \ {e} ELSE @,
              !.edge_stack = Tail(@),
              !.vertex_stack = IF Args(l).dir = "none" THEN Tail(@) ELSE @]

\* towards an end all paths are followed further, even those that reach it
Accepts(l, v, n) ==
    /\ l.path_function = "between" => v = l.end
    /\ n >= Args(l).lidx /\ WithinUpper(l, n)
\* the edge on top is put on the path
OnPath(l) ==
    LET e == Head(l.edge_stack) IN [l EXCEPT !.used = @ \cup {e}, !.path_stack = Push(e, @)]

\* the vertices of a path: the other end of each edge
build_VLE_path_container(l) ==
    FoldLeft(LAMBDA p, e : p \o <<e, IF shape[e][1] = Last(p) THEN shape[e][2] ELSE shape[e][1]>>,
             <<l.start>>, Reverse(l.path_stack))
build_VLE_zero_container(l) == <<l.start>>

-----------------------------------------------------------------------------
(* Paths between the rows of a MATCH.                                      *)
EdgesOf(p) == [i \in 1 .. Len(p) \div 2 |-> p[2 * i]]
age_match_two_vle_edges(p, q) == Last(p) = q[1]
age_match_vle_edge_to_id_qual(p, id, on_left) == id = IF on_left THEN Last(p) ELSE p[1]
age_match_vle_terminal_edge(from, to, p) == p[1] = from /\ Last(p) = to
\* an argument is the sequence of edges of a path, or of one edge
_ag_enforce_edge_uniqueness(args) == LET all == FlattenSeq(args) IN IsInjective(all)

\* what a path is shown as: an id that is not loaded is a null pointer
Shows(g, ids) == Range(ids) \subseteq g.rows
build_path(g, p) == IF Shows(g, p) THEN p ELSE None
build_edge_list(g, p) == IF Shows(g, EdgesOf(p)) THEN EdgesOf(p) ELSE None

-----------------------------------------------------------------------------
Idle == [phase |-> "idle"]
Init == /\ shape \in Shapes
        /\ stored = First /\ running = <<>> /\ own = None /\ completed = 0 /\ nextXid = 1
        /\ context = None /\ locked = FALSE /\ cache = <<>> /\ call = Idle

Ready == call.phase \in {"idle", "done"}   \* for the next statement

\* a transaction gets its xid: another backend's, or this one's between two
\* statements
Assign(mine) ==
    /\ nextXid <= MaxXid /\ Cardinality(DOMAIN running) < MaxRunning
    /\ mine => own = None /\ Ready
    /\ running' = [x \in DOMAIN running \cup {nextXid} |-> IF x = nextXid THEN None ELSE running[x]]
    /\ own' = IF mine THEN nextXid ELSE own
    /\ nextXid' = nextXid + 1
    /\ UNCHANGED <<shape, stored, completed, context, locked, cache, call>>
\* it writes to the graph, unless that waits for a ShareLock to be had and left
Write(x, c) ==
    /\ running[x] = None /\ call.phase # "load" /\ (x = own => Ready)
    /\ running' = [running EXCEPT ![x] = c]
    /\ UNCHANGED <<shape, stored, own, completed, nextXid, context, locked, cache, call>>

\* the transactions xs are over
Ended(xs) == /\ running' = [x \in DOMAIN running \ xs |-> running[x]]
             /\ completed' = Max(xs \cup {completed})
             /\ own' = IF own \in xs THEN None ELSE own
             /\ UNCHANGED nextXid
End(x, commits) ==
    /\ x = own => Ready
    /\ Ended({x})
    /\ stored' = IF commits /\ running[x] # None THEN Changed(stored, running[x]) ELSE stored
    /\ UNCHANGED <<shape, context, locked, cache, call>>

\* an error ends the transaction of the backend; a crash, all of the server
Aborts == Ended({own} \ {None}) /\ UNCHANGED stored
Crash == /\ Ended(DOMAIN running)
         /\ context' = None /\ locked' = FALSE /\ cache' = <<>> /\ call' = Idle
         /\ UNCHANGED <<shape, stored>>

-----------------------------------------------------------------------------
(* The cache of local contexts.  A lookup walks MaxContexts entries and    *)
(* purges what follows them; an entry of the node is taken out if it can   *)
(* be used again, or else removed.                                         *)
Found(n) == {i \in DOMAIN cache : i <= MaxContexts /\ cache[i].node = n}
Others(n) == IF Found(n) = {} THEN SubSeq(cache, 1, Min({Len(cache), MaxContexts}))
             ELSE RemoveAt(cache, Min(Found(n)))
get_cached_VLE_local_context(n) ==
    IF find_GRAPH_global_context = None THEN {}
    ELSE {cache[i] : i \in {j \in Found(n) : ~cache[j].is_dirty /\ ~is_ggctx_invalid(context)}}
cache_VLE_local_context(l) == IF Args(l).cache THEN <<l>> \o cache ELSE cache
\* the memory of its stacks is gone with the call, and nothing reads the rest
Dirty(l) == [node |-> l.node, is_dirty |-> TRUE]

\* a new context
build_local_vle_context(n, from, to, g) == load_initial_dfs_stacks(NewLocal(n, from, to, g), g)
\* one that was used before: it keeps its path function and its edge states,
\* and goes on in the list of start vertices
ReusedLocal(l, from, to) ==
    load_initial_dfs_stacks(
        [l EXCEPT !.start = IF from = None THEN Head(l.next) ELSE from,
                  !.next = IF from = None THEN Tail(@) ELSE @,
                  !.end = to, !.is_dirty = TRUE], context.graph)
\* from: the start the call asked for
Begun(l, from, g, seen) ==
    [phase |-> "fetch", local |-> l, from |-> from, graph |-> g, seen |-> seen,
     rows |-> IF Args(l).lidx = 0 THEN <<build_VLE_zero_container(l)>> ELSE <<>>]

\* what is done with the graph g once it is there
Continue(op, g, seen) ==
    \/ /\ op.what = "vle" /\ vertices(g) # <<>>
       /\ call' = Begun(build_local_vle_context(op.node, op.from, op.to, g), op.from, g, seen)
       /\ UNCHANGED store
    \/ op.what = "vle" /\ vertices(g) = <<>> /\ call' = Idle /\ Aborts
    \/ op.what = "stats" /\ call' = Idle /\ UNCHANGED store

\* what is not valid is freed; the new context is attached before it is loaded,
\* where the mutex, held for all the time, keeps it from being read
manage_GRAPH_global_contexts(op, valid) ==
    \/ /\ valid /\ Continue(op, context.graph, Seen)
       /\ UNCHANGED <<shape, context, locked>>
    \/ /\ ~valid
       /\ context' = None /\ locked' = TRUE
       /\ call' = [phase |-> "load", op |-> op, key |-> Snapshot, seen |-> Seen]
       /\ UNCHANGED <<shape, store>>

\* a ShareLock on the label tables waits for the transactions that wrote to them
load_GRAPH_global_hashtables ==
    /\ call.phase = "load"
    /\ \A x \in DOMAIN running \ {own} : running[x] = None
    /\ context' = NewContext(call.key, call.seen)
    /\ locked' = FALSE
    /\ Continue(call.op, call.seen, call.seen)
    /\ UNCHANGED <<shape, cache>>
\* cancelled, or chosen to break a deadlock: an error does not unlock the mutex
CancelLoad ==
    /\ "load" \in Cancels /\ call.phase = "load"
    /\ call' = Idle /\ Aborts
    /\ UNCHANGED <<shape, context, locked, cache>>
\* pthread_mutex_lock, by the process that holds it
Hang == /\ Ready /\ locked
        /\ call' = [phase |-> "hung"]
        /\ UNCHANGED <<shape, store, context, locked, cache>>

\* the first call of age_vle in a statement
Start(n, from, to) ==
    LET old == get_cached_VLE_local_context(n)
        l == CHOOSE x \in old : TRUE
    IN
    /\ Ready /\ ~locked
    /\ \/ /\ old = {}
          /\ manage_GRAPH_global_contexts(
                [what |-> "vle", node |-> n, from |-> from, to |-> to], ~Loads)
          /\ cache' = Others(n)
       \/ /\ old # {} /\ (from # None \/ l.next # <<>>)
          /\ cache' = Others(n)
          /\ call' = Begun(ReusedLocal(l, from, to), from, context.graph, Seen)
          /\ UNCHANGED <<shape, store, context, locked>>
       \/ \* next_vertex was left at the end of the list, or in a list that may
          \* have been freed since
          old # {} /\ from = None /\ Crash

(* age_vle: one more path, from the next start vertex when there is none   *)
(* left from this one, or the end.                                         *)
Inside == call.phase \in {"fetch", "search"}
\* an iteration of the loop: the edge on top has been explored, or is followed
BackingUp ==
    /\ Inside /\ call.local.edge_stack # <<>> /\ Head(call.local.edge_stack) \in call.local.used
    /\ call' = [call EXCEPT !.phase = "search", !.local = BackUp(@)]
    /\ UNCHANGED <<shape, store, context, locked, cache>>
dfs_find_a_path ==
    LET l == call.local
        g == call.graph
        on == OnPath(l)
        v == get_next_vertex(l, Head(l.edge_stack))
        n == Len(on.path_stack)
        further == WithinUpper(l, n + 1)
        more == IF further THEN add_valid_vertex_edges(on, g, v) ELSE on
    IN  /\ Inside /\ l.edge_stack # <<>> /\ Head(l.edge_stack) \notin l.used
        /\ \/ /\ further /\ ~HasVertex(g, v)   \* an error
              /\ cache' = cache_VLE_local_context(Dirty(l))
              /\ call' = Idle /\ Aborts
           \/ /\ further => HasVertex(g, v)
              /\ call' = IF Accepts(l, v, n)
                         THEN [call EXCEPT !.phase = "fetch", !.local = more,
                                           !.rows = Append(@, build_VLE_path_container(more))]
                         ELSE [call EXCEPT !.phase = "search", !.local = more]
              /\ UNCHANGED <<cache, store>>
        /\ UNCHANGED <<shape, context, locked>>
\* every start vertex is a path when the lower bound is zero, before any other
NextStart ==
    LET l == call.local
        loaded == load_initial_dfs_stacks([l EXCEPT !.start = Head(l.next), !.next = Tail(@)], call.graph)
    IN  /\ Inside /\ l.edge_stack = <<>> /\ l.path_function = "all" /\ l.next # <<>>
        /\ call' = IF Args(l).lidx = 0
                   THEN [call EXCEPT !.phase = "fetch", !.local = loaded,
                                     !.rows = Append(@, build_VLE_zero_container(loaded))]
                   ELSE [call EXCEPT !.phase = "search", !.local = loaded]
        /\ UNCHANGED <<shape, store, context, locked, cache>>
NoneLeft ==
    /\ Inside /\ call.local.edge_stack = <<>>
    /\ call.local.path_function # "all" \/ call.local.next = <<>>
    /\ cache' = cache_VLE_local_context([call.local EXCEPT !.is_dirty = FALSE])
    /\ call' = [call EXCEPT !.phase = "done"]
    /\ UNCHANGED <<shape, store, context, locked>>
\* the statement fails between two paths
CancelFetch ==
    /\ "fetch" \in Cancels /\ call.phase = "fetch"
    /\ cache' = cache_VLE_local_context(Dirty(call.local))
    /\ call' = Idle /\ Aborts
    /\ UNCHANGED <<shape, context, locked>>

\* of a vertex the statement found, so that it is loaded
age_vertex_stats ==
    /\ Ready /\ ~locked
    /\ manage_GRAPH_global_contexts([what |-> "stats"], ~Loads)
    /\ UNCHANGED cache
age_graph_stats ==
    /\ Ready /\ ~locked
    /\ manage_GRAPH_global_contexts([what |-> "stats"], FALSE)
    /\ UNCHANGED cache
age_delete_global_graphs ==
    /\ Ready /\ ~locked
    /\ context' = None /\ call' = Idle
    /\ UNCHANGED <<shape, store, locked, cache>>

Next ==
    \/ \E mine \in BOOLEAN : Assign(mine)
    \/ \E x \in DOMAIN running, c \in Changes : Write(x, c)
    \/ \E x \in DOMAIN running, commits \in BOOLEAN : End(x, commits)
    \/ \E n \in DOMAIN Nodes : \E from \in Nodes[n].start, to \in Nodes[n].end : Start(n, from, to)
    \/ load_GRAPH_global_hashtables \/ CancelLoad \/ Hang
    \/ BackingUp \/ dfs_find_a_path \/ NextStart \/ NoneLeft \/ CancelFetch
    \/ age_vertex_stats \/ age_graph_stats \/ age_delete_global_graphs
Spec == Init /\ [][Next]_vars

-----------------------------------------------------------------------------
\* the edge e leads from v to w
Leads(g, n, e, v, w) ==
    /\ Nodes[n].tagged => e \in g.tagged
    /\ {v, w} \subseteq g.rows /\ e \in g.rows
    /\ \/ Nodes[n].dir \in {"right", "none"} /\ shape[e] = <<v, w>>
       \/ Nodes[n].dir \in {"left", "none"} /\ shape[e] = <<w, v>>
\* the trails of i edges: walks that take no edge twice
Trails(g, n, from) ==
    LET T[i \in 0 .. Len(Edges)] ==
          IF i = 0 THEN {<<v>> : v \in IF from = None THEN Range(vertices(g)) ELSE {from}}
          ELSE {y[1] \o y[2] : y \in
                  {y \in T[i - 1] \X (Range(Edges) \X Range(Vertices)) :
                      y[2][1] \notin Range(EdgesOf(y[1])) /\ Leads(g, n, y[2][1], Last(y[1]), y[2][2])}}
    IN  T
\* the trails a context is asked for, from the start `from` or from all vertices
Wanted(l, g, from) ==
    LET T == Trails(g, l.node, from)
        hi == IF Args(l).uidx = None THEN Len(Edges) ELSE Min({Args(l).uidx, Len(Edges)})
    IN  {p \in UNION {T[i] : i \in Args(l).lidx .. hi} : l.end \in {None, Last(p)}}
\* the rows that pass the condition on the end
Served == SelectSeq(call.rows, LAMBDA p : call.local.end = None
                                           \/ age_match_vle_terminal_edge(p[1], call.local.end, p))

(* A statement that ran to its end was given each trail between its bounds *)
(* once and no other, from the start its context has, or from every vertex *)
(* if neither end is given, and to the end it asked for, whatever the      *)
(* context it searched with was used for before (age_vle,                  *)
(* age_match_vle_terminal_edge); all of them can be shown (build_path,     *)
(* build_edge_list), and two that pass the conditions of a MATCH of two    *)
(* VLEs join to a trail again (age_match_two_vle_edges,                    *)
(* _ag_enforce_edge_uniqueness).                                           *)
TrailsExact == call.phase = "done" =>
    LET l == call.local  g == call.graph
        from == IF l.path_function = "all" THEN None ELSE l.start
        T == Trails(g, l.node, from)
        all == UNION {T[i] : i \in DOMAIN T}
    IN  /\ IsInjective(Served)
        /\ Range(Served) = Wanted(l, g, from)
        /\ \A p \in Range(Served) : build_path(g, p) = p /\ build_edge_list(g, p) # None
        /\ \A p, q \in Range(Served) :
             age_match_two_vle_edges(p, q) /\ _ag_enforce_edge_uniqueness(<<EdgesOf(p), EdgesOf(q)>>)
                => p \o Tail(q) \in all

(* "start vertex ... Leaving this NULL switches the path algorithm from    *)
(* VLE_FUNCTION_PATHS_BETWEEN to VLE_FUNCTION_PATHS_TO" (age_vle.c:1681):  *)
(* a call without a start is given the trails from every vertex, with an   *)
(* end too.                                                                *)
StartsAsDocumented == call.phase = "done" => Range(Served) = Wanted(call.local, call.graph, call.from)

(* A statement searches the graph its snapshot sees, though the loaded one *)
(* is only recognised by the bounds of the snapshot and the command id     *)
(* (is_ggctx_invalid), and a context is used again without loading.        *)
FreshGraph == Inside => call.graph = call.seen

(* What a search leaves in the cache can be searched with again: a context *)
(* that is not marked dirty has empty stacks and no edge in use, whichever *)
(* way its search ended; a node has one context, and the cache grows to    *)
(* one above its limit (get_cached_VLE_local_context, age_vle).            *)
CacheIsClean ==
    /\ \A i \in DOMAIN cache : ~cache[i].is_dirty =>
         /\ cache[i].used = {} /\ cache[i].path_stack = <<>>
         /\ cache[i].edge_stack = <<>> /\ cache[i].vertex_stack = <<>>
    /\ \A i, j \in DOMAIN cache : cache[i].node = cache[j].node => i = j
    /\ Len(cache) <= MaxContexts + 1

(* "unlock the mutex so we don't get a deadlock" (age_global_graph.c:881): *)
(* no call waits for the mutex its own process holds.                      *)
NeverHangs == call.phase # "hung"
=============================================================================
