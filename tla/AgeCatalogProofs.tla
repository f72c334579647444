-------------------------- MODULE AgeCatalogProofs --------------------------
(***************************************************************************)
(* Proofs about AgeCatalog, for any set of sessions, any names and labels, *)
(* any largest label id and any bound on objects and steps.                *)
(***************************************************************************)
EXTENDS AgeCatalog, WellFoundedInduction, TLAPS

Changes == [on : BOOLEAN, gi : SUBSET GraphRow, gd : SUBSET GraphRow,
            li : SUBSET LabelRow, ld : SUBSET LabelRow, vi : SUBSET VertexRow]
Caches == [gname : SUBSET GraphRow, gns : SUBSET GraphRow,
           lname : SUBSET LabelRow, lid : SUBSET LabelRow]

TInv ==
    /\ cat \in [graphs : SUBSET GraphRow, labels : SUBSET LabelRow, rows : SUBSET VertexRow]
    /\ tx \in [Sessions -> Changes]
    /\ cache \in [Sessions -> Caches]
    /\ inval \in [Sessions -> SUBSET (Oids \cup {Namespace})]
    /\ seq \in [Oids -> 0 .. LabelIdMax]
    /\ oids \in 0 .. MaxOid /\ steps \in 0 .. MaxSteps
    /\ res \in [Sessions -> {"ok", "no more labels"}]
    /\ hook \in [Sessions -> BOOLEAN]

\* A cached row is one the session sees, or the message about it is waiting.
CacheInv == \A s \in Sessions :
    /\ \A g \in cache[s].gname \cup cache[s].gns : g \in Graphs(s) \/ Namespace \in inval[s]
    /\ \A l \in cache[s].lname \cup cache[s].lid : l \in LabelRows(s) \/ l.rel \in inval[s]

-----------------------------------------------------------------------------
(* The catalog, as it is committed and as each session would commit it.    *)
UniqueGraphs(G) == \A g, h \in G : (g.name = h.name \/ g.oid = h.oid) => g = h
UniqueLabels(L) == \A l, m \in L :
    l.graph = m.graph /\ (l.name = m.name \/ l.id = m.id) => l = m
Belong(L, G) == \A l \in L : \E g \in G : g.oid = l.graph
Sound(G, L) == UniqueGraphs(G) /\ UniqueLabels(L) /\ Belong(L, G)

\* What two open transactions change has no name, graph or label in common.
Separate(t, u) ==
    /\ \A g \in t.gi \cup t.gd, h \in u.gi \cup u.gd : g.name # h.name
    /\ \A g \in t.gi, h \in u.gi : g.oid # h.oid
    /\ \A l \in t.li, m \in u.li : l.graph = m.graph => l.name # m.name /\ l.id # m.id

\* A graph row that transaction t of s deleted was renamed, or its labels are
\* deleted with it and no other transaction adds one.
Renamed(t, g) == \E h \in t.gi : h.oid = g.oid
Emptied(s, t, g) ==
    /\ \A l \in cat.labels : l.graph = g.oid => l \in t.ld
    /\ \A u \in Others(s) : \A l \in tx[u].li : l.graph # g.oid
CleanDrop(s, t) == \A g \in t.gd : Renamed(t, g) \/ Emptied(s, t, g)

\* No row names a graph whose oid has not been given out.
Given(G, L) == (\A g \in G : g.oid <= oids) /\ (\A l \in L : l.graph <= oids)

CatInv ==
    /\ Sound(cat.graphs, cat.labels) /\ Given(cat.graphs, cat.labels)
    /\ \A s \in Sessions :
         /\ Sound(Graphs(s), LabelRows(s))
         /\ tx[s].gd \subseteq cat.graphs
         /\ CleanDrop(s, tx[s])
         /\ Given(tx[s].gi, tx[s].li)
         /\ \A u \in Others(s) : Separate(tx[s], tx[u])

-----------------------------------------------------------------------------
(* Types *)

LEMMA Chosen ==
  ASSUME NEW S, S # {}
  PROVE  (CHOOSE x \in S : TRUE) \in S
OBVIOUS

LEMMA Open ==
  ASSUME TInv, NEW s \in Sessions
  PROVE  /\ tx[s] \in Changes /\ cache[s] \in Caches /\ inval[s] \subseteq Oids \cup {Namespace}
         /\ Graphs(s) \subseteq GraphRow /\ LabelRows(s) \subseteq LabelRow
<1>1. tx[s] \in Changes /\ cache[s] \in Caches /\ inval[s] \subseteq Oids \cup {Namespace}
  BY DEF TInv
<1>2. cat.graphs \subseteq GraphRow /\ cat.labels \subseteq LabelRow
  BY DEF TInv
<1> QED
  BY <1>1, <1>2 DEF Graphs, LabelRows, Changes

LEMMA Closed == NoChange \in Changes /\ EmptyCache \in Caches
BY DEF NoChange, EmptyCache, Changes, Caches

\* What a flush leaves in the caches.
LEMMA Flushed ==
  ASSUME NEW c \in Caches, NEW msgs
  PROVE  /\ Invalidated(c, msgs) \in Caches
         /\ Namespace \in msgs => Invalidated(c, msgs).gname = {} /\ Invalidated(c, msgs).gns = {}
         /\ Namespace \notin msgs => /\ Invalidated(c, msgs).gname = c.gname
                                     /\ Invalidated(c, msgs).gns = c.gns
         /\ Invalidated(c, msgs).lname = {l \in c.lname : l.rel \notin msgs}
         /\ Invalidated(c, msgs).lid = {l \in c.lid : l.rel \notin msgs}
<1> DEFINE d == IF Namespace \in msgs THEN invalidate_graph_caches(c) ELSE c
<1>1. /\ d \in Caches /\ d.lname = c.lname /\ d.lid = c.lid
      /\ Namespace \in msgs => d.gname = {} /\ d.gns = {}
      /\ Namespace \notin msgs => d = c
  BY DEF invalidate_graph_caches, Caches
<1>2. \A l \in c.lname \cup c.lid : l.rel # Namespace
  BY DEF Caches, LabelRow, Oids, Namespace
<1>3. Invalidated(c, msgs) = [d EXCEPT !.lname = {l \in @ : l.rel \notin msgs \ {Namespace}},
                                       !.lid = {l \in @ : l.rel \notin msgs \ {Namespace}}]
  BY DEF Invalidated, invalidate_label_caches
<1> HIDE DEF d
<1>4. /\ Invalidated(c, msgs) \in Caches
      /\ Invalidated(c, msgs).gname = d.gname /\ Invalidated(c, msgs).gns = d.gns
      /\ Invalidated(c, msgs).lname = {l \in d.lname : l.rel \notin msgs \ {Namespace}}
      /\ Invalidated(c, msgs).lid = {l \in d.lid : l.rel \notin msgs \ {Namespace}}
  BY <1>1, <1>3 DEF Caches
<1> QED
  BY <1>1, <1>2, <1>4

\* What a fill adds.
LEMMA FilledGraphs ==
  ASSUME NEW c \in Caches, NEW rows \in SUBSET GraphRow
  PROVE  /\ Filled(c, "gname", rows) = [c EXCEPT !.gname = @ \cup rows]
         /\ Filled(c, "gns", rows) = [c EXCEPT !.gns = @ \cup rows]
         /\ Filled(c, "gname", rows) \in Caches /\ Filled(c, "gns", rows) \in Caches
BY DEF Filled, Caches

LEMMA FilledLabels ==
  ASSUME NEW c \in Caches, NEW rows \in SUBSET LabelRow
  PROVE  /\ Filled(c, "lname", rows) = [c EXCEPT !.lname = @ \cup rows]
         /\ Filled(c, "lid", rows) = [c EXCEPT !.lid = @ \cup rows]
         /\ Filled(c, "lname", rows) \in Caches /\ Filled(c, "lid", rows) \in Caches
BY DEF Filled, Caches

\* A lookup returns rows of the session's caches or rows it sees.
LEMMA FoundByName ==
  ASSUME TInv, NEW s \in Sessions, NEW n
  PROVE  /\ search_graph_name_cache(s, n) \subseteq GraphRow
         /\ \A g \in search_graph_name_cache(s, n) :
              g.name = n /\ g \in cache[s].gname \cup Graphs(s)
         /\ search_graph_name_cache(s, n) = {} => \A g \in Graphs(s) : g.name # n
BY Open DEF search_graph_name_cache, Caches

LEMMA FoundByNamespace ==
  ASSUME TInv, NEW s \in Sessions, NEW o
  PROVE  /\ search_graph_namespace_cache(s, o) \subseteq GraphRow
         /\ search_graph_namespace_cache(s, o) \subseteq cache[s].gns \cup Graphs(s)
BY Open DEF search_graph_namespace_cache, Caches

LEMMA FoundLabel ==
  ASSUME TInv, NEW s \in Sessions, NEW n, NEW o
  PROVE  /\ search_label_name_graph_cache(s, n, o) \subseteq LabelRow
         /\ \A l \in search_label_name_graph_cache(s, n, o) :
              l.name = n /\ l.graph = o /\ l \in cache[s].lname \cup LabelRows(s)
         /\ search_label_name_graph_cache(s, n, o) = {} =>
              \A l \in LabelRows(s) : ~(l.name = n /\ l.graph = o)
BY Open DEF search_label_name_graph_cache, Caches

LEMMA FoundLabelById ==
  ASSUME TInv, NEW s \in Sessions, NEW o, NEW i
  PROVE  /\ search_label_graph_oid_cache(s, o, i) \subseteq LabelRow
         /\ search_label_graph_oid_cache(s, o, i) \subseteq cache[s].lid \cup LabelRows(s)
         /\ \A l \in search_label_graph_oid_cache(s, o, i) : l.graph = o /\ l.id = i
BY Open DEF search_label_graph_oid_cache, Caches

LEMMA FreeLabelId ==
  ASSUME NEW s \in Sessions, NEW o, NEW i, ~label_id_exists(s, o, i)
  PROVE  \A l \in LabelRows(s) : ~(l.graph = o /\ l.id = i)
BY DEF search_label_graph_oid_cache, label_id_exists

\* What a transaction that dropped graphs gs and labels ls holds.
LEMMA DroppedFields ==
  ASSUME TInv, NEW t \in Changes, NEW gs, NEW ls
  PROVE  /\ Dropped(t, gs, ls) \in Changes
         /\ Dropped(t, gs, ls).gi = t.gi \ gs
         /\ Dropped(t, gs, ls).gd = t.gd \cup (gs \cap cat.graphs)
         /\ Dropped(t, gs, ls).li = t.li \ ls
         /\ Dropped(t, gs, ls).ld = t.ld \cup (ls \cap cat.labels)
<1>1. cat.graphs \subseteq GraphRow /\ cat.labels \subseteq LabelRow
  BY DEF TInv
<1> QED
  BY <1>1 DEF Dropped, Changes

-----------------------------------------------------------------------------
(* What an operation does *)

\* A statement failed; it says that there are no more labels when every id of
\* a graph was found in the cache or in the table.
Short(s) == \E g \in Graphs(s) : \A i \in 1 .. LabelIdMax : label_id_exists(s, g.oid, i)
Fails(s) ==
    /\ tx' = [tx EXCEPT ![s] = NoChange]
    /\ cache' = [cache EXCEPT ![s] = Invalidated(@, Messages(tx[s]))]
    /\ \/ res' = [res EXCEPT ![s] = "ok"]
       \/ res' = [res EXCEPT ![s] = "no more labels"] /\ Short(s)
    /\ UNCHANGED <<cat, inval, seq, oids, steps, hook>>

\* A statement of s ran: its transaction is t now and its cache c.
Runs(s, t, c) ==
    /\ tx' = [tx EXCEPT ![s] = t] /\ cache' = [cache EXCEPT ![s] = c]
    /\ res' = [res EXCEPT ![s] = "ok"]
    /\ UNCHANGED <<cat, inval>>
    /\ steps' \in 0 .. MaxSteps /\ hook' \in [Sessions -> BOOLEAN]

GraphsOf(t) == (cat.graphs \ t.gd) \cup t.gi
LabelRowsOf(t) == (cat.labels \ t.ld) \cup t.li

GraphAdded(s) == \E g \in GraphRow, dv, de \in LabelRow :
    /\ g.oid = oids + 1 /\ ~NameBusy(s, g.name)
    /\ \A h \in Graphs(s) : h.name # g.name
    /\ dv.graph = g.oid /\ de.graph = g.oid /\ dv.name # de.name /\ dv.id # de.id
    /\ oids' = oids + 3 /\ oids' <= MaxOid
    /\ seq' = [seq EXCEPT ![g.oid] = 2]
    /\ Runs(s, [tx[s] EXCEPT !.gi = @ \cup {g}, !.li = @ \cup {dv, de}],
            Filled(invalidate_graph_caches(cache[s]), "gname", {g}))

GraphDropped(s) == \E g \in Graphs(s) :
    /\ ~NameBusy(s, g.name) /\ ~GraphBusy(s, g.oid)
    /\ UNCHANGED <<seq, oids>>
    /\ LET ls == Tables(s, g.oid)
       IN  Runs(s, Dropped(tx[s], {g}, ls),
                Invalidated(cache[s], {Namespace} \cup {l.rel : l \in ls}))

GraphRenamed(s) == \E g \in Graphs(s), h \in GraphRow :
    /\ h.oid = g.oid /\ ~NameBusy(s, g.name) /\ ~NameBusy(s, h.name)
    /\ \A f \in Graphs(s) : f.name # h.name
    /\ UNCHANGED <<seq, oids>>
    /\ Runs(s, [Dropped(tx[s], {g}, {}) EXCEPT !.gi = @ \cup {h}],
            invalidate_graph_caches(cache[s]))

GraphsDropped(s) ==
    /\ \A g \in Graphs(s) : ~NameBusy(s, g.name) /\ ~GraphBusy(s, g.oid)
    /\ UNCHANGED <<seq, oids>>
    /\ LET ls == LabelRows(s)
       IN  Runs(s, Dropped(tx[s], Graphs(s), ls),
                Invalidated(cache[s], {Namespace} \cup {l.rel : l \in ls}))

LabelAddedTo(s, g, row, found, up, tried) ==
    /\ row.graph = g.oid
    /\ \A l \in LabelRows(s) : l.graph = g.oid => l.name # row.name /\ l.id # row.id
    /\ up \cap LabelRows(s) # {} /\ \A l \in up : l.graph = g.oid
    /\ found \subseteq cache[s].gname \cup Graphs(s)
    /\ up \subseteq cache[s].lname \cup LabelRows(s)
    /\ tried \subseteq cache[s].lid \cup LabelRows(s)
    /\ ~NewLabelBusy(s, row, up)
    /\ oids' = oids + 1 /\ oids' <= MaxOid
    /\ seq' = [seq EXCEPT ![g.oid] = row.id]
    /\ Runs(s, [tx[s] EXCEPT !.li = @ \cup {row}],
            Filled(Filled(Filled(cache[s], "gname", found), "lname", up), "lid", tried))
LabelAdded(s) == \E g \in Graphs(s), row \in LabelRow, found \in SUBSET GraphRow,
                    up \in SUBSET LabelRow, tried \in SUBSET LabelRow :
    LabelAddedTo(s, g, row, found, up, tried)

LabelDropped(s) == \E row \in LabelRows(s), found \in SUBSET GraphRow :
    /\ ~LabelBusy(s, row)
    /\ found \subseteq cache[s].gname \cup Graphs(s)
    /\ UNCHANGED <<seq, oids>>
    /\ Runs(s, Dropped(tx[s], {}, {row}),
            invalidate_label_caches(Filled(cache[s], "gname", found), {row.rel}))

VertexAdded(s) == \E r \in VertexRow, found \in SUBSET GraphRow, rows \in SUBSET LabelRow :
    /\ found \subseteq cache[s].gname \cup Graphs(s)
    /\ rows \subseteq cache[s].lname \cup LabelRows(s)
    /\ UNCHANGED <<seq, oids>>
    /\ Runs(s, [tx[s] EXCEPT !.vi = @ \cup {r}],
            Filled(Filled(cache[s], "gname", found), "lname", rows))

LabelNamed(s) == \E g \in SUBSET GraphRow, l \in SUBSET LabelRow :
    /\ g \subseteq cache[s].gns \cup Graphs(s)
    /\ l \subseteq cache[s].lid \cup LabelRows(s)
    /\ UNCHANGED <<seq, oids>>
    /\ Runs(s, tx[s], Filled(Filled(cache[s], "gns", g), "lid", l))

LEMMA StepCounts ==
  ASSUME TInv, Step
  PROVE  steps' \in 0 .. MaxSteps
<1>1. MaxSteps \in Nat
  BY CatalogConstants
<1>2. steps \in 0 .. MaxSteps
  BY DEF TInv
<1> QED
  BY <1>1, <1>2 DEF Step

LEMMA FailFails ==
  ASSUME NEW s \in Sessions, NEW e, e # "no more labels", Fail(s, e)
  PROVE  Fails(s)
BY DEF Fail, Fails

LEMMA CreateGraphDoes ==
  ASSUME TInv, NEW s \in Sessions, NEW n \in Names, create_graph(s, n)
  PROVE  Fails(s) \/ GraphAdded(s)
<1>1. CASE ~is_valid_graph_name(n)
  BY <1>1, FailFails DEF create_graph
<1>2. CASE is_valid_graph_name(n) /\ search_graph_name_cache(s, n) # {}
  BY <1>2, FailFails DEF create_graph
<1>3. CASE is_valid_graph_name(n) /\ search_graph_name_cache(s, n) = {}
  <2> DEFINE g == [name |-> n, oid |-> oids + 1]
             dv == NewLabel(g, DefaultVertex, "v", oids + 2, 1)
             de == NewLabel(g, DefaultEdge, "e", oids + 3, 2)
  <2>1. \A h \in Graphs(s) : h.name # n
    BY <1>3, FoundByName
  <2>2. /\ oids + 3 <= MaxOid /\ ~NameBusy(s, n)
        /\ oids' = oids + 3
        /\ seq' = [seq EXCEPT ![g.oid] = 2]
        /\ tx' = [tx EXCEPT ![s].gi = @ \cup {g}, ![s].li = @ \cup {dv, de}]
        /\ cache' = [cache EXCEPT ![s] = Filled(invalidate_graph_caches(@), "gname", {g})]
        /\ res' = [res EXCEPT ![s] = "ok"]
        /\ UNCHANGED <<cat, inval, hook>> /\ Step
    BY <1>3, <2>1 DEF create_graph, Fail
  <2>3. oids + 1 \in Oids /\ oids + 2 \in Oids /\ oids + 3 \in Oids
    <3>1. MaxOid \in Nat
      BY CatalogConstants
    <3>2. oids \in 0 .. MaxOid
      BY DEF TInv
    <3> QED
      BY <2>2, <3>1, <3>2 DEF Oids
  <2>4. g \in GraphRow /\ g.name = n /\ g.oid = oids + 1
    BY <2>3 DEF GraphRow
  <2>5. 1 \in 1 .. LabelIdMax /\ 2 \in 1 .. LabelIdMax
    BY CatalogConstants
  <2>6. /\ dv \in LabelRow /\ de \in LabelRow
        /\ dv.graph = g.oid /\ de.graph = g.oid /\ dv.name # de.name /\ dv.id # de.id
    BY <2>3, <2>4, <2>5
    DEF NewLabel, build_id_default_func_expr, LabelRow, AllLabels, DefaultVertex, DefaultEdge
  <2> HIDE DEF g, dv, de
  <2>7. tx' = [tx EXCEPT ![s] = [tx[s] EXCEPT !.gi = @ \cup {g}, !.li = @ \cup {dv, de}]]
    BY <2>2 DEF TInv, Changes
  <2>8. steps' \in 0 .. MaxSteps
    BY <2>2, StepCounts
  <2>9. Runs(s, [tx[s] EXCEPT !.gi = @ \cup {g}, !.li = @ \cup {dv, de}],
             Filled(invalidate_graph_caches(cache[s]), "gname", {g}))
    BY <2>2, <2>7, <2>8 DEF Runs, TInv
  <2>10. GraphAdded(s)
    <3>1. ~NameBusy(s, g.name) /\ \A h \in Graphs(s) : h.name # g.name
      BY <2>1, <2>2, <2>4
    <3>2. oids' = oids + 3 /\ oids' <= MaxOid /\ seq' = [seq EXCEPT ![g.oid] = 2]
      BY <2>2
    <3> QED
      BY <2>4, <2>6, <2>9, <3>1, <3>2 DEF GraphAdded
  <2> QED
    BY <2>10
<1> QED
  BY <1>1, <1>2, <1>3

LEMMA DropGraphDoes ==
  ASSUME TInv, NEW s \in Sessions, NEW n \in Names, NEW c \in BOOLEAN,
         drop_graph(s, n, c), hook[s]
  PROVE  Fails(s) \/ GraphDropped(s)
<1> DEFINE found == search_graph_name_cache(s, n)
           g == CHOOSE h \in found : TRUE
           ls == Tables(s, g.oid)
<1>1. found = {} => Fails(s)
  BY FailFails DEF drop_graph
<1>2. found # {} /\ ~c /\ ls # {} => Fails(s)
  BY FailFails DEF drop_graph
<1>3. found # {} /\ ~(~c /\ ls # {}) /\ g \notin Graphs(s) => Fails(s)
  BY FailFails DEF drop_graph
<1>4. ASSUME found # {}, ~(~c /\ ls # {}), g \in Graphs(s) PROVE GraphDropped(s)
  <2>1. g \in found /\ g.name = n
    BY <1>4, Chosen, FoundByName
  <2>2. /\ ~NameBusy(s, n) /\ ~GraphBusy(s, g.oid)
        /\ tx' = [tx EXCEPT ![s] = Dropped(@, {g}, ls)]
        /\ cache' = [cache EXCEPT ![s] = Invalidated(@, {Namespace} \cup {l.rel : l \in ls})]
        /\ res' = [res EXCEPT ![s] = "ok"]
        /\ UNCHANGED <<cat, inval, seq, oids, hook>> /\ Step
    BY <1>4, <2>1 DEF drop_graph, object_access
  <2> HIDE DEF g
  <2>3. steps' \in 0 .. MaxSteps
    BY <2>2, StepCounts
  <2>4. Runs(s, Dropped(tx[s], {g}, ls), Invalidated(cache[s], {Namespace} \cup {l.rel : l \in ls}))
    BY <2>2, <2>3 DEF Runs, TInv
  <2> QED
    BY <1>4, <2>1, <2>2, <2>4 DEF GraphDropped
<1> QED
  BY <1>1, <1>2, <1>3, <1>4

LEMMA RenameGraphDoes ==
  ASSUME TInv, NEW s \in Sessions, NEW n \in Names, NEW m \in Names, rename_graph(s, n, m)
  PROVE  Fails(s) \/ GraphRenamed(s)
<1> DEFINE found == search_graph_name_cache(s, n)
           g == CHOOSE h \in found : TRUE
<1>1. ~is_valid_graph_name(m) \/ found = {} \/ (\E h \in Graphs(s) : h.name = m) => Fails(s)
  BY FailFails DEF rename_graph
<1>2. ASSUME is_valid_graph_name(m), found # {}, ~\E h \in Graphs(s) : h.name = m,
             g \notin Graphs(s)
      PROVE  Fails(s)
  BY <1>2, FailFails DEF rename_graph
<1>3. ASSUME is_valid_graph_name(m), found # {}, ~\E h \in Graphs(s) : h.name = m,
             g \in Graphs(s)
      PROVE  GraphRenamed(s)
  <2> DEFINE h == [g EXCEPT !.name = m]
             t == [Dropped(tx[s], {g}, {}) EXCEPT !.gi = @ \cup {h}]
  <2>1. g \in found /\ g.name = n /\ g \in GraphRow
    BY <1>3, Chosen, FoundByName
  <2>2. h \in GraphRow /\ h.oid = g.oid /\ h.name = m
    BY <2>1 DEF GraphRow
  <2>3. /\ ~NameBusy(s, n) /\ ~NameBusy(s, m)
        /\ tx' = [tx EXCEPT ![s] = t]
        /\ cache' = [cache EXCEPT ![s] = invalidate_graph_caches(@)]
        /\ res' = [res EXCEPT ![s] = "ok"]
        /\ UNCHANGED <<cat, inval, seq, oids, hook>> /\ Step
    BY <1>3, <2>1 DEF rename_graph
  <2>4. steps' \in 0 .. MaxSteps
    BY <2>3, StepCounts
  <2>5. Runs(s, t, invalidate_graph_caches(cache[s]))
    BY <2>3, <2>4 DEF Runs, TInv
  <2> HIDE DEF g, h
  <2> QED
    BY <1>3, <2>1, <2>2, <2>3, <2>5 DEF GraphRenamed
<1> QED
  BY <1>1, <1>2, <1>3

LEMMA DropExtensionDoes ==
  ASSUME TInv, NEW s \in Sessions, drop_age_extension(s)
  PROVE  GraphsDropped(s)
<1> DEFINE ls == LabelRows(s)
<1>1. /\ \A g \in Graphs(s) : ~NameBusy(s, g.name) /\ ~GraphBusy(s, g.oid)
      /\ tx' = [tx EXCEPT ![s] = Dropped(@, Graphs(s), ls)]
      /\ cache' = [cache EXCEPT ![s] = Invalidated(@, {Namespace} \cup {l.rel : l \in ls})]
      /\ res' = [res EXCEPT ![s] = "ok"]
      /\ UNCHANGED <<cat, inval, seq, oids>> /\ Step
      /\ hook' = [hook EXCEPT ![s] = FALSE]
  BY DEF drop_age_extension
<1>h. hook' \in [Sessions -> BOOLEAN]
  BY <1>1 DEF TInv
<1>2. steps' \in 0 .. MaxSteps
  BY <1>1, StepCounts
<1>3. Runs(s, Dropped(tx[s], Graphs(s), ls), Invalidated(cache[s], {Namespace} \cup {l.rel : l \in ls}))
  BY <1>1, <1>h, <1>2 DEF Runs, TInv
<1> QED
  BY <1>1, <1>3 DEF GraphsDropped

\* A set of positive numbers below a bound has a least one.
LEMMA Least ==
  ASSUME NEW N \in Nat, NEW S \in SUBSET (1 .. N), S # {}
  PROVE  \E k \in S : \A j \in S : k <= j
<1>1. S \subseteq Nat
  OBVIOUS
<1>2. \E k \in S : \A j \in S : ~(<<j, k>> \in OpToRel(<, Nat))
  BY <1>1, WFMin, NatLessThanWellFounded
<1>3. ASSUME NEW j \in Nat, NEW k \in Nat, ~(<<j, k>> \in OpToRel(<, Nat)) PROVE k <= j
  BY <1>3 DEF OpToRel
<1> QED
  BY <1>1, <1>2, <1>3

\* The values of the sequence are ids, and it gives every id within a cycle.
LEMMA Cycles ==
  ASSUME NEW last \in 0 .. LabelIdMax
  PROVE  /\ \A k \in 1 .. LabelIdMax : After(last, k) \in 1 .. LabelIdMax
         /\ \A i \in 1 .. LabelIdMax : \E k \in 1 .. LabelIdMax : After(last, k) = i
<1>0. LabelIdMax \in Nat
  BY CatalogConstants
<1>1. ASSUME NEW k \in 1 .. LabelIdMax PROVE After(last, k) \in 1 .. LabelIdMax
  BY <1>0 DEF After
<1>2. ASSUME NEW i \in 1 .. LabelIdMax PROVE \E k \in 1 .. LabelIdMax : After(last, k) = i
  <2>1. CASE i > last
    <3>1. i - last \in 1 .. LabelIdMax /\ After(last, i - last) = i
      BY <1>0, <2>1 DEF After
    <3> QED
      BY <3>1
  <2>2. CASE i <= last
    <3>1. /\ i + LabelIdMax - last \in 1 .. LabelIdMax
          /\ After(last, i + LabelIdMax - last) = i
      BY <1>0, <2>2 DEF After
    <3> QED
      BY <3>1
  <2> QED
    BY <1>0, <2>1, <2>2
<1> QED
  BY <1>1, <1>2

\* The id get_new_label_id offers is none of those in use, and it offers none
\* only when all are.
LEMMA NewLabelId ==
  ASSUME NEW last \in 0 .. LabelIdMax, NEW used
  PROVE  LET i == get_new_label_id(last, used)
         IN  /\ i \in 0 .. LabelIdMax
             /\ i # InvalidLabelId => i \notin used
             /\ i = InvalidLabelId => \A j \in 1 .. LabelIdMax : j \in used
<1> DEFINE free == {k \in 1 .. LabelIdMax : After(last, k) \notin used}
           first == CHOOSE k \in free : \A j \in free : k <= j
<1>1. LabelIdMax \in Nat /\ LabelIdMax >= 2
  BY CatalogConstants
<1>2. get_new_label_id(last, used) = IF free = {} THEN InvalidLabelId ELSE After(last, first)
  BY DEF get_new_label_id
<1>3. CASE free = {}
  <2>1. ASSUME NEW j \in 1 .. LabelIdMax PROVE j \in used
    <3>1. PICK k \in 1 .. LabelIdMax : After(last, k) = j
      BY Cycles
    <3> QED
      BY <1>3, <3>1
  <2> QED
    BY <1>1, <1>2, <1>3, <2>1 DEF InvalidLabelId
<1>4. CASE free # {}
  <2>1. free \in SUBSET (1 .. LabelIdMax)
    OBVIOUS
  <2>2. \E k \in free : \A j \in free : k <= j
    BY <1>1, <1>4, <2>1, Least
  <2>3. first \in free
    BY <2>2
  <2>4. first \in 1 .. LabelIdMax /\ After(last, first) \notin used
    BY <2>3
  <2>5. After(last, first) \in 1 .. LabelIdMax
    BY <2>4, Cycles
  <2> QED
    BY <1>1, <1>2, <1>4, <2>4, <2>5 DEF InvalidLabelId
<1> QED
  BY <1>3, <1>4

LEMMA CreateLabelDoes ==
  ASSUME TInv, NEW s \in Sessions, NEW n \in Names, NEW l \in Labels, NEW k \in {"v", "e"},
         create_label(s, n, l, k)
  PROVE  Fails(s) \/ Crash \/ LabelAdded(s)
<1> DEFINE found == search_graph_name_cache(s, n)
           parent == IF k = "v" THEN DefaultVertex ELSE DefaultEdge
           g == CHOOSE h \in found : TRUE
           same == search_label_name_graph_cache(s, l, g.oid)
           up == search_label_name_graph_cache(s, parent, g.oid)
           used == {j \in 1 .. LabelIdMax : label_id_exists(s, g.oid, j)}
           i == get_new_label_id(seq[g.oid], used)
           tried == UNION {search_label_graph_oid_cache(s, g.oid, j) : j \in Tried(seq[g.oid], i)}
           row == NewLabel(g, l, k, oids + 1, i)
<1>1. found = {} => Fails(s)
  BY FailFails DEF create_label
<1>2. found # {} /\ same # {} => Fails(s)
  BY FailFails DEF create_label
<1>3. found # {} /\ same = {} /\ up = {} => Crash
  BY DEF create_label
<1>4. found # {} /\ same = {} /\ up # {} /\ (g \notin Graphs(s) \/ up \cap LabelRows(s) = {}) => Fails(s)
  BY FailFails DEF create_label
<1>g. found # {} => g.oid \in Oids
  <2>1. found # {} => g \in GraphRow
    BY Chosen, FoundByName
  <2> QED
    BY <2>1 DEF GraphRow
<1>5. ASSUME found # {}, same = {}, up # {}, g \in Graphs(s), up \cap LabelRows(s) # {},
             i = InvalidLabelId
      PROVE  Fails(s)
  <2>1. Fail(s, "no more labels")
    BY <1>5 DEF create_label
  <2>2. seq[g.oid] \in 0 .. LabelIdMax
    BY <1>5, <1>g DEF TInv
  <2>3. \A j \in 1 .. LabelIdMax : j \in used
    BY <1>5, <2>2, NewLabelId
  <2>4. Short(s)
    BY <1>5, <2>3 DEF Short
  <2> QED
    BY <2>1, <2>4 DEF Fail, Fails
<1>6. ASSUME found # {}, same = {}, up # {}, g \in Graphs(s), up \cap LabelRows(s) # {},
             i # InvalidLabelId
      PROVE  LabelAdded(s)
  <2>1. g \in found /\ g \in GraphRow /\ g.name = n /\ g.oid \in Oids /\ g.name \in Names
    <3>1. g \in found /\ g \in GraphRow /\ g.name = n
      BY <1>6, Chosen, FoundByName
    <3> QED
      BY <3>1 DEF GraphRow
  <2>2. seq[g.oid] \in 0 .. LabelIdMax
    BY <2>1 DEF TInv
  <2>3. i \in 0 .. LabelIdMax /\ i \notin used
    BY <1>6, <2>2, NewLabelId
  <2>4. /\ oids < MaxOid /\ ~NewLabelBusy(s, row, up)
        /\ oids' = oids + 1
        /\ seq' = [seq EXCEPT ![g.oid] = i]
        /\ tx' = [tx EXCEPT ![s].li = @ \cup {row}]
        /\ cache' = [cache EXCEPT ![s] =
                       Filled(Filled(Filled(@, "gname", found), "lname", up), "lid", tried)]
        /\ res' = [res EXCEPT ![s] = "ok"]
        /\ UNCHANGED <<cat, inval, hook>> /\ Step
    BY <1>6 DEF create_label
  <2>5. oids + 1 \in Oids /\ oids + 1 <= MaxOid
    <3>1. MaxOid \in Nat
      BY CatalogConstants
    <3>2. oids \in 0 .. MaxOid
      BY DEF TInv
    <3> QED
      BY <2>4, <3>1, <3>2 DEF Oids
  <2>6. i \in 1 .. LabelIdMax
    <3>1. LabelIdMax \in Nat
      BY CatalogConstants
    <3> QED
      BY <1>6, <2>3, <3>1 DEF InvalidLabelId
  <2>7. row \in LabelRow /\ row.graph = g.oid /\ row.name = l /\ row.id = i
    BY <2>1, <2>5, <2>6 DEF NewLabel, build_id_default_func_expr, LabelRow, AllLabels
  <2>8. \A m \in LabelRows(s) : m.graph = g.oid => m.name # l /\ m.id # i
    <3>1. \A m \in LabelRows(s) : m.graph = g.oid => m.id # i
      <4>1. ~label_id_exists(s, g.oid, i)
        BY <2>3, <2>6
      <4> HIDE DEF i, g
      <4> QED
        BY <4>1, FreeLabelId
    <3>2. \A m \in LabelRows(s) : ~(m.name = l /\ m.graph = g.oid)
      BY <1>6, FoundLabel
    <3> HIDE DEF used, i, g
    <3> QED
      BY <3>1, <3>2
  <2>9. /\ found \in SUBSET GraphRow /\ found \subseteq cache[s].gname \cup Graphs(s)
        /\ up \in SUBSET LabelRow /\ up \subseteq cache[s].lname \cup LabelRows(s)
        /\ \A m \in up : m.graph = g.oid
    BY FoundByName, FoundLabel
  <2>t. tried \in SUBSET LabelRow /\ tried \subseteq cache[s].lid \cup LabelRows(s)
    <3>1. \A j : /\ search_label_graph_oid_cache(s, g.oid, j) \subseteq LabelRow
                 /\ search_label_graph_oid_cache(s, g.oid, j) \subseteq cache[s].lid \cup LabelRows(s)
      BY FoundLabelById
    <3> HIDE DEF g, i
    <3> QED
      BY <3>1
  <2> HIDE DEF found, g, same, up, used, i, row, tried
  <2>10. tx' = [tx EXCEPT ![s] = [tx[s] EXCEPT !.li = @ \cup {row}]]
    BY <2>4 DEF TInv, Changes
  <2>11. Runs(s, [tx[s] EXCEPT !.li = @ \cup {row}],
              Filled(Filled(Filled(cache[s], "gname", found), "lname", up), "lid", tried))
    BY <2>4, <2>10, StepCounts DEF Runs, TInv
  <2>12. LabelAddedTo(s, g, row, found, up, tried)
    BY <1>6, <2>4, <2>5, <2>7, <2>8, <2>9, <2>t, <2>11 DEF LabelAddedTo
  <2> QED
    BY <1>6, <2>7, <2>9, <2>t, <2>12 DEF LabelAdded
<1> QED
  BY <1>1, <1>2, <1>3, <1>4, <1>5, <1>6

LEMMA DropLabelDoes ==
  ASSUME TInv, NEW s \in Sessions, NEW n \in Names, NEW l \in AllLabels, drop_label(s, n, l)
  PROVE  Fails(s) \/ LabelDropped(s)
<1> DEFINE found == search_graph_name_cache(s, n)
           g == CHOOSE h \in found : TRUE
           rows == search_label_name_graph_cache(s, l, g.oid)
           row == CHOOSE x \in rows : TRUE
<1>1. found = {} => Fails(s)
  BY FailFails DEF drop_label
<1>2. found # {} /\ rows = {} => Fails(s)
  BY FailFails DEF drop_label
<1>3. found # {} /\ rows # {} /\ (row \notin LabelRows(s) \/ ~remove_relation(s, row)) => Fails(s)
  BY FailFails DEF drop_label
<1>4. ASSUME found # {}, rows # {}, row \in LabelRows(s), remove_relation(s, row)
      PROVE  LabelDropped(s)
  <2>1. /\ ~LabelBusy(s, row)
        /\ tx' = [tx EXCEPT ![s] = Dropped(@, {}, {row})]
        /\ cache' = [cache EXCEPT ![s] =
                       invalidate_label_caches(Filled(@, "gname", found), {row.rel})]
        /\ res' = [res EXCEPT ![s] = "ok"]
        /\ UNCHANGED <<cat, inval, seq, oids, hook>> /\ Step
    BY <1>4 DEF drop_label
  <2>2. found \in SUBSET GraphRow /\ found \subseteq cache[s].gname \cup Graphs(s)
    BY FoundByName
  <2> HIDE DEF found, g, rows, row
  <2>3. Runs(s, Dropped(tx[s], {}, {row}),
             invalidate_label_caches(Filled(cache[s], "gname", found), {row.rel}))
    BY <2>1, StepCounts DEF Runs, TInv
  <2> QED
    BY <1>4, <2>1, <2>2, <2>3 DEF LabelDropped
<1> QED
  BY <1>1, <1>2, <1>3, <1>4

LEMMA InsertVertexDoes ==
  ASSUME TInv, NEW s \in Sessions, NEW n \in Names, NEW l \in AllLabels, insert_vertex(s, n, l)
  PROVE  Fails(s) \/ VertexAdded(s)
<1> DEFINE found == search_graph_name_cache(s, n)
           rows == UNION {search_label_name_graph_cache(s, l, g.oid) : g \in found}
           row == CHOOSE x \in rows : TRUE
           i == _label_id(s, row.dg, row.name)
           r == [rel |-> row.rel, lid |-> i]
<1>1. /\ found \in SUBSET GraphRow /\ found \subseteq cache[s].gname \cup Graphs(s)
      /\ rows \in SUBSET LabelRow /\ rows \subseteq cache[s].lname \cup LabelRows(s)
  BY FoundByName, FoundLabel
<1>2. rows # {}
  BY DEF insert_vertex
<1>3. row \notin LabelRows(s) \/ i = InvalidLabelId => Fails(s)
  BY FailFails DEF insert_vertex
<1>4. ASSUME row \in LabelRows(s), i # InvalidLabelId PROVE VertexAdded(s)
  <2>1. /\ tx' = [tx EXCEPT ![s].vi = @ \cup {r}]
        /\ cache' = [cache EXCEPT ![s] = Filled(Filled(@, "gname", found), "lname", rows)]
        /\ res' = [res EXCEPT ![s] = "ok"]
        /\ UNCHANGED <<cat, inval, seq, oids, hook>> /\ Step
    BY <1>4 DEF insert_vertex
  <2>2. row \in LabelRow
    BY <1>1, <1>2, Chosen
  <2>3. i \in 1 .. LabelIdMax
    <3> DEFINE gs == search_graph_name_cache(s, row.dg)
               ms == UNION {search_label_name_graph_cache(s, row.name, x.oid) : x \in gs}
               m == CHOOSE x \in ms : TRUE
    <3>1. i = IF ms = {} THEN InvalidLabelId ELSE m.id
      BY DEF _label_id
    <3>2. ms # {} /\ i = m.id
      BY <1>4, <3>1
    <3>3. m \in ms
      BY <3>2, Chosen
    <3>4. ms \subseteq LabelRow
      BY FoundLabel
    <3>5. m \in LabelRow
      BY <3>3, <3>4
    <3> HIDE DEF m, i
    <3> QED
      BY <3>2, <3>5 DEF LabelRow
  <2> HIDE DEF found, rows, row, i
  <2>4. r \in VertexRow
    BY <2>2, <2>3 DEF VertexRow, LabelRow
  <2> HIDE DEF r
  <2>5. tx' = [tx EXCEPT ![s] = [tx[s] EXCEPT !.vi = @ \cup {r}]]
    BY <2>1 DEF TInv, Changes
  <2>6. Runs(s, [tx[s] EXCEPT !.vi = @ \cup {r}],
             Filled(Filled(cache[s], "gname", found), "lname", rows))
    BY <2>1, <2>5, StepCounts DEF Runs, TInv
  <2> QED
    BY <1>1, <2>1, <2>4, <2>6 DEF VertexAdded
<1> QED
  BY <1>3, <1>4

LEMMA LabelNameDoes ==
  ASSUME TInv, NEW s \in Sessions, NEW o, NEW i, _label_name(s, o, i)
  PROVE  Fails(s) \/ LabelNamed(s)
<1> DEFINE g == search_graph_namespace_cache(s, o)
           l == search_label_graph_oid_cache(s, o, i)
<1>1. g = {} => Fails(s)
  BY FailFails DEF _label_name
<1>2. g # {} /\ l = {} => Fails(s)
  BY FailFails DEF _label_name
<1>3. ASSUME g # {}, l # {} PROVE LabelNamed(s)
  <2>1. /\ cache' = [cache EXCEPT ![s] = Filled(Filled(@, "gns", g), "lid", l)]
        /\ res' = [res EXCEPT ![s] = "ok"]
        /\ UNCHANGED <<cat, tx, inval, seq, oids, steps, hook>>
    BY <1>3 DEF _label_name
  <2>2. /\ g \in SUBSET GraphRow /\ g \subseteq cache[s].gns \cup Graphs(s)
        /\ l \in SUBSET LabelRow /\ l \subseteq cache[s].lid \cup LabelRows(s)
    BY FoundByNamespace, FoundLabelById
  <2> HIDE DEF g, l
  <2>3. tx' = [tx EXCEPT ![s] = tx[s]]
    BY <2>1 DEF TInv
  <2>4. Runs(s, tx[s], Filled(Filled(cache[s], "gns", g), "lid", l))
    BY <2>1, <2>3 DEF Runs, TInv
  <2> QED
    BY <2>1, <2>2, <2>4 DEF LabelNamed
<1> QED
  BY <1>1, <1>2, <1>3

\* What a step of a session is.
Does(s) ==
    \/ Begin(s) \/ Commit(s) \/ Accept(s) \/ Reset(s) \/ Reconnect(s) \/ Fails(s) \/ Crash
    \/ GraphAdded(s) \/ GraphDropped(s) \/ GraphRenamed(s) \/ GraphsDropped(s)
    \/ LabelAdded(s) \/ LabelDropped(s) \/ VertexAdded(s) \/ LabelNamed(s)

LEMMA NextDoes ==
  ASSUME TInv, Next
  PROVE  \E s \in Sessions : Does(s)
<1>1. PICK s \in Sessions :
       \/ Begin(s) \/ Commit(s) \/ Abort(s) \/ Accept(s) \/ Reset(s) \/ Reconnect(s)
       \/ \E n \in Names : create_graph(s, n)
       \/ hook[s] /\ \E n \in Names, c \in BOOLEAN : drop_graph(s, n, c)
       \/ \E n, m \in Names : rename_graph(s, n, m)
       \/ drop_age_extension(s)
       \/ \E n \in Names, l \in Labels : create_vlabel(s, n, l)
       \/ \E n \in Names, l \in Labels : create_elabel(s, n, l)
       \/ hook[s] /\ \E n \in Names, l \in AllLabels : drop_label(s, n, l)
       \/ hook[s] /\ \E l \in cat.labels \cup tx[s].li : user_drop(s, l)
       \/ \E n \in Names, l \in AllLabels : insert_vertex(s, n, l)
       \/ \E o \in 1 .. oids, i \in 1 .. LabelIdMax : _label_name(s, o, i)
  BY DEF Next
<1> SUFFICES Does(s)
  BY <1>1
<1>2. Abort(s) => Fails(s)
  BY FailFails DEF Abort
<1>3. (\E n \in Names : create_graph(s, n)) => Fails(s) \/ GraphAdded(s)
  BY CreateGraphDoes
<1>4. hook[s] /\ (\E n \in Names, c \in BOOLEAN : drop_graph(s, n, c)) => Fails(s) \/ GraphDropped(s)
  BY DropGraphDoes
<1>5. (\E n, m \in Names : rename_graph(s, n, m)) => Fails(s) \/ GraphRenamed(s)
  BY RenameGraphDoes
<1>6. drop_age_extension(s) => GraphsDropped(s)
  BY DropExtensionDoes
<1>7. (\E n \in Names, l \in Labels : create_vlabel(s, n, l)) => Fails(s) \/ Crash \/ LabelAdded(s)
  BY CreateLabelDoes DEF create_vlabel
<1>8. (\E n \in Names, l \in Labels : create_elabel(s, n, l)) => Fails(s) \/ Crash \/ LabelAdded(s)
  BY CreateLabelDoes DEF create_elabel
<1>9. (\E n \in Names, l \in AllLabels : drop_label(s, n, l)) => Fails(s) \/ LabelDropped(s)
  BY DropLabelDoes
<1>10. (\E l \in cat.labels \cup tx[s].li : user_drop(s, l)) => Fails(s)
  BY FailFails DEF user_drop
<1>11. (\E n \in Names, l \in AllLabels : insert_vertex(s, n, l)) => Fails(s) \/ VertexAdded(s)
  BY InsertVertexDoes
<1>12. (\E o \in 1 .. oids, i \in 1 .. LabelIdMax : _label_name(s, o, i)) => Fails(s) \/ LabelNamed(s)
  BY LabelNameDoes
<1> QED
  BY <1>1, <1>2, <1>3, <1>4, <1>5, <1>6, <1>7, <1>8, <1>9, <1>10, <1>11, <1>12 DEF Does

-----------------------------------------------------------------------------
(* The type invariant *)

LEMMA TypeInit == Init => TInv
<1> SUFFICES ASSUME Init PROVE TInv
  OBVIOUS
<1>1. NoChange \in Changes /\ EmptyCache \in Caches
  BY DEF NoChange, EmptyCache, Changes, Caches
<1>2. 0 \in 0 .. LabelIdMax /\ 0 \in 0 .. MaxOid /\ 0 \in 0 .. MaxSteps
  BY CatalogConstants
<1> QED
  BY <1>1, <1>2 DEF Init, TInv

\* A statement that runs keeps the types when its transaction and cache have them.
LEMMA RunsTyped ==
  ASSUME TInv, NEW s \in Sessions, NEW t \in Changes, NEW c \in Caches, Runs(s, t, c),
         seq' \in [Oids -> 0 .. LabelIdMax], oids' \in 0 .. MaxOid
  PROVE  TInv'
BY DEF TInv, Runs

LEMMA FailsTyped ==
  ASSUME TInv, NEW s \in Sessions, Fails(s)
  PROVE  TInv'
<1>1. NoChange \in Changes /\ Invalidated(cache[s], Messages(tx[s])) \in Caches
  BY Open, Closed, Flushed
<1> QED
  BY <1>1 DEF TInv, Fails

LEMMA Counted ==
  ASSUME TInv
  PROVE  oids \in Nat /\ MaxOid \in Nat /\ oids <= MaxOid
<1>1. MaxOid \in Nat
  BY CatalogConstants
<1>2. oids \in 0 .. MaxOid
  BY DEF TInv
<1> QED
  BY <1>1, <1>2

LEMMA SameCounters ==
  ASSUME TInv, UNCHANGED <<seq, oids>>
  PROVE  seq' \in [Oids -> 0 .. LabelIdMax] /\ oids' \in 0 .. MaxOid
BY DEF TInv

\* The sets of messages are of namespaces and relations.
LEMMA MessagesTyped ==
  ASSUME NEW t \in Changes
  PROVE  Messages(t) \subseteq Oids \cup {Namespace}
BY DEF Messages, Changes, LabelRow

\* The caches after a fill of both kinds.
LEMMA FilledByName ==
  ASSUME NEW c \in Caches, NEW found \in SUBSET GraphRow, NEW up \in SUBSET LabelRow
  PROVE  LET d == Filled(Filled(c, "gname", found), "lname", up)
         IN  /\ d \in Caches
             /\ d.gname = c.gname \cup found /\ d.gns = c.gns
             /\ d.lname = c.lname \cup up /\ d.lid = c.lid
<1> DEFINE e == Filled(c, "gname", found)
<1>1. e = [c EXCEPT !.gname = @ \cup found] /\ e \in Caches
  BY FilledGraphs
<1>2. e.gname = c.gname \cup found /\ e.gns = c.gns /\ e.lname = c.lname /\ e.lid = c.lid
  BY <1>1 DEF Caches
<1> HIDE DEF e
<1>3. Filled(e, "lname", up) = [e EXCEPT !.lname = @ \cup up] /\ Filled(e, "lname", up) \in Caches
  BY <1>1, FilledLabels
<1> QED
  BY <1>1, <1>2, <1>3 DEF Caches, e

LEMMA FilledByNameAndId ==
  ASSUME NEW c \in Caches, NEW found \in SUBSET GraphRow, NEW up \in SUBSET LabelRow,
         NEW tried \in SUBSET LabelRow
  PROVE  LET d == Filled(Filled(Filled(c, "gname", found), "lname", up), "lid", tried)
         IN  /\ d \in Caches
             /\ d.gname = c.gname \cup found /\ d.gns = c.gns
             /\ d.lname = c.lname \cup up /\ d.lid = c.lid \cup tried
<1> DEFINE e == Filled(Filled(c, "gname", found), "lname", up)
<1>1. /\ e \in Caches /\ e.gname = c.gname \cup found /\ e.gns = c.gns
      /\ e.lname = c.lname \cup up /\ e.lid = c.lid
  BY FilledByName
<1> HIDE DEF e
<1>2. Filled(e, "lid", tried) = [e EXCEPT !.lid = @ \cup tried] /\ Filled(e, "lid", tried) \in Caches
  BY <1>1, FilledLabels
<1>3. LET d == Filled(e, "lid", tried)
      IN  d \in Caches /\ d.gname = e.gname /\ d.gns = e.gns /\ d.lname = e.lname
          /\ d.lid = e.lid \cup tried
  BY <1>1, <1>2 DEF Caches
<1> QED
  BY <1>1, <1>3 DEF e

LEMMA FilledById ==
  ASSUME NEW c \in Caches, NEW found \in SUBSET GraphRow, NEW up \in SUBSET LabelRow
  PROVE  LET d == Filled(Filled(c, "gns", found), "lid", up)
         IN  /\ d \in Caches
             /\ d.gname = c.gname /\ d.gns = c.gns \cup found
             /\ d.lname = c.lname /\ d.lid = c.lid \cup up
<1> DEFINE e == Filled(c, "gns", found)
<1>1. e = [c EXCEPT !.gns = @ \cup found] /\ e \in Caches
  BY FilledGraphs
<1>2. e.gname = c.gname /\ e.gns = c.gns \cup found /\ e.lname = c.lname /\ e.lid = c.lid
  BY <1>1 DEF Caches
<1> HIDE DEF e
<1>3. Filled(e, "lid", up) = [e EXCEPT !.lid = @ \cup up] /\ Filled(e, "lid", up) \in Caches
  BY <1>1, FilledLabels
<1> QED
  BY <1>1, <1>2, <1>3 DEF Caches, e

LEMMA DropCaches ==
  ASSUME NEW c \in Caches, NEW found \in SUBSET GraphRow, NEW rels
  PROVE  LET d == invalidate_label_caches(Filled(c, "gname", found), rels)
         IN  /\ d \in Caches
             /\ d.gname = c.gname \cup found /\ d.gns = c.gns
             /\ d.lname = {l \in c.lname : l.rel \notin rels}
             /\ d.lid = {l \in c.lid : l.rel \notin rels}
<1>1. Filled(c, "gname", found) = [c EXCEPT !.gname = @ \cup found]
  BY FilledGraphs
<1> QED
  BY <1>1 DEF invalidate_label_caches, Caches

LEMMA NoGraphsCached ==
  ASSUME NEW c \in Caches
  PROVE  /\ invalidate_graph_caches(c) \in Caches
         /\ invalidate_graph_caches(c).gname = {} /\ invalidate_graph_caches(c).gns = {}
         /\ invalidate_graph_caches(c).lname = c.lname /\ invalidate_graph_caches(c).lid = c.lid
BY DEF invalidate_graph_caches, Caches

LEMMA TypeStep == TInv /\ [Next]_vars => TInv'
<1> SUFFICES ASSUME TInv, [Next]_vars PROVE TInv'
  OBVIOUS
<1>1. CASE UNCHANGED vars
  BY <1>1 DEF TInv, vars
<1> SUFFICES ASSUME NEW s \in Sessions, Does(s) PROVE TInv'
  BY <1>1, NextDoes
<1> DEFINE t == tx[s]
           c == cache[s]
<1>o. /\ t \in Changes /\ c \in Caches /\ inval[s] \subseteq Oids \cup {Namespace}
      /\ NoChange \in Changes /\ EmptyCache \in Caches
      /\ Graphs(s) \subseteq GraphRow /\ LabelRows(s) \subseteq LabelRow
  BY Open, Closed
<1>2. CASE Begin(s)
  <2>1. Invalidated(c, inval[s]) \in Caches
    BY <1>o, Flushed
  <2>2. steps' \in 0 .. MaxSteps
    BY <1>2, StepCounts DEF Begin
  <2>3. tx' = [tx EXCEPT ![s] = [t EXCEPT !.on = TRUE]] /\ [t EXCEPT !.on = TRUE] \in Changes
    BY <1>2, <1>o DEF Begin, Changes, TInv
  <2> QED
    BY <1>2, <2>1, <2>2, <2>3 DEF Begin, TInv
<1>3. CASE Commit(s)
  <2>1. cat' \in [graphs : SUBSET GraphRow, labels : SUBSET LabelRow, rows : SUBSET VertexRow]
    <3>1. cat.rows \cup t.vi \subseteq VertexRow
      BY <1>o DEF TInv, Changes
    <3> QED
      BY <1>3, <1>o, <3>1 DEF Commit
  <2>2. inval' \in [Sessions -> SUBSET (Oids \cup {Namespace})]
    BY <1>3, <1>o, MessagesTyped DEF Commit, TInv
  <2> QED
    BY <1>3, <1>o, <2>1, <2>2 DEF Commit, TInv
<1>4. CASE Accept(s)
  <2>1. Invalidated(c, inval[s]) \in Caches
    BY <1>o, Flushed
  <2> QED
    BY <1>4, <2>1 DEF Accept, TInv
<1>5. CASE Reset(s) \/ Reconnect(s)
  <2>1. CASE Reset(s)
    BY <1>o, <2>1 DEF Reset, TInv
  <2>2. CASE Reconnect(s)
    <3>1. hook' \in [Sessions -> BOOLEAN]
      BY <2>2 DEF Reconnect, TInv
    <3> QED
      BY <1>o, <2>2, <3>1 DEF Reconnect, TInv
  <2> QED
    BY <1>5, <2>1, <2>2
<1>6. CASE Fails(s)
  BY <1>6, FailsTyped
<1>7. CASE Crash
  BY <1>7, <1>o DEF Crash, TInv
<1>8. CASE GraphAdded(s)
  <2>1. PICK g \in GraphRow, dv \in LabelRow, de \in LabelRow :
          /\ oids' = oids + 3 /\ oids' <= MaxOid
          /\ seq' = [seq EXCEPT ![g.oid] = 2]
          /\ Runs(s, [t EXCEPT !.gi = @ \cup {g}, !.li = @ \cup {dv, de}],
                  Filled(invalidate_graph_caches(c), "gname", {g}))
    BY <1>8 DEF GraphAdded
  <2>2. [t EXCEPT !.gi = @ \cup {g}, !.li = @ \cup {dv, de}] \in Changes
    BY <1>o DEF Changes
  <2>3. Filled(invalidate_graph_caches(c), "gname", {g}) \in Caches
    BY <1>o, NoGraphsCached, FilledGraphs
  <2>4. oids' \in 0 .. MaxOid
    BY <2>1, Counted
  <2>5. seq' \in [Oids -> 0 .. LabelIdMax]
    <3>1. 2 \in 0 .. LabelIdMax
      BY CatalogConstants
    <3> QED
      BY <2>1, <3>1 DEF TInv
  <2> QED
    BY <2>1, <2>2, <2>3, <2>4, <2>5, RunsTyped
<1>9. CASE GraphDropped(s)
  <2>1. PICK g \in Graphs(s) :
          /\ UNCHANGED <<seq, oids>>
          /\ LET ls == Tables(s, g.oid)
             IN  Runs(s, Dropped(t, {g}, ls), Invalidated(c, {Namespace} \cup {l.rel : l \in ls}))
    BY <1>9 DEF GraphDropped
  <2> DEFINE ls == Tables(s, g.oid)
  <2>2. Dropped(t, {g}, ls) \in Changes
    BY <1>o, DroppedFields
  <2>3. Invalidated(c, {Namespace} \cup {l.rel : l \in ls}) \in Caches
    BY <1>o, Flushed
  <2> QED
    BY <2>1, <2>2, <2>3, RunsTyped, SameCounters
<1>10. CASE GraphRenamed(s)
  <2>1. PICK g \in Graphs(s), h \in GraphRow :
          /\ UNCHANGED <<seq, oids>>
          /\ Runs(s, [Dropped(t, {g}, {}) EXCEPT !.gi = @ \cup {h}], invalidate_graph_caches(c))
    BY <1>10 DEF GraphRenamed
  <2>2. Dropped(t, {g}, {}) \in Changes
    BY <1>o, DroppedFields
  <2>3. [Dropped(t, {g}, {}) EXCEPT !.gi = @ \cup {h}] \in Changes
    BY <2>2 DEF Changes
  <2> QED
    BY <1>o, <2>1, <2>3, RunsTyped, SameCounters, NoGraphsCached
<1>11. CASE GraphsDropped(s)
  <2> DEFINE ls == LabelRows(s)
  <2>1. /\ UNCHANGED <<seq, oids>>
        /\ Runs(s, Dropped(t, Graphs(s), ls), Invalidated(c, {Namespace} \cup {l.rel : l \in ls}))
    BY <1>11 DEF GraphsDropped
  <2>2. Dropped(t, Graphs(s), ls) \in Changes
    BY <1>o, DroppedFields
  <2>3. Invalidated(c, {Namespace} \cup {l.rel : l \in ls}) \in Caches
    BY <1>o, Flushed
  <2> QED
    BY <2>1, <2>2, <2>3, RunsTyped, SameCounters
<1>12. CASE LabelAdded(s)
  <2>0. PICK g \in Graphs(s), row \in LabelRow, found \in SUBSET GraphRow,
             up \in SUBSET LabelRow, tried \in SUBSET LabelRow :
          LabelAddedTo(s, g, row, found, up, tried)
    BY <1>12 DEF LabelAdded
  <2>1. /\ oids' = oids + 1 /\ oids' <= MaxOid
        /\ seq' = [seq EXCEPT ![g.oid] = row.id]
        /\ Runs(s, [t EXCEPT !.li = @ \cup {row}],
                Filled(Filled(Filled(c, "gname", found), "lname", up), "lid", tried))
    BY <2>0 DEF LabelAddedTo
  <2>2. [t EXCEPT !.li = @ \cup {row}] \in Changes
    BY <1>o DEF Changes
  <2>3. Filled(Filled(Filled(c, "gname", found), "lname", up), "lid", tried) \in Caches
    BY <1>o, FilledByNameAndId
  <2>4. oids' \in 0 .. MaxOid
    BY <2>1, Counted
  <2>5. row.id \in 0 .. LabelIdMax
    BY DEF LabelRow
  <2>6. seq' \in [Oids -> 0 .. LabelIdMax]
    BY <2>1, <2>5 DEF TInv
  <2> QED
    BY <2>1, <2>2, <2>3, <2>4, <2>6, RunsTyped
<1>13. CASE LabelDropped(s)
  <2>1. PICK row \in LabelRows(s), found \in SUBSET GraphRow :
          /\ UNCHANGED <<seq, oids>>
          /\ Runs(s, Dropped(t, {}, {row}),
                  invalidate_label_caches(Filled(c, "gname", found), {row.rel}))
    BY <1>13 DEF LabelDropped
  <2> QED
    BY <1>o, <2>1, DroppedFields, DropCaches, RunsTyped, SameCounters
<1>14. CASE VertexAdded(s)
  <2>1. PICK r \in VertexRow, found \in SUBSET GraphRow, rows \in SUBSET LabelRow :
          /\ UNCHANGED <<seq, oids>>
          /\ Runs(s, [t EXCEPT !.vi = @ \cup {r}],
                  Filled(Filled(c, "gname", found), "lname", rows))
    BY <1>14 DEF VertexAdded
  <2>2. [t EXCEPT !.vi = @ \cup {r}] \in Changes
    BY <1>o DEF Changes
  <2> QED
    BY <1>o, <2>1, <2>2, FilledByName, RunsTyped, SameCounters
<1>15. CASE LabelNamed(s)
  <2>1. PICK g \in SUBSET GraphRow, l \in SUBSET LabelRow :
          /\ UNCHANGED <<seq, oids>>
          /\ Runs(s, t, Filled(Filled(c, "gns", g), "lid", l))
    BY <1>15 DEF LabelNamed
  <2> QED
    BY <1>o, <2>1, FilledById, RunsTyped, SameCounters
<1> QED
  BY <1>2, <1>3, <1>4, <1>5, <1>6, <1>7, <1>8, <1>9, <1>10, <1>11, <1>12, <1>13, <1>14, <1>15
  DEF Does

\* Every row in the catalog, in a transaction or in a cache is a row of its
\* table, and every message is about a namespace or a relation.
THEOREM CatalogType == Spec => []TypeOK
<1>1. TInv => TypeOK
  BY DEF TInv, TypeOK, Changes, Caches
<1> QED
  BY <1>1, TypeInit, TypeStep, PTL DEF Spec

-----------------------------------------------------------------------------
(* The caches *)

\* What a session sees after a statement of s, and after s has committed.
LEMMA SeenAfterRun ==
  ASSUME TInv, NEW s \in Sessions, NEW t, NEW c, Runs(s, t, c)
  PROVE  /\ Graphs(s)' = GraphsOf(t) /\ LabelRows(s)' = LabelRowsOf(t)
         /\ \A u \in Others(s) : Graphs(u)' = Graphs(u) /\ LabelRows(u)' = LabelRows(u)
BY DEF TInv, Runs, Graphs, LabelRows, GraphsOf, LabelRowsOf, Others

LEMMA SeenAfterFail ==
  ASSUME TInv, NEW s \in Sessions, Fails(s)
  PROVE  /\ Graphs(s)' = cat.graphs /\ LabelRows(s)' = cat.labels
         /\ \A u \in Others(s) : Graphs(u)' = Graphs(u) /\ LabelRows(u)' = LabelRows(u)
BY DEF TInv, Fails, Graphs, LabelRows, Others, NoChange

LEMMA SeenAfterCommit ==
  ASSUME TInv, NEW s \in Sessions, Commit(s)
  PROVE  /\ cat'.graphs = Graphs(s) /\ cat'.labels = LabelRows(s)
         /\ Graphs(s)' = Graphs(s) /\ LabelRows(s)' = LabelRows(s)
         /\ \A u \in Others(s) :
              /\ Graphs(u)' = (Graphs(s) \ tx[u].gd) \cup tx[u].gi
              /\ LabelRows(u)' = (LabelRows(s) \ tx[u].ld) \cup tx[u].li
BY DEF TInv, Commit, Graphs, LabelRows, Others, NoChange

\* The rows of a cache are good for a view and for the messages still waiting.
Good(c, G, L, msgs) ==
    /\ \A g \in c.gname \cup c.gns : g \in G \/ Namespace \in msgs
    /\ \A l \in c.lname \cup c.lid : l \in L \/ l.rel \in msgs

LEMMA RunsCached ==
  ASSUME TInv, CacheInv, NEW s \in Sessions, NEW t, NEW c, Runs(s, t, c),
         Good(c, GraphsOf(t), LabelRowsOf(t), inval[s])
  PROVE  CacheInv'
<1>1. \A u \in Sessions : cache'[u] = IF u = s THEN c ELSE cache[u]
  BY DEF Runs, TInv
<1>2. inval' = inval
  BY DEF Runs
<1> QED
  BY <1>1, <1>2, SeenAfterRun DEF CacheInv, Good, Others

\* The view of a transaction that dropped graphs gs and labels ls.
LEMMA GraphsLeft ==
  ASSUME TInv, NEW s \in Sessions, NEW gs, NEW ls
  PROVE  GraphsOf(Dropped(tx[s], gs, ls)) = Graphs(s) \ gs
BY Open, DroppedFields DEF GraphsOf, Graphs

LEMMA LabelsLeft ==
  ASSUME TInv, NEW s \in Sessions, NEW gs, NEW ls
  PROVE  LabelRowsOf(Dropped(tx[s], gs, ls)) = LabelRows(s) \ ls
BY Open, DroppedFields DEF LabelRowsOf, LabelRows

LEMMA CacheStep == TInv /\ CacheInv /\ [Next]_vars => CacheInv'
<1> SUFFICES ASSUME TInv, CacheInv, [Next]_vars PROVE CacheInv'
  OBVIOUS
<1>1. CASE UNCHANGED vars
  BY <1>1 DEF CacheInv, vars, Graphs, LabelRows
<1> SUFFICES ASSUME NEW s \in Sessions, Does(s) PROVE CacheInv'
  BY <1>1, NextDoes
<1> DEFINE t == tx[s]
           c == cache[s]
<1>o. t \in Changes /\ c \in Caches /\ Graphs(s) \subseteq GraphRow /\ LabelRows(s) \subseteq LabelRow
  BY Open
<1>i. Good(c, Graphs(s), LabelRows(s), inval[s])
  BY DEF CacheInv, Good
<1>e. EmptyCache.gname = {} /\ EmptyCache.gns = {} /\ EmptyCache.lname = {} /\ EmptyCache.lid = {}
  BY DEF EmptyCache
<1>f. ASSUME NEW msgs,
             \A g \in c.gname \cup c.gns : g \in Graphs(s) \/ Namespace \in msgs,
             \A l \in c.lname \cup c.lid : l \in LabelRows(s) \/ l.rel \in msgs
      PROVE  LET d == Invalidated(c, msgs)
             IN  d.gname \cup d.gns \subseteq Graphs(s) /\ d.lname \cup d.lid \subseteq LabelRows(s)
  BY <1>o, <1>f, Flushed
<1>2. CASE Begin(s)
  <2>1. \A u \in Sessions : Graphs(u)' = Graphs(u) /\ LabelRows(u)' = LabelRows(u)
    BY <1>2, <1>o DEF Begin, Graphs, LabelRows, TInv, Changes
  <2>2. \A u \in Sessions : /\ cache'[u] = IF u = s THEN Invalidated(c, inval[s]) ELSE cache[u]
                            /\ u # s => inval'[u] = inval[u]
    BY <1>2 DEF Begin, TInv
  <2>3. LET d == Invalidated(c, inval[s])
        IN  d.gname \cup d.gns \subseteq Graphs(s) /\ d.lname \cup d.lid \subseteq LabelRows(s)
    BY <1>i, <1>f DEF Good
  <2> QED
    BY <2>1, <2>2, <2>3 DEF CacheInv
<1>3. CASE Commit(s)
  <2>1. SUFFICES ASSUME NEW u \in Sessions
                 PROVE  Good(cache[u], Graphs(u)', LabelRows(u)', inval'[u])
    BY <1>3 DEF Commit, CacheInv, Good
  <2>2. Good(cache[u], Graphs(u), LabelRows(u), inval[u])
    BY DEF CacheInv, Good
  <2>3. CASE u = s
    <3>1. inval'[s] = inval[s]
      BY <1>3 DEF Commit
    <3> QED
      BY <1>3, <2>2, <2>3, <3>1, SeenAfterCommit
  <2>4. CASE cache[u] = EmptyCache
    BY <1>e, <2>4 DEF Good
  <2>5. CASE u # s /\ cache[u] # EmptyCache
    <3>1. inval'[u] = inval[u] \cup Messages(t)
      BY <1>3, <2>5 DEF Commit
    <3>2. /\ Graphs(u)' = (Graphs(s) \ tx[u].gd) \cup tx[u].gi
          /\ LabelRows(u)' = (LabelRows(s) \ tx[u].ld) \cup tx[u].li
      BY <1>3, <2>5, SeenAfterCommit DEF Others
    <3>3. ASSUME NEW g \in Graphs(u) PROVE g \in Graphs(u)' \/ Namespace \in Messages(t)
      BY <3>2 DEF Graphs, Messages
    <3>4. ASSUME NEW l \in LabelRows(u) PROVE l \in LabelRows(u)' \/ l.rel \in Messages(t)
      BY <3>2 DEF LabelRows, Messages
    <3> QED
      BY <2>2, <3>1, <3>3, <3>4 DEF Good
  <2> QED
    BY <2>3, <2>4, <2>5
<1>4. CASE Accept(s)
  <2>1. \A u \in Sessions : Graphs(u)' = Graphs(u) /\ LabelRows(u)' = LabelRows(u)
    BY <1>4 DEF Accept, Graphs, LabelRows
  <2>2. \A u \in Sessions : /\ cache'[u] = IF u = s THEN Invalidated(c, inval[s]) ELSE cache[u]
                            /\ u # s => inval'[u] = inval[u]
    BY <1>4 DEF Accept, TInv
  <2>3. LET d == Invalidated(c, inval[s])
        IN  d.gname \cup d.gns \subseteq Graphs(s) /\ d.lname \cup d.lid \subseteq LabelRows(s)
    BY <1>i, <1>f DEF Good
  <2> QED
    BY <2>1, <2>2, <2>3 DEF CacheInv
<1>5. CASE Reset(s) \/ Reconnect(s)
  <2>1. \A u \in Sessions : Graphs(u)' = Graphs(u) /\ LabelRows(u)' = LabelRows(u)
    BY <1>5 DEF Reset, Reconnect, Graphs, LabelRows
  <2>2. \A u \in Sessions : /\ cache'[u] = IF u = s THEN EmptyCache ELSE cache[u]
                            /\ u # s => inval'[u] = inval[u]
    BY <1>5 DEF Reset, Reconnect, TInv
  <2> QED
    BY <1>e, <2>1, <2>2 DEF CacheInv
<1>6. CASE Fails(s)
  <2> DEFINE d == Invalidated(c, Messages(t))
  <2>1. \A u \in Sessions : cache'[u] = (IF u = s THEN d ELSE cache[u]) /\ inval'[u] = inval[u]
    BY <1>6 DEF Fails, TInv
  <2>2. ASSUME NEW g \in d.gname \cup d.gns PROVE g \in cat.graphs \/ Namespace \in inval[s]
    <3>1. Namespace \notin Messages(t) /\ g \in c.gname \cup c.gns
      BY <1>o, Flushed
    <3>2. t.gi = {} /\ t.gd = {}
      BY <3>1 DEF Messages
    <3> QED
      BY <1>i, <3>1, <3>2 DEF Good, Graphs
  <2>3. ASSUME NEW l \in d.lname \cup d.lid PROVE l \in cat.labels \/ l.rel \in inval[s]
    <3>1. l \in c.lname \cup c.lid /\ l.rel \notin Messages(t)
      BY <1>o, Flushed
    <3>2. l \notin t.li
      BY <3>1 DEF Messages
    <3> QED
      BY <1>i, <3>1, <3>2 DEF Good, LabelRows
  <2> QED
    BY <1>6, <2>1, <2>2, <2>3, SeenAfterFail DEF CacheInv, Others
<1>7. CASE Crash
  <2>1. \A u \in Sessions : cache'[u] = EmptyCache
    BY <1>7 DEF Crash
  <2> QED
    BY <1>e, <2>1 DEF CacheInv
<1>8. CASE GraphAdded(s)
  <2>1. PICK g \in GraphRow, dv \in LabelRow, de \in LabelRow :
          Runs(s, [t EXCEPT !.gi = @ \cup {g}, !.li = @ \cup {dv, de}],
               Filled(invalidate_graph_caches(c), "gname", {g}))
    BY <1>8 DEF GraphAdded
  <2> DEFINE t2 == [t EXCEPT !.gi = @ \cup {g}, !.li = @ \cup {dv, de}]
             d == Filled(invalidate_graph_caches(c), "gname", {g})
  <2>2. t2.gi = t.gi \cup {g} /\ t2.gd = t.gd /\ t2.li = t.li \cup {dv, de} /\ t2.ld = t.ld
    BY <1>o DEF Changes
  <2>3. d.gname = {g} /\ d.gns = {} /\ d.lname = c.lname /\ d.lid = c.lid
    BY <1>o, NoGraphsCached, FilledGraphs DEF Caches
  <2>4. Good(d, GraphsOf(t2), LabelRowsOf(t2), inval[s])
    BY <1>i, <2>2, <2>3 DEF Good, GraphsOf, LabelRowsOf, LabelRows
  <2> QED
    BY <2>1, <2>4, RunsCached
<1>9. CASE GraphDropped(s)
  <2>1. PICK g \in Graphs(s) :
          LET ls == Tables(s, g.oid)
          IN  Runs(s, Dropped(t, {g}, ls), Invalidated(c, {Namespace} \cup {l.rel : l \in ls}))
    BY <1>9 DEF GraphDropped
  <2> DEFINE ls == Tables(s, g.oid)
             t2 == Dropped(t, {g}, ls)
             d == Invalidated(c, {Namespace} \cup {l.rel : l \in ls})
  <2>2. LabelRowsOf(t2) = LabelRows(s) \ ls
    BY LabelsLeft
  <2>3. /\ d.gname = {} /\ d.gns = {}
        /\ \A l \in d.lname \cup d.lid : l \in c.lname \cup c.lid /\ l \notin ls
    BY <1>o, Flushed
  <2>4. Good(d, GraphsOf(t2), LabelRowsOf(t2), inval[s])
    BY <1>i, <2>2, <2>3 DEF Good
  <2> QED
    BY <2>1, <2>4, RunsCached
<1>10. CASE GraphRenamed(s)
  <2>1. PICK g \in Graphs(s), h \in GraphRow :
          Runs(s, [Dropped(t, {g}, {}) EXCEPT !.gi = @ \cup {h}], invalidate_graph_caches(c))
    BY <1>10 DEF GraphRenamed
  <2> DEFINE t2 == [Dropped(t, {g}, {}) EXCEPT !.gi = @ \cup {h}]
             d == invalidate_graph_caches(c)
  <2>2. LabelRowsOf(t2) = LabelRows(s)
    <3>1. Dropped(t, {g}, {}) \in Changes
      BY <1>o, DroppedFields
    <3>2. LabelRowsOf(Dropped(t, {g}, {})) = LabelRows(s) \ {}
      BY LabelsLeft
    <3> QED
      BY <3>1, <3>2 DEF LabelRowsOf, Changes
  <2>3. Good(d, GraphsOf(t2), LabelRowsOf(t2), inval[s])
    BY <1>o, <1>i, <2>2, NoGraphsCached DEF Good
  <2> QED
    BY <2>1, <2>3, RunsCached
<1>11. CASE GraphsDropped(s)
  <2> DEFINE ls == LabelRows(s)
             t2 == Dropped(t, Graphs(s), ls)
             d == Invalidated(c, {Namespace} \cup {l.rel : l \in ls})
  <2>1. Runs(s, t2, d)
    BY <1>11 DEF GraphsDropped
  <2>2. LabelRowsOf(t2) = LabelRows(s) \ ls
    BY LabelsLeft
  <2>3. /\ d.gname = {} /\ d.gns = {}
        /\ \A l \in d.lname \cup d.lid : l \in c.lname \cup c.lid /\ l \notin ls
    BY <1>o, Flushed
  <2>4. Good(d, GraphsOf(t2), LabelRowsOf(t2), inval[s])
    BY <1>i, <2>2, <2>3 DEF Good
  <2> HIDE DEF t2, d
  <2> QED
    BY <2>1, <2>4, RunsCached
<1>12. CASE LabelAdded(s)
  <2>0. PICK g \in Graphs(s), row \in LabelRow, found \in SUBSET GraphRow,
             up \in SUBSET LabelRow, tried \in SUBSET LabelRow :
          LabelAddedTo(s, g, row, found, up, tried)
    BY <1>12 DEF LabelAdded
  <2>1. /\ found \subseteq c.gname \cup Graphs(s) /\ up \subseteq c.lname \cup LabelRows(s)
        /\ tried \subseteq c.lid \cup LabelRows(s)
        /\ Runs(s, [t EXCEPT !.li = @ \cup {row}],
                Filled(Filled(Filled(c, "gname", found), "lname", up), "lid", tried))
    BY <2>0 DEF LabelAddedTo
  <2> DEFINE t2 == [t EXCEPT !.li = @ \cup {row}]
             d == Filled(Filled(Filled(c, "gname", found), "lname", up), "lid", tried)
  <2>2. t2.gi = t.gi /\ t2.gd = t.gd /\ t2.li = t.li \cup {row} /\ t2.ld = t.ld
    BY <1>o DEF Changes
  <2>3. /\ d.gname = c.gname \cup found /\ d.gns = c.gns
        /\ d.lname = c.lname \cup up /\ d.lid = c.lid \cup tried
    BY <1>o, FilledByNameAndId
  <2>4. Good(d, GraphsOf(t2), LabelRowsOf(t2), inval[s])
    BY <1>i, <2>1, <2>2, <2>3 DEF Good, GraphsOf, LabelRowsOf, Graphs, LabelRows
  <2> QED
    BY <2>1, <2>4, RunsCached
<1>13. CASE LabelDropped(s)
  <2>1. PICK row \in LabelRows(s), found \in SUBSET GraphRow :
          /\ found \subseteq c.gname \cup Graphs(s)
          /\ Runs(s, Dropped(t, {}, {row}),
                  invalidate_label_caches(Filled(c, "gname", found), {row.rel}))
    BY <1>13 DEF LabelDropped
  <2> DEFINE t2 == Dropped(t, {}, {row})
             d == invalidate_label_caches(Filled(c, "gname", found), {row.rel})
  <2>2. GraphsOf(t2) = Graphs(s) /\ LabelRowsOf(t2) = LabelRows(s) \ {row}
    <3>1. GraphsOf(t2) = Graphs(s) \ {}
      BY GraphsLeft
    <3>2. LabelRowsOf(t2) = LabelRows(s) \ {row}
      BY LabelsLeft
    <3> QED
      BY <3>1, <3>2
  <2>3. /\ d.gname = c.gname \cup found /\ d.gns = c.gns
        /\ \A l \in d.lname \cup d.lid : l \in c.lname \cup c.lid /\ l.rel # row.rel
    BY <1>o, DropCaches
  <2>4. Good(d, GraphsOf(t2), LabelRowsOf(t2), inval[s])
    BY <1>i, <2>1, <2>2, <2>3 DEF Good
  <2> QED
    BY <2>1, <2>4, RunsCached
<1>14. CASE VertexAdded(s)
  <2>1. PICK r \in VertexRow, found \in SUBSET GraphRow, rows \in SUBSET LabelRow :
          /\ found \subseteq c.gname \cup Graphs(s) /\ rows \subseteq c.lname \cup LabelRows(s)
          /\ Runs(s, [t EXCEPT !.vi = @ \cup {r}],
                  Filled(Filled(c, "gname", found), "lname", rows))
    BY <1>14 DEF VertexAdded
  <2> DEFINE t2 == [t EXCEPT !.vi = @ \cup {r}]
             d == Filled(Filled(c, "gname", found), "lname", rows)
  <2>2. t2.gi = t.gi /\ t2.gd = t.gd /\ t2.li = t.li /\ t2.ld = t.ld
    BY <1>o DEF Changes
  <2>3. /\ d.gname = c.gname \cup found /\ d.gns = c.gns
        /\ d.lname = c.lname \cup rows /\ d.lid = c.lid
    BY <1>o, FilledByName
  <2>4. Good(d, GraphsOf(t2), LabelRowsOf(t2), inval[s])
    BY <1>i, <2>1, <2>2, <2>3 DEF Good, GraphsOf, LabelRowsOf, Graphs, LabelRows
  <2> QED
    BY <2>1, <2>4, RunsCached
<1>15. CASE LabelNamed(s)
  <2>1. PICK g \in SUBSET GraphRow, l \in SUBSET LabelRow :
          /\ g \subseteq c.gns \cup Graphs(s) /\ l \subseteq c.lid \cup LabelRows(s)
          /\ Runs(s, t, Filled(Filled(c, "gns", g), "lid", l))
    BY <1>15 DEF LabelNamed
  <2> DEFINE d == Filled(Filled(c, "gns", g), "lid", l)
  <2>2. /\ d.gname = c.gname /\ d.gns = c.gns \cup g
        /\ d.lname = c.lname /\ d.lid = c.lid \cup l
    BY <1>o, FilledById
  <2>3. Good(d, GraphsOf(t), LabelRowsOf(t), inval[s])
    BY <1>i, <2>1, <2>2 DEF Good, GraphsOf, LabelRowsOf, Graphs, LabelRows
  <2> QED
    BY <2>1, <2>3, RunsCached
<1> QED
  BY <1>2, <1>3, <1>4, <1>5, <1>6, <1>7, <1>8, <1>9, <1>10, <1>11, <1>12, <1>13, <1>14, <1>15
  DEF Does

\* Whatever is created, renamed, dropped, rolled back or committed by any
\* session, a row left in the caches of a session is one it sees or one whose
\* message it has still to accept (the callbacks ag_cache.c registers).
THEOREM CachesStayFresh == Spec => []CacheFresh
<1>1. Init => CacheInv
  BY DEF Init, CacheInv, EmptyCache
<1>2. CacheInv => CacheFresh
  BY DEF CacheInv, CacheFresh
<1> QED
  BY <1>1, <1>2, TypeInit, TypeStep, CacheStep, PTL DEF Spec

-----------------------------------------------------------------------------
(* Ids of labels *)

LEMMA ShortIsFull ==
  ASSUME TInv, CacheInv, NEW s \in Sessions, inval[s] = {}, Short(s)
  PROVE  \E g \in Graphs(s) : FullGraph(s, g)
<1>1. PICK g \in Graphs(s) : \A i \in 1 .. LabelIdMax : label_id_exists(s, g.oid, i)
  BY DEF Short
<1>2. ASSUME NEW i \in 1 .. LabelIdMax
      PROVE  \E l \in LabelRows(s) : l.graph = g.oid /\ l.id = i
  <2>1. PICK l \in search_label_graph_oid_cache(s, g.oid, i) : TRUE
    BY <1>1 DEF label_id_exists
  <2>2. l.graph = g.oid /\ l.id = i /\ l \in cache[s].lid \cup LabelRows(s)
    BY <2>1, FoundLabelById
  <2>3. l \in LabelRows(s)
    BY <2>2 DEF CacheInv
  <2> QED
    BY <2>2, <2>3
<1> QED
  BY <1>2 DEF FullGraph

\* A client that is told that its graph has no more labels has a graph with a
\* label of every id: what label_id_exists found in the cache is there, however
\* often the sequence has cycled and whoever dropped a label meanwhile.
THEOREM ShortagesAreReal == Spec => ShortageIsReal
<1> DEFINE Real(s) == inval[s] = {} /\ res[s] # "no more labels" /\ res'[s] = "no more labels"
                      => \E g \in Graphs(s) : FullGraph(s, g)
<1>1. Init => CacheInv
  BY DEF Init, CacheInv, EmptyCache
<1>2. TInv /\ CacheInv /\ [Next]_vars => [\A s \in Sessions : Real(s)]_vars
  <2> SUFFICES ASSUME TInv, CacheInv, Next, NEW s \in Sessions,
                      inval[s] = {}, res[s] # "no more labels", res'[s] = "no more labels"
               PROVE  \E g \in Graphs(s) : FullGraph(s, g)
    OBVIOUS
  <2>1. PICK u \in Sessions : Does(u)
    BY NextDoes
  <2>2. \/ res' = res \/ res' = [res EXCEPT ![u] = "ok"]
        \/ res' = [res EXCEPT ![u] = "no more labels"] /\ Short(u)
    BY <2>1 DEF Does, Begin, Commit, Accept, Reset, Reconnect, Fails, Crash, GraphAdded, GraphDropped,
           GraphRenamed, GraphsDropped, LabelAdded, LabelAddedTo, LabelDropped, VertexAdded, LabelNamed, Runs
  <2>3. Short(s)
    BY <2>2 DEF TInv
  <2> QED
    BY <2>3, ShortIsFull
<1> QED
  BY <1>1, <1>2, TypeInit, TypeStep, CacheStep, PTL DEF Spec, ShortageIsReal

-----------------------------------------------------------------------------
(* The catalog *)

\* Oids are numbers.
LEMMA RowNumbers ==
  /\ \A g \in GraphRow : g.oid \in Nat
  /\ \A l \in LabelRow : l.graph \in Nat
<1>1. Oids \subseteq Nat
  BY CatalogConstants DEF Oids
<1> QED
  BY <1>1 DEF GraphRow, LabelRow

\* The rows a session sees name graphs given out.
LEMMA SeenGiven ==
  ASSUME CatInv, NEW s \in Sessions
  PROVE  Given(Graphs(s), LabelRows(s))
BY DEF CatInv, Given, Graphs, LabelRows

LEMMA SeparateSym ==
  ASSUME NEW t, NEW u, Separate(t, u)
  PROVE  Separate(u, t)
BY DEF Separate

LEMMA SeparateNone ==
  ASSUME NEW t
  PROVE  Separate(NoChange, t) /\ Separate(t, NoChange)
BY DEF Separate, NoChange

\* Steps that leave graphs and labels alone.
LEMMA SameRows ==
  ASSUME TInv, CatInv, cat' = cat, oids' = oids,
         \A u \in Sessions : /\ tx'[u].gi = tx[u].gi /\ tx'[u].gd = tx[u].gd
                             /\ tx'[u].li = tx[u].li /\ tx'[u].ld = tx[u].ld
  PROVE  CatInv'
<1>1. \A u \in Sessions : Graphs(u)' = Graphs(u) /\ LabelRows(u)' = LabelRows(u)
  BY DEF Graphs, LabelRows
<1>2. ASSUME NEW s \in Sessions PROVE CleanDrop(s, tx[s])'
  <2>1. CleanDrop(s, tx[s])
    BY DEF CatInv
  <2>2. ASSUME NEW g \in tx[s].gd PROVE Renamed(tx[s], g)' \/ Emptied(s, tx[s], g)'
    BY <2>1 DEF CleanDrop, Renamed, Emptied, Others
  <2> QED
    BY <2>2 DEF CleanDrop
<1>3. ASSUME NEW s \in Sessions, NEW u \in Others(s) PROVE Separate(tx[s], tx[u])'
  <2>1. Separate(tx[s], tx[u]) /\ u \in Sessions
    BY DEF CatInv, Others
  <2> QED
    BY <2>1 DEF Separate
<1>4. /\ Sound(cat.graphs, cat.labels)' /\ Given(cat.graphs, cat.labels)'
      /\ \A s \in Sessions : /\ Sound(Graphs(s), LabelRows(s))'
                             /\ tx'[s].gd \subseteq cat'.graphs /\ Given(tx[s].gi, tx[s].li)'
  BY <1>1 DEF CatInv, Given, Sound, UniqueGraphs, UniqueLabels, Belong
<1>5. \A s \in Sessions : Others(s)' = Others(s)
  BY DEF Others
<1> QED
  BY <1>2, <1>3, <1>4, <1>5 DEF CatInv

\* A statement of s that leaves its transaction as t.
Fits(s, t) ==
    /\ Sound(GraphsOf(t), LabelRowsOf(t))
    /\ t.gd \subseteq cat.graphs
    /\ CleanDrop(s, t)
    /\ \A u \in Others(s) :
         /\ Separate(t, tx[u])
         /\ \A g \in tx[u].gd : Renamed(tx[u], g) \/ \A l \in t.li : l.graph # g.oid

LEMMA RunsFit ==
  ASSUME TInv, CatInv, NEW s \in Sessions, NEW t, NEW c, Runs(s, t, c), Fits(s, t),
         oids' \in Nat, oids <= oids',
         \A g \in t.gi : g.oid <= oids', \A l \in t.li : l.graph <= oids'
  PROVE  CatInv'
<1>0. /\ cat' = cat /\ tx'[s] = t /\ oids \in Nat
      /\ \A u \in Sessions : tx[u] \in Changes
      /\ \A u \in Others(s) : tx'[u] = tx[u] /\ u \in Sessions /\ u # s
      /\ \A u \in Sessions : u = s \/ u \in Others(s)
  BY Counted, Open DEF Runs, TInv, Others
<1>1. /\ Sound(cat.graphs, cat.labels)' /\ Given(cat.graphs, cat.labels)'
  <2>1. cat.graphs \subseteq GraphRow /\ cat.labels \subseteq LabelRow
    BY DEF TInv
  <2>2. Given(cat.graphs, cat.labels)'
    BY <1>0, <2>1, RowNumbers DEF CatInv, Given
  <2> QED
    BY <1>0, <2>2 DEF CatInv, Sound, UniqueGraphs, UniqueLabels, Belong
<1>2. ASSUME NEW u \in Sessions PROVE Sound(Graphs(u), LabelRows(u))'
  <2>1. CASE u = s
    <3>1. Graphs(s)' = GraphsOf(t) /\ LabelRows(s)' = LabelRowsOf(t)
      BY SeenAfterRun
    <3> QED
      BY <2>1, <3>1 DEF Fits, Sound, UniqueGraphs, UniqueLabels, Belong
  <2>2. CASE u \in Others(s)
    <3>1. Graphs(u)' = Graphs(u) /\ LabelRows(u)' = LabelRows(u)
      BY <2>2, SeenAfterRun
    <3> QED
      BY <3>1 DEF CatInv, Sound, UniqueGraphs, UniqueLabels, Belong
  <2> QED
    BY <1>0, <2>1, <2>2
<1>3. ASSUME NEW u \in Sessions PROVE tx'[u].gd \subseteq cat'.graphs /\ Given(tx[u].gi, tx[u].li)'
  <2>1. CASE u = s
    BY <1>0, <2>1 DEF Fits, Given
  <2>2. CASE u \in Others(s)
    <3>1. tx[u].gi \subseteq GraphRow /\ tx[u].li \subseteq LabelRow
      BY <1>0 DEF Changes
    <3> QED
      BY <1>0, <2>2, <3>1, RowNumbers DEF CatInv, Given
  <2> QED
    BY <1>0, <2>1, <2>2
<1>4. ASSUME NEW u \in Sessions PROVE CleanDrop(u, tx[u])'
  <2>1. CASE u = s
    <3>1. ASSUME NEW g \in t.gd PROVE Renamed(t, g)' \/ Emptied(s, t, g)'
      <4>1. Renamed(t, g) \/ Emptied(s, t, g)
        BY DEF Fits, CleanDrop
      <4> QED
        BY <1>0, <4>1 DEF Renamed, Emptied, Others
    <3>2. CleanDrop(s, t)'
      BY <3>1 DEF CleanDrop
    <3> QED
      BY <1>0, <2>1, <3>2
  <2>2. CASE u \in Others(s)
    <3>1. ASSUME NEW g \in tx[u].gd PROVE Renamed(tx[u], g)' \/ Emptied(u, tx[u], g)'
      <4>1. Renamed(tx[u], g) \/ Emptied(u, tx[u], g)
        BY DEF CatInv, CleanDrop
      <4>2. Renamed(tx[u], g) => Renamed(tx[u], g)'
        BY <1>0, <2>2 DEF Renamed
      <4>3. CASE Emptied(u, tx[u], g) /\ ~Renamed(tx[u], g)
        <5>1. \A l \in t.li : l.graph # g.oid
          BY <2>2, <4>3 DEF Fits
        <5>2. \A v \in Others(u)' : \A l \in tx'[v].li : l.graph # g.oid
          BY <1>0, <2>2, <4>3, <5>1 DEF Emptied, Others
        <5>3. \A l \in cat'.labels : l.graph = g.oid => l \in tx'[u].ld
          BY <1>0, <2>2, <4>3 DEF Emptied
        <5> QED
          BY <5>2, <5>3 DEF Emptied
      <4> QED
        BY <4>1, <4>2, <4>3
    <3> QED
      BY <1>0, <2>2, <3>1 DEF CleanDrop
  <2> QED
    BY <1>0, <2>1, <2>2
<1>5. ASSUME NEW u \in Sessions, NEW v \in Others(u) PROVE Separate(tx[u], tx[v])'
  <2>0. v \in Sessions /\ u # v
    BY DEF Others
  <2>1. CASE u = s
    <3>1. Separate(t, tx[v]) /\ tx'[v] = tx[v] /\ tx'[u] = t
      BY <1>0, <2>0, <2>1 DEF Fits
    <3> QED
      BY <3>1 DEF Separate
  <2>2. CASE v = s
    <3>1. Separate(t, tx[u]) /\ tx'[u] = tx[u] /\ tx'[v] = t
      BY <1>0, <2>0, <2>2 DEF Fits
    <3> QED
      BY <3>1 DEF Separate
  <2>3. CASE u # s /\ v # s
    <3>1. Separate(tx[u], tx[v]) /\ tx'[u] = tx[u] /\ tx'[v] = tx[v]
      BY <1>0, <2>0, <2>3 DEF CatInv
    <3> QED
      BY <3>1 DEF Separate
  <2> QED
    BY <2>1, <2>2, <2>3
<1>6. \A u \in Sessions : Others(u)' = Others(u)
  BY DEF Others
<1> QED
  BY <1>1, <1>2, <1>3, <1>4, <1>5, <1>6 DEF CatInv

\* Dropping graphs with all their labels, or labels, when no other transaction
\* touches the graphs.
LEMMA DropFits ==
  ASSUME TInv, CatInv, NEW s \in Sessions,
         NEW gs \in SUBSET Graphs(s), NEW ls \in SUBSET LabelRows(s),
         \A l \in LabelRows(s), g \in gs : l.graph = g.oid => l \in ls,
         \A g \in gs : ~NameBusy(s, g.name),
         \A u \in Others(s), g \in gs : \A l \in tx[u].li : l.graph # g.oid
  PROVE  /\ Fits(s, Dropped(tx[s], gs, ls))
         /\ \A g \in Dropped(tx[s], gs, ls).gi : g.oid <= oids
         /\ \A l \in Dropped(tx[s], gs, ls).li : l.graph <= oids
<1> DEFINE old == tx[s]
           t == Dropped(old, gs, ls)
<1>0. old \in Changes
  BY Open
<1>1. /\ t.gi = old.gi \ gs /\ t.gd = old.gd \cup (gs \cap cat.graphs)
      /\ t.li = old.li \ ls /\ t.ld = old.ld \cup (ls \cap cat.labels)
  BY <1>0, DroppedFields
<1>2. /\ Sound(Graphs(s), LabelRows(s)) /\ old.gd \subseteq cat.graphs
      /\ CleanDrop(s, old) /\ Given(old.gi, old.li)
      /\ \A u \in Others(s) : Separate(old, tx[u])
  BY DEF CatInv
<1>3. GraphsOf(t) = Graphs(s) \ gs
  BY GraphsLeft
<1>4. LabelRowsOf(t) = LabelRows(s) \ ls
  BY LabelsLeft
<1> HIDE DEF t
<1>5. Sound(GraphsOf(t), LabelRowsOf(t))
  <2>1. UniqueGraphs(Graphs(s) \ gs) /\ UniqueLabels(LabelRows(s) \ ls)
    BY <1>2 DEF Sound, UniqueGraphs, UniqueLabels
  <2>2. ASSUME NEW l \in LabelRows(s) \ ls PROVE \E g \in Graphs(s) \ gs : g.oid = l.graph
    <3>1. PICK g \in Graphs(s) : g.oid = l.graph
      BY <1>2 DEF Sound, Belong
    <3>2. g \notin gs
      BY <3>1
    <3> QED
      BY <3>1, <3>2
  <2> QED
    BY <1>3, <1>4, <2>1, <2>2 DEF Sound, Belong
<1>6. t.gd \subseteq cat.graphs
  BY <1>1, <1>2
<1>7. CleanDrop(s, t)
  <2> SUFFICES ASSUME NEW h \in t.gd PROVE Renamed(t, h) \/ Emptied(s, t, h)
    BY DEF CleanDrop
  <2>1. CASE \E g \in gs : g.oid = h.oid
    <3>1. PICK g \in gs : g.oid = h.oid
      BY <2>1
    <3>2. ASSUME NEW l \in cat.labels, l.graph = h.oid PROVE l \in t.ld
      <4>1. l \in old.ld \/ l \in LabelRows(s)
        BY DEF LabelRows
      <4>2. l \in LabelRows(s) => l \in ls
        BY <3>1, <3>2
      <4> QED
        BY <1>1, <4>1, <4>2
    <3>3. \A u \in Others(s) : \A l \in tx[u].li : l.graph # h.oid
      BY <3>1
    <3> QED
      BY <3>2, <3>3 DEF Emptied
  <2>2. CASE ~\E g \in gs : g.oid = h.oid
    <3>1. h \in old.gd
      BY <1>1, <2>2
    <3>2. Renamed(old, h) \/ Emptied(s, old, h)
      BY <1>2, <3>1 DEF CleanDrop
    <3>3. Renamed(old, h) => Renamed(t, h)
      BY <1>1, <2>2 DEF Renamed
    <3>4. Emptied(s, old, h) => Emptied(s, t, h)
      BY <1>1 DEF Emptied
    <3> QED
      BY <3>2, <3>3, <3>4
  <2> QED
    BY <2>1, <2>2
<1>8. ASSUME NEW u \in Others(s)
      PROVE  /\ Separate(t, tx[u])
             /\ \A g \in tx[u].gd : Renamed(tx[u], g) \/ \A l \in t.li : l.graph # g.oid
  <2>1. Separate(old, tx[u])
    BY <1>2
  <2>2. \A g \in gs, h \in tx[u].gi \cup tx[u].gd : g.name # h.name
    BY DEF NameBusy
  <2>3. Separate(t, tx[u])
    BY <1>1, <2>1, <2>2 DEF Separate
  <2>4. ASSUME NEW g \in tx[u].gd PROVE Renamed(tx[u], g) \/ \A l \in t.li : l.graph # g.oid
    <3>1. Renamed(tx[u], g) \/ Emptied(u, tx[u], g)
      BY DEF CatInv, CleanDrop, Others
    <3>2. s \in Others(u)
      BY DEF Others
    <3> QED
      BY <1>1, <3>1, <3>2 DEF Emptied
  <2> QED
    BY <2>3, <2>4
<1>9. Fits(s, t)
  BY <1>5, <1>6, <1>7, <1>8 DEF Fits
<1> QED
  BY <1>1, <1>2, <1>9 DEF Given, t

LEMMA NotBusy ==
  ASSUME NEW s \in Sessions, NEW o, ~GraphBusy(s, o)
  PROVE  \A u \in Others(s) : \A l \in tx[u].li : l.graph # o
BY DEF GraphBusy

LEMMA CatGraphDropped ==
  ASSUME TInv, CatInv, NEW s \in Sessions, GraphDropped(s)
  PROVE  CatInv'
<1>1. PICK g \in Graphs(s) :
        /\ ~NameBusy(s, g.name) /\ ~GraphBusy(s, g.oid) /\ oids' = oids
        /\ LET ls == Tables(s, g.oid)
           IN  Runs(s, Dropped(tx[s], {g}, ls),
                    Invalidated(cache[s], {Namespace} \cup {l.rel : l \in ls}))
  BY DEF GraphDropped
<1> DEFINE ls == Tables(s, g.oid)
           t == Dropped(tx[s], {g}, ls)
<1>2. /\ ls \in SUBSET LabelRows(s) /\ {g} \in SUBSET Graphs(s)
      /\ \A l \in LabelRows(s), h \in {g} : l.graph = h.oid => l \in ls
  BY DEF Tables
<1>3. \A u \in Others(s), h \in {g} : \A l \in tx[u].li : l.graph # h.oid
  BY <1>1, NotBusy
<1>4. \A h \in {g} : ~NameBusy(s, h.name)
  BY <1>1
<1> HIDE DEF ls
<1>5. Fits(s, t) /\ (\A h \in t.gi : h.oid <= oids) /\ (\A l \in t.li : l.graph <= oids)
  BY <1>2, <1>3, <1>4, DropFits
<1>6. oids' \in Nat /\ oids <= oids'
  BY <1>1, Counted
<1> HIDE DEF t
<1>7. Runs(s, t, Invalidated(cache[s], {Namespace} \cup {l.rel : l \in ls}))
  BY <1>1 DEF t, ls
<1> QED
  BY <1>1, <1>5, <1>6, <1>7, RunsFit

LEMMA CatGraphsDropped ==
  ASSUME TInv, CatInv, NEW s \in Sessions, GraphsDropped(s)
  PROVE  CatInv'
<1> DEFINE gs == Graphs(s)
           ls == LabelRows(s)
           t == Dropped(tx[s], gs, ls)
<1>1. /\ \A g \in gs : ~NameBusy(s, g.name) /\ ~GraphBusy(s, g.oid)
      /\ oids' = oids
      /\ Runs(s, t, Invalidated(cache[s], {Namespace} \cup {l.rel : l \in ls}))
  BY DEF GraphsDropped
<1>2. /\ ls \in SUBSET LabelRows(s) /\ gs \in SUBSET Graphs(s)
      /\ \A l \in LabelRows(s), h \in gs : l.graph = h.oid => l \in ls
  OBVIOUS
<1>3. \A u \in Others(s), h \in gs : \A l \in tx[u].li : l.graph # h.oid
  BY <1>1, NotBusy
<1> HIDE DEF gs, ls
<1>5. Fits(s, t) /\ (\A h \in t.gi : h.oid <= oids) /\ (\A l \in t.li : l.graph <= oids)
  BY <1>1, <1>2, <1>3, DropFits
<1>6. oids' \in Nat /\ oids <= oids'
  BY <1>1, Counted
<1> HIDE DEF t
<1> QED
  BY <1>1, <1>5, <1>6, RunsFit

LEMMA CatLabelDropped ==
  ASSUME TInv, CatInv, NEW s \in Sessions, LabelDropped(s)
  PROVE  CatInv'
<1>1. PICK row \in LabelRows(s), found \in SUBSET GraphRow :
        /\ oids' = oids
        /\ Runs(s, Dropped(tx[s], {}, {row}),
                invalidate_label_caches(Filled(cache[s], "gname", found), {row.rel}))
  BY DEF LabelDropped
<1> DEFINE t == Dropped(tx[s], {}, {row})
<1>5. Fits(s, t) /\ (\A h \in t.gi : h.oid <= oids) /\ (\A l \in t.li : l.graph <= oids)
  <2>1. {} \in SUBSET Graphs(s) /\ {row} \in SUBSET LabelRows(s)
    OBVIOUS
  <2> QED
    BY <2>1, DropFits
<1>6. oids' \in Nat /\ oids <= oids'
  BY <1>1, Counted
<1> HIDE DEF t
<1>7. Runs(s, t, invalidate_label_caches(Filled(cache[s], "gname", found), {row.rel}))
  BY <1>1 DEF t
<1> QED
  BY <1>1, <1>5, <1>6, <1>7, RunsFit

LEMMA CatGraphRenamed ==
  ASSUME TInv, CatInv, NEW s \in Sessions, GraphRenamed(s)
  PROVE  CatInv'
<1>1. PICK g \in Graphs(s), h \in GraphRow :
        /\ h.oid = g.oid /\ ~NameBusy(s, g.name) /\ ~NameBusy(s, h.name)
        /\ \A f \in Graphs(s) : f.name # h.name
        /\ oids' = oids
        /\ Runs(s, [Dropped(tx[s], {g}, {}) EXCEPT !.gi = @ \cup {h}],
                invalidate_graph_caches(cache[s]))
  BY DEF GraphRenamed
<1> DEFINE old == tx[s]
           t == [Dropped(old, {g}, {}) EXCEPT !.gi = @ \cup {h}]
<1>0. old \in Changes
  BY Open
<1>2. /\ t.gi = (old.gi \ {g}) \cup {h} /\ t.gd = old.gd \cup ({g} \cap cat.graphs)
      /\ t.li = old.li /\ t.ld = old.ld
  <2> DEFINE one == {g}
             none == {}
             d == Dropped(old, one, none)
  <2>1. /\ d \in Changes /\ d.gi = old.gi \ one /\ d.gd = old.gd \cup (one \cap cat.graphs)
        /\ d.li = old.li \ none /\ d.ld = old.ld \cup (none \cap cat.labels)
    <3> HIDE DEF one, none
    <3> QED
      BY <1>0, DroppedFields
  <2> HIDE DEF d
  <2>2. LET e == [d EXCEPT !.gi = @ \cup {h}]
        IN  e.gi = d.gi \cup {h} /\ e.gd = d.gd /\ e.li = d.li /\ e.ld = d.ld
    BY <2>1 DEF Changes
  <2>3. t = [d EXCEPT !.gi = @ \cup {h}]
    BY DEF d
  <2> HIDE DEF t
  <2> QED
    BY <2>1, <2>2, <2>3
<1>3. /\ Sound(Graphs(s), LabelRows(s)) /\ old.gd \subseteq cat.graphs
      /\ CleanDrop(s, old) /\ Given(old.gi, old.li)
      /\ \A u \in Others(s) : Separate(old, tx[u])
  BY DEF CatInv
<1>4. Runs(s, t, invalidate_graph_caches(cache[s]))
  BY <1>1
<1> HIDE DEF t
<1>5. Sound(GraphsOf(t), LabelRowsOf(t))
  <2>1. \A f \in GraphsOf(t) : f = h \/ (f \in Graphs(s) /\ f # g)
    BY <1>2 DEF GraphsOf, Graphs
  <2>2. \A f \in Graphs(s) : f # g => f \in GraphsOf(t)
    BY <1>2 DEF GraphsOf, Graphs
  <2>3. h \in GraphsOf(t) /\ LabelRowsOf(t) = LabelRows(s)
    BY <1>2 DEF GraphsOf, LabelRowsOf, LabelRows
  <2>4. \A f \in Graphs(s) : f # g => f.oid # h.oid /\ f.name # h.name
    BY <1>1, <1>3 DEF Sound, UniqueGraphs
  <2>5. UniqueGraphs(GraphsOf(t))
    BY <1>3, <2>1, <2>4 DEF Sound, UniqueGraphs
  <2>6. ASSUME NEW l \in LabelRows(s) PROVE \E f \in GraphsOf(t) : f.oid = l.graph
    <3>1. PICK f \in Graphs(s) : f.oid = l.graph
      BY <1>3 DEF Sound, Belong
    <3> QED
      BY <1>1, <2>2, <2>3, <3>1
  <2> QED
    BY <1>3, <2>3, <2>5, <2>6 DEF Sound, Belong
<1>6. t.gd \subseteq cat.graphs
  BY <1>2, <1>3
<1>7. CleanDrop(s, t)
  <2> SUFFICES ASSUME NEW x \in t.gd PROVE Renamed(t, x) \/ Emptied(s, t, x)
    BY DEF CleanDrop
  <2>1. CASE x.oid = g.oid
    BY <1>1, <1>2, <2>1 DEF Renamed
  <2>2. CASE x.oid # g.oid
    <3>1. x \in old.gd
      BY <1>2, <2>2
    <3>2. Renamed(old, x) \/ Emptied(s, old, x)
      BY <1>3, <3>1 DEF CleanDrop
    <3>3. Renamed(old, x) => Renamed(t, x)
      BY <1>2, <2>2 DEF Renamed
    <3>4. Emptied(s, old, x) => Emptied(s, t, x)
      BY <1>2 DEF Emptied
    <3> QED
      BY <3>2, <3>3, <3>4
  <2> QED
    BY <2>1, <2>2
<1>8. ASSUME NEW u \in Others(s)
      PROVE  /\ Separate(t, tx[u])
             /\ \A x \in tx[u].gd : Renamed(tx[u], x) \/ \A l \in t.li : l.graph # x.oid
  <2>0. u \in Sessions /\ s \in Others(u)
    BY DEF Others
  <2>1. Separate(old, tx[u])
    BY <1>3
  <2>2. \A k \in tx[u].gi \cup tx[u].gd : g.name # k.name /\ h.name # k.name
    BY <1>1 DEF NameBusy
  <2>3. ASSUME NEW k \in tx[u].gi PROVE k.oid # g.oid
    <3>1. CASE g \in old.gi
      BY <2>1, <3>1 DEF Separate
    <3>2. CASE g \in cat.graphs
      <4>1. g \in Graphs(u) /\ k \in Graphs(u)
        BY <2>2, <3>2 DEF Graphs
      <4>2. Sound(Graphs(u), LabelRows(u))
        BY <2>0 DEF CatInv
      <4> QED
        BY <2>2, <4>1, <4>2 DEF Sound, UniqueGraphs
    <3> QED
      BY <3>1, <3>2 DEF Graphs
  <2>4. Separate(t, tx[u])
    BY <1>1, <1>2, <2>1, <2>2, <2>3 DEF Separate
  <2>5. ASSUME NEW x \in tx[u].gd PROVE Renamed(tx[u], x) \/ \A l \in t.li : l.graph # x.oid
    <3>1. Renamed(tx[u], x) \/ Emptied(u, tx[u], x)
      BY <2>0 DEF CatInv, CleanDrop
    <3> QED
      BY <1>2, <2>0, <3>1 DEF Emptied
  <2> QED
    BY <2>4, <2>5
<1>9. Fits(s, t)
  BY <1>5, <1>6, <1>7, <1>8 DEF Fits
<1>10. oids' \in Nat /\ oids <= oids'
  BY <1>1, Counted
<1>11. (\A x \in t.gi : x.oid <= oids) /\ (\A l \in t.li : l.graph <= oids)
  BY <1>1, <1>2, <1>3, SeenGiven DEF Given
<1> QED
  BY <1>1, <1>4, <1>9, <1>10, <1>11, RunsFit

LEMMA CatGraphAdded ==
  ASSUME TInv, CatInv, NEW s \in Sessions, GraphAdded(s)
  PROVE  CatInv'
<1>1. PICK g \in GraphRow, dv \in LabelRow, de \in LabelRow :
        /\ g.oid = oids + 1 /\ ~NameBusy(s, g.name)
        /\ \A h \in Graphs(s) : h.name # g.name
        /\ dv.graph = g.oid /\ de.graph = g.oid /\ dv.name # de.name /\ dv.id # de.id
        /\ oids' = oids + 3
        /\ Runs(s, [tx[s] EXCEPT !.gi = @ \cup {g}, !.li = @ \cup {dv, de}],
                Filled(invalidate_graph_caches(cache[s]), "gname", {g}))
  BY DEF GraphAdded
<1> DEFINE old == tx[s]
           t == [old EXCEPT !.gi = @ \cup {g}, !.li = @ \cup {dv, de}]
<1>0. old \in Changes
  BY Open
<1>2. t.gi = old.gi \cup {g} /\ t.gd = old.gd /\ t.li = old.li \cup {dv, de} /\ t.ld = old.ld
  BY <1>0 DEF Changes
<1>3. /\ Sound(Graphs(s), LabelRows(s)) /\ old.gd \subseteq cat.graphs
      /\ CleanDrop(s, old) /\ Given(old.gi, old.li)
      /\ Given(cat.graphs, cat.labels) /\ Given(Graphs(s), LabelRows(s))
      /\ \A u \in Others(s) : Separate(old, tx[u]) /\ Given(tx[u].gi, tx[u].li)
  BY SeenGiven DEF CatInv, Others
<1>4. Runs(s, t, Filled(invalidate_graph_caches(cache[s]), "gname", {g}))
  BY <1>1
<1> HIDE DEF t
<1>n. oids \in Nat
  BY Counted
<1>f. /\ \A h \in Graphs(s) \cup cat.graphs \cup old.gi : h.oid # g.oid
      /\ \A l \in LabelRows(s) \cup cat.labels \cup old.li : l.graph # g.oid
      /\ \A u \in Others(s) : /\ \A h \in tx[u].gi \cup tx[u].gd : h.oid # g.oid
                              /\ \A l \in tx[u].li : l.graph # g.oid
  <2>1. \A n : n <= oids => n # g.oid
    BY <1>1, <1>n
  <2>2. \A u \in Others(s) : tx[u].gd \subseteq cat.graphs
    BY DEF CatInv, Others
  <2> QED
    BY <1>3, <2>1, <2>2 DEF Given
<1>5. Sound(GraphsOf(t), LabelRowsOf(t))
  <2>1. GraphsOf(t) = Graphs(s) \cup {g}
    BY <1>2 DEF GraphsOf, Graphs
  <2>2. LabelRowsOf(t) = LabelRows(s) \cup {dv, de}
    BY <1>2 DEF LabelRowsOf, LabelRows
  <2>3. UniqueGraphs(Graphs(s) \cup {g})
    BY <1>1, <1>3, <1>f DEF Sound, UniqueGraphs
  <2>4. UniqueLabels(LabelRows(s) \cup {dv, de})
    BY <1>1, <1>3, <1>f DEF Sound, UniqueLabels
  <2>5. Belong(LabelRows(s) \cup {dv, de}, Graphs(s) \cup {g})
    BY <1>1, <1>3 DEF Sound, Belong
  <2> QED
    BY <2>1, <2>2, <2>3, <2>4, <2>5 DEF Sound
<1>7. CleanDrop(s, t)
  <2> SUFFICES ASSUME NEW x \in t.gd PROVE Renamed(t, x) \/ Emptied(s, t, x)
    BY DEF CleanDrop
  <2>1. Renamed(old, x) \/ Emptied(s, old, x)
    BY <1>2, <1>3 DEF CleanDrop
  <2> QED
    BY <1>2, <2>1 DEF Renamed, Emptied
<1>8. ASSUME NEW u \in Others(s)
      PROVE  /\ Separate(t, tx[u])
             /\ \A x \in tx[u].gd : Renamed(tx[u], x) \/ \A l \in t.li : l.graph # x.oid
  <2>0. u \in Sessions /\ s \in Others(u)
    BY DEF Others
  <2>1. Separate(old, tx[u])
    BY <1>3
  <2>2. \A k \in tx[u].gi \cup tx[u].gd : g.name # k.name
    BY <1>1 DEF NameBusy
  <2>3. /\ \A x \in t.gi \cup t.gd, k \in tx[u].gi \cup tx[u].gd : x.name # k.name
        /\ \A x \in t.gi, k \in tx[u].gi : x.oid # k.oid
    BY <1>2, <1>f, <2>1, <2>2 DEF Separate
  <2>4. ASSUME NEW l \in t.li, NEW m \in tx[u].li, l.graph = m.graph
        PROVE  l.name # m.name /\ l.id # m.id
    <3>1. l \in old.li
      BY <1>1, <1>2, <1>f, <2>4
    <3> QED
      BY <2>1, <2>4, <3>1 DEF Separate
  <2>5. ASSUME NEW x \in tx[u].gd PROVE Renamed(tx[u], x) \/ \A l \in t.li : l.graph # x.oid
    <3>1. Renamed(tx[u], x) \/ Emptied(u, tx[u], x)
      BY <2>0 DEF CatInv, CleanDrop
    <3>2. x.oid # g.oid
      BY <1>f
    <3> QED
      BY <1>1, <1>2, <2>0, <3>1, <3>2 DEF Emptied
  <2> QED
    BY <2>3, <2>4, <2>5 DEF Separate
<1>9. Fits(s, t)
  BY <1>2, <1>3, <1>5, <1>7, <1>8 DEF Fits
<1>10. oids' \in Nat /\ oids <= oids'
  BY <1>1, <1>n
<1>11. (\A x \in t.gi : x.oid <= oids') /\ (\A l \in t.li : l.graph <= oids')
  <2>1. \A n \in Nat : n <= oids => n <= oids'
    BY <1>1, <1>n
  <2>2. t.gi \subseteq GraphRow /\ t.li \subseteq LabelRow
    BY <1>0, <1>2 DEF Changes
  <2>3. g.oid <= oids'
    BY <1>1, <1>n
  <2> QED
    BY <1>1, <1>2, <1>3, <2>1, <2>2, <2>3, RowNumbers DEF Given
<1> QED
  BY <1>4, <1>9, <1>10, <1>11, RunsFit

LEMMA CatLabelAdded ==
  ASSUME TInv, CatInv, NEW s \in Sessions, LabelAdded(s)
  PROVE  CatInv'
<1>p. PICK g \in Graphs(s), row \in LabelRow, found \in SUBSET GraphRow,
           up \in SUBSET LabelRow, tried \in SUBSET LabelRow :
        LabelAddedTo(s, g, row, found, up, tried)
  BY DEF LabelAdded
<1>1. /\ row.graph = g.oid
      /\ \A l \in LabelRows(s) : l.graph = g.oid => l.name # row.name /\ l.id # row.id
      /\ up \cap LabelRows(s) # {} /\ \A l \in up : l.graph = g.oid
      /\ ~NewLabelBusy(s, row, up)
      /\ oids' = oids + 1
      /\ Runs(s, [tx[s] EXCEPT !.li = @ \cup {row}],
              Filled(Filled(Filled(cache[s], "gname", found), "lname", up), "lid", tried))
  BY <1>p DEF LabelAddedTo
<1> DEFINE old == tx[s]
           t == [old EXCEPT !.li = @ \cup {row}]
<1>0. old \in Changes
  BY Open
<1>2. t.gi = old.gi /\ t.gd = old.gd /\ t.li = old.li \cup {row} /\ t.ld = old.ld
  BY <1>0 DEF Changes
<1>3. /\ Sound(Graphs(s), LabelRows(s)) /\ old.gd \subseteq cat.graphs
      /\ CleanDrop(s, old) /\ Given(old.gi, old.li) /\ Given(Graphs(s), LabelRows(s))
      /\ \A u \in Others(s) : Separate(old, tx[u])
  BY SeenGiven DEF CatInv
<1>4. Runs(s, t, Filled(Filled(Filled(cache[s], "gname", found), "lname", up), "lid", tried))
  BY <1>1
<1> HIDE DEF t
<1>n. oids \in Nat
  BY Counted
<1>5. Sound(GraphsOf(t), LabelRowsOf(t))
  <2>1. GraphsOf(t) = Graphs(s)
    BY <1>2 DEF GraphsOf, Graphs
  <2>2. LabelRowsOf(t) = LabelRows(s) \cup {row}
    BY <1>2 DEF LabelRowsOf, LabelRows
  <2>3. UniqueLabels(LabelRows(s) \cup {row})
    BY <1>1, <1>3 DEF Sound, UniqueLabels
  <2>4. Belong(LabelRows(s) \cup {row}, Graphs(s))
    BY <1>1, <1>3 DEF Sound, Belong
  <2> QED
    BY <1>3, <2>1, <2>2, <2>3, <2>4 DEF Sound
<1>7. CleanDrop(s, t)
  <2> SUFFICES ASSUME NEW x \in t.gd PROVE Renamed(t, x) \/ Emptied(s, t, x)
    BY DEF CleanDrop
  <2>1. Renamed(old, x) \/ Emptied(s, old, x)
    BY <1>2, <1>3 DEF CleanDrop
  <2> QED
    BY <1>2, <2>1 DEF Renamed, Emptied
<1>8. ASSUME NEW u \in Others(s)
      PROVE  /\ Separate(t, tx[u])
             /\ \A x \in tx[u].gd : Renamed(tx[u], x) \/ \A l \in t.li : l.graph # x.oid
  <2>0. u \in Sessions /\ s \in Others(u)
    BY DEF Others
  <2>1. Separate(old, tx[u])
    BY <1>3
  <2>2. /\ up \cap tx[u].ld = {}
        /\ \A m \in tx[u].li : m.graph = row.graph => m.name # row.name /\ m.id # row.id
    BY <1>1 DEF NewLabelBusy
  <2>3. Separate(t, tx[u])
    BY <1>2, <2>1, <2>2 DEF Separate
  <2>5. ASSUME NEW x \in tx[u].gd, ~Renamed(tx[u], x) PROVE \A l \in t.li : l.graph # x.oid
    <3>1. Emptied(u, tx[u], x)
      BY <2>0, <2>5 DEF CatInv, CleanDrop
    <3>2. \A l \in old.li : l.graph # x.oid
      BY <2>0, <3>1 DEF Emptied
    <3>3. PICK p \in up : p \in LabelRows(s) /\ p.graph = row.graph
      BY <1>1
    <3>4. row.graph # x.oid
      BY <2>2, <3>1, <3>2, <3>3 DEF Emptied, LabelRows
    <3> QED
      BY <1>2, <3>2, <3>4
  <2> QED
    BY <2>3, <2>5
<1>9. Fits(s, t)
  BY <1>2, <1>3, <1>5, <1>7, <1>8 DEF Fits
<1>10. oids' \in Nat /\ oids <= oids'
  BY <1>1, <1>n
<1>11. (\A x \in t.gi : x.oid <= oids') /\ (\A l \in t.li : l.graph <= oids')
  <2>1. \A n \in Nat : n <= oids => n <= oids'
    BY <1>1, <1>n
  <2>2. t.gi \subseteq GraphRow /\ t.li \subseteq LabelRow
    BY <1>0, <1>2 DEF Changes
  <2>3. row.graph <= oids
    BY <1>1, <1>3 DEF Given
  <2> QED
    BY <1>2, <1>3, <2>1, <2>2, <2>3, RowNumbers DEF Given
<1> QED
  BY <1>4, <1>9, <1>10, <1>11, RunsFit

\* A transaction that ends without its changes.
LEMMA CatForgotten ==
  ASSUME TInv, CatInv, cat' = cat, oids' = oids, NEW S \in SUBSET Sessions,
         tx' = [u \in Sessions |-> IF u \in S THEN NoChange ELSE tx[u]]
  PROVE  CatInv'
<1>n. NoChange.gi = {} /\ NoChange.gd = {} /\ NoChange.li = {} /\ NoChange.ld = {}
  BY DEF NoChange
<1>1. Sound(cat.graphs, cat.labels)' /\ Given(cat.graphs, cat.labels)'
  BY DEF CatInv, Sound, UniqueGraphs, UniqueLabels, Belong, Given
<1>2. ASSUME NEW u \in Sessions
      PROVE  /\ Sound(Graphs(u), LabelRows(u))' /\ tx'[u].gd \subseteq cat'.graphs
             /\ CleanDrop(u, tx[u])' /\ Given(tx[u].gi, tx[u].li)'
  <2>1. CASE u \in S
    <3>1. tx'[u] = NoChange
      BY <2>1
    <3>2. Graphs(u)' = cat.graphs /\ LabelRows(u)' = cat.labels
      BY <1>n, <3>1 DEF Graphs, LabelRows
    <3>3. Sound(Graphs(u), LabelRows(u))'
      BY <1>1, <3>2 DEF CatInv, Sound, UniqueGraphs, UniqueLabels, Belong
    <3> QED
      BY <1>n, <3>1, <3>3 DEF CleanDrop, Given
  <2>2. CASE u \notin S
    <3>1. tx'[u] = tx[u]
      BY <2>2
    <3>2. Graphs(u)' = Graphs(u) /\ LabelRows(u)' = LabelRows(u)
      BY <3>1 DEF Graphs, LabelRows
    <3>3. Sound(Graphs(u), LabelRows(u))'
      BY <3>2 DEF CatInv, Sound, UniqueGraphs, UniqueLabels, Belong
    <3>4. tx'[u].gd \subseteq cat'.graphs /\ Given(tx[u].gi, tx[u].li)'
      BY <3>1 DEF CatInv, Given
    <3>5. ASSUME NEW g \in tx[u].gd PROVE Renamed(tx[u], g)' \/ Emptied(u, tx[u], g)'
      <4>1. Renamed(tx[u], g) \/ Emptied(u, tx[u], g)
        BY DEF CatInv, CleanDrop
      <4>2. Renamed(tx[u], g) => Renamed(tx[u], g)'
        BY <3>1 DEF Renamed
      <4>3. Emptied(u, tx[u], g) => Emptied(u, tx[u], g)'
        <5>1. \A v \in Others(u) : tx'[v].li \subseteq tx[v].li
          BY <1>n DEF Others
        <5> QED
          BY <3>1, <5>1 DEF Emptied, Others
      <4> QED
        BY <4>1, <4>2, <4>3
    <3> QED
      BY <3>1, <3>3, <3>4, <3>5 DEF CleanDrop
  <2> QED
    BY <2>1, <2>2
<1>3. ASSUME NEW u \in Sessions, NEW v \in Others(u) PROVE Separate(tx[u], tx[v])'
  <2>0. v \in Sessions /\ Separate(tx[u], tx[v])
    BY DEF CatInv, Others
  <2>1. (tx'[u] = NoChange \/ tx'[u] = tx[u]) /\ (tx'[v] = NoChange \/ tx'[v] = tx[v])
    BY <2>0
  <2> QED
    BY <1>n, <2>0, <2>1 DEF Separate
<1>4. \A u \in Sessions : Others(u)' = Others(u)
  BY DEF Others
<1> QED
  BY <1>1, <1>2, <1>3, <1>4 DEF CatInv

LEMMA CatCommit ==
  ASSUME TInv, CatInv, NEW s \in Sessions, Commit(s)
  PROVE  CatInv'
<1>n. NoChange.gi = {} /\ NoChange.gd = {} /\ NoChange.li = {} /\ NoChange.ld = {}
  BY DEF NoChange
<1>0. /\ cat'.graphs = Graphs(s) /\ cat'.labels = LabelRows(s) /\ oids' = oids
      /\ tx'[s] = NoChange /\ \A u \in Others(s) : tx'[u] = tx[u] /\ u \in Sessions
      /\ \A u \in Sessions : u = s \/ u \in Others(s)
  BY DEF Commit, TInv, Others
<1>s. Sound(Graphs(s), LabelRows(s)) /\ Given(Graphs(s), LabelRows(s))
  BY SeenGiven DEF CatInv
<1>1. Sound(cat.graphs, cat.labels)' /\ Given(cat.graphs, cat.labels)'
  BY <1>0, <1>s DEF Sound, UniqueGraphs, UniqueLabels, Belong, Given
<1>2. /\ Sound(Graphs(s), LabelRows(s))' /\ tx'[s].gd \subseteq cat'.graphs
      /\ CleanDrop(s, tx[s])' /\ Given(tx[s].gi, tx[s].li)'
  <2>1. Graphs(s)' = Graphs(s) /\ LabelRows(s)' = LabelRows(s)
    BY SeenAfterCommit
  <2>2. Sound(Graphs(s), LabelRows(s))'
    BY <1>s, <2>1 DEF Sound, UniqueGraphs, UniqueLabels, Belong
  <2> QED
    BY <1>0, <1>n, <2>2 DEF CleanDrop, Given
<1>3. ASSUME NEW u \in Others(s)
      PROVE  /\ Sound(Graphs(u), LabelRows(u))' /\ tx'[u].gd \subseteq cat'.graphs
             /\ CleanDrop(u, tx[u])' /\ Given(tx[u].gi, tx[u].li)'
  <2>0. /\ u \in Sessions /\ s \in Others(u) /\ tx'[u] = tx[u]
        /\ Separate(tx[s], tx[u])
        /\ Sound(Graphs(u), LabelRows(u)) /\ tx[u].gd \subseteq cat.graphs
        /\ CleanDrop(u, tx[u]) /\ CleanDrop(s, tx[s]) /\ Given(tx[u].gi, tx[u].li)
    BY <1>0 DEF CatInv, Others
  <2>g. Graphs(u)' = (Graphs(s) \ tx[u].gd) \cup tx[u].gi
    BY SeenAfterCommit
  <2>l. LabelRows(u)' = (LabelRows(s) \ tx[u].ld) \cup tx[u].li
    BY SeenAfterCommit
  <2>1. \A g \in tx[u].gd \cup tx[u].gi : g \notin tx[s].gi \cup tx[s].gd
    BY <2>0 DEF Separate
  <2>2. tx[u].gd \subseteq Graphs(s)
    BY <2>0, <2>1 DEF Graphs
  <2>3. UniqueGraphs(Graphs(u)')
    <3>1. ASSUME NEW g \in tx[u].gi, NEW h \in Graphs(s) \ tx[u].gd,
                 g.name = h.name \/ g.oid = h.oid
          PROVE  g = h
      <4>1. h \notin tx[s].gi
        BY <2>0, <3>1 DEF Separate
      <4>2. h \in Graphs(u) /\ g \in Graphs(u)
        BY <4>1 DEF Graphs
      <4> QED
        BY <2>0, <3>1, <4>2 DEF Sound, UniqueGraphs
    <3>2. ASSUME NEW g \in tx[u].gi, NEW h \in tx[u].gi, g.name = h.name \/ g.oid = h.oid
          PROVE  g = h
      BY <2>0, <3>2 DEF Sound, UniqueGraphs, Graphs
    <3>3. ASSUME NEW g \in Graphs(s), NEW h \in Graphs(s), g.name = h.name \/ g.oid = h.oid
          PROVE  g = h
      BY <1>s, <3>3 DEF Sound, UniqueGraphs
    <3> QED
      BY <2>g, <3>1, <3>2, <3>3 DEF UniqueGraphs
  <2>4. UniqueLabels(LabelRows(u)')
    <3> DEFINE Same(l, m) == l.graph = m.graph /\ (l.name = m.name \/ l.id = m.id)
    <3>1. ASSUME NEW l \in tx[u].li, NEW m \in LabelRows(s) \ tx[u].ld, Same(l, m)
          PROVE  l = m
      <4>1. m \notin tx[s].li
        BY <2>0, <3>1 DEF Separate
      <4>2. m \in LabelRows(u) /\ l \in LabelRows(u)
        BY <4>1 DEF LabelRows
      <4> QED
        BY <2>0, <3>1, <4>2 DEF Sound, UniqueLabels
    <3>2. ASSUME NEW l \in tx[u].li, NEW m \in tx[u].li, Same(l, m)
          PROVE  l = m
      BY <2>0, <3>2 DEF Sound, UniqueLabels, LabelRows
    <3>3. ASSUME NEW l \in LabelRows(s), NEW m \in LabelRows(s), Same(l, m)
          PROVE  l = m
      BY <1>s, <3>3 DEF Sound, UniqueLabels
    <3> QED
      BY <2>l, <3>1, <3>2, <3>3 DEF UniqueLabels
  <2>5. ASSUME NEW l \in LabelRows(u)' PROVE \E g \in Graphs(u)' : g.oid = l.graph
    <3>1. CASE l \in tx[u].li \/ (l \in cat.labels /\ l \notin tx[u].ld)
      <4>1. l \in LabelRows(u)
        BY <3>1 DEF LabelRows
      <4>2. PICK g \in Graphs(u) : g.oid = l.graph
        BY <2>0, <4>1 DEF Sound, Belong
      <4>3. CASE g \in tx[u].gi
        BY <2>g, <4>2, <4>3
      <4>4. CASE g \in cat.graphs /\ g \notin tx[u].gd /\ g \notin tx[s].gd
        BY <2>g, <4>2, <4>4 DEF Graphs
      <4>5. CASE g \in cat.graphs /\ g \in tx[s].gd
        <5>1. CASE Renamed(tx[s], g)
          <6>1. PICK h \in tx[s].gi : h.oid = g.oid
            BY <5>1 DEF Renamed
          <6>2. h \in Graphs(s) /\ h \notin tx[u].gd
            BY <2>1, <6>1 DEF Graphs
          <6> QED
            BY <2>g, <4>2, <6>1, <6>2
        <5>2. CASE Emptied(s, tx[s], g)
          <6>1. l \notin tx[u].li
            BY <4>2, <5>2 DEF Emptied
          <6>2. l \in tx[s].ld
            BY <3>1, <4>2, <5>2, <6>1 DEF Emptied
          <6>3. l \in tx[s].li
            BY <2>l, <6>1, <6>2 DEF LabelRows
          <6>4. PICK h \in Graphs(s) : h.oid = l.graph
            BY <1>s, <6>3 DEF Sound, Belong, LabelRows
          <6>5. CASE h \notin tx[u].gd
            BY <2>g, <6>4, <6>5
          <6>6. CASE h \in tx[u].gd
            <7>1. Renamed(tx[u], h) \/ Emptied(u, tx[u], h)
              BY <2>0, <6>6 DEF CleanDrop
            <7>2. ~Emptied(u, tx[u], h)
              BY <2>0, <6>3, <6>4 DEF Emptied
            <7> QED
              BY <2>g, <6>4, <7>1, <7>2 DEF Renamed
          <6> QED
            BY <6>5, <6>6
        <5> QED
          BY <2>0, <4>5, <5>1, <5>2 DEF CleanDrop
      <4> QED
        BY <4>3, <4>4, <4>5 DEF Graphs
    <3>2. CASE l \in tx[s].li
      <4>1. PICK h \in Graphs(s) : h.oid = l.graph
        BY <1>s, <3>2 DEF Sound, Belong, LabelRows
      <4>2. CASE h \notin tx[u].gd
        BY <2>g, <4>1, <4>2
      <4>3. CASE h \in tx[u].gd
        <5>1. Renamed(tx[u], h) \/ Emptied(u, tx[u], h)
          BY <2>0, <4>3 DEF CleanDrop
        <5>2. ~Emptied(u, tx[u], h)
          BY <2>0, <3>2, <4>1 DEF Emptied
        <5> QED
          BY <2>g, <4>1, <5>1, <5>2 DEF Renamed
      <4> QED
        BY <4>2, <4>3
    <3> QED
      BY <2>l, <3>1, <3>2 DEF LabelRows
  <2>6. Sound(Graphs(u), LabelRows(u))'
    BY <2>3, <2>4, <2>5 DEF Sound, UniqueGraphs, UniqueLabels, Belong
  <2>7. ASSUME NEW g \in tx[u].gd PROVE Renamed(tx[u], g)' \/ Emptied(u, tx[u], g)'
    <3>1. Renamed(tx[u], g) \/ Emptied(u, tx[u], g)
      BY <2>0 DEF CleanDrop
    <3>2. Renamed(tx[u], g) => Renamed(tx[u], g)'
      BY <2>0 DEF Renamed
    <3>3. Emptied(u, tx[u], g) => Emptied(u, tx[u], g)'
      <4>1. \A v \in Others(u) : tx'[v].li \subseteq tx[v].li
        BY <1>0, <1>n DEF Others
      <4>2. ASSUME Emptied(u, tx[u], g), NEW l \in LabelRows(s), l.graph = g.oid PROVE l \in tx[u].ld
        BY <2>0, <4>2 DEF Emptied, LabelRows
      <4> QED
        BY <1>0, <2>0, <4>1, <4>2 DEF Emptied, Others
    <3> QED
      BY <3>1, <3>2, <3>3
  <2> QED
    BY <1>0, <2>0, <2>2, <2>6, <2>7 DEF CleanDrop, Given
<1>4. ASSUME NEW u \in Sessions, NEW v \in Others(u) PROVE Separate(tx[u], tx[v])'
  <2>0. v \in Sessions /\ Separate(tx[u], tx[v])
    BY DEF CatInv, Others
  <2>1. (tx'[u] = NoChange \/ tx'[u] = tx[u]) /\ (tx'[v] = NoChange \/ tx'[v] = tx[v])
    BY <1>0, <2>0
  <2> QED
    BY <1>n, <2>0, <2>1 DEF Separate
<1>5. \A u \in Sessions : Others(u)' = Others(u)
  BY DEF Others
<1> QED
  BY <1>0, <1>1, <1>2, <1>3, <1>4, <1>5 DEF CatInv

LEMMA CatInit == Init => CatInv
BY DEF Init, CatInv, Sound, UniqueGraphs, UniqueLabels, Belong, Given, Graphs, LabelRows,
       NoChange, CleanDrop, Separate

LEMMA CatStep == TInv /\ CatInv /\ [Next]_vars => CatInv'
<1> SUFFICES ASSUME TInv, CatInv, [Next]_vars PROVE CatInv'
  OBVIOUS
<1>1. CASE UNCHANGED vars
  BY <1>1, SameRows DEF vars
<1> SUFFICES ASSUME NEW s \in Sessions, Does(s) PROVE CatInv'
  BY <1>1, NextDoes
<1>o. \A u \in Sessions : tx[u] \in Changes
  BY Open
<1>2. CASE Begin(s)
  <2>1. \A u \in Sessions : /\ tx'[u].gi = tx[u].gi /\ tx'[u].gd = tx[u].gd
                            /\ tx'[u].li = tx[u].li /\ tx'[u].ld = tx[u].ld
    BY <1>2, <1>o DEF Begin, TInv, Changes
  <2> QED
    BY <1>2, <2>1, SameRows DEF Begin
<1>3. CASE Commit(s)
  BY <1>3, CatCommit
<1>4. CASE Accept(s) \/ Reset(s) \/ Reconnect(s)
  BY <1>4, SameRows DEF Accept, Reset, Reconnect
<1>5. CASE Fails(s)
  <2>1. tx' = [u \in Sessions |-> IF u \in {s} THEN NoChange ELSE tx[u]]
    BY <1>5 DEF Fails, TInv
  <2>2. cat' = cat /\ oids' = oids
    BY <1>5 DEF Fails
  <2> QED
    BY <2>1, <2>2, CatForgotten
<1>6. CASE Crash
  <2>1. tx' = [u \in Sessions |-> IF u \in Sessions THEN NoChange ELSE tx[u]]
    BY <1>6 DEF Crash
  <2>2. cat' = cat /\ oids' = oids
    BY <1>6 DEF Crash
  <2> QED
    BY <2>1, <2>2, CatForgotten
<1>7. CASE GraphAdded(s)
  BY <1>7, CatGraphAdded
<1>8. CASE GraphDropped(s)
  BY <1>8, CatGraphDropped
<1>9. CASE GraphRenamed(s)
  BY <1>9, CatGraphRenamed
<1>10. CASE GraphsDropped(s)
  BY <1>10, CatGraphsDropped
<1>11. CASE LabelAdded(s)
  BY <1>11, CatLabelAdded
<1>12. CASE LabelDropped(s)
  BY <1>12, CatLabelDropped
<1>13. CASE VertexAdded(s)
  <2>0. PICK r \in VertexRow : \E c : Runs(s, [tx[s] EXCEPT !.vi = @ \cup {r}], c) /\ oids' = oids
    BY <1>13 DEF VertexAdded
  <2>1. PICK c : Runs(s, [tx[s] EXCEPT !.vi = @ \cup {r}], c) /\ oids' = oids
    BY <2>0
  <2>2. \A u \in Sessions : /\ tx'[u].gi = tx[u].gi /\ tx'[u].gd = tx[u].gd
                            /\ tx'[u].li = tx[u].li /\ tx'[u].ld = tx[u].ld
    BY <1>o, <2>1 DEF Runs, TInv, Changes
  <2> QED
    BY <2>1, <2>2, SameRows DEF Runs
<1>14. CASE LabelNamed(s)
  <2>1. PICK c : Runs(s, tx[s], c) /\ oids' = oids
    BY <1>14 DEF LabelNamed
  <2>2. \A u \in Sessions : tx'[u] = tx[u]
    BY <2>1 DEF Runs, TInv
  <2> QED
    BY <2>1, <2>2, SameRows DEF Runs
<1> QED
  BY <1>2, <1>3, <1>4, <1>5, <1>6, <1>7, <1>8, <1>9, <1>10, <1>11, <1>12, <1>13, <1>14 DEF Does

\* Whatever transactions of any number of sessions create, rename and drop at
\* the same time, what is committed is a catalog: graphs have one name and one
\* oid, labels one name and one id in their graph, and no label is left without
\* its graph (graph_commands.c, label_commands.c and the hook of ag_catalog.c).
THEOREM CatalogStaysConsistent == Spec => []CatalogConsistent
<1>1. CatInv => CatalogConsistent
  BY DEF CatInv, Sound, UniqueGraphs, UniqueLabels, Belong, CatalogConsistent
<1> QED
  BY <1>1, TypeInit, TypeStep, CatInit, CatStep, PTL DEF Spec

\* The same of what every session sees in the middle of its transaction: a name
\* it looks up is the name of one graph, and the label it finds there has a
\* graph, although others are dropping and renaming (the lookups of ag_cache.c
\* take the first row they find).
THEOREM ViewsStayConsistent ==
  Spec => [](\A s \in Sessions : Sound(Graphs(s), LabelRows(s)))
<1>1. CatInv => \A s \in Sessions : Sound(Graphs(s), LabelRows(s))
  BY DEF CatInv
<1> QED
  BY <1>1, TypeInit, TypeStep, CatInit, CatStep, PTL DEF Spec

=============================================================================
