------------------------- MODULE AgeWriteEdgeProofs -------------------------
(***************************************************************************)
(* That transactions of AgeWrite which do not overlap leave no edge        *)
(* without its vertices, for any sessions, first graph and bound, and any  *)
(* statements that are Firm.  The inductive invariant EInv speaks of the   *)
(* one transaction at work:                                                *)
(*   WholeGraph  the committed graph has the vertices of its edges;        *)
(*   SameEnds    the versions of an entity have the same ends;             *)
(*   EdgesHeld   the vertices of an open edge are open, or a DELETE has    *)
(*               listed them, whose end will look for their edges;         *)
(*   GoneHeld    so are the vertices that the statement removed;           *)
(*   RunSafe     so are those a row binds, but for variables of MERGE;     *)
(*   Stamped     no version is stamped with a command still to come;       *)
(*   Course      how command ids, curcid and the lists of DELETE stand.    *)
(* That the end of a DELETE sees every edge needs Stamped; that CREATE and *)
(* MERGE find out that a vertex has gone needs GoneHeld and Course: what   *)
(* they see through curcid and is no longer open, the statement removed.   *)
(* Each action is Stepped, as AgeWriteProofs shows, and Upheld, or fails.  *)
(***************************************************************************)
EXTENDS AgeWriteProofs

-----------------------------------------------------------------------------
(* The invariant: H are the versions, n is the last id drawn, C are the       *)
(* transactions that committed, and r is the run of the only session at work. *)

IsOpen(v) == v.xmax = NoXid

\* The vertex id is there, or the end of a DELETE will look for its edges.
Alive(H, id) == \E v \in H : v.id = id /\ v.ends = <<>> /\ IsOpen(v)
Pending(r) == IF r.phase = "ready" THEN {} ELSE UNION {r.deleted[k] : k \in 1 .. r.level}
Held(H, r, id) == Alive(H, id) \/ id \in Pending(r)

\* All versions of an entity have the same ends, and a copy has them too.
SameEnds(H) == \A v, w \in H : v.id = w.id => v.ends = w.ends
Alike(H, n, e) == e.id \in 0 .. n /\ \A w \in H : w.id = e.id => w.ends = e.ends

\* Variable x of a row is bound to e.
EntSafe(H, n, r, x, e) ==
    /\ Alike(H, n, e)
    /\ e.ends # <<>> => x \in EdgeNames(r.stmt.source)
    /\ (x \notin MergeVars(r.stmt) /\ e.ends = <<>> /\ e.id # 0) => Held(H, r, e.id)
RowSafe(H, n, r, q) == \A x \in DOMAIN q.ent : EntSafe(H, n, r, x, q.ent[x])

RunSafe(H, n, r) ==
    /\ \A q \in r.rows : RowSafe(H, n, r, q)
    /\ \A i \in 1 .. Len(r.todo) : RowSafe(H, n, r, r.todo[i].row)
    /\ \A k \in 1 .. Len(r.inner) : r.inner[k] # <<>> => \A e \in r.inner[k][1] : Alike(H, n, e)
    /\ \A k \in Kinds(r.stmt, "merge") : \A m \in r.created[k] : \A i \in 1 .. Len(m.vs) :
          Alike(H, n, m.vs[i]) /\ m.vs[i].ends = <<>>

\* Nothing is stamped with a command that is still to come.
Stamped(H, r) == \A v \in H :
    /\ v.xmin = r.xid => v.cmin < r.G \/ (v.cmin = r.G /\ r.used)
    /\ v.xmax = r.xid => v.cmax < r.G \/ (v.cmax = r.G /\ r.used)

\* Open edges have their vertices, and so has what the statement removed.
EdgesHeld(H, r) == \A e \in H : IsOpen(e) => \A i \in DOMAIN e.ends : Held(H, r, e.ends[i])
GoneHeld(H, r) == \A v \in H : v.xmax = r.xid /\ v.ends = <<>> /\ v.cmax >= r.base => Held(H, r, v.id)

WritesLast(r) ==
    LET k == Len(r.stmt.clauses) IN Terminal(r, k) /\ r.stmt.clauses[k].op \in {"create", "set"}

\* How the command ids, curcid and the list of deleted vertices stand.
Course(r) ==
    /\ r.base <= r.G /\ Len(r.deleted) = Len(r.stmt.clauses)
    /\ r.level \in 1 .. Len(r.stmt.clauses)
    /\ \A k \in 1 .. Len(r.deleted) : r.deleted[k] # {} => k \in Kinds(r.stmt, "delete")
    /\ r.phase = "rows" => r.level = Len(r.stmt.clauses)
    /\ r.phase = "rows" => r.b >= r.base \/ \E d \in Kinds(r.stmt, "delete") : r.b + d >= r.base
    /\ r.used => /\ r.phase = "rows"
                 /\ WritesLast(r) \/ (r.todo # <<>> /\ r.stmt.clauses[Head(r.todo).k].op = "set")

Safe(H, n, r) ==
    /\ Stamped(H, r) /\ EdgesHeld(H, r) /\ Course(r)
    /\ r.phase = "rows" => GoneHeld(H, r) /\ RunSafe(H, n, r)

\* The committed graph has the vertices of its edges.
WholeGraph(H, C) ==
    \A e \in H : e.xmin \in C /\ e.xmax \notin C => \A i \in DOMAIN e.ends :
        \E v \in H : v.xmin \in C /\ v.xmax \notin C /\ v.id = e.ends[i] /\ v.ends = <<>>

EInv ==
    ~overlap =>
        /\ WholeGraph(heap, committed) /\ SameEnds(heap)
        /\ \A s, t \in Active : s = t
        /\ \A s \in Active : run[s].snap = committed /\ Safe(heap, ids, run[s])

-----------------------------------------------------------------------------
(* Versions come and go *)

LEMMA VersionEnds ==
  ASSUME NEW e \in Entities, NEW x, NEW c
  PROVE  Version(e, x, c).ends = e.ends /\ Version(e, x, c).id = e.id /\ Version(e, x, c).xmax = NoXid
         /\ Version(e, x, c).xmin = x /\ Version(e, x, c).cmin = c /\ IsOpen(Version(e, x, c))
BY DEF Version, IsOpen

LEMMA ClosedEnds ==
  ASSUME NEW v \in Versions, NEW r
  PROVE  \E u : /\ Closed(r, v) = (heap \ {v}) \cup {u}
                /\ u.id = v.id /\ u.ends = v.ends /\ u.xmin = v.xmin /\ u.cmin = v.cmin
                /\ u.xmax = r.xid /\ u.cmax = r.G
<1> DEFINE x == r.xid
           g == r.G
           u == [v EXCEPT !.xmax = x, !.cmax = g]
<1>1. Closed(r, v) = (heap \ {v}) \cup {u}
  BY DEF Closed
<1> HIDE DEF x, g
<1>2. u.id = v.id /\ u.ends = v.ends /\ u.xmin = v.xmin /\ u.cmin = v.cmin /\ u.xmax = x /\ u.cmax = g
  BY DEF Versions
<1> HIDE DEF u
<1> QED
  BY <1>1, <1>2 DEF x, g

VersionsOf(M, x, c) == {Version(e, x, c) : e \in M}

\* The entities M have ids of their own, up to p.
Fresh(H, n, M, p) ==
    /\ SameEnds(H) /\ n \in Nat /\ p \in Nat /\ n <= p /\ M \subseteq Entities
    /\ \A v \in H : v.id \in 1 .. n
    /\ \A e \in M : e.id \in (n + 1) .. p
    /\ \A e, f \in M : e.id = f.id => e = f

\* Versions of M are among G.
Joined(H, n, M, p, G) ==
    /\ SameEnds(G)
    /\ \A e : Alike(H, n, e) => Alike(G, p, e)
    /\ \A e \in M : Alike(G, p, e) /\ (e.ends = <<>> => Alive(G, e.id))
    /\ \A id : Alive(H, id) => Alive(G, id)

\* New entities are added.
LEMMA InsertAlike ==
  ASSUME NEW H, NEW n, NEW M, NEW p, Fresh(H, n, M, p), NEW x, NEW c
  PROVE  Joined(H, n, M, p, H \cup VersionsOf(M, x, c))
<1> DEFINE G == H \cup VersionsOf(M, x, c)
<1>0. /\ SameEnds(H) /\ n \in Nat /\ p \in Nat /\ n <= p /\ M \subseteq Entities
      /\ \A v \in H : v.id \in 1 .. n
      /\ \A e \in M : e.id \in (n + 1) .. p
      /\ \A e, f \in M : e.id = f.id => e = f
  BY DEF Fresh
<1>1. \A w \in G : w \in H \/ \E e \in M : w = Version(e, x, c) /\ w.id = e.id /\ w.ends = e.ends
  BY <1>0, VersionEnds DEF VersionsOf
<1>2. \A w \in G : \/ w \in H /\ w.id \in 1 .. n
                   \/ w.id \in (n + 1) .. p /\ \E e \in M : w.id = e.id /\ w.ends = e.ends
  BY <1>0, <1>1
<1>3. SameEnds(G)
  BY <1>0, <1>2 DEF SameEnds
<1>4. ASSUME NEW e, Alike(H, n, e) PROVE Alike(G, p, e)
  BY <1>0, <1>2, <1>4 DEF Alike
<1>5. ASSUME NEW e \in M PROVE Alike(G, p, e) /\ (e.ends = <<>> => Alive(G, e.id))
  <2>1. \A w \in G : w.id = e.id => w.ends = e.ends
    BY <1>0, <1>2
  <2>2. e.id \in 0 .. p
    BY <1>0
  <2>3. /\ Version(e, x, c) \in G /\ Version(e, x, c).id = e.id /\ Version(e, x, c).ends = e.ends
        /\ IsOpen(Version(e, x, c))
    BY <1>0, VersionEnds DEF VersionsOf
  <2> QED
    BY <2>1, <2>2, <2>3 DEF Alike, Alive
<1>6. ASSUME NEW id, Alive(H, id) PROVE Alive(G, id)
  BY <1>6 DEF Alive
<1> QED
  BY <1>3, <1>4, <1>5, <1>6 DEF Joined

\* A version is removed.
LEMMA CloseAlike ==
  ASSUME NEW H, NEW n, SameEnds(H), NEW v \in H, NEW u, u.id = v.id, u.ends = v.ends,
         NEW G, G = (H \ {v}) \cup {u}
  PROVE  /\ SameEnds(G)
         /\ \A e : Alike(H, n, e) => Alike(G, n, e)
         /\ \A id : Alive(H, id) => Alive(G, id) \/ (id = v.id /\ v.ends = <<>>)
<1>1. \A w \in G : \E y \in H : w.id = y.id /\ w.ends = y.ends
  OBVIOUS
<1>2. SameEnds(G)
  BY <1>1 DEF SameEnds
<1>3. ASSUME NEW e, Alike(H, n, e) PROVE Alike(G, n, e)
  BY <1>1, <1>3 DEF Alike
<1>4. ASSUME NEW id, Alive(H, id) PROVE Alive(G, id) \/ (id = v.id /\ v.ends = <<>>)
  BY <1>4 DEF Alive
<1> QED
  BY <1>2, <1>3, <1>4

\* A version is replaced.
LEMMA ReplaceAlike ==
  ASSUME NEW H, NEW n, SameEnds(H), NEW v \in H, NEW u, u.id = v.id, u.ends = v.ends,
         NEW m, m.id = v.id, m.ends = v.ends, IsOpen(m),
         NEW G, G = ((H \ {v}) \cup {u}) \cup {m}
  PROVE  /\ SameEnds(G)
         /\ \A e : Alike(H, n, e) => Alike(G, n, e)
         /\ \A id : Alive(H, id) => Alive(G, id)
<1>1. \A w \in G : \E y \in H : w.id = y.id /\ w.ends = y.ends
  OBVIOUS
<1>2. SameEnds(G)
  BY <1>1 DEF SameEnds
<1>3. ASSUME NEW e, Alike(H, n, e) PROVE Alike(G, n, e)
  BY <1>1, <1>3 DEF Alike
<1>4. ASSUME NEW id, Alive(H, id) PROVE Alive(G, id)
  BY <1>4 DEF Alive
<1> QED
  BY <1>2, <1>3, <1>4

\* The versions of G that committed transactions made are those of H.
LEMMA WholeKept ==
  ASSUME NEW H, NEW C, WholeGraph(H, C), NEW G,
         \A w \in G : w.xmin \in C /\ w.xmax \notin C =>
            \E v \in H : v.xmin \in C /\ v.xmax \notin C /\ v.ends = w.ends,
         \A v \in H : v.xmin \in C /\ v.xmax \notin C =>
            \E w \in G : w.xmin \in C /\ w.xmax \notin C /\ w.id = v.id /\ w.ends = v.ends
  PROVE  WholeGraph(G, C)
BY DEF WholeGraph

-----------------------------------------------------------------------------
(* What a step has to show *)

\* From run r at versions H to run q at versions G, copies stay like their
\* entities and held vertices stay held.
Onward(H, n, r, G, p, q) ==
    /\ q.stmt = r.stmt /\ q.xid = r.xid /\ q.base = r.base
    /\ \A e : Alike(H, n, e) => Alike(G, p, e)
    /\ \A id : Held(H, r, id) => Held(G, q, id)

\* What is new among the versions, or in the run, is as it should be.
NewHeld(H, G, q) ==
    /\ \A e \in G : IsOpen(e) =>
          \/ \E f \in H : IsOpen(f) /\ f.ends = e.ends
          \/ \A i \in DOMAIN e.ends : Held(G, q, e.ends[i])
    /\ \A v \in G : v.xmax = q.xid /\ v.ends = <<>> /\ v.cmax >= q.base => v \in H \/ Held(G, q, v.id)
NewSafe(G, p, r, q) ==
    /\ q.rows \subseteq r.rows
    /\ \A i \in 1 .. Len(q.todo) :
          \/ \E j \in 1 .. Len(r.todo) : q.todo[i].row = r.todo[j].row
          \/ RowSafe(G, p, q, q.todo[i].row)
    /\ \A k \in 1 .. Len(q.inner) :
          \/ q.inner[k] = <<>> \/ (k \in 1 .. Len(r.inner) /\ r.inner[k] = q.inner[k])
          \/ \A e \in q.inner[k][1] : Alike(G, p, e)
    /\ \A k \in Kinds(q.stmt, "merge") : \A m \in q.created[k] :
          \/ m \in r.created[k]
          \/ \A i \in 1 .. Len(m.vs) : Alike(G, p, m.vs[i]) /\ m.vs[i].ends = <<>>

LEMMA RowSafeKept ==
  ASSUME NEW H, NEW n, NEW r, NEW G, NEW p, NEW q, Onward(H, n, r, G, p, q),
         NEW o, RowSafe(H, n, r, o)
  PROVE  RowSafe(G, p, q, o)
<1>1. ASSUME NEW x, NEW e, EntSafe(H, n, r, x, e) PROVE EntSafe(G, p, q, x, e)
  BY <1>1 DEF EntSafe, Onward
<1> QED
  BY <1>1 DEF RowSafe

LEMMA SafeKept ==
  ASSUME NEW H, NEW n, NEW r, NEW G, NEW p, NEW q, Safe(H, n, r), r.phase = "rows",
         Onward(H, n, r, G, p, q), Stamped(G, q), Course(q), NewHeld(H, G, q), NewSafe(G, p, r, q)
  PROVE  Safe(G, p, q)
<1>1. EdgesHeld(H, r) /\ GoneHeld(H, r) /\ RunSafe(H, n, r)
  BY DEF Safe
<1>2. EdgesHeld(G, q)
  <2> SUFFICES ASSUME NEW e \in G, IsOpen(e), NEW i \in DOMAIN e.ends PROVE Held(G, q, e.ends[i])
    BY DEF EdgesHeld
  <2>1. CASE \E f \in H : IsOpen(f) /\ f.ends = e.ends
    <3>1. Held(H, r, e.ends[i])
      BY <1>1, <2>1 DEF EdgesHeld
    <3> QED
      BY <3>1 DEF Onward
  <2> QED
    BY <2>1 DEF NewHeld
<1>3. GoneHeld(G, q)
  <2> SUFFICES ASSUME NEW v \in G, v.xmax = q.xid, v.ends = <<>>, v.cmax >= q.base
               PROVE  Held(G, q, v.id)
    BY DEF GoneHeld
  <2>1. CASE v \in H
    <3>1. Held(H, r, v.id)
      BY <1>1, <2>1 DEF GoneHeld, Onward
    <3> QED
      BY <3>1 DEF Onward
  <2> QED
    BY <2>1 DEF NewHeld
<1>4. RunSafe(G, p, q)
  <2>1. \A o \in q.rows : RowSafe(G, p, q, o)
    BY <1>1, RowSafeKept DEF RunSafe, NewSafe
  <2>2. ASSUME NEW i \in 1 .. Len(q.todo) PROVE RowSafe(G, p, q, q.todo[i].row)
    <3>1. CASE \E j \in 1 .. Len(r.todo) : q.todo[i].row = r.todo[j].row
      <4>1. RowSafe(H, n, r, q.todo[i].row)
        BY <1>1, <3>1 DEF RunSafe
      <4> QED
        BY <4>1, RowSafeKept
    <3> QED
      BY <3>1 DEF NewSafe
  <2>3. ASSUME NEW k \in 1 .. Len(q.inner), q.inner[k] # <<>>, NEW e \in q.inner[k][1]
        PROVE  Alike(G, p, e)
    BY <1>1, <2>3 DEF RunSafe, NewSafe, Onward
  <2>4. ASSUME NEW k \in Kinds(q.stmt, "merge"), NEW m \in q.created[k], NEW i \in 1 .. Len(m.vs)
        PROVE  Alike(G, p, m.vs[i]) /\ m.vs[i].ends = <<>>
    BY <1>1 DEF RunSafe, NewSafe, Onward
  <2> QED
    BY <2>1, <2>2, <2>3, <2>4 DEF RunSafe
<1> QED
  BY <1>2, <1>3, <1>4 DEF Safe

-----------------------------------------------------------------------------
(* The fields of a run *)

\* Run q goes on with the statement of r, with the lists that r has.
Steady(r, q) ==
    /\ q.xid = r.xid /\ q.stmt = r.stmt /\ q.snap = r.snap /\ q.base = r.base
    /\ q.level = r.level /\ q.phase = r.phase /\ q.rows = r.rows
SameLists(r, q) == q.created = r.created /\ q.inner = r.inner /\ q.deleted = r.deleted

LEMMA IncrementedRun ==
  ASSUME NEW E, NEW r, Good(r, E)
  PROVE  LET q == Incremented(r)
         IN  /\ Good(q, E) /\ Steady(r, q) /\ SameLists(r, q) /\ q.b = r.b /\ q.todo = r.todo
             /\ r.used => q.G = r.G + 1
             /\ ~r.used => q.G = r.G
             /\ ~q.used
<1> DEFINE g == r.G + 1
           q == [r EXCEPT !.G = g, !.used = FALSE]
<1>1. r \in Runs(E) /\ r.used \in BOOLEAN
  BY DEF Good, Runs
<1>2. CASE r.used
  <2>1. Incremented(r) = q
    BY <1>2 DEF Incremented
  <2> HIDE DEF g
  <2>2. /\ Steady(r, q) /\ SameLists(r, q) /\ q.b = r.b /\ q.todo = r.todo
        /\ q.G = g /\ q.used = FALSE
    BY <1>1 DEF Runs, Steady, SameLists
  <2> HIDE DEF q
  <2> QED
    BY <1>2, <2>1, <2>2, IncrementedGood DEF g
<1>3. CASE ~r.used
  <2>1. Incremented(r) = r
    BY <1>3 DEF Incremented
  <2> QED
    BY <1>3, <2>1 DEF Steady, SameLists
<1> QED
  BY <1>2, <1>3

LEMMA UsedRun ==
  ASSUME NEW E, NEW r, Good(r, E)
  PROVE  LET q == [r EXCEPT !.used = TRUE]
         IN  /\ Good(q, E) /\ Steady(r, q) /\ SameLists(r, q) /\ q.b = r.b /\ q.todo = r.todo
             /\ q.G = r.G /\ q.used
<1> DEFINE q == [r EXCEPT !.used = TRUE]
<1>1. r \in Runs(E)
  BY DEF Good
<1>2. /\ Steady(r, q) /\ SameLists(r, q) /\ q.b = r.b /\ q.todo = r.todo
      /\ q.G = r.G /\ q.used = TRUE
  BY <1>1 DEF Runs, Steady, SameLists
<1>3. Good(q, E)
  BY UsedGood
<1> HIDE DEF q
<1> QED
  BY <1>2, <1>3 DEF q

\* delete_entity raises the command id and sets curcid to it.
LEMMA DeletedRun ==
  ASSUME NEW E, NEW r, Good(r, E), NEW k \in Int
  PROVE  LET q == Deleted(r, k)
         IN  /\ Good(q, E) /\ Steady(r, q) /\ SameLists(r, q) /\ q.todo = r.todo
             /\ q.G = r.G + 1 /\ q.b = q.G - k /\ ~q.used
<1> DEFINE u == [r EXCEPT !.used = TRUE]
           q == Incremented(u)
           c == q.G - k
           d == [q EXCEPT !.b = c]
<1>1. /\ Good(u, E) /\ Steady(r, u) /\ SameLists(r, u) /\ u.todo = r.todo /\ u.G = r.G /\ u.used
  BY UsedRun
<1> HIDE DEF u
<1>2. /\ Good(q, E) /\ Steady(u, q) /\ SameLists(u, q) /\ q.todo = u.todo /\ q.G = u.G + 1 /\ ~q.used
  BY <1>1, IncrementedRun
<1>3. Deleted(r, k) = d
  BY DEF Deleted, q, u
<1> HIDE DEF q
<1>4. q \in Runs(E)
  BY <1>2 DEF Good
<1>5. c = q.G - k
  OBVIOUS
<1> HIDE DEF c
<1>6. /\ Steady(q, d) /\ SameLists(q, d) /\ d.todo = q.todo /\ d.G = q.G /\ d.b = c /\ d.used = q.used
  BY <1>4 DEF Runs, Steady, SameLists
<1>7. Good(d, E)
  BY <1>3, DeletedGood
<1> HIDE DEF d
<1> QED
  BY <1>1, <1>2, <1>3, <1>5, <1>6, <1>7 DEF Steady, SameLists

\* Rows go up from r to q, and the work that waits stays.
Lifts(r, q, rows) ==
    /\ Steady(r, q) /\ SameLists(r, q) /\ q.b = r.b /\ q.G = r.G /\ q.used = r.used
    /\ \A i \in 1 .. Len(q.todo) :
          \/ \E j \in 1 .. Len(rows) : q.todo[i].row = rows[j]
          \/ \E j \in 1 .. Len(r.todo) : q.todo[i].row = r.todo[j].row

LEMMA PassedRun ==
  ASSUME NEW E, NEW r, Good(r, E), r.todo # <<>>, NEW k \in 1 .. Len(r.stmt.clauses),
         NEW rows \in Seq(Rows(E))
  PROVE  Lifts(r, Passed(r, k, rows), rows)
<1> DEFINE above == IF k = Len(r.stmt.clauses) THEN <<>>
                    ELSE [i \in DOMAIN rows |-> [k |-> k + 1, j |-> 1, row |-> rows[i]]]
           rest == Tail(r.todo)
           t == above \o rest
           q == [r EXCEPT !.todo = t]
<1>1. r \in Runs(E) /\ r.todo \in Seq(Works(E)) /\ k \in Nat /\ r.stmt \in Statement
  BY ParsedStatement DEF Good, Runs
<1>2. /\ rest \in Seq(Works(E)) /\ Len(rest) = Len(r.todo) - 1
      /\ \A i \in 1 .. Len(rest) : rest[i] = r.todo[i + 1]
  BY <1>1, HeadTailProperties
<1>3. above \in Seq(Works(E)) /\ \A i \in 1 .. Len(above) : \E j \in 1 .. Len(rows) : above[i].row = rows[j]
  <2>1. CASE k = Len(r.stmt.clauses)
    BY <2>1
  <2>2. CASE k # Len(r.stmt.clauses)
    <3>2. DOMAIN rows = 1 .. Len(rows) /\ Len(rows) \in Nat /\ \A i \in 1 .. Len(rows) : rows[i] \in Rows(E)
      OBVIOUS
    <3>3. above = [i \in 1 .. Len(rows) |-> [k |-> k + 1, j |-> 1, row |-> rows[i]]]
      BY <2>2, <3>2
    <3>4. \A i \in 1 .. Len(rows) : [k |-> k + 1, j |-> 1, row |-> rows[i]] \in Works(E)
      BY <1>1, <3>2 DEF Works
    <3>5. above \in Seq(Works(E)) /\ Len(above) = Len(rows)
      BY <3>2, <3>3, <3>4
    <3> QED
      BY <3>3, <3>5
  <2> QED
    BY <2>1, <2>2
<1> HIDE DEF above, rest
<1>4. /\ t \in Seq(Works(E)) /\ Len(t) = Len(above) + Len(rest)
      /\ \A i \in 1 .. Len(above) + Len(rest) :
            t[i] = IF i <= Len(above) THEN above[i] ELSE rest[i - Len(above)]
  BY <1>2, <1>3, ConcatProperties
<1>5. \A i \in 1 .. Len(t) : \/ \E j \in 1 .. Len(rows) : t[i].row = rows[j]
                             \/ \E j \in 1 .. Len(r.todo) : t[i].row = r.todo[j].row
  <2> DEFINE a == Len(above)
             b == Len(rest)
             l == Len(r.todo)
  <2>1. a \in Nat /\ b \in Nat /\ l \in Nat /\ b = l - 1 /\ Len(t) = a + b
    BY <1>1, <1>2, <1>3, <1>4
  <2>2. \A i \in 1 .. a + b : t[i] = IF i <= a THEN above[i] ELSE rest[i - a]
    BY <1>4
  <2>3. \A i \in 1 .. b : rest[i] = r.todo[i + 1]
    BY <1>2
  <2>4. \A i \in 1 .. a : \E j \in 1 .. Len(rows) : above[i].row = rows[j]
    BY <1>3
  <2> HIDE DEF t, a, b, l
  <2> SUFFICES ASSUME NEW i \in 1 .. a + b
               PROVE  \/ \E j \in 1 .. Len(rows) : t[i].row = rows[j]
                      \/ \E j \in 1 .. l : t[i].row = r.todo[j].row
    BY <2>1 DEF l
  <2>5. CASE i <= a
    <3>1. i \in 1 .. a /\ t[i] = above[i]
      BY <2>1, <2>2, <2>5
    <3> QED
      BY <2>4, <3>1
  <2>6. CASE ~(i <= a)
    <3>1. i - a \in 1 .. b /\ t[i] = rest[i - a] /\ (i - a) + 1 \in 1 .. l
      BY <2>1, <2>2, <2>6
    <3>2. t[i] = r.todo[(i - a) + 1]
      BY <2>3, <3>1
    <3> QED
      BY <3>1, <3>2
  <2> QED
    BY <2>5, <2>6
<1>6. Passed(r, k, rows) = q
  BY DEF Passed, above, rest
<1> HIDE DEF t
<1>7. /\ Steady(r, q) /\ SameLists(r, q) /\ q.b = r.b /\ q.G = r.G /\ q.used = r.used /\ q.todo = t
  BY <1>1 DEF Runs, Steady, SameLists
<1> HIDE DEF q
<1> QED
  BY <1>5, <1>6, <1>7 DEF Lifts

\* A clause that counts its command hands a row from r to q.
Hands(r, k, row, q) ==
    /\ Steady(r, q) /\ SameLists(r, q) /\ q.b = r.b
    /\ Terminal(r, k) => q.G = r.G /\ q.used = r.used
    /\ ~Terminal(r, k) => (~q.used /\ q.G = IF r.used THEN r.G + 1 ELSE r.G)
    /\ \A i \in 1 .. Len(q.todo) :
          \/ q.todo[i].row = row
          \/ \E j \in 1 .. Len(r.todo) : q.todo[i].row = r.todo[j].row

LEMMA RowWrittenRun ==
  ASSUME NEW E, NEW r, Good(r, E), r.todo # <<>>, NEW k \in 1 .. Len(r.stmt.clauses),
         NEW row \in Rows(E)
  PROVE  Hands(r, k, row, RowWritten(r, k, row))
<1> DEFINE p == IF Terminal(r, k) THEN r ELSE Incremented(r)
           rows == <<row>>
           q == Passed(p, k, rows)
<1>1. /\ Good(p, E) /\ Steady(r, p) /\ SameLists(r, p) /\ p.b = r.b /\ p.todo = r.todo
      /\ Terminal(r, k) => p.G = r.G /\ p.used = r.used
      /\ ~Terminal(r, k) => (~p.used /\ p.G = IF r.used THEN r.G + 1 ELSE r.G)
  BY IncrementedRun, ZenonT(60) DEF Steady, SameLists
<1>2. rows \in Seq(Rows(E)) /\ \A j \in 1 .. Len(rows) : rows[j] = row
  OBVIOUS
<1>3. RowWritten(r, k, row) = q
  BY DEF RowWritten
<1> HIDE DEF p, rows
<1>4. Good(p, E) /\ p.todo # <<>> /\ k \in 1 .. Len(p.stmt.clauses) /\ rows \in Seq(Rows(E))
  BY <1>1, <1>2 DEF Steady
<1>5. Lifts(p, q, rows)
  BY <1>4, PassedRun
<1> HIDE DEF q
<1>6. \A i \in 1 .. Len(q.todo) : \/ q.todo[i].row = row
                                  \/ \E j \in 1 .. Len(r.todo) : q.todo[i].row = r.todo[j].row
  BY <1>1, <1>2, <1>5 DEF Lifts
<1> QED
  BY <1>1, <1>3, <1>5, <1>6 DEF Steady, SameLists, Lifts, Hands

\* merge_vertex counts the command the statement began with.
LEMMA InsertedRun ==
  ASSUME NEW E, NEW r, Good(r, E)
  PROVE  LET q == Inserted(r)
         IN  /\ Good(q, E) /\ Steady(r, q) /\ SameLists(r, q) /\ q.b = r.b /\ q.todo = r.todo
             /\ r.G = r.base => q.G = r.G + 1 /\ ~q.used
             /\ r.G # r.base => q = r
<1> DEFINE u == [r EXCEPT !.used = TRUE]
<1>1. /\ Good(u, E) /\ Steady(r, u) /\ SameLists(r, u) /\ u.b = r.b /\ u.todo = r.todo
      /\ u.G = r.G /\ u.used
  BY UsedRun
<1>2. (r.G = r.base => Inserted(r) = Incremented(u)) /\ (r.G # r.base => Inserted(r) = r)
  BY DEF Inserted
<1> HIDE DEF u
<1>3. LET q == Incremented(u)
      IN  /\ Good(q, E) /\ Steady(u, q) /\ SameLists(u, q) /\ q.b = u.b /\ q.todo = u.todo
          /\ q.G = u.G + 1 /\ ~q.used
  BY <1>1, IncrementedRun
<1>4. CASE r.G = r.base
  <2> DEFINE q == Incremented(u)
  <2>1. Inserted(r) = q
    BY <1>2, <1>4
  <2> HIDE DEF q
  <2>2. /\ Good(q, E) /\ Steady(r, q) /\ SameLists(r, q) /\ q.b = r.b /\ q.todo = r.todo
        /\ q.G = r.G + 1 /\ ~q.used
    BY <1>1, <1>3 DEF q, Steady, SameLists
  <2> QED
    BY <1>4, <2>1, <2>2
<1>5. CASE r.G # r.base
  BY <1>2, <1>5 DEF Steady, SameLists
<1> QED
  BY <1>4, <1>5

Turned(r, j, row) == [r EXCEPT !.todo[1].j = j, !.todo[1].row = row]
TurnedTodo(r, j, row) == [r.todo EXCEPT ![1] = [Head(r.todo) EXCEPT !.j = j, !.row = row]]

LEMMA ItemSet ==
  ASSUME NEW E, NEW r, Good(r, E), r.todo # <<>>, NEW j, NEW row
  PROVE  Turned(r, j, row) = [r EXCEPT !.todo = TurnedTodo(r, j, row)]
<1>1. Head(r.todo) = r.todo[1] /\ r.todo \in Seq(Works(E)) /\ 1 \in 1 .. Len(r.todo) /\ r \in Runs(E)
  BY HeadGood DEF Good, Runs
<1> QED
  BY <1>1, ZenonT(60) DEF Runs, Turned, TurnedTodo

\* The work that comes next has another item and maybe another row.
LEMMA ItemRun ==
  ASSUME NEW E, NEW r, Good(r, E), r.todo # <<>>, NEW j \in Nat, NEW row \in Rows(E), NEW q,
         \/ q = Turned(r, j, row)
         \/ q = [r EXCEPT !.todo[1].j = j] /\ row = Head(r.todo).row
  PROVE  /\ Steady(r, q) /\ SameLists(r, q) /\ q.b = r.b /\ q.G = r.G /\ q.used = r.used
         /\ q.todo # <<>> /\ Head(q.todo).k = Head(r.todo).k
         /\ \A i \in 1 .. Len(q.todo) :
               \/ q.todo[i].row = row
               \/ \E o \in 1 .. Len(r.todo) : q.todo[i].row = r.todo[o].row
<1> DEFINE w == [Head(r.todo) EXCEPT !.j = j, !.row = row]
           t == [r.todo EXCEPT ![1] = w]
           to == [r EXCEPT !.todo = t]
<1>1. /\ Head(r.todo) = r.todo[1] /\ Head(r.todo) \in Works(E) /\ r.todo \in Seq(Works(E))
      /\ Len(r.todo) \in Nat /\ 1 \in 1 .. Len(r.todo) /\ r \in Runs(E)
  BY HeadGood, ZenonT(30) DEF Good, Runs
<1>2. w \in Works(E) /\ w.k = Head(r.todo).k /\ w.row = row
  BY <1>1 DEF Works
<1>3. Turned(r, j, row) = to
  <2>1. t = TurnedTodo(r, j, row)
    BY DEF TurnedTodo
  <2> HIDE DEF t
  <2> QED
    BY <2>1, ItemSet
<1>4. ASSUME row = Head(r.todo).row PROVE [r EXCEPT !.todo[1].j = j] = to
  <2>1. w = [Head(r.todo) EXCEPT !.j = j]
    BY <1>1, <1>4 DEF Works
  <2> HIDE DEF w
  <2> QED
    BY <1>1, <2>1 DEF Runs
<1>4a. q = to
  BY <1>3, <1>4
<1> HIDE DEF w
<1>5. t \in Seq(Works(E)) /\ Len(t) = Len(r.todo)
      /\ \A i \in 1 .. Len(r.todo) : t[i] = IF i = 1 THEN w ELSE r.todo[i]
  BY <1>1, <1>2, ExceptSeq
<1> HIDE DEF t
<1>6. \A i \in 1 .. Len(t) : t[i].row = row \/ \E o \in 1 .. Len(r.todo) : t[i].row = r.todo[o].row
  BY <1>2, <1>5
<1>7. t # <<>> /\ Head(t) = t[1] /\ t[1] = w
  BY <1>1, <1>5, HeadTailProperties, EmptySeq
<1>8. /\ Steady(r, to) /\ SameLists(r, to) /\ to.b = r.b /\ to.G = r.G /\ to.used = r.used
      /\ to.todo = t
  BY <1>1 DEF Runs, Steady, SameLists
<1> HIDE DEF to
<1> QED
  BY <1>2, <1>4a, <1>6, <1>7, <1>8

LEMMA SaidRun ==
  ASSUME NEW E, NEW r, Good(r, E), NEW said \in SUBSET Items, NEW q, q = [r EXCEPT !.said = said]
  PROVE  /\ Good(q, E) /\ Steady(r, q) /\ SameLists(r, q) /\ q.b = r.b /\ q.G = r.G
         /\ q.used = r.used /\ q.todo = r.todo
<1>1. Good(q, E)
  BY SaidGood DEF WithSaid
<1>2. r \in Runs(E)
  BY DEF Good
<1>3. /\ Steady(r, q) /\ SameLists(r, q) /\ q.b = r.b /\ q.G = r.G /\ q.used = r.used /\ q.todo = r.todo
  BY <1>2 DEF Runs, Steady, SameLists
<1> QED
  BY <1>1, <1>3

LEMMA CurcidRun ==
  ASSUME NEW E, NEW r, Good(r, E), NEW b \in Int, NEW q, q = [r EXCEPT !.b = b]
  PROVE  /\ Good(q, E) /\ Steady(r, q) /\ SameLists(r, q) /\ q.b = b /\ q.G = r.G
         /\ q.used = r.used /\ q.todo = r.todo
<1>1. Good(q, E)
  BY CurcidGood DEF SameWork
<1>2. r \in Runs(E)
  BY DEF Good
<1>3. /\ Steady(r, q) /\ SameLists(r, q) /\ q.b = b /\ q.G = r.G /\ q.used = r.used /\ q.todo = r.todo
  BY <1>2 DEF Runs, Steady, SameLists
<1> QED
  BY <1>1, <1>3

\* DELETE remembers a vertex.
Listed(r, k, id) == [r EXCEPT !.deleted[k] = @ \cup {id}]

Lists(r, k, id, q, E) ==
    /\ Good(q, E) /\ Steady(r, q) /\ q.created = r.created /\ q.inner = r.inner
    /\ q.b = r.b /\ q.G = r.G /\ q.used = r.used /\ q.todo = r.todo
    /\ Len(q.deleted) = Len(r.deleted)
    /\ \A i \in 1 .. Len(r.deleted) :
          q.deleted[i] = IF i = k THEN r.deleted[k] \cup {id} ELSE r.deleted[i]

LEMMA ListedRun ==
  ASSUME NEW E, NEW r, Good(r, E), NEW k \in 1 .. Len(r.deleted), NEW id \in Nat,
         NEW q, q = Listed(r, k, id)
  PROVE  Lists(r, k, id, q, E)
<1> DEFINE new == r.deleted[k] \cup {id}
           d == [r.deleted EXCEPT ![k] = new]
<1>1. k \in Nat
  BY DEF Good, Runs
<1>2. Good(q, E)
  BY <1>1, ListedGood DEF SameWork, Listed
<1>3. r \in Runs(E) /\ r.deleted \in Seq(SUBSET Nat)
  BY DEF Good, Runs
<1>4. q = [r EXCEPT !.deleted = d]
  BY DEF Listed
<1>5. new \in SUBSET Nat
  BY <1>3
<1>5a. new = r.deleted[k] \cup {id}
  OBVIOUS
<1> HIDE DEF new
<1>6. /\ Len(d) = Len(r.deleted)
      /\ \A i \in 1 .. Len(r.deleted) : d[i] = IF i = k THEN new ELSE r.deleted[i]
  BY <1>3, <1>5, ExceptSeq
<1> HIDE DEF d
<1>7. /\ Steady(r, q) /\ q.created = r.created /\ q.inner = r.inner /\ q.deleted = d
      /\ q.b = r.b /\ q.G = r.G /\ q.used = r.used /\ q.todo = r.todo
  BY <1>3, <1>4 DEF Runs, Steady
<1> QED
  BY <1>2, <1>5a, <1>6, <1>7 DEF Lists

\* MERGE keeps the view it matched against.
KeptView(r, k, view) == [r EXCEPT !.inner[k] = <<view>>]
Keeps(r, k, view, q, E) ==
    /\ Good(q, E) /\ Steady(r, q) /\ q.created = r.created /\ q.deleted = r.deleted
    /\ q.b = r.b /\ q.G = r.G /\ q.used = r.used /\ q.todo = r.todo
    /\ Len(q.inner) = Len(r.inner)
    /\ \A i \in 1 .. Len(r.inner) : q.inner[i] = IF i = k THEN <<view>> ELSE r.inner[i]

LEMMA InnerRun ==
  ASSUME NEW E, NEW r, Good(r, E), NEW k \in 1 .. Len(r.stmt.clauses), NEW view \in Views(E),
         NEW q, q = KeptView(r, k, view)
  PROVE  Keeps(r, k, view, q, E)
<1> DEFINE one == <<view>>
           d == [r.inner EXCEPT ![k] = one]
<1>1. r \in Runs(E) /\ r.inner \in Seq(Seq(Views(E))) /\ k \in 1 .. Len(r.inner)
  BY DEF Good, Runs, Fits
<1>2. k \in Nat
  BY <1>1
<1>3. Good(q, E)
  BY <1>2, InnerGood DEF SameWork, KeptView
<1>4. q = [r EXCEPT !.inner = d]
  BY DEF KeptView
<1>5. one \in Seq(Views(E))
  OBVIOUS
<1>5a. one = <<view>>
  OBVIOUS
<1> HIDE DEF one
<1>6. /\ Len(d) = Len(r.inner)
      /\ \A i \in 1 .. Len(r.inner) : d[i] = IF i = k THEN one ELSE r.inner[i]
  BY <1>1, <1>5, ExceptSeq
<1> HIDE DEF d
<1>7. /\ Steady(r, q) /\ q.created = r.created /\ q.deleted = r.deleted /\ q.inner = d
      /\ q.b = r.b /\ q.G = r.G /\ q.used = r.used /\ q.todo = r.todo
  BY <1>1, <1>4 DEF Runs, Steady
<1> QED
  BY <1>3, <1>5a, <1>6, <1>7 DEF Keeps

\* MERGE remembers a path it made.
Remembered(r, k, m) == [r EXCEPT !.created[k] = @ \cup {m}]
Remembers(r, m, q, E) ==
    /\ Good(q, E) /\ Steady(r, q) /\ q.inner = r.inner /\ q.deleted = r.deleted
    /\ q.b = r.b /\ q.G = r.G /\ q.used = r.used /\ q.todo = r.todo
    /\ \A i \in 1 .. Len(r.created) : \A o \in q.created[i] : o \in r.created[i] \/ o = m

LEMMA CreatedRun ==
  ASSUME NEW E, NEW r, Good(r, E), NEW k \in 1 .. Len(r.stmt.clauses), NEW m \in Merged(E),
         Len(m.vs) = Len(r.stmt.clauses[k].path), NEW q, q = Remembered(r, k, m)
  PROVE  Remembers(r, m, q, E)
<1> DEFINE new == r.created[k] \cup {m}
           d == [r.created EXCEPT ![k] = new]
<1>1. r \in Runs(E) /\ r.created \in Seq(SUBSET Merged(E)) /\ k \in 1 .. Len(r.created)
  BY DEF Good, Runs, Fits
<1>2. Good(q, E)
  BY CreatedGood DEF SameWork, Remembered
<1>3. q = [r EXCEPT !.created = d]
  BY DEF Remembered
<1>4. new \in SUBSET Merged(E)
  BY <1>1
<1>5. \A o \in new : o \in r.created[k] \/ o = m
  OBVIOUS
<1> HIDE DEF new
<1>6. \A i \in 1 .. Len(r.created) : d[i] = IF i = k THEN new ELSE r.created[i]
  BY <1>1, <1>4, ExceptSeq
<1> HIDE DEF d
<1>7. /\ Steady(r, q) /\ q.inner = r.inner /\ q.deleted = r.deleted /\ q.created = d
      /\ q.b = r.b /\ q.G = r.G /\ q.used = r.used /\ q.todo = r.todo
  BY <1>1, <1>3 DEF Runs, Steady
<1> QED
  BY <1>2, <1>5, <1>6, <1>7 DEF Remembers

\* The end of a statement goes down a clause.
LEMMA EndedRun ==
  ASSUME NEW E, NEW r, Good(r, E)
  PROVE  LET q == EndedLevel(r)
         IN  /\ q.xid = r.xid /\ q.stmt = r.stmt /\ q.snap = r.snap /\ q.base = r.base
             /\ SameLists(r, q) /\ q.b = r.b /\ q.G = r.G /\ q.used = r.used
             /\ r.level = 1 => q.phase = "ready" /\ q.level = 1
             /\ r.level # 1 => q.phase = r.phase /\ q.level = r.level - 1
<1>1. r \in Runs(E)
  BY DEF Good
<1>2. CASE r.level = 1
  <2> DEFINE q == [r EXCEPT !.phase = "ready"]
  <2>1. EndedLevel(r) = q
    BY <1>2 DEF EndedLevel
  <2>2. /\ q.xid = r.xid /\ q.stmt = r.stmt /\ q.snap = r.snap /\ q.base = r.base
        /\ SameLists(r, q) /\ q.b = r.b /\ q.G = r.G /\ q.used = r.used
        /\ q.phase = "ready" /\ q.level = r.level
    BY <1>1 DEF Runs, SameLists
  <2> HIDE DEF q
  <2> QED
    BY <1>2, <2>1, <2>2
<1>3. CASE r.level # 1
  <2> DEFINE l == r.level - 1
             q == [r EXCEPT !.level = l]
  <2>1. EndedLevel(r) = q /\ l = r.level - 1
    BY <1>3 DEF EndedLevel
  <2> HIDE DEF l
  <2>2. /\ q.xid = r.xid /\ q.stmt = r.stmt /\ q.snap = r.snap /\ q.base = r.base
        /\ SameLists(r, q) /\ q.b = r.b /\ q.G = r.G /\ q.used = r.used
        /\ q.phase = r.phase /\ q.level = l
    BY <1>1 DEF Runs, SameLists
  <2> HIDE DEF q
  <2> QED
    BY <1>3, <2>1, <2>2
<1> QED
  BY <1>2, <1>3

-----------------------------------------------------------------------------
(* The only session at work *)

\* Session s is the only one at work, and everything is well so far.
Lone(s) ==
    /\ ActiveFacts(s) /\ Good(run[s], Entities) /\ run[s].snap = committed
    /\ SameEnds(heap) /\ WholeGraph(heap, committed) /\ Safe(heap, ids, run[s])
    /\ NoXid \notin committed /\ run[s].xid \notin committed /\ run[s].xid # NoXid
    /\ \A v \in heap : v.xmin \in committed \/ v.xmin = run[s].xid
    /\ \A v \in heap : v.xmax \in committed \/ v.xmax = NoXid \/ v.xmax = run[s].xid

LEMMA LoneSession ==
  ASSUME IInv, EInv, ~overlap, NEW s \in Active
  PROVE  Lone(s)
<1>1. ActiveFacts(s) /\ Good(run[s], Pool(s)) /\ Pool(s) \subseteq Entities
  BY ActiveHas, ActiveRun DEF IInv, Active, TInv
<1>2. Good(run[s], Entities)
  BY <1>1, GoodGrows
<1>3. \A t \in Active : t = s
  BY DEF EInv
<1>4. /\ SameEnds(heap) /\ WholeGraph(heap, committed) /\ Safe(heap, ids, run[s])
      /\ run[s].snap = committed
  BY DEF EInv
<1>5. Sound(heap, committed, Active, run)
  BY DEF IInv, Consistent
<1> QED
  BY <1>1, <1>2, <1>3, <1>4, <1>5 DEF Lone, Sound

\* What session s has done is well.
Upheld(s) == Safe(heap', ids', run'[s]) /\ SameEnds(heap') /\ WholeGraph(heap', committed)

\* A version that is seen is open, or the transaction removed it later.
LEMMA SeenVersion ==
  ASSUME NEW s, Lone(s), NEW c \in Int, NEW v \in Visible(run[s], c)
  PROVE  /\ v \in heap
         /\ IsOpen(v) \/ (v.xmax = run[s].xid /\ c >= 0 /\ v.cmax >= c)
<1>1. v \in heap /\ ~Sees(run[s], v.xmax, v.cmax, c)
  BY DEF Visible
<1>2. v \in Versions /\ run[s].snap = committed
  BY <1>1 DEF Lone, ActiveFacts
<1>3. v.xmax \in committed \/ v.xmax = NoXid \/ v.xmax = run[s].xid
  BY <1>1 DEF Lone
<1>4. CASE v.xmax = run[s].xid
  <2>1. ~(c < 0 \/ v.cmax < c)
    BY <1>1, <1>4 DEF Sees, CidBefore
  <2>2. v.cmax \in Int
    BY <1>2 DEF Versions
  <2>3. c >= 0 /\ v.cmax >= c
    BY <2>1, <2>2
  <2> QED
    BY <1>1, <1>4, <2>3
<1>5. CASE v.xmax # run[s].xid
  BY <1>1, <1>2, <1>3, <1>5 DEF Sees, IsOpen
<1> QED
  BY <1>4, <1>5

\* An open version of an earlier command is seen.
LEMMA OpenSeen ==
  ASSUME NEW s, Lone(s), NEW c \in Int, NEW v \in heap, IsOpen(v),
         v.xmin = run[s].xid => v.cmin < c
  PROVE  v \in Visible(run[s], c)
<1>1. v.xmin \in committed \/ v.xmin = run[s].xid
  BY DEF Lone
<1>2. Sees(run[s], v.xmin, v.cmin, c)
  BY <1>1 DEF Sees, CidBefore, Lone
<1>3. ~Sees(run[s], v.xmax, v.cmax, c)
  BY DEF Sees, IsOpen, Lone
<1> QED
  BY <1>2, <1>3 DEF Visible

\* A removed version is still there for the committed graph.
LEMMA CloseUpheld ==
  ASSUME NEW s, Lone(s), NEW v \in heap, IsOpen(v), heap' = Closed(run[s], v)
  PROVE  /\ SameEnds(heap') /\ WholeGraph(heap', committed)
         /\ \A e : Alike(heap, ids, e) => Alike(heap', ids, e)
         /\ \A id : Alive(heap, id) => Alive(heap', id) \/ (id = v.id /\ v.ends = <<>>)
         /\ \A w \in heap' : \/ w \in heap /\ w # v
                             \/ /\ w.id = v.id /\ w.ends = v.ends /\ ~IsOpen(w)
                                /\ w.xmin = v.xmin /\ w.cmin = v.cmin
                                /\ w.xmax = run[s].xid /\ w.cmax = run[s].G
<1>1. v \in Versions
  BY DEF Lone, ActiveFacts
<1>2. PICK u : /\ Closed(run[s], v) = (heap \ {v}) \cup {u}
               /\ u.id = v.id /\ u.ends = v.ends /\ u.xmin = v.xmin /\ u.cmin = v.cmin
               /\ u.xmax = run[s].xid /\ u.cmax = run[s].G
  BY <1>1, ClosedEnds
<1>3. /\ SameEnds(heap')
      /\ \A e : Alike(heap, ids, e) => Alike(heap', ids, e)
      /\ \A id : Alive(heap, id) => Alive(heap', id) \/ (id = v.id /\ v.ends = <<>>)
  <2>1. SameEnds(heap) /\ heap' = (heap \ {v}) \cup {u} /\ u.id = v.id /\ u.ends = v.ends
    BY <1>2 DEF Lone
  <2> QED
    BY <2>1, CloseAlike
<1>4. u.xmax \notin committed /\ v.xmax \notin committed /\ ~IsOpen(u)
  BY <1>2 DEF Lone, IsOpen
<1>5. WholeGraph(heap', committed)
  <2>1. \A w \in heap' : w.xmin \in committed /\ w.xmax \notin committed =>
          \E x \in heap : x.xmin \in committed /\ x.xmax \notin committed /\ x.ends = w.ends
    BY <1>2, <1>4
  <2>2. \A x \in heap : x.xmin \in committed /\ x.xmax \notin committed =>
          \E w \in heap' : w.xmin \in committed /\ w.xmax \notin committed /\ w.id = x.id /\ w.ends = x.ends
    BY <1>2, <1>4
  <2> QED
    BY <2>1, <2>2, WholeKept DEF Lone
<1> QED
  BY <1>2, <1>3, <1>4, <1>5

\* The versions are those there were and open ones of the entities M.
GrownBy(M, x, c) ==
    \A w \in heap' : \/ w \in heap
                     \/ /\ w.xmin = x /\ w.cmin = c /\ IsOpen(w)
                        /\ \E e \in M : w.id = e.id /\ w.ends = e.ends

\* New entities are there, and the committed graph is what it was.
LEMMA InsertUpheld ==
  ASSUME NEW s, Lone(s), NEW M, NEW p, Fresh(heap, ids, M, p), NEW c,
         heap' = heap \cup VersionsOf(M, run[s].xid, c)
  PROVE  WholeGraph(heap', committed) /\ Joined(heap, ids, M, p, heap') /\ GrownBy(M, run[s].xid, c)
<1>0. M \subseteq Entities
  BY DEF Fresh
<1>1. Joined(heap, ids, M, p, heap')
  BY InsertAlike
<1>3. GrownBy(M, run[s].xid, c)
  BY <1>0, VersionEnds DEF VersionsOf, GrownBy
<1>4. WholeGraph(heap', committed)
  <2>1. \A w \in heap' : w.xmin \in committed /\ w.xmax \notin committed =>
          \E x \in heap : x.xmin \in committed /\ x.xmax \notin committed /\ x.ends = w.ends
    BY <1>3 DEF Lone, GrownBy
  <2>2. \A x \in heap : x.xmin \in committed /\ x.xmax \notin committed =>
          \E w \in heap' : w.xmin \in committed /\ w.xmax \notin committed /\ w.id = x.id /\ w.ends = x.ends
    OBVIOUS
  <2> QED
    BY <2>1, <2>2, WholeKept DEF Lone
<1> QED
  BY <1>1, <1>3, <1>4

\* A replaced entity has a version again.
LEMMA ReplaceUpheld ==
  ASSUME NEW s, Lone(s), NEW v \in heap, IsOpen(v), NEW e \in Entities, e.id = v.id, e.ends = v.ends,
         heap' = Written(run[s], v, e)
  PROVE  /\ SameEnds(heap') /\ WholeGraph(heap', committed)
         /\ \A f : Alike(heap, ids, f) => Alike(heap', ids, f)
         /\ \A id : Alive(heap, id) => Alive(heap', id)
         /\ v.ends = <<>> => Alive(heap', v.id)
         /\ \A w \in heap' : \/ w \in heap /\ w # v
                             \/ /\ w.id = v.id /\ w.ends = v.ends /\ ~IsOpen(w)
                                /\ w.xmin = v.xmin /\ w.cmin = v.cmin
                                /\ w.xmax = run[s].xid /\ w.cmax = run[s].G
                             \/ /\ w.id = v.id /\ w.ends = v.ends /\ IsOpen(w)
                                /\ w.xmin = run[s].xid /\ w.cmin = run[s].G
<1>1. v \in Versions
  BY DEF Lone, ActiveFacts
<1>2. PICK u : /\ Closed(run[s], v) = (heap \ {v}) \cup {u}
               /\ u.id = v.id /\ u.ends = v.ends /\ u.xmin = v.xmin /\ u.cmin = v.cmin
               /\ u.xmax = run[s].xid /\ u.cmax = run[s].G
  BY <1>1, ClosedEnds
<1> DEFINE m == Version(e, run[s].xid, run[s].G)
<1>3. m.id = v.id /\ m.ends = v.ends /\ m.xmin = run[s].xid /\ m.cmin = run[s].G /\ IsOpen(m)
  BY VersionEnds
<1>4. heap' = ((heap \ {v}) \cup {u}) \cup {m}
  BY <1>2 DEF Written
<1> HIDE DEF m
<1>5. /\ SameEnds(heap')
      /\ \A f : Alike(heap, ids, f) => Alike(heap', ids, f)
      /\ \A id : Alive(heap, id) => Alive(heap', id)
  <2>1. SameEnds(heap)
    BY DEF Lone
  <2> QED
    BY <1>2, <1>3, <1>4, <2>1, ReplaceAlike
<1>6. v.ends = <<>> => Alive(heap', v.id)
  BY <1>3, <1>4 DEF Alive
<1>7. u.xmax \notin committed /\ v.xmax \notin committed /\ ~IsOpen(u) /\ m.xmin \notin committed
  BY <1>2, <1>3 DEF Lone, IsOpen
<1>8. WholeGraph(heap', committed)
  <2>1. \A w \in heap' : w.xmin \in committed /\ w.xmax \notin committed =>
          \E x \in heap : x.xmin \in committed /\ x.xmax \notin committed /\ x.ends = w.ends
    BY <1>2, <1>4, <1>7
  <2>2. \A x \in heap : x.xmin \in committed /\ x.xmax \notin committed =>
          \E w \in heap' : w.xmin \in committed /\ w.xmax \notin committed /\ w.id = x.id /\ w.ends = x.ends
    BY <1>2, <1>4, <1>7
  <2> QED
    BY <2>1, <2>2, WholeKept DEF Lone
<1> QED
  BY <1>2, <1>3, <1>4, <1>5, <1>6, <1>7, <1>8

-----------------------------------------------------------------------------
(* Steps that write nothing *)

\* From r to q commands are only counted.
Counts(r, q) == (q.G = r.G /\ (r.used => q.used)) \/ q.G > r.G

LEMMA StampKept ==
  ASSUME NEW H \in SUBSET Versions, NEW r, NEW q, Stamped(H, r), r.G \in Nat, q.G \in Nat,
         q.xid = r.xid, Counts(r, q)
  PROVE  Stamped(H, q)
<1> SUFFICES ASSUME NEW v \in H
             PROVE  /\ v.xmin = q.xid => v.cmin < q.G \/ (v.cmin = q.G /\ q.used)
                    /\ v.xmax = q.xid => v.cmax < q.G \/ (v.cmax = q.G /\ q.used)
  BY DEF Stamped
<1>1. v.cmin \in Nat /\ v.cmax \in Nat
  BY DEF Versions
<1>2. /\ v.xmin = q.xid => v.cmin < r.G \/ (v.cmin = r.G /\ r.used)
      /\ v.xmax = q.xid => v.cmax < r.G \/ (v.cmax = r.G /\ r.used)
  BY DEF Stamped
<1> QED
  BY <1>1, <1>2 DEF Counts

\* A step within the rows of a statement.
LEMMA Going ==
  ASSUME NEW s, Lone(s), run[s].phase = "rows",
         Onward(heap, ids, run[s], heap', ids', run'[s]), NewHeld(heap, heap', run'[s]),
         NewSafe(heap', ids', run[s], run'[s]), Stamped(heap', run'[s]), Course(run'[s]),
         SameEnds(heap'), WholeGraph(heap', committed)
  PROVE  Upheld(s)
<1>1. Safe(heap, ids, run[s])
  BY DEF Lone
<1>2. Safe(heap', ids', run'[s])
  BY <1>1, SafeKept
<1> QED
  BY <1>2 DEF Upheld

\* Run q has the vertices to be looked at that r has.
LEMMA SamePending ==
  ASSUME NEW r, NEW q, q.phase = r.phase, q.level = r.level, q.deleted = r.deleted
  PROVE  Pending(q) = Pending(r)
BY DEF Pending

LEMMA Quiet ==
  ASSUME NEW s, Lone(s), run[s].phase = "rows", UNCHANGED <<heap, ids>>, NEW q, run'[s] = q,
         q.stmt = run[s].stmt, q.xid = run[s].xid, q.base = run[s].base, q.phase = run[s].phase,
         q.level = run[s].level, q.deleted = run[s].deleted,
         q.G \in Nat, Counts(run[s], q), Course(q), NewSafe(heap, ids, run[s], q)
  PROVE  Upheld(s)
<1> DEFINE r == run[s]
<1>1. Pending(q) = Pending(r)
  BY SamePending
<1>2. Onward(heap, ids, r, heap, ids, q)
  BY <1>1 DEF Onward, Held
<1>3. NewHeld(heap, heap, q)
  BY DEF NewHeld
<1>4. Stamped(heap, q)
  <2>1. Stamped(heap, r) /\ heap \in SUBSET Versions /\ r.G \in Nat
    BY DEF Lone, Safe, ActiveFacts
  <2> QED
    BY <2>1, StampKept
<1>5. SameEnds(heap) /\ WholeGraph(heap, committed)
  BY DEF Lone
<1>6. heap' = heap /\ ids' = ids
  OBVIOUS
<1> QED
  BY <1>2, <1>3, <1>4, <1>5, <1>6, Going

LEMMA PullUpheld ==
  ASSUME NEW s, Lone(s), Pull(s)
  PROVE  Upheld(s)
<1> DEFINE r == run[s]
           E == Entities
<1>1. PICK row \in r.rows :
        run' = [run EXCEPT ![s].rows = @ \ {row}, ![s].n = @ + 1,
                           ![s].todo = <<[k |-> 1, j |-> 1, row |-> [row EXCEPT !.n = run[s].n + 1]]>>]
  BY Zenon DEF Pull
<1>2. r.phase = "rows" /\ r.todo = <<>> /\ heap' = heap /\ ids' = ids
  BY DEF Pull
<1>3. s \in DOMAIN run /\ r \in Runs(E) /\ row \in Rows(E)
  BY DEF Good, Lone, ActiveFacts, Runs
<1> DEFINE to == [row EXCEPT !.n = r.n + 1]
           w == [k |-> 1, j |-> 1, row |-> to]
           t == <<w>>
           n == r.n + 1
           rest == r.rows \ {row}
           q == [r EXCEPT !.rows = rest, !.n = n, !.todo = t]
<1>4. run'[s] = q
  BY <1>1, <1>3
<1>5. to.ent = row.ent /\ rest \subseteq r.rows
  BY <1>3 DEF Rows
<1> HIDE DEF to, n, rest
<1>6. w.row = to
  OBVIOUS
<1> HIDE DEF w
<1>7. Len(t) = 1 /\ t[1] = w
  OBVIOUS
<1> HIDE DEF t
<1>8. /\ q.xid = r.xid /\ q.stmt = r.stmt /\ q.base = r.base /\ q.phase = r.phase
      /\ q.level = r.level /\ q.deleted = r.deleted /\ q.created = r.created /\ q.inner = r.inner
      /\ q.G = r.G /\ q.used = r.used /\ q.b = r.b /\ q.rows = rest /\ q.todo = t
  BY <1>3 DEF Runs
<1> HIDE DEF q
<1>9. Course(q)
  <2>1. Course(r)
    BY DEF Lone, Safe
  <2>2. WritesLast(q) <=> WritesLast(r)
    BY <1>8 DEF WritesLast, Terminal
  <2> QED
    BY <1>2, <1>8, <2>1, <2>2 DEF Course
<1>10. RowSafe(heap, ids, q, to)
  <2>1. RowSafe(heap, ids, r, row)
    BY <1>2 DEF Lone, Safe, RunSafe
  <2>2. Pending(q) = Pending(r)
    BY <1>8, SamePending
  <2> QED
    BY <1>5, <1>8, <2>1, <2>2 DEF RowSafe, EntSafe, Held
<1>11. NewSafe(heap, ids, r, q)
  <2>0. \A i \in 1 .. Len(t) : i = 1
    BY <1>7
  <2>1. \A i \in 1 .. Len(q.todo) : q.todo[i].row = to
    <3>1. q.todo = t /\ t[1].row = to
      BY <1>6, <1>7, <1>8
    <3> QED
      BY <2>0, <3>1
  <2>2. \A i \in 1 .. Len(q.todo) : RowSafe(heap, ids, q, q.todo[i].row)
    BY <1>10, <2>1
  <2>3. q.inner = r.inner /\ q.created = r.created /\ q.rows \subseteq r.rows
    BY <1>5, <1>8
  <2> QED
    BY <2>2, <2>3 DEF NewSafe
<1>12. q.G \in Nat /\ Counts(r, q)
  BY <1>3, <1>8 DEF Runs, Counts
<1> QED
  BY <1>2, <1>4, <1>8, <1>9, <1>11, <1>12, Quiet

LEMMA ExhaustedUpheld ==
  ASSUME NEW s, Lone(s), Exhausted(s)
  PROVE  Upheld(s)
<1> DEFINE r == run[s]
           k == Len(r.stmt.clauses)
           p == IF Terminal(r, k) /\ r.stmt.clauses[k].op \in {"create", "set"} THEN Incremented(r) ELSE r
           q == [p EXCEPT !.phase = "ending"]
<1>1. run' = [run EXCEPT ![s] = q]
  BY DEF Exhausted
<1>2. r.phase = "rows" /\ r.todo = <<>> /\ heap' = heap /\ ids' = ids
  BY DEF Exhausted
<1>3. s \in DOMAIN run /\ Good(r, Entities) /\ Course(r) /\ Stamped(heap, r) /\ EdgesHeld(heap, r)
      /\ heap \in SUBSET Versions /\ SameEnds(heap) /\ WholeGraph(heap, committed)
  BY DEF Lone, ActiveFacts, Safe
<1>4. (WritesLast(r) => p = Incremented(r)) /\ (~WritesLast(r) => p = r)
  BY DEF WritesLast
<1> HIDE DEF p
<1>4a. Good(p, Entities) /\ Steady(r, p) /\ SameLists(r, p) /\ ~p.used /\ Counts(r, p)
  <2>1. CASE WritesLast(r)
    <3>1. /\ Good(p, Entities) /\ Steady(r, p) /\ SameLists(r, p) /\ ~p.used
          /\ r.used => p.G = r.G + 1
          /\ ~r.used => p.G = r.G
      BY <1>3, <1>4, <2>1, IncrementedRun
    <3>2. r.G \in Nat
      BY <1>3 DEF Good, Runs
    <3> QED
      BY <3>1, <3>2 DEF Counts
  <2>2. CASE ~WritesLast(r)
    <3>1. ~r.used
      BY <1>2, <1>3, <2>2 DEF Course
    <3> QED
      BY <1>3, <1>4, <2>2, <3>1 DEF Steady, SameLists, Counts
  <2> QED
    BY <2>1, <2>2
<1>5. p \in Runs(Entities) /\ p.G \in Nat /\ r.G \in Nat
  BY <1>3, <1>4a DEF Good, Runs
<1>6. /\ q.xid = r.xid /\ q.stmt = r.stmt /\ q.base = r.base /\ q.level = r.level
      /\ q.deleted = r.deleted /\ q.G = p.G /\ q.used = p.used /\ q.phase = "ending"
  BY <1>4a, <1>5 DEF Runs, Steady, SameLists
<1> HIDE DEF q
<1>7. Pending(q) = Pending(r)
  BY <1>2, <1>6 DEF Pending
<1>8. Stamped(heap, q)
  <2>1. Counts(r, q)
    BY <1>4a, <1>6 DEF Counts
  <2> QED
    BY <1>3, <1>5, <1>6, <2>1, StampKept
<1>9. EdgesHeld(heap, q)
  BY <1>3, <1>7 DEF EdgesHeld, Held
<1>10. Course(q)
  <2>1. r.base <= q.G
    <3>1. r.base \in Nat /\ r.base <= r.G
      BY <1>3 DEF Course, Good, Runs
    <3>2. r.G <= p.G
      BY <1>4a, <1>5 DEF Counts
    <3> QED
      BY <1>5, <1>6, <3>1, <3>2
  <2> QED
    BY <1>3, <1>4a, <1>6, <2>1 DEF Course
<1>11. Safe(heap, ids, q)
  BY <1>6, <1>8, <1>9, <1>10 DEF Safe
<1> QED
  BY <1>1, <1>2, <1>3, <1>11 DEF Upheld

LEMMA EndClauseUpheld ==
  ASSUME NEW s, Lone(s), end_cypher_clause(s)
  PROVE  Upheld(s)
<1> DEFINE r == run[s]
           p == IF r.stmt.clauses[r.level].op = "set" THEN r ELSE Incremented(r)
           q == EndedLevel(p)
<1>1. run' = [run EXCEPT ![s] = q]
  BY DEF end_cypher_clause
<1>2. /\ r.phase = "ending" /\ r.stmt.clauses[r.level].op # "delete"
      /\ heap' = heap /\ ids' = ids
  BY DEF end_cypher_clause, Ending
<1>3. s \in DOMAIN run /\ Good(r, Entities) /\ Course(r) /\ Stamped(heap, r) /\ EdgesHeld(heap, r)
      /\ SameEnds(heap) /\ WholeGraph(heap, committed)
  BY DEF Lone, ActiveFacts, Safe
<1>4. ~r.used
  BY <1>2, <1>3 DEF Course
<1>5. p = r
  BY <1>4 DEF Incremented
<1> HIDE DEF p
<1>6. /\ q.xid = r.xid /\ q.stmt = r.stmt /\ q.base = r.base
      /\ SameLists(r, q) /\ q.b = r.b /\ q.G = r.G /\ q.used = r.used
      /\ r.level = 1 => q.phase = "ready" /\ q.level = 1
      /\ r.level # 1 => q.phase = r.phase /\ q.level = r.level - 1
  BY <1>3, <1>5, EndedRun
<1> HIDE DEF q
<1>7. /\ r.level \in 1 .. Len(r.stmt.clauses) /\ Len(r.deleted) = Len(r.stmt.clauses)
      /\ r.deleted[r.level] = {}
  BY <1>2, <1>3 DEF Course, Kinds
<1>8. Pending(q) = Pending(r)
  <2>1. CASE r.level = 1
    BY <1>2, <1>6, <1>7, <2>1 DEF Pending
  <2>2. CASE r.level # 1
    <3>1. Pending(r) = UNION {r.deleted[k] : k \in 1 .. r.level}
      BY <1>2 DEF Pending
    <3>2. Pending(q) = UNION {r.deleted[k] : k \in 1 .. r.level - 1}
      BY <1>2, <1>6, <2>2 DEF Pending, SameLists
    <3>3. r.level \in Int /\ 1 .. r.level = (1 .. r.level - 1) \cup {r.level}
      BY <1>7
    <3> QED
      BY <1>7, <3>1, <3>2, <3>3
  <2> QED
    BY <2>1, <2>2
<1>9. Stamped(heap, q)
  BY <1>3, <1>6 DEF Stamped
<1>10. EdgesHeld(heap, q)
  BY <1>3, <1>8 DEF EdgesHeld, Held
<1>11. Course(q) /\ q.phase # "rows"
  <2>1. q.level \in 1 .. Len(r.stmt.clauses) /\ q.phase # "rows"
    BY <1>2, <1>6, <1>7
  <2> QED
    BY <1>3, <1>4, <1>6, <2>1 DEF Course, SameLists
<1>12. Safe(heap, ids, q)
  BY <1>9, <1>10, <1>11 DEF Safe
<1> QED
  BY <1>1, <1>2, <1>3, <1>12 DEF Upheld

\* What is locked for writing is an open version.
LEMMA LockedOpen ==
  ASSUME NEW r, NEW v, LockResult(r, v) = "Ok"
  PROVE  IsOpen(v)
BY DEF LockResult, IsOpen

\* After edges were not found, the end of a DELETE looks at the clause below.
LEMMA NoneConnected ==
  ASSUME NEW s, Lone(s), run[s].phase = "ending", ConnectedEdges(run[s]) = {},
         run'[s] = EndedLevel([run[s] EXCEPT !.b = run[s].G]), heap' = heap, ids' = ids
  PROVE  Upheld(s)
<1> DEFINE r == run[s]
           g == r.G
           p == [r EXCEPT !.b = g]
           q == EndedLevel(p)
<1>1. Good(r, Entities) /\ Course(r) /\ Stamped(heap, r) /\ EdgesHeld(heap, r)
      /\ SameEnds(heap) /\ WholeGraph(heap, committed) /\ heap \in SUBSET Versions
  BY DEF Lone, ActiveFacts, Safe
<1>2. g \in Nat /\ g \in Int
  BY <1>1 DEF Good, Runs
<1>2a. run'[s] = q
  OBVIOUS
<1>2b. ~r.used
  BY <1>1 DEF Course
<1>3. Good(p, Entities) /\ Steady(r, p) /\ SameLists(r, p) /\ p.G = r.G /\ p.used = r.used
  <2> HIDE DEF g
  <2> QED
    BY <1>1, <1>2, CurcidRun
<1> HIDE DEF p
<1>4. /\ q.xid = p.xid /\ q.stmt = p.stmt /\ q.base = p.base
      /\ SameLists(p, q) /\ q.G = p.G /\ q.used = p.used
      /\ p.level = 1 => q.phase = "ready" /\ q.level = 1
      /\ p.level # 1 => q.phase = p.phase /\ q.level = p.level - 1
  BY <1>3, EndedRun
<1> HIDE DEF q
<1>5. /\ q.xid = r.xid /\ q.stmt = r.stmt /\ q.base = r.base
      /\ q.deleted = r.deleted /\ q.G = r.G /\ q.used = r.used
      /\ r.level = 1 => q.phase = "ready" /\ q.level = 1
      /\ r.level # 1 => q.phase = r.phase /\ q.level = r.level - 1
  BY <1>3, <1>4 DEF Steady, SameLists
<1>6. r.level \in 1 .. Len(r.stmt.clauses)
  BY <1>1 DEF Course
<1>7. \A id : id \in Pending(r) => id \in Pending(q) \/ id \in r.deleted[r.level]
  <2>1. Pending(r) = UNION {r.deleted[k] : k \in 1 .. r.level}
    BY DEF Pending
  <2>2. CASE r.level = 1
    BY <2>1, <2>2
  <2>3. CASE r.level # 1
    <3>1. Pending(q) = UNION {r.deleted[k] : k \in 1 .. r.level - 1}
      BY <1>5, <2>3 DEF Pending
    <3>2. r.level \in Int /\ 1 .. r.level = (1 .. r.level - 1) \cup {r.level}
      BY <1>6
    <3> QED
      BY <2>1, <3>1, <3>2
  <2> QED
    BY <2>2, <2>3
<1>8. EdgesHeld(heap, q)
  <2> SUFFICES ASSUME NEW e \in heap, IsOpen(e), NEW i \in DOMAIN e.ends
               PROVE  Held(heap, q, e.ends[i])
    BY DEF EdgesHeld
  <2>1. Held(heap, r, e.ends[i])
    BY <1>1 DEF EdgesHeld
  <2>2. CASE e.ends[i] \in r.deleted[r.level]
    <3>1. e.xmin = r.xid => e.cmin < g
      <4>1. e.xmin = r.xid => e.cmin < g \/ (e.cmin = g /\ r.used)
        BY <1>1 DEF Stamped
      <4> QED
        BY <1>2b, <4>1
    <3>2. e \in Visible(r, g)
      BY <1>2, <3>1, OpenSeen
    <3>3. e \in ConnectedEdges(r)
      BY <2>2, <3>2 DEF ConnectedEdges
    <3> QED
      BY <3>3
  <2>3. CASE e.ends[i] \notin r.deleted[r.level]
    BY <1>7, <2>1, <2>3 DEF Held
  <2> QED
    BY <2>2, <2>3
<1>9. Stamped(heap, q)
  BY <1>1, <1>5 DEF Stamped
<1>10. Course(q) /\ q.phase # "rows"
  <2>1. q.level \in 1 .. Len(r.stmt.clauses) /\ q.phase # "rows"
    BY <1>5, <1>6
  <2> QED
    BY <1>1, <1>2b, <1>5, <2>1 DEF Course
<1>11. Safe(heap, ids, q)
  BY <1>8, <1>9, <1>10 DEF Safe
<1> QED
  BY <1>1, <1>2a, <1>11 DEF Upheld

\* DETACH DELETE removes an edge.
LEMMA EdgeRemoved ==
  ASSUME NEW s, Lone(s), run[s].phase = "ending", NEW v \in ConnectedEdges(run[s]), IsOpen(v),
         heap' = Closed(run[s], v), run'[s] = Deleted(run[s], 0), ids' = ids
  PROVE  Upheld(s)
<1> DEFINE r == run[s]
           q == Deleted(r, 0)
<1>1. Good(r, Entities) /\ Course(r) /\ Stamped(heap, r) /\ EdgesHeld(heap, r)
      /\ heap \in SUBSET Versions /\ NoXid # r.xid /\ r.G \in Nat /\ r.base \in Nat
  BY DEF Lone, ActiveFacts, Safe, Good, Runs
<1>2. v \in heap /\ v.ends # <<>>
  <2>1. v \in heap /\ \E i \in DOMAIN v.ends : TRUE
    BY DEF ConnectedEdges, Visible
  <2>2. DOMAIN <<>> = {}
    OBVIOUS
  <2> QED
    BY <2>1, <2>2
<1>3. /\ SameEnds(heap') /\ WholeGraph(heap', committed)
      /\ \A id : Alive(heap, id) => Alive(heap', id)
      /\ \A w \in heap' : \/ w \in heap
                          \/ /\ ~IsOpen(w) /\ w.xmin = v.xmin /\ w.cmin = v.cmin
                             /\ w.xmax = r.xid /\ w.cmax = r.G
  BY <1>2, CloseUpheld
<1>4. /\ Steady(r, q) /\ SameLists(r, q) /\ q.G = r.G + 1 /\ ~q.used
  <2>1. Good(r, Entities) /\ 0 \in Int
    BY <1>1
  <2> QED
    BY <2>1, DeletedRun, Zenon
<1>5. run'[s] = q
  OBVIOUS
<1> HIDE DEF q
<1>6. Pending(q) = Pending(r)
  BY <1>4, SamePending DEF Steady, SameLists
<1>7. EdgesHeld(heap', q)
  BY <1>1, <1>3, <1>6 DEF EdgesHeld, Held
<1>8. Stamped(heap', q)
  <2> SUFFICES ASSUME NEW w \in heap'
               PROVE  /\ w.xmin = r.xid => w.cmin < r.G + 1
                      /\ w.xmax = r.xid => w.cmax < r.G + 1
    BY <1>4 DEF Stamped, Steady
  <2>1. \A x \in heap : /\ x.cmin \in Nat /\ x.cmax \in Nat
                        /\ x.xmin = r.xid => x.cmin <= r.G
                        /\ x.xmax = r.xid => x.cmax <= r.G
    BY <1>1, SMTT(90) DEF Stamped, Versions
  <2>2. CASE w \in heap
    BY <1>1, <2>1, <2>2
  <2>3. CASE w \notin heap
    <3>1. w.xmin = v.xmin /\ w.cmin = v.cmin /\ w.cmax = r.G
      BY <1>3, <2>3
    <3> QED
      BY <1>1, <1>2, <2>1, <3>1
  <2> QED
    BY <2>2, <2>3
<1>9. Course(q) /\ q.phase # "rows"
  <2>1. r.base <= r.G + 1
    BY <1>1 DEF Course
  <2> QED
    BY <1>1, <1>4, <2>1 DEF Course, Steady, SameLists
<1>10. Safe(heap', ids', q)
  BY <1>7, <1>8, <1>9 DEF Safe
<1> QED
  BY <1>3, <1>5, <1>10 DEF Upheld

LEMMA ConnectedUpheld ==
  ASSUME NEW s, Lone(s), check_for_connected_edges(s)
  PROVE  Upheld(s) \/ Fail(s)
<1> DEFINE r == run[s]
           d == Deleted(r, 0)
           b == [r EXCEPT !.b = r.G]
           e == EndedLevel(b)
<1>1. r.phase = "ending" /\ s \in DOMAIN run
  BY DEF check_for_connected_edges, Ending, Lone, ActiveFacts
<1>2. \/ ConnectedEdges(r) = {} /\ run' = [run EXCEPT ![s] = e] /\ UNCHANGED <<heap, committed, ids>>
      \/ \E v \in ConnectedEdges(r) :
            /\ LockResult(r, v) = "Ok" /\ heap' = Closed(r, v)
            /\ run' = [run EXCEPT ![s] = d] /\ UNCHANGED <<committed, ids>>
      \/ Fail(s)
  BY DEF check_for_connected_edges
<1>3. CASE ConnectedEdges(r) = {} /\ run' = [run EXCEPT ![s] = e] /\ UNCHANGED <<heap, committed, ids>>
  <2>1. run'[s] = e /\ heap' = heap /\ ids' = ids
    BY <1>1, <1>3
  <2> QED
    BY <1>1, <1>3, <2>1, NoneConnected
<1>4. ASSUME NEW v \in ConnectedEdges(r), LockResult(r, v) = "Ok", heap' = Closed(r, v),
             run' = [run EXCEPT ![s] = d], UNCHANGED <<committed, ids>>
      PROVE  Upheld(s)
  <2>1. run'[s] = d /\ ids' = ids /\ IsOpen(v)
    BY <1>1, <1>4, LockedOpen
  <2> QED
    BY <1>1, <1>4, <2>1, EdgeRemoved
<1> QED
  BY <1>2, <1>3, <1>4

-----------------------------------------------------------------------------
(* Vertices that CREATE and MERGE put at the ends of new edges *)

LEMMA ExistsHeld ==
  ASSUME NEW s, Lone(s), run[s].phase = "rows", Firm(run[s].stmt),
         NEW k \in 1 .. Len(run[s].stmt.clauses), NEW row, RowSafe(heap, ids, run[s], row),
         NEW x \in DOMAIN row.ent, x \in OldNames(run[s].stmt.clauses[k]),
         entity_exists(run[s], run[s].b + k, row.ent[x].id)
  PROVE  row.ent[x].ends = <<>> /\ Held(heap, run[s], row.ent[x].id)
<1> DEFINE r == run[s]
           e == row.ent[x]
           c == r.b + k
           n == Len(r.stmt.clauses)
<1>1. /\ Good(r, Entities) /\ Course(r) /\ GoneHeld(heap, r) /\ heap \in SUBSET Versions
      /\ \A v \in heap : v.id \in 1 .. ids
  BY DEF Lone, ActiveFacts, Safe
<1>2. r.stmt \in Statement /\ r.b \in Int /\ r.base \in Nat
  BY <1>1 DEF Good, Runs
<1>3. n \in Nat /\ k \in 1 .. n
  BY <1>2, ParsedStatement
<1>4. EntSafe(heap, ids, r, x, e)
  BY DEF RowSafe
<1>5. e.ends = <<>>
  BY <1>2, <1>4, PathNames DEF EntSafe
<1> HIDE DEF e, n
<1>6. c \in Int
  BY <1>2, <1>3
<1>6a. c = r.b + k
  OBVIOUS
<1> HIDE DEF c
<1>7. PICK v \in Visible(r, c) : v.id = e.id
  BY DEF entity_exists, e, c
<1>8. v \in heap /\ (IsOpen(v) \/ (v.xmax = r.xid /\ c >= 0 /\ v.cmax >= c))
  BY <1>6, SeenVersion
<1>9. v.ends = <<>> /\ e.id # 0 /\ v.cmax \in Int
  BY <1>1, <1>4, <1>5, <1>7, <1>8 DEF EntSafe, Alike, Versions
<1>10. CASE x \notin MergeVars(r.stmt)
  BY <1>4, <1>5, <1>9, <1>10 DEF EntSafe, e
<1>11. CASE x \in MergeVars(r.stmt)
  <2>1. CASE IsOpen(v)
    BY <1>5, <1>7, <1>8, <1>9, <2>1 DEF Held, Alive, e
  <2>2. CASE v.xmax = r.xid /\ v.cmax >= c
    <3>1. \A d \in Kinds(r.stmt, "delete") : d \in 1 .. n /\ ~(k \in 1 .. d - 1)
      BY <1>11 DEF Firm, Kinds, n
    <3>2. \A d \in Kinds(r.stmt, "delete") : d \in Int /\ d <= k
      BY <1>3, <3>1
    <3>3. c >= r.base
      <4>1. r.b >= r.base \/ \E d \in Kinds(r.stmt, "delete") : r.b + d >= r.base
        BY <1>1 DEF Course
      <4> QED
        BY <1>2, <1>3, <1>6a, <3>2, <4>1
    <3>4. v.cmax >= r.base
      BY <1>2, <1>6, <1>9, <2>2, <3>3
    <3>5. Held(heap, r, v.id)
      BY <1>1, <1>8, <1>9, <2>2, <3>4 DEF GoneHeld
    <3> QED
      BY <1>5, <1>7, <3>5 DEF e
  <2> QED
    BY <1>8, <2>1, <2>2
<1> QED
  BY <1>10, <1>11

\* The work of session s, at a clause of kind op.
LEMMA LoneWork ==
  ASSUME NEW s, Lone(s), NEW op, At(s, op)
  PROVE  LET r == run[s]
             w == Head(r.todo)
             c == r.stmt.clauses[w.k]
         IN  /\ r.phase = "rows" /\ Good(r, Entities) /\ r.todo # <<>> /\ Course(r)
             /\ w.row \in Rows(Entities) /\ w.j \in Nat
             /\ WorkFits(r.stmt, w) /\ Reaches(r.stmt, w.row, w.k)
             /\ r.stmt \in Statement /\ w.k \in 1 .. Len(r.stmt.clauses) /\ w.k \in Nat \ {0}
             /\ c \in Clause /\ c.op = op
             /\ RowSafe(heap, ids, r, w.row)
<1> DEFINE r == run[s]
           w == Head(r.todo)
<1>1. r.phase = "rows" /\ r.todo # <<>> /\ r.stmt.clauses[w.k].op = op
  BY DEF At
<1>2. Good(r, Entities) /\ Course(r) /\ RunSafe(heap, ids, r)
  BY <1>1 DEF Lone, Safe
<1>3. /\ w = r.todo[1] /\ 1 \in 1 .. Len(r.todo) /\ WorkFits(r.stmt, w)
      /\ r.stmt \in Statement /\ w.k \in 1 .. Len(r.stmt.clauses)
      /\ w.row \in Rows(Entities) /\ w.j \in Nat /\ r.stmt.clauses[w.k] \in Clause
  BY <1>1, <1>2, HeadGood
<1>4. w.k \in Nat \ {0}
  BY <1>3, ParsedStatement
<1>5. RowSafe(heap, ids, r, w.row)
  BY <1>2, <1>3 DEF RunSafe
<1>6. Reaches(r.stmt, w.row, w.k)
  BY <1>3, Zenon DEF WorkFits
<1> QED
  BY <1>1, <1>2, <1>3, <1>4, <1>5, <1>6, Zenon

\* The run goes on and looks at the same vertices.
Goes(r, q) ==
    q.stmt = r.stmt /\ q.xid = r.xid /\ q.base = r.base /\ Pending(q) = Pending(r)

\* The entities M are made with paths for row, by clause k.
Making(s, k, row, paths, m, cid) ==
    /\ Lone(s) /\ run[s].phase = "rows" /\ Firm(run[s].stmt)
    /\ k \in 1 .. Len(run[s].stmt.clauses)
    /\ row \in Rows(Entities) /\ RowSafe(heap, ids, run[s], row)
    /\ Earlier(paths) \subseteq DOMAIN row.ent /\ Earlier(paths) \subseteq OldNames(run[s].stmt.clauses[k])
    /\ \A x \in Earlier(paths) : entity_exists(run[s], run[s].b + k, row.ent[x].id)
    /\ MadeWell(m, row, paths, Entities) /\ MadeEnds(m, row, paths)
    /\ heap' = heap \cup VersionsOf(m.made, run[s].xid, cid) /\ ids' = m.last

\* The ends of what is made are held, and so is what the row is bound to.
MadeSafe(s, m, cid, q) ==
    /\ SameEnds(heap') /\ WholeGraph(heap', committed)
    /\ Onward(heap, ids, run[s], heap', ids', q) /\ NewHeld(heap, heap', q)
    /\ RowSafe(heap', ids', q, m.row)
    /\ \A w \in heap' : w \in heap \/ (w.xmin = run[s].xid /\ w.cmin = cid /\ IsOpen(w))

LEMMA MadeHeld ==
  ASSUME NEW s, NEW k, NEW row, NEW paths, NEW m, NEW cid, Making(s, k, row, paths, m, cid),
         NEW q, Goes(run[s], q)
  PROVE  MadeSafe(s, m, cid, q)
<1> DEFINE r == run[s]
<1>1. /\ Lone(s) /\ r.phase = "rows" /\ Firm(r.stmt) /\ k \in 1 .. Len(r.stmt.clauses)
      /\ RowSafe(heap, ids, r, row)
      /\ Earlier(paths) \subseteq DOMAIN row.ent /\ Earlier(paths) \subseteq OldNames(r.stmt.clauses[k])
      /\ \A x \in Earlier(paths) : entity_exists(r, r.b + k, row.ent[x].id)
      /\ heap' = heap \cup VersionsOf(m.made, r.xid, cid) /\ ids' = m.last
      /\ DOMAIN m.row.ent = DOMAIN row.ent \cup NewIn(paths)
  BY DEF Making, MadeWell
<1>2. /\ m.made \in SUBSET Entities /\ m.last \in Nat /\ ids <= m.last
      /\ \A e \in m.made : e.id \in (ids + 1) .. m.last
      /\ \A e, f \in m.made : e.id = f.id => e = f
  BY DEF Making, MadeWell
<1>3. /\ \A x \in NewIn(paths) : m.row.ent[x] \in m.made /\ m.row.ent[x].ends = <<>>
      /\ \A x \in DOMAIN row.ent \ NewIn(paths) : m.row.ent[x] = row.ent[x]
      /\ \A e \in m.made : \A i \in DOMAIN e.ends :
            \E x \in NewIn(paths) \cup Earlier(paths) : e.ends[i] = m.row.ent[x].id
  BY DEF Making, MadeEnds
<1>4. /\ SameEnds(heap') /\ WholeGraph(heap', committed)
      /\ \A e : Alike(heap, ids, e) => Alike(heap', ids', e)
      /\ \A e \in m.made : Alike(heap', ids', e) /\ (e.ends = <<>> => Alive(heap', e.id))
      /\ \A id : Alive(heap, id) => Alive(heap', id)
      /\ \A w \in heap' : \/ w \in heap
                          \/ /\ w.xmin = r.xid /\ w.cmin = cid /\ IsOpen(w)
                             /\ \E e \in m.made : w.id = e.id /\ w.ends = e.ends
  <2>1. Fresh(heap, ids, m.made, m.last)
    BY <1>1, <1>2 DEF Fresh, Lone, ActiveFacts
  <2>2. WholeGraph(heap', committed) /\ Joined(heap, ids, m.made, m.last, heap') /\ GrownBy(m.made, r.xid, cid)
    BY <1>1, <2>1, InsertUpheld
  <2> QED
    BY <1>1, <2>2 DEF Joined, GrownBy
<1>5. Onward(heap, ids, r, heap', ids', q)
  BY <1>4 DEF Onward, Goes, Held
<1>6. \A x \in NewIn(paths) : Held(heap', q, m.row.ent[x].id)
  BY <1>3, <1>4 DEF Held
<1>7. \A x \in Earlier(paths) : m.row.ent[x] = row.ent[x]
  BY <1>1, <1>3 DEF Earlier, NewIn
<1>8. \A x \in Earlier(paths) : Held(heap', q, m.row.ent[x].id)
  <2> SUFFICES ASSUME NEW x \in Earlier(paths) PROVE Held(heap', q, row.ent[x].id)
    BY <1>7
  <2>1. x \in DOMAIN row.ent /\ x \in OldNames(r.stmt.clauses[k]) /\ entity_exists(r, r.b + k, row.ent[x].id)
    BY <1>1
  <2>2. Held(heap, r, row.ent[x].id)
    BY <1>1, <2>1, ExistsHeld
  <2> QED
    BY <1>5, <2>2 DEF Onward
<1>9. NewHeld(heap, heap', q)
  <2>1. ASSUME NEW e \in heap', IsOpen(e), e \notin heap, NEW i \in DOMAIN e.ends
        PROVE  Held(heap', q, e.ends[i])
    <3>1. PICK f \in m.made : e.ends = f.ends
      BY <1>4, <2>1
    <3>2. PICK x \in NewIn(paths) \cup Earlier(paths) : e.ends[i] = m.row.ent[x].id
      BY <1>3, <3>1
    <3> QED
      BY <1>6, <1>8, <3>2
  <2>2. ASSUME NEW v \in heap', v.xmax = q.xid PROVE v \in heap
    <3>1. q.xid # NoXid
      BY <1>1 DEF Goes, Lone
    <3> QED
      BY <1>4, <2>2, <3>1 DEF IsOpen
  <2> QED
    BY <2>1, <2>2 DEF NewHeld
<1>10. RowSafe(heap', ids', q, m.row)
  <2> SUFFICES ASSUME NEW x \in DOMAIN m.row.ent PROVE EntSafe(heap', ids', q, x, m.row.ent[x])
    BY DEF RowSafe
  <2>1. CASE x \in NewIn(paths)
    BY <1>3, <1>4, <1>6, <2>1 DEF EntSafe
  <2>2. CASE x \notin NewIn(paths)
    <3>1. x \in DOMAIN row.ent /\ m.row.ent[x] = row.ent[x]
      BY <1>1, <1>3, <2>2
    <3>2. RowSafe(heap', ids', q, row)
      BY <1>1, <1>5, RowSafeKept
    <3> QED
      BY <3>1, <3>2 DEF RowSafe
  <2> QED
    BY <2>1, <2>2
<1> QED
  BY <1>4, <1>5, <1>9, <1>10 DEF MadeSafe

-----------------------------------------------------------------------------
(* CREATE *)

\* A clause that has written a row hands it on.
Writing(r, k, u) ==
    /\ Good(r, Entities) /\ Course(r) /\ r.phase = "rows" /\ r.todo # <<>>
    /\ k \in 1 .. Len(r.stmt.clauses) /\ r.stmt.clauses[k].op \in {"create", "set"}
    /\ Good(u, Entities) /\ Steady(r, u) /\ SameLists(r, u) /\ u.b = r.b /\ u.G = r.G
    /\ u.todo = r.todo

WritesOut(r, u, row, q) ==
    /\ Steady(r, q) /\ SameLists(r, q) /\ Goes(r, q) /\ Course(q) /\ Counts(u, q) /\ q.G \in Nat
    /\ \A i \in 1 .. Len(q.todo) :
          \/ q.todo[i].row = row
          \/ \E j \in 1 .. Len(r.todo) : q.todo[i].row = r.todo[j].row

LEMMA WrittenRun ==
  ASSUME NEW r, NEW k, NEW u, Writing(r, k, u), NEW row \in Rows(Entities),
         NEW q, q = RowWritten(u, k, row)
  PROVE  WritesOut(r, u, row, q)
<1>0. /\ Good(r, Entities) /\ Course(r) /\ r.phase = "rows" /\ r.todo # <<>>
      /\ k \in 1 .. Len(r.stmt.clauses) /\ r.stmt.clauses[k].op \in {"create", "set"}
      /\ Good(u, Entities) /\ Steady(r, u) /\ SameLists(r, u) /\ u.b = r.b /\ u.G = r.G
      /\ u.todo = r.todo
  BY DEF Writing
<1>1. u.todo # <<>> /\ k \in 1 .. Len(u.stmt.clauses) /\ r.G \in Nat
  BY <1>0 DEF Steady, Good, Runs
<1>2. /\ Steady(u, q) /\ SameLists(u, q) /\ q.b = u.b
      /\ Terminal(u, k) => q.G = u.G /\ q.used = u.used
      /\ ~Terminal(u, k) => (~q.used /\ q.G = IF u.used THEN u.G + 1 ELSE u.G)
      /\ \A i \in 1 .. Len(q.todo) :
            \/ q.todo[i].row = row
            \/ \E j \in 1 .. Len(u.todo) : q.todo[i].row = u.todo[j].row
  <2>1. Hands(u, k, row, q)
    BY <1>0, <1>1, RowWrittenRun
  <2> QED
    BY <2>1 DEF Hands
<1>3. Steady(r, q) /\ SameLists(r, q)
  BY <1>0, <1>2 DEF Steady, SameLists
<1>4. Goes(r, q)
  BY <1>3, SamePending DEF Goes, Steady, SameLists
<1>5. r.G <= q.G /\ Counts(u, q) /\ q.G \in Nat
  BY <1>0, <1>1, <1>2 DEF Counts
<1>6. q.used => WritesLast(q)
  <2> SUFFICES ASSUME q.used PROVE WritesLast(q)
    OBVIOUS
  <2>1. Terminal(u, k)
    BY <1>2
  <2>2. k = Len(q.stmt.clauses) /\ Terminal(q, k) /\ q.stmt.clauses[k].op \in {"create", "set"}
    BY <1>0, <1>2, <1>3, <2>1 DEF Terminal, Steady
  <2> QED
    BY <2>2 DEF WritesLast
<1>7. Course(q)
  <2>1. r.base <= q.G
    <3>1. r.base \in Nat /\ r.base <= r.G
      BY <1>0 DEF Course, Good, Runs
    <3> QED
      BY <1>1, <1>5, <3>1
  <2> QED
    BY <1>0, <1>2, <1>3, <1>6, <2>1 DEF Course, Steady, SameLists
<1> QED
  <2>1. \A i \in 1 .. Len(q.todo) : \/ q.todo[i].row = row
                                    \/ \E j \in 1 .. Len(r.todo) : q.todo[i].row = r.todo[j].row
    BY <1>0, <1>2
  <2> QED
    BY <1>3, <1>4, <1>5, <1>7, <2>1 DEF WritesOut

\* A row and the work that waits are safe for the run that goes on.
LEMMA RowsSafe ==
  ASSUME NEW H, NEW n, NEW r, NEW q, Steady(r, q), NEW row, RowSafe(H, n, q, row),
         q.created = r.created, q.inner = r.inner,
         \A i \in 1 .. Len(q.todo) :
               \/ q.todo[i].row = row
               \/ \E j \in 1 .. Len(r.todo) : q.todo[i].row = r.todo[j].row
  PROVE  NewSafe(H, n, r, q)
BY DEF NewSafe, Steady

LEMMA CountsPast ==
  ASSUME NEW r, NEW q, Counts(r, q), r.G \in Nat, q.G \in Nat, r.used
  PROVE  r.G < q.G \/ (r.G = q.G /\ q.used)
BY DEF Counts

LEMMA CreateOn ==
  ASSUME NEW s, Lone(s), At(s, "create"), NEW r, r = run[s], NEW w, w = Head(r.todo), NEW m,
         Making(s, w.k, w.row, r.stmt.clauses[w.k].paths, m, r.G),
         run'[s] = RowWritten([r EXCEPT !.used = TRUE], w.k, m.row)
  PROVE  Upheld(s)
<1> DEFINE u == [r EXCEPT !.used = TRUE]
           q == RowWritten(u, w.k, m.row)
<1>1. /\ r.phase = "rows" /\ Good(r, Entities) /\ r.todo # <<>> /\ Course(r)
      /\ w.k \in 1 .. Len(r.stmt.clauses) /\ r.stmt.clauses[w.k].op = "create"
  BY LoneWork, Zenon
<1>2. m.row \in Rows(Entities)
  BY Zenon DEF Making, MadeWell
<1>3. /\ Good(u, Entities) /\ Steady(r, u) /\ SameLists(r, u) /\ u.b = r.b /\ u.todo = r.todo
      /\ u.G = r.G /\ u.used
  BY <1>1, UsedRun, ZenonT(60)
<1> HIDE DEF u
<1>4. /\ Steady(r, q) /\ SameLists(r, q) /\ Goes(r, q) /\ Course(q) /\ Counts(u, q) /\ q.G \in Nat
      /\ \A i \in 1 .. Len(q.todo) :
            \/ q.todo[i].row = m.row
            \/ \E j \in 1 .. Len(r.todo) : q.todo[i].row = r.todo[j].row
  <2>1. WritesOut(r, u, m.row, q)
    <3>1. Writing(r, w.k, u)
      BY <1>1, <1>3, Zenon DEF Writing
    <3> QED
      BY <1>2, <3>1, WrittenRun
  <2> QED
    BY <2>1, ZenonT(60) DEF WritesOut
<1>5. run'[s] = q
  BY Zenon DEF u
<1> HIDE DEF q
<1>6. MadeSafe(s, m, r.G, q)
  BY <1>4, MadeHeld
<1>7. Stamped(heap', q)
  <2>1. Stamped(heap, r) /\ heap \in SUBSET Versions /\ r.G \in Nat /\ r.xid # NoXid
    BY ZenonT(30) DEF Lone, Safe, ActiveFacts
  <2>1a. u.G = r.G /\ u.used /\ u.G \in Nat /\ u.xid = r.xid /\ Counts(r, u)
    BY <1>3, <2>1, Zenon DEF Counts, Steady
  <2>2. Stamped(heap, u)
    BY <2>1, <2>1a, StampKept, Zenon
  <2>2a. q.G \in Nat /\ q.xid = u.xid /\ Counts(u, q)
    BY <1>4, <2>1a, Zenon DEF Steady
  <2>3. Stamped(heap, q)
    BY <2>1, <2>1a, <2>2, <2>2a, StampKept, Zenon
  <2>4. r.G < q.G \/ (r.G = q.G /\ q.used)
    BY <2>1a, <2>2a, CountsPast, Zenon
  <2>5. \A v \in heap' : v \in heap \/ (v.xmin = r.xid /\ v.cmin = r.G /\ v.xmax = NoXid)
    BY <1>6 DEF MadeSafe, IsOpen
  <2> QED
    BY <1>4, <2>1, <2>3, <2>4, <2>5, Zenon DEF Stamped, Steady
<1>8. NewSafe(heap', ids', r, q)
  BY <1>4, <1>6, RowsSafe, ZenonT(60) DEF MadeSafe, SameLists
<1> QED
  BY <1>1, <1>4, <1>5, <1>6, <1>7, <1>8, Going, Zenon DEF MadeSafe

LEMMA CreateUpheld ==
  ASSUME NEW s, Lone(s), exec_cypher_create(s), \A st \in Statement : Firm(st)
  PROVE  Upheld(s) \/ Fail(s)
<1> DEFINE r    == run[s]
           w    == Head(r.todo)
           c    == r.stmt.clauses[w.k]
           paths == c.paths
           row  == w.row
           m    == MadePaths(row, paths)
           q    == RowWritten([r EXCEPT !.used = TRUE], w.k, m.row)
<1>1. At(s, "create")
  BY Zenon DEF exec_cypher_create
<1>2. SUFFICES ASSUME /\ \A x \in Earlier(paths) : entity_exists(r, r.b + w.k, row.ent[x].id)
                      /\ heap' = heap \cup {Version(e, r.xid, r.G) : e \in m.made}
                      /\ ids' = m.last
                      /\ run' = [run EXCEPT ![s] = q]
               PROVE  Upheld(s)
  BY ZenonT(60) DEF exec_cypher_create
<1>3. /\ r.phase = "rows" /\ Good(r, Entities) /\ r.todo # <<>>
      /\ row \in Rows(Entities) /\ Reaches(r.stmt, row, w.k) /\ RowSafe(heap, ids, r, row)
      /\ r.stmt \in Statement /\ w.k \in 1 .. Len(r.stmt.clauses)
      /\ c \in Clause /\ c.op = "create"
  BY <1>1, LoneWork
<1>4. /\ paths \in Seq(Seq(Node)) /\ Earlier(paths) \subseteq DOMAIN row.ent
      /\ Earlier(paths) \subseteq OldNames(c)
  <2>1. Earlier(paths) \subseteq Scope(r.stmt, w.k)
    BY <1>3, ParsedStatement, ZenonT(60)
  <2>2. Nodes(c) = UNION {ToSet(path) : path \in ToSet(paths)}
    BY <1>3 DEF Nodes
  <2>3. Earlier(paths) \subseteq OldNames(c)
    BY <2>2, Zenon DEF Earlier, OldNames
  <2> QED
    BY <1>3, <2>1, <2>3, ClauseFields, Zenon DEF Reaches
<1>5. MadeWell(m, row, paths, Entities) /\ MadeEnds(m, row, paths)
  <2>1. ids \in Nat
    BY DEF Lone, ActiveFacts
  <2>2. /\ paths \in Seq(Seq(Node)) /\ row \in Rows(Entities) /\ Earlier(paths) \subseteq DOMAIN row.ent
        /\ m = MadePaths(row, paths)
    BY <1>3, <1>4, Zenon
  <2>3. Entities \subseteq Entities /\ \A e \in Entities : e.id > ids => e \in Entities
    OBVIOUS
  <2> HIDE DEF r, w, c, row, paths, m
  <2> QED
    BY <2>1, <2>2, <2>3, MadePathsGood
<1>6. heap' = heap \cup VersionsOf(m.made, r.xid, r.G)
  BY <1>2, Zenon DEF VersionsOf
<1> HIDE DEF m, row
<1>7. Making(s, w.k, row, paths, m, r.G)
  BY <1>2, <1>3, <1>4, <1>5, <1>6, Zenon DEF Making
<1>8. run'[s] = q
  BY <1>2 DEF Lone, ActiveFacts
<1> QED
  BY <1>1, <1>7, <1>8, CreateOn DEF row

-----------------------------------------------------------------------------
(* SET and REMOVE *)

LEMMA CourseSame ==
  ASSUME NEW r, NEW q, Course(r), r.phase = "rows",
         q.stmt = r.stmt, q.base = r.base, q.G = r.G, q.b = r.b, q.level = r.level,
         q.phase = r.phase, q.deleted = r.deleted,
         q.todo # <<>>, q.stmt.clauses[Head(q.todo).k].op = "set"
  PROVE  Course(q)
BY DEF Course

LEMMA SetNextRun ==
  ASSUME NEW r, NEW w, w = Head(r.todo), r.stmt.clauses[w.k].op = "set",
         NEW u, Writing(r, w.k, u), NEW said \in SUBSET Items, NEW row \in Rows(Entities),
         NEW n, NEW q, q = SetNext(u, w, n, row, said)
  PROVE  WritesOut(r, u, row, q)
<1> DEFINE t == [u EXCEPT !.said = said]
<1>1. /\ Good(r, Entities) /\ Course(r) /\ r.phase = "rows" /\ r.todo # <<>>
      /\ w.k \in 1 .. Len(r.stmt.clauses) /\ r.stmt.clauses[w.k].op \in {"create", "set"}
      /\ Good(u, Entities) /\ Steady(r, u) /\ SameLists(r, u) /\ u.b = r.b /\ u.G = r.G
      /\ u.todo = r.todo
  BY DEF Writing
<1>2. /\ Good(t, Entities) /\ Steady(u, t) /\ SameLists(u, t) /\ t.b = u.b /\ t.G = u.G
      /\ t.used = u.used /\ t.todo = u.todo
  <2>1. t = [u EXCEPT !.said = said] /\ Good(u, Entities)
    BY <1>1
  <2> HIDE DEF t
  <2> QED
    BY <2>1, SaidRun
<1>3. /\ w.j < n => q = Turned(t, w.j + 1, row)
      /\ ~(w.j < n) => q = RowWritten(t, w.k, row)
  BY DEF SetNext, Turned
<1> HIDE DEF t
<1>4. Steady(r, t) /\ SameLists(r, t) /\ t.b = r.b /\ t.G = r.G /\ t.todo = r.todo
  BY <1>1, <1>2 DEF Steady, SameLists
<1>5. CASE w.j < n
  <2> DEFINE j == w.j + 1
  <2>1. j \in Nat
    <3>1. w.j \in Nat
      BY <1>1, HeadGood
    <3> QED
      BY <3>1
  <2>2. q = Turned(t, j, row)
    BY <1>3, <1>5
  <2> HIDE DEF j
  <2>3. t.todo # <<>>
    BY <1>1, <1>4
  <2>4. /\ Steady(t, q) /\ SameLists(t, q) /\ q.b = t.b /\ q.G = t.G /\ q.used = t.used
        /\ q.todo # <<>> /\ Head(q.todo).k = Head(t.todo).k
        /\ \A i \in 1 .. Len(q.todo) :
              \/ q.todo[i].row = row
              \/ \E o \in 1 .. Len(t.todo) : q.todo[i].row = t.todo[o].row
    BY <1>2, <2>1, <2>2, <2>3, ItemRun
  <2>5. Steady(r, q) /\ SameLists(r, q) /\ q.b = r.b /\ q.G = r.G
    BY <1>4, <2>4 DEF Steady, SameLists
  <2>6. Goes(r, q)
    BY <2>5, SamePending DEF Goes, Steady, SameLists
  <2>7. Counts(u, q) /\ q.G \in Nat
    <3>1. u.G \in Nat
      BY <1>1 DEF Good, Runs
    <3>2. q.G = u.G /\ q.used = u.used
      BY <1>2, <2>4, ZenonT(30)
    <3> QED
      BY <3>1, <3>2 DEF Counts
  <2>8. Course(q)
    <3>1. q.todo # <<>> /\ q.stmt.clauses[Head(q.todo).k].op = "set"
      <4>1. q.todo # <<>> /\ Head(q.todo).k = Head(t.todo).k
        BY <2>4, ZenonT(30)
      <4>2. t.todo = r.todo
        BY <1>4, ZenonT(30)
      <4>3. q.stmt = r.stmt
        BY <2>5, ZenonT(30) DEF Steady
      <4>4. Head(q.todo).k = w.k
        BY <4>1, <4>2, ZenonT(30)
      <4> HIDE DEF t
      <4> QED
        BY <4>1, <4>3, <4>4, ZenonT(30)
    <3>2. /\ q.stmt = r.stmt /\ q.base = r.base /\ q.G = r.G /\ q.b = r.b /\ q.level = r.level
          /\ q.phase = r.phase /\ q.deleted = r.deleted
      BY <2>5 DEF Steady, SameLists
    <3>3. Course(r) /\ r.phase = "rows"
      BY <1>1
    <3> HIDE DEF t
    <3> QED
      BY <3>1, <3>2, <3>3, CourseSame, ZenonT(30)
  <2>9. \A i \in 1 .. Len(q.todo) : \/ q.todo[i].row = row
                                    \/ \E o \in 1 .. Len(r.todo) : q.todo[i].row = r.todo[o].row
    BY <1>4, <2>4, SMTT(60)
  <2> QED
    BY <2>5, <2>6, <2>7, <2>8, <2>9 DEF WritesOut
<1>6. CASE ~(w.j < n)
  <2>1. Writing(r, w.k, t)
    BY <1>1, <1>2, <1>4 DEF Writing
  <2>2. q = RowWritten(t, w.k, row)
    BY <1>3, <1>6
  <2>3. WritesOut(r, t, row, q)
    BY <2>1, <2>2, WrittenRun
  <2> QED
    BY <1>2, <2>3 DEF WritesOut, Counts
<1> QED
  BY <1>5, <1>6

\* A row is as safe with an altered entity.
LEMMA AlteredSafe ==
  ASSUME NEW H, NEW n, NEW q, NEW old \in Rows(Entities), RowSafe(H, n, q, old),
         NEW x \in DOMAIN old.ent, NEW to, to.id = old.ent[x].id, to.ends = old.ent[x].ends,
         NEW row, row = [old EXCEPT !.ent[x] = to]
  PROVE  RowSafe(H, n, q, row)
<1> DEFINE ent == [old.ent EXCEPT ![x] = to]
<1>1. old.ent \in [DOMAIN old.ent -> Entities]
  BY BindingsFields DEF Rows
<1>2. row.ent = ent
  BY DEF Rows
<1>3. DOMAIN ent = DOMAIN old.ent /\ \A y \in DOMAIN ent : ent[y] = IF y = x THEN to ELSE old.ent[y]
  BY <1>1
<1> HIDE DEF ent
<1>4. ASSUME NEW y \in DOMAIN ent PROVE EntSafe(H, n, q, y, ent[y])
  <2>1. EntSafe(H, n, q, y, old.ent[y])
    BY <1>3 DEF RowSafe
  <2>2. ent[y].id = old.ent[y].id /\ ent[y].ends = old.ent[y].ends
    BY <1>3
  <2> QED
    BY <2>1, <2>2 DEF EntSafe, Alike
<1> QED
  BY <1>2, <1>4 DEF RowSafe

LEMMA CountsOn ==
  ASSUME NEW r, NEW u, NEW q, u.G = r.G, r.used => u.used, Counts(u, q)
  PROVE  Counts(r, q)
BY DEF Counts

\* Session s is at an item of SET; row and said are what the item leaves.
SetAt(s, w, row, said) ==
    /\ Lone(s) /\ At(s, "set") /\ w = Head(run[s].todo)
    /\ row \in Rows(Entities) /\ said \in SUBSET Items /\ RowSafe(heap, ids, run[s], row)

LEMMA SetGoes ==
  ASSUME NEW s, NEW w, NEW row, NEW said, SetAt(s, w, row, said),
         NEW r, r = run[s], NEW u, u = r \/ u = [r EXCEPT !.used = TRUE],
         NEW n, NEW q, q = SetNext(u, w, n, row, said)
  PROVE  /\ Lone(s) /\ r.phase = "rows" /\ WritesOut(r, u, row, q)
         /\ u.G = r.G /\ (r.used => u.used) /\ (u # r => u.used) /\ r.G \in Nat
         /\ RowSafe(heap, ids, r, row)
<1>1. /\ Lone(s) /\ At(s, "set") /\ w = Head(r.todo) /\ row \in Rows(Entities)
      /\ said \in SUBSET Items /\ RowSafe(heap, ids, r, row)
  BY ZenonT(30) DEF SetAt
<1>2. /\ r.phase = "rows" /\ Good(r, Entities) /\ r.todo # <<>> /\ Course(r)
      /\ w.k \in 1 .. Len(r.stmt.clauses) /\ r.stmt.clauses[w.k].op = "set"
  BY <1>1, LoneWork
<1>3. /\ Good(u, Entities) /\ Steady(r, u) /\ SameLists(r, u) /\ u.b = r.b /\ u.todo = r.todo
      /\ u.G = r.G /\ (r.used => u.used) /\ (u # r => u.used)
  <2>1. CASE u = r
    BY <1>2, <2>1 DEF Steady, SameLists
  <2>2. CASE u = [r EXCEPT !.used = TRUE]
    BY <1>2, <2>2, UsedRun
  <2> QED
    BY <2>1, <2>2
<1>4. Writing(r, w.k, u)
  BY <1>2, <1>3 DEF Writing
<1>5. WritesOut(r, u, row, q)
  BY <1>1, <1>2, <1>4, SetNextRun
<1>6. r.G \in Nat
  BY <1>2 DEF Good, Runs
<1> QED
  BY <1>1, <1>2, <1>3, <1>5, <1>6

\* No version is written.
LEMMA SetWaits ==
  ASSUME NEW s, NEW w, NEW row, NEW said, SetAt(s, w, row, said),
         NEW r, r = run[s], NEW u, u = r \/ u = [r EXCEPT !.used = TRUE],
         NEW n, run'[s] = SetNext(u, w, n, row, said), UNCHANGED <<heap, ids>>
  PROVE  Upheld(s)
<1> DEFINE q == SetNext(u, w, n, row, said)
<1>0. run'[s] = q
  OBVIOUS
<1>1. /\ Lone(s) /\ r.phase = "rows" /\ WritesOut(r, u, row, q)
      /\ u.G = r.G /\ (r.used => u.used) /\ RowSafe(heap, ids, r, row)
  BY SetGoes
<1> HIDE DEF q
<1>2. /\ Steady(r, q) /\ SameLists(r, q) /\ Goes(r, q) /\ Course(q) /\ Counts(u, q) /\ q.G \in Nat
      /\ \A i \in 1 .. Len(q.todo) :
            \/ q.todo[i].row = row
            \/ \E j \in 1 .. Len(r.todo) : q.todo[i].row = r.todo[j].row
  BY <1>1 DEF WritesOut
<1>3. Counts(r, q)
  BY <1>1, <1>2, CountsOn
<1>4. Onward(heap, ids, r, heap, ids, q)
  BY <1>2 DEF Onward, Goes, Held
<1>5. RowSafe(heap, ids, q, row)
  BY <1>1, <1>4, RowSafeKept
<1>6. NewSafe(heap, ids, r, q)
  BY <1>2, <1>5, RowsSafe DEF SameLists
<1>7. /\ q.stmt = r.stmt /\ q.xid = r.xid /\ q.base = r.base /\ q.phase = r.phase
      /\ q.level = r.level /\ q.deleted = r.deleted
  BY <1>2 DEF Steady, SameLists
<1> QED
  BY <1>0, <1>1, <1>2, <1>3, <1>6, <1>7, Quiet

\* A version is replaced.
LEMMA SetWrites ==
  ASSUME NEW s, NEW w, NEW row, NEW said, SetAt(s, w, row, said),
         NEW r, r = run[s], NEW u, u = [r EXCEPT !.used = TRUE],
         NEW v \in heap, IsOpen(v), NEW to \in Entities, to.id = v.id, to.ends = v.ends,
         NEW n, run'[s] = SetNext(u, w, n, row, said), heap' = Written(r, v, to), ids' = ids
  PROVE  Upheld(s)
<1> DEFINE q == SetNext(u, w, n, row, said)
<1>0. run'[s] = q
  OBVIOUS
<1>1. /\ Lone(s) /\ r.phase = "rows" /\ WritesOut(r, u, row, q)
      /\ u.G = r.G /\ (u # r => u.used) /\ r.G \in Nat /\ RowSafe(heap, ids, r, row)
  BY SetGoes
<1> HIDE DEF q
<1>1a. u.used
  BY <1>1 DEF Lone, Good, Runs
<1>2. /\ Steady(r, q) /\ SameLists(r, q) /\ Goes(r, q) /\ Course(q) /\ Counts(u, q) /\ q.G \in Nat
      /\ \A i \in 1 .. Len(q.todo) :
            \/ q.todo[i].row = row
            \/ \E j \in 1 .. Len(r.todo) : q.todo[i].row = r.todo[j].row
  BY <1>1 DEF WritesOut
<1>3. Counts(r, q)
  BY <1>1, <1>1a, <1>2, CountsOn
<1>4. /\ SameEnds(heap') /\ WholeGraph(heap', committed)
      /\ \A f : Alike(heap, ids, f) => Alike(heap', ids, f)
      /\ \A id : Alive(heap, id) => Alive(heap', id)
      /\ v.ends = <<>> => Alive(heap', v.id)
      /\ \A x \in heap' : \/ x \in heap /\ x # v
                          \/ /\ x.id = v.id /\ x.ends = v.ends /\ ~IsOpen(x)
                             /\ x.xmin = v.xmin /\ x.cmin = v.cmin
                             /\ x.xmax = r.xid /\ x.cmax = r.G
                          \/ /\ x.id = v.id /\ x.ends = v.ends /\ IsOpen(x)
                             /\ x.xmin = r.xid /\ x.cmin = r.G
  BY <1>1, ReplaceUpheld
<1>5. Onward(heap, ids, r, heap', ids', q)
  BY <1>2, <1>4 DEF Onward, Goes, Held
<1>6. NewHeld(heap, heap', q)
  <2>1. \A x \in heap' : IsOpen(x) => \E f \in heap : IsOpen(f) /\ f.ends = x.ends
    BY <1>4
  <2>2. \A x \in heap' : x \in heap \/ (x.id = v.id /\ x.ends = v.ends)
    BY <1>4
  <2>3. \A x \in heap' : x.ends = <<>> => x \in heap \/ Held(heap', q, x.id)
    BY <1>4, <2>2 DEF Held
  <2> QED
    BY <2>1, <2>3 DEF NewHeld
<1>7. Stamped(heap', q)
  <2>1. Stamped(heap, r) /\ heap \in SUBSET Versions /\ r.xid # NoXid
    BY <1>1 DEF Lone, Safe, ActiveFacts
  <2>2. q.xid = r.xid
    BY <1>2 DEF Steady
  <2>3. Stamped(heap, q)
    BY <1>1, <1>2, <1>3, <2>1, <2>2, StampKept
  <2>4. r.G < q.G \/ (r.G = q.G /\ q.used)
    BY <1>1, <1>1a, <1>2 DEF Counts
  <2> SUFFICES ASSUME NEW x \in heap'
               PROVE  /\ x.xmin = q.xid => x.cmin < q.G \/ (x.cmin = q.G /\ q.used)
                      /\ x.xmax = q.xid => x.cmax < q.G \/ (x.cmax = q.G /\ q.used)
    BY DEF Stamped
  <2>5. CASE x \in heap
    BY <2>3, <2>5 DEF Stamped
  <2>6. CASE x.xmin = v.xmin /\ x.cmin = v.cmin /\ x.xmax = r.xid /\ x.cmax = r.G
    <3>1. x.xmin = q.xid => x.cmin < q.G \/ (x.cmin = q.G /\ q.used)
      BY <2>3, <2>6 DEF Stamped
    <3> QED
      BY <2>4, <2>6, <3>1
  <2>7. CASE IsOpen(x) /\ x.xmin = r.xid /\ x.cmin = r.G
    BY <2>1, <2>2, <2>4, <2>7 DEF IsOpen
  <2> QED
    BY <1>4, <2>5, <2>6, <2>7
<1>8. NewSafe(heap', ids', r, q)
  <2>1. RowSafe(heap', ids', q, row)
    BY <1>1, <1>5, RowSafeKept
  <2> QED
    BY <1>2, <2>1, RowsSafe DEF SameLists
<1> QED
  BY <1>0, <1>1, <1>2, <1>4, <1>5, <1>6, <1>7, <1>8, Going

LEMMA AlteredEnds ==
  ASSUME NEW e \in Entities, NEW item \in Item
  PROVE  Altered(e, item).id = e.id /\ Altered(e, item).ends = e.ends
<1> DEFINE prop == [e.prop EXCEPT ![item.p] = item.v]
<1>1. Altered(e, item) = [e EXCEPT !.prop = prop]
  BY DEF Altered, Entities
<1> HIDE DEF prop
<1> QED
  BY <1>1 DEF Entities

LEMMA SetUpheld ==
  ASSUME NEW s, Lone(s), process_update_list(s)
  PROVE  Upheld(s) \/ Fail(s)
<1> DEFINE r       == run[s]
           w       == Head(r.todo)
           items   == r.stmt.clauses[w.k].items
           n       == Len(items)
           item    == items[w.j]
           ent     == w.row.ent
           e       == ent[item.var]
           to      == Altered(e, item)
           row     == IF e = Null THEN w.row ELSE [w.row EXCEPT !.ent[item.var] = to]
           nulls   == \E i \in DOMAIN items : w.row.ent[items[i].var] = Null
           m       == [at |-> r.at, id |-> e.id, n |-> w.row.n, k |-> w.k, j |-> w.j,
                       var |-> item.var, p |-> item.p, v |-> item.v, nulls |-> nulls]
           said    == IF e = Null THEN r.said ELSE r.said \cup {m}
           next(q) == SetNext(q, w, n, row, said)
           u       == [r EXCEPT !.used = TRUE]
           written == {v \in Visible(r, r.G) : v.id = e.id}
<1>1. At(s, "set")
  BY Zenon DEF process_update_list
<1>2. \/ run' = [run EXCEPT ![s] = next(r)] /\ UNCHANGED <<heap, committed, ids>>
      \/ /\ e # Null
         /\ \E v \in written :
               \/ /\ LockResult(r, v) = "Ok" /\ heap' = Written(r, v, to)
                  /\ run' = [run EXCEPT ![s] = next(u)] /\ UNCHANGED <<committed, ids>>
               \/ /\ run' = [run EXCEPT ![s] = next(u)] /\ UNCHANGED <<heap, committed, ids>>
               \/ Fail(s)
  BY ZenonT(60) DEF process_update_list, SetNext
<1>3. /\ Good(r, Entities) /\ w.row \in Rows(Entities) /\ Reaches(r.stmt, w.row, w.k)
      /\ r.stmt \in Statement /\ w.k \in 1 .. Len(r.stmt.clauses)
      /\ r.stmt.clauses[w.k] \in Clause /\ r.stmt.clauses[w.k].op = "set"
      /\ WorkFits(r.stmt, w) /\ r \in Runs(Entities) /\ w.j \in Nat /\ s \in DOMAIN run
      /\ RowSafe(heap, ids, r, w.row)
  BY <1>1, LoneWork DEF Good, Lone, ActiveFacts
<1>4. /\ items \in Seq(Item) /\ w.j \in 1 .. Len(items)
      /\ {i.var : i \in ToSet(items)} \subseteq DOMAIN ent
  <2>1. items \in Seq(Item) /\ w.j \in 1 .. Len(items)
    BY <1>3, ClauseFields DEF WorkFits
  <2>2. {i.var : i \in ToSet(items)} \subseteq Scope(r.stmt, w.k)
    BY <1>3, ParsedStatement
  <2> HIDE DEF items
  <2> QED
    BY <1>3, <2>1, <2>2 DEF Reaches
<1>5. item \in Item /\ item.var \in DOMAIN ent /\ e \in Entities
  <2> HIDE DEF items, ent
  <2> DEFINE j == w.j
  <2>1. items \in Seq(Item) /\ j \in 1 .. Len(items)
    BY <1>4
  <2> HIDE DEF w, j
  <2>2. items[j] \in Item /\ items[j] \in ToSet(items)
    BY <2>1 DEF ToSet
  <2>3. ent \in [DOMAIN ent -> Entities]
    BY <1>3, BindingsFields DEF Rows, ent
  <2>4. item \in Item /\ item \in ToSet(items)
    BY <2>2 DEF j
  <2> HIDE DEF item
  <2>5. item.var \in DOMAIN ent
    BY <1>4, <2>4
  <2> QED
    BY <2>3, <2>4, <2>5
<1> HIDE DEF item
<1>6. /\ to \in Entities /\ to.id = e.id /\ to.ends = e.ends /\ e \in Entities
      /\ item.p \in Prop /\ item.v \in Values /\ item.var \in Name
  <2> HIDE DEF e
  <2> QED
    BY <1>5, AlteredEntity, AlteredEnds
<1>7. said \in SUBSET Items
  <2>1. nulls \in BOOLEAN
    BY Zenon
  <2> HIDE DEF nulls
  <2>2. r.said \in SUBSET Items /\ r.at \in Nat /\ w.row.n \in Nat /\ e.id \in Nat
    <3> HIDE DEF e, ent
    <3>1. r.said \in SUBSET Items /\ r.at \in Nat
      BY <1>3 DEF Runs
    <3>2. w.row.n \in Nat /\ e.id \in Nat
      BY <1>3, <1>6 DEF Rows, Entities
    <3> QED
      BY <3>1, <3>2
  <2> HIDE DEF e
  <2>3. m \in Items
    BY <1>3, <1>6, <2>1, <2>2, SMTT(90) DEF Items
  <2> HIDE DEF m
  <2> QED
    BY <2>2, <2>3
<1> HIDE DEF said, to, items, n
<1>8. row \in Rows(Entities) /\ RowSafe(heap, ids, r, row)
  <2>1. CASE e = Null
    BY <1>3, <2>1
  <2>2. CASE e # Null
    <3> DEFINE x == item.var
               old == w.row
               there == [old EXCEPT !.ent[x] = to]
    <3>1. /\ row = there /\ old \in Rows(Entities) /\ to \in Entities /\ x \in DOMAIN old.ent
          /\ RowSafe(heap, ids, r, old) /\ to.id = old.ent[x].id /\ to.ends = old.ent[x].ends
      BY <1>3, <1>5, <1>6, <2>2
    <3> HIDE DEF x, row, old, r
    <3>2. there \in Rows(Entities)
      BY <3>1, AlteredRow
    <3>3. RowSafe(heap, ids, r, there)
      BY <3>1, AlteredSafe, ZenonT(30)
    <3> QED
      BY <3>1, <3>2, <3>3, ZenonT(30)
  <2> QED
    BY <2>1, <2>2
<1>9. Alike(heap, ids, e)
  BY <1>3, <1>5 DEF RowSafe, EntSafe
<1> HIDE DEF row, ent, e
<1>10. SetAt(s, w, row, said)
  BY <1>1, <1>3, <1>7, <1>8 DEF SetAt
<1>11. ASSUME NEW q \in {r, u}, run' = [run EXCEPT ![s] = next(q)], UNCHANGED <<heap, ids>>
       PROVE  Upheld(s)
  <2>1. run'[s] = next(q)
    BY <1>3, <1>11
  <2>2. q = r \/ q = u
    BY <1>11
  <2> HIDE DEF w
  <2> QED
    BY <1>10, <1>11, <2>1, <2>2, SetWaits
<1>12. ASSUME NEW v \in written, LockResult(r, v) = "Ok", heap' = Written(r, v, to),
              run' = [run EXCEPT ![s] = next(u)], UNCHANGED <<committed, ids>>
       PROVE  Upheld(s)
  <2>1. v \in heap /\ IsOpen(v) /\ v.id = e.id
    BY <1>12, LockedOpen DEF Visible
  <2>2. to.id = v.id /\ to.ends = v.ends
    BY <1>6, <1>9, <2>1 DEF Alike
  <2>3. run'[s] = next(u) /\ ids' = ids
    BY <1>3, <1>12
  <2> HIDE DEF w, written
  <2> QED
    BY <1>6, <1>10, <1>12, <2>1, <2>2, <2>3, SetWrites
<1> HIDE DEF written, next, u
<1> QED
  BY <1>2, <1>11, <1>12

-----------------------------------------------------------------------------
(* DELETE *)

\* Run p has what an item of DELETE, work w, leaves of r.
Deleting(r, w, p) ==
    /\ Good(r, Entities) /\ Course(r) /\ r.phase = "rows" /\ r.todo # <<>> /\ w = Head(r.todo)
    /\ w.k \in 1 .. Len(r.stmt.clauses) /\ r.stmt.clauses[w.k].op = "delete"
    /\ Good(p, Entities) /\ Steady(r, p) /\ p.created = r.created /\ p.inner = r.inner
    /\ p.todo = r.todo /\ Counts(r, p) /\ (p.used => r.used)
    /\ p.b = r.b \/ p.b + w.k >= r.base
    /\ Len(p.deleted) = Len(r.deleted)
    /\ \A i \in 1 .. Len(r.deleted) :
          \/ p.deleted[i] = r.deleted[i]
          \/ i = w.k /\ r.deleted[i] \subseteq p.deleted[i]

\* Run q looks at the vertices that r does, and goes on with its rows.
DeletesOut(r, p, q) ==
    /\ Steady(r, q) /\ q.created = r.created /\ q.inner = r.inner /\ Course(q)
    /\ q.G = p.G /\ q.used = p.used /\ q.deleted = p.deleted
    /\ \A i \in 1 .. Len(q.todo) : \E j \in 1 .. Len(r.todo) : q.todo[i].row = r.todo[j].row

\* Run q is p with its next work.
DeletesOn(r, p, q) ==
    /\ Steady(p, q) /\ SameLists(p, q) /\ q.b = p.b /\ q.G = p.G /\ q.used = p.used
    /\ \A i \in 1 .. Len(q.todo) : \E j \in 1 .. Len(r.todo) : q.todo[i].row = r.todo[j].row

LEMMA DeleteNextRun ==
  ASSUME NEW r, NEW w, NEW p, Deleting(r, w, p), NEW n, NEW q, q = DeleteNext(p, w, n)
  PROVE  DeletesOn(r, p, q)
<1>1. /\ Good(r, Entities) /\ Good(p, Entities) /\ p.todo = r.todo /\ r.todo # <<>>
      /\ w = Head(p.todo) /\ w.k \in 1 .. Len(p.stmt.clauses)
  BY DEF Deleting, Steady
<1>2. /\ w = r.todo[1] /\ 1 \in 1 .. Len(r.todo) /\ w.row \in Rows(Entities) /\ w.j \in Nat
  BY <1>1, HeadGood
<1>3. CASE w.j < n
  <2> DEFINE j == w.j + 1
  <2>1. j \in Nat
    BY <1>2
  <2>2. q = [p EXCEPT !.todo[1].j = j]
    BY <1>3 DEF DeleteNext
  <2> HIDE DEF j
  <2>3. w.row = Head(p.todo).row /\ p.todo # <<>> /\ w.row \in Rows(Entities)
    BY <1>1, <1>2
  <2>4. /\ Steady(p, q) /\ SameLists(p, q) /\ q.b = p.b /\ q.G = p.G /\ q.used = p.used
        /\ \A i \in 1 .. Len(q.todo) :
              \/ q.todo[i].row = w.row
              \/ \E o \in 1 .. Len(p.todo) : q.todo[i].row = p.todo[o].row
    <3> DEFINE row == w.row
    <3>1. Good(p, Entities) /\ p.todo # <<>> /\ row \in Rows(Entities) /\ row = Head(p.todo).row
      BY <1>1, <2>3
    <3> HIDE DEF row
    <3>2. /\ Steady(p, q) /\ SameLists(p, q) /\ q.b = p.b /\ q.G = p.G /\ q.used = p.used
          /\ \A i \in 1 .. Len(q.todo) :
                \/ q.todo[i].row = row
                \/ \E o \in 1 .. Len(p.todo) : q.todo[i].row = p.todo[o].row
      BY <2>1, <2>2, <3>1, ItemRun
    <3> QED
      BY <3>2 DEF row
  <2> QED
    BY <1>1, <1>2, <2>4 DEF DeletesOn
<1>4. CASE ~(w.j < n)
  <2> DEFINE rows == <<w.row>>
  <2>1. q = Passed(p, w.k, rows)
    BY <1>4 DEF DeleteNext
  <2>2. rows \in Seq(Rows(Entities)) /\ \A i \in 1 .. Len(rows) : rows[i] = w.row
    BY <1>2
  <2> HIDE DEF rows
  <2>3. Lifts(p, q, rows)
    BY <1>1, <2>1, <2>2, PassedRun
  <2> QED
    BY <1>1, <1>2, <2>2, <2>3 DEF Lifts, DeletesOn
<1> QED
  BY <1>3, <1>4

LEMMA DeleteCourse ==
  ASSUME NEW r, NEW w, NEW p, Deleting(r, w, p), NEW n, NEW q, q = DeleteNext(p, w, n)
  PROVE  DeletesOut(r, p, q) /\ q.G \in Nat /\ Counts(r, q)
<1>1. /\ Good(r, Entities) /\ Course(r) /\ r.phase = "rows" /\ r.todo # <<>> /\ w = Head(r.todo)
      /\ w.k \in 1 .. Len(r.stmt.clauses) /\ r.stmt.clauses[w.k].op = "delete"
      /\ Good(p, Entities) /\ Steady(r, p) /\ p.created = r.created /\ p.inner = r.inner
      /\ Counts(r, p) /\ (p.used => r.used)
      /\ p.b = r.b \/ p.b + w.k >= r.base
      /\ Len(p.deleted) = Len(r.deleted)
      /\ \A i \in 1 .. Len(r.deleted) :
            p.deleted[i] = r.deleted[i] \/ (i = w.k /\ r.deleted[i] \subseteq p.deleted[i])
  BY DEF Deleting
<1>2. /\ Steady(p, q) /\ SameLists(p, q) /\ q.b = p.b /\ q.G = p.G /\ q.used = p.used
      /\ \A i \in 1 .. Len(q.todo) : \E j \in 1 .. Len(r.todo) : q.todo[i].row = r.todo[j].row
  <2>1. DeletesOn(r, p, q)
    BY DeleteNextRun
  <2> QED
    BY <2>1 DEF DeletesOn
<1>3. Steady(r, q) /\ q.created = r.created /\ q.inner = r.inner /\ q.deleted = p.deleted
  BY <1>1, <1>2, SMTT(60) DEF Steady, SameLists
<1>4. p.G \in Nat /\ r.G \in Nat /\ r.base \in Nat
  BY <1>1 DEF Good, Runs
<1>5. q.G \in Nat /\ Counts(r, q)
  BY <1>1, <1>2, <1>4 DEF Counts
<1>6. w.k \in Kinds(r.stmt, "delete")
  BY <1>1 DEF Kinds
<1>7. q.used => WritesLast(q)
  <2>1. r.used => WritesLast(r)
    BY <1>1 DEF Course
  <2>2. WritesLast(r) <=> WritesLast(q)
    BY <1>3 DEF WritesLast, Terminal, Steady
  <2> QED
    BY <1>1, <1>2, <2>1, <2>2
<1>8. q.b >= r.base \/ \E d \in Kinds(r.stmt, "delete") : q.b + d >= r.base
  <2>1. r.b >= r.base \/ \E d \in Kinds(r.stmt, "delete") : r.b + d >= r.base
    BY <1>1 DEF Course
  <2> QED
    BY <1>1, <1>2, <1>6, <2>1
<1>9. \A i \in 1 .. Len(q.deleted) : q.deleted[i] # {} => i \in Kinds(r.stmt, "delete")
  BY <1>1, <1>3, <1>6 DEF Course
<1>10. r.base <= q.G /\ Len(q.deleted) = Len(r.stmt.clauses)
  <2>1. r.base <= r.G /\ r.G <= q.G
    BY <1>1, <1>4, <1>5, SMTT(90) DEF Course, Counts
  <2> QED
    BY <1>1, <1>3, <1>4, <1>5, <2>1 DEF Course
<1>11. Course(q)
  <2>1. q.stmt = r.stmt /\ q.base = r.base /\ q.level = r.level /\ q.phase = r.phase
    BY <1>3 DEF Steady
  <2>2. r.level = Len(r.stmt.clauses) /\ r.level \in 1 .. Len(r.stmt.clauses)
    BY <1>1 DEF Course
  <2> QED
    BY <1>1, <1>7, <1>8, <1>9, <1>10, <2>1, <2>2 DEF Course
<1> QED
  BY <1>2, <1>3, <1>5, <1>11 DEF DeletesOut

\* The vertices to be looked at only become more.
LEMMA PendingGrows ==
  ASSUME NEW r, NEW w, NEW p, Deleting(r, w, p), NEW q, DeletesOut(r, p, q)
  PROVE  /\ Pending(r) \subseteq Pending(q)
         /\ p.deleted[w.k] \subseteq Pending(q)
<1>1. /\ Course(r) /\ r.phase = "rows" /\ w.k \in 1 .. Len(r.stmt.clauses)
      /\ Len(p.deleted) = Len(r.deleted)
      /\ \A i \in 1 .. Len(r.deleted) : r.deleted[i] \subseteq p.deleted[i]
  BY DEF Deleting
<1>2. r.level = Len(r.stmt.clauses) /\ Len(r.deleted) = Len(r.stmt.clauses)
  BY <1>1 DEF Course
<1>3. q.phase = "rows" /\ q.level = r.level /\ q.deleted = p.deleted
  BY <1>1 DEF DeletesOut, Steady
<1>4. Pending(r) = UNION {r.deleted[i] : i \in 1 .. r.level}
  BY <1>1 DEF Pending
<1>5. Pending(q) = UNION {p.deleted[i] : i \in 1 .. r.level}
  BY <1>3 DEF Pending
<1> QED
  BY <1>1, <1>2, <1>4, <1>5

\* What DELETE leaves of the work is safe.
LEMMA DeleteRows ==
  ASSUME NEW r, NEW p, NEW q, DeletesOut(r, p, q), NEW H, NEW n
  PROVE  NewSafe(H, n, r, q)
BY DEF DeletesOut, NewSafe, Steady

\* No version is removed.
LEMMA DeleteWaits ==
  ASSUME NEW s, Lone(s), NEW r, r = run[s], NEW w, NEW p, Deleting(r, w, p),
         NEW n, run'[s] = DeleteNext(p, w, n), UNCHANGED <<heap, ids>>
  PROVE  Upheld(s)
<1> DEFINE q == DeleteNext(p, w, n)
<1>0. run'[s] = q /\ heap' = heap /\ ids' = ids
  OBVIOUS
<1>1. DeletesOut(r, p, q) /\ q.G \in Nat /\ Counts(r, q)
  BY DeleteCourse
<1> HIDE DEF q
<1>2. Steady(r, q) /\ Course(q) /\ r.phase = "rows"
  BY <1>1 DEF DeletesOut, Deleting
<1>3. Pending(r) \subseteq Pending(q)
  BY <1>1, PendingGrows
<1>4. Onward(heap, ids, r, heap, ids, q)
  BY <1>2, <1>3 DEF Onward, Steady, Held
<1>5. NewHeld(heap, heap, q)
  BY DEF NewHeld
<1>6. NewSafe(heap, ids, r, q)
  BY <1>1, DeleteRows
<1>7. Stamped(heap, q)
  <2>1. Stamped(heap, r) /\ heap \in SUBSET Versions /\ r.G \in Nat
    BY DEF Lone, Safe, ActiveFacts
  <2> QED
    BY <1>1, <1>2, <2>1, StampKept DEF Steady
<1>8. SameEnds(heap) /\ WholeGraph(heap, committed)
  BY DEF Lone
<1> QED
  BY <1>0, <1>2, <1>4, <1>5, <1>6, <1>7, <1>8, Going

\* Version v is removed, and its id is listed when it is a vertex.
LEMMA DeleteCloses ==
  ASSUME NEW s, Lone(s), NEW r, r = run[s], NEW w, NEW p, Deleting(r, w, p), p.G = r.G + 1,
         NEW v \in heap, IsOpen(v), v.ends = <<>> => v.id \in p.deleted[w.k],
         NEW n, run'[s] = DeleteNext(p, w, n), heap' = Closed(r, v), ids' = ids
  PROVE  Upheld(s)
<1> DEFINE q == DeleteNext(p, w, n)
<1>0. run'[s] = q
  OBVIOUS
<1>1. DeletesOut(r, p, q) /\ q.G \in Nat /\ Counts(r, q)
  BY DeleteCourse
<1> HIDE DEF q
<1>2. Steady(r, q) /\ Course(q) /\ r.phase = "rows" /\ q.G = r.G + 1
  BY <1>1 DEF DeletesOut, Deleting
<1>3. Pending(r) \subseteq Pending(q) /\ (v.ends = <<>> => v.id \in Pending(q))
  BY <1>1, PendingGrows
<1>4. /\ SameEnds(heap') /\ WholeGraph(heap', committed)
      /\ \A e : Alike(heap, ids, e) => Alike(heap', ids, e)
      /\ \A id : Alive(heap, id) => Alive(heap', id) \/ (id = v.id /\ v.ends = <<>>)
      /\ \A x \in heap' : \/ x \in heap /\ x # v
                          \/ /\ x.id = v.id /\ x.ends = v.ends /\ ~IsOpen(x)
                             /\ x.xmin = v.xmin /\ x.cmin = v.cmin
                             /\ x.xmax = r.xid /\ x.cmax = r.G
  BY CloseUpheld
<1>5. Onward(heap, ids, r, heap', ids', q)
  <2>1. \A id : Held(heap, r, id) => Held(heap', q, id)
    BY <1>3, <1>4 DEF Held
  <2> QED
    BY <1>2, <1>4, <2>1 DEF Onward, Steady
<1>6. NewHeld(heap, heap', q)
  <2>1. \A x \in heap' : IsOpen(x) => x \in heap
    BY <1>4
  <2>2. \A x \in heap' : x.ends = <<>> => x \in heap \/ Held(heap', q, x.id)
    BY <1>3, <1>4 DEF Held
  <2> QED
    BY <2>1, <2>2 DEF NewHeld
<1>7. Stamped(heap', q)
  <2>1. Stamped(heap, r) /\ heap \in SUBSET Versions /\ r.G \in Nat
    BY DEF Lone, Safe, ActiveFacts
  <2>2. Stamped(heap, q)
    BY <1>1, <1>2, <2>1, StampKept DEF Steady
  <2> SUFFICES ASSUME NEW x \in heap'
               PROVE  /\ x.xmin = q.xid => x.cmin < q.G \/ (x.cmin = q.G /\ q.used)
                      /\ x.xmax = q.xid => x.cmax < q.G \/ (x.cmax = q.G /\ q.used)
    BY DEF Stamped
  <2>3. CASE x \in heap
    BY <2>2, <2>3 DEF Stamped
  <2>4. CASE x.xmin = v.xmin /\ x.cmin = v.cmin /\ x.xmax = r.xid /\ x.cmax = r.G
    <3>1. x.xmin = q.xid => x.cmin < q.G \/ (x.cmin = q.G /\ q.used)
      BY <2>2, <2>4 DEF Stamped
    <3>2. x.cmax < q.G
      BY <1>2, <2>1, <2>4
    <3> QED
      BY <3>1, <3>2
  <2> QED
    BY <1>4, <2>3, <2>4
<1>8. NewSafe(heap', ids', r, q)
  BY <1>1, DeleteRows
<1> QED
  BY <1>0, <1>2, <1>4, <1>5, <1>6, <1>7, <1>8, Going

\* Session s is at an item of DELETE.
DeleteAt(r, w) ==
    /\ Good(r, Entities) /\ Course(r) /\ r.phase = "rows" /\ r.todo # <<>> /\ w = Head(r.todo)
    /\ w.k \in 1 .. Len(r.stmt.clauses) /\ w.k \in Nat /\ r.stmt.clauses[w.k].op = "delete"

LEMMA DeletingSelf ==
  ASSUME NEW r, NEW w, DeleteAt(r, w)
  PROVE  Deleting(r, w, r)
BY DEF DeleteAt, Deleting, Steady, Counts

LEMMA DeletingMoved ==
  ASSUME NEW r, NEW w, DeleteAt(r, w), NEW q, q = [r EXCEPT !.b = r.G - w.k]
  PROVE  Deleting(r, w, q) /\ q.b = q.G - w.k /\ q.G = r.G
<1> DEFINE b == r.G - w.k
<1>1. Good(r, Entities) /\ r.G \in Nat /\ w.k \in Nat /\ r.base <= r.G /\ r.base \in Nat
  BY DEF DeleteAt, Good, Runs, Course
<1>2. b \in Int /\ b + w.k >= r.base /\ b = r.G - w.k
  BY <1>1
<1>3. q = [r EXCEPT !.b = b]
  OBVIOUS
<1> HIDE DEF b
<1>4. /\ Good(q, Entities) /\ Steady(r, q) /\ SameLists(r, q) /\ q.b = b /\ q.G = r.G
      /\ q.used = r.used /\ q.todo = r.todo
  BY <1>1, <1>2, <1>3, CurcidRun
<1> QED
  BY <1>2, <1>4 DEF DeleteAt, Deleting, SameLists, Counts

LEMMA DeletingListed ==
  ASSUME NEW r, NEW w, DeleteAt(r, w), NEW q, Deleting(r, w, q), q.b = q.G - w.k, q.G = r.G,
         NEW id \in Nat, NEW l, l = Listed(q, w.k, id)
  PROVE  Deleting(r, w, l) /\ id \in l.deleted[w.k] /\ l.b = l.G - w.k /\ l.G = r.G
<1> DEFINE k == w.k
<1>1. /\ Good(r, Entities) /\ Course(r) /\ r.phase = "rows" /\ r.todo # <<>> /\ w = Head(r.todo)
      /\ k \in 1 .. Len(r.stmt.clauses) /\ r.stmt.clauses[k].op = "delete"
  BY DEF DeleteAt
<1>2. /\ Good(q, Entities) /\ Steady(r, q) /\ q.created = r.created /\ q.inner = r.inner
      /\ q.todo = r.todo /\ Counts(r, q) /\ (q.used => r.used)
      /\ q.b = r.b \/ q.b + k >= r.base
      /\ Len(q.deleted) = Len(r.deleted)
      /\ \A i \in 1 .. Len(r.deleted) :
            q.deleted[i] = r.deleted[i] \/ (i = k /\ r.deleted[i] \subseteq q.deleted[i])
  BY DEF Deleting
<1>3. k \in 1 .. Len(q.deleted) /\ l = Listed(q, k, id)
  BY <1>1, <1>2 DEF Course
<1> HIDE DEF k
<1>4. /\ Good(l, Entities) /\ Steady(q, l) /\ l.created = q.created /\ l.inner = q.inner
      /\ l.b = q.b /\ l.G = q.G /\ l.used = q.used /\ l.todo = q.todo
      /\ Len(l.deleted) = Len(q.deleted)
      /\ \A i \in 1 .. Len(q.deleted) :
            l.deleted[i] = IF i = k THEN q.deleted[k] \cup {id} ELSE q.deleted[i]
  <2>1. Good(q, Entities)
    BY <1>2
  <2> QED
    <3>1. Lists(q, k, id, l, Entities)
      BY <1>3, <2>1, ListedRun
    <3> QED
      BY <3>1 DEF Lists
<1>5. \A i \in 1 .. Len(r.deleted) :
         l.deleted[i] = r.deleted[i] \/ (i = k /\ r.deleted[i] \subseteq l.deleted[i])
  <2> SUFFICES ASSUME NEW i \in 1 .. Len(r.deleted)
               PROVE  l.deleted[i] = r.deleted[i] \/ (i = k /\ r.deleted[i] \subseteq l.deleted[i])
    OBVIOUS
  <2>1. /\ q.deleted[i] = r.deleted[i] \/ (i = k /\ r.deleted[i] \subseteq q.deleted[i])
        /\ l.deleted[i] = IF i = k THEN q.deleted[k] \cup {id} ELSE q.deleted[i]
    BY <1>2, <1>4
  <2> QED
    BY <2>1
<1>6. id \in l.deleted[k]
  BY <1>3, <1>4
<1>7. Steady(r, l) /\ Counts(r, l)
  BY <1>2, <1>4 DEF Steady, Counts
<1>8. l.b = r.b \/ l.b + k >= r.base
  BY <1>2, <1>4
<1>9. /\ l.created = r.created /\ l.inner = r.inner /\ l.todo = r.todo /\ (l.used => r.used)
      /\ Len(l.deleted) = Len(r.deleted) /\ l.b = l.G - k /\ l.G = r.G
  BY <1>2, <1>4 DEF k
<1>10. Good(l, Entities)
  BY <1>4
<1>11. k = w.k
  BY DEF k
<1> HIDE DEF k
<1>12. Deleting(r, w, l)
  BY <1>1, <1>5, <1>7, <1>8, <1>9, <1>10, <1>11, ZenonT(60) DEF Deleting
<1> QED
  BY <1>6, <1>9, <1>11, <1>12

LEMMA DeletingGone ==
  ASSUME NEW r, NEW w, DeleteAt(r, w), NEW l, Deleting(r, w, l), l.G = r.G,
         NEW g, g = Deleted(l, w.k)
  PROVE  Deleting(r, w, g) /\ g.G = r.G + 1 /\ g.deleted = l.deleted
<1>1. /\ Good(r, Entities) /\ Course(r) /\ r.phase = "rows" /\ r.todo # <<>> /\ w = Head(r.todo)
      /\ w.k \in 1 .. Len(r.stmt.clauses) /\ r.stmt.clauses[w.k].op = "delete" /\ w.k \in Nat
  BY DEF DeleteAt
<1>2. /\ Good(l, Entities) /\ Steady(r, l) /\ l.created = r.created /\ l.inner = r.inner
      /\ l.todo = r.todo
      /\ Len(l.deleted) = Len(r.deleted)
      /\ \A i \in 1 .. Len(r.deleted) :
            l.deleted[i] = r.deleted[i] \/ (i = w.k /\ r.deleted[i] \subseteq l.deleted[i])
  BY DEF Deleting
<1>3. /\ Good(g, Entities) /\ Steady(l, g) /\ SameLists(l, g) /\ g.todo = l.todo
      /\ g.G = l.G + 1 /\ g.b = g.G - w.k /\ ~g.used
  <2> DEFINE k == w.k
  <2>1. Good(l, Entities) /\ k \in Int /\ g = Deleted(l, k)
    BY <1>1, <1>2
  <2> HIDE DEF k
  <2>2. LET d == Deleted(l, k)
        IN  /\ Good(d, Entities) /\ Steady(l, d) /\ SameLists(l, d) /\ d.todo = l.todo
            /\ d.G = l.G + 1 /\ d.b = d.G - k /\ ~d.used
    BY <2>1, DeletedRun, Zenon
  <2> QED
    BY <2>1, <2>2 DEF k
<1>4. r.G \in Nat /\ r.base \in Nat /\ r.base <= r.G
  BY <1>1 DEF Good, Runs, Course
<1>5. g.b + w.k >= r.base /\ Counts(r, g)
  <2> DEFINE k == w.k
  <2>1. k \in Nat /\ g.G = r.G + 1 /\ g.b = g.G - k
    BY <1>1, <1>3
  <2> HIDE DEF k
  <2>2. g.b + k >= r.base /\ g.G > r.G
    BY <1>4, <2>1
  <2> QED
    BY <2>2 DEF Counts, k
<1>6. Steady(r, g) /\ g.created = r.created /\ g.inner = r.inner /\ g.deleted = l.deleted
  BY <1>2, <1>3 DEF Steady, SameLists
<1> QED
  BY <1>1, <1>2, <1>3, <1>5, <1>6 DEF Deleting

LEMMA DeleteUpheld ==
  ASSUME NEW s, Lone(s), process_delete_list(s)
  PROVE  Upheld(s) \/ Fail(s)
<1> DEFINE r       == run[s]
           w       == Head(r.todo)
           names   == r.stmt.clauses[w.k].names
           n       == Len(names)
           ent     == w.row.ent
           e       == ent[names[w.j]]
           q       == [r EXCEPT !.b = r.G - w.k]
           more    == [q EXCEPT !.deleted[w.k] = @ \cup {e.id}]
           listed  == IF e.ends = <<>> THEN more ELSE q
           gone    == Deleted(listed, w.k)
           there   == {v \in Visible(r, r.G) : v.id = e.id}
<1>1. At(s, "delete")
  BY Zenon DEF process_delete_list
<1>2. \/ /\ run' = [run EXCEPT ![s] = DeleteNext(IF e = Null THEN r ELSE IF there = {} THEN q ELSE listed, w, n)]
         /\ UNCHANGED <<heap, committed, ids>>
      \/ \E v \in there :
            \/ /\ LockResult(r, v) = "Ok" /\ heap' = Closed(r, v)
               /\ run' = [run EXCEPT ![s] = DeleteNext(gone, w, n)] /\ UNCHANGED <<committed, ids>>
            \/ Fail(s)
  BY Zenon DEF process_delete_list, DeleteNext
<1>3. /\ Good(r, Entities) /\ w.row \in Rows(Entities) /\ Reaches(r.stmt, w.row, w.k)
      /\ r.stmt \in Statement /\ w.k \in 1 .. Len(r.stmt.clauses)
      /\ r.stmt.clauses[w.k] \in Clause /\ r.stmt.clauses[w.k].op = "delete"
      /\ WorkFits(r.stmt, w) /\ s \in DOMAIN run
      /\ RowSafe(heap, ids, r, w.row)
  BY <1>1, LoneWork DEF Lone, ActiveFacts
<1>4. /\ names \in Seq(Name) /\ w.j \in 1 .. Len(names)
      /\ ToSet(names) \subseteq DOMAIN ent
  <2>1. names \in Seq(Name) /\ w.j \in 1 .. Len(names)
    BY <1>3, ClauseFields DEF WorkFits
  <2>2. ToSet(names) \subseteq Scope(r.stmt, w.k)
    BY <1>3, ParsedStatement
  <2> HIDE DEF names
  <2> QED
    BY <1>3, <2>1, <2>2, ZenonT(30) DEF Reaches
<1>5. e \in Entities /\ Alike(heap, ids, e)
  <2> HIDE DEF names, ent, r
  <2> DEFINE j == w.j
             x == names[j]
  <2>1. names \in Seq(Name) /\ j \in 1 .. Len(names)
    BY <1>4
  <2> HIDE DEF w, j
  <2>2. x \in ToSet(names)
    BY <2>1 DEF ToSet
  <2>3. ent \in [DOMAIN ent -> Entities]
    BY <1>3, BindingsFields DEF Rows, ent
  <2>3a. \A y \in DOMAIN ent : Alike(heap, ids, ent[y])
    BY <1>3 DEF RowSafe, EntSafe, ent
  <2> HIDE DEF x
  <2>4. ent[x] \in Entities /\ Alike(heap, ids, ent[x])
    BY <1>4, <2>2, <2>3, <2>3a, ZenonT(30)
  <2> QED
    BY <2>4 DEF x, j
<1>6. DeleteAt(r, w)
  BY <1>1, LoneWork DEF DeleteAt
<1> HIDE DEF e, n
<1>7. e.id \in Nat
  BY <1>5 DEF Entities
<1> HIDE DEF r, w
<1>8. Deleting(r, w, q) /\ q.b = q.G - w.k /\ q.G = r.G
  BY <1>6, DeletingMoved
<1> HIDE DEF q
<1>8a. more = Listed(q, w.k, e.id)
  BY DEF Listed
<1> HIDE DEF more
<1>9. /\ Deleting(r, w, more) /\ more.G = r.G /\ e.id \in more.deleted[w.k]
  BY <1>6, <1>7, <1>8, <1>8a, DeletingListed
<1>10. Deleting(r, w, listed) /\ listed.G = r.G /\ (e.ends = <<>> => e.id \in listed.deleted[w.k])
  BY <1>8, <1>9
<1> HIDE DEF listed
<1>11. Deleting(r, w, gone) /\ gone.G = r.G + 1 /\ gone.deleted = listed.deleted
  BY <1>6, <1>10, DeletingGone
<1>12. Deleting(r, w, r)
  BY <1>6, DeletingSelf
<1> HIDE DEF gone
<1>13. ASSUME NEW p \in {r, q, listed}, run' = [run EXCEPT ![s] = DeleteNext(p, w, n)],
              UNCHANGED <<heap, ids>>
       PROVE  Upheld(s)
  <2>1. run'[s] = DeleteNext(p, w, n) /\ r = run[s]
    BY <1>3, <1>13 DEF r
  <2>2. Deleting(r, w, p)
    BY <1>8, <1>10, <1>12
  <2> QED
    BY <1>13, <2>1, <2>2, DeleteWaits
<1>14. ASSUME NEW v \in there, LockResult(r, v) = "Ok", heap' = Closed(r, v),
              run' = [run EXCEPT ![s] = DeleteNext(gone, w, n)], UNCHANGED <<committed, ids>>
       PROVE  Upheld(s)
  <2>1. v \in heap /\ IsOpen(v) /\ v.id = e.id
    BY <1>14, LockedOpen DEF Visible
  <2>2. v.ends = e.ends
    BY <1>5, <2>1 DEF Alike
  <2>3. v.ends = <<>> => v.id \in gone.deleted[w.k]
    BY <1>10, <1>11, <2>1, <2>2
  <2>4. run'[s] = DeleteNext(gone, w, n) /\ r = run[s] /\ ids' = ids
    BY <1>3, <1>14 DEF r
  <2> HIDE DEF there
  <2> QED
    BY <1>11, <1>14, <2>1, <2>3, <2>4, DeleteCloses
<1> HIDE DEF there
<1> QED
  BY <1>2, <1>13, <1>14

-----------------------------------------------------------------------------
(* MERGE *)

\* Session s is at MERGE, with work w.
MergeAt(r, w) ==
    /\ Good(r, Entities) /\ Course(r) /\ r.phase = "rows" /\ r.todo # <<>> /\ w = Head(r.todo)
    /\ w.k \in 1 .. Len(r.stmt.clauses) /\ r.stmt.clauses[w.k].op = "merge"

\* Run p has what MERGE leaves of r before rows go up.
Merging(r, p) ==
    /\ Good(p, Entities) /\ Steady(r, p) /\ p.deleted = r.deleted /\ p.b = r.b
    /\ p.todo = r.todo /\ Counts(r, p) /\ (p.used => r.used)

MergesOut(r, p, rows, q) ==
    /\ Steady(r, q) /\ q.created = p.created /\ q.inner = p.inner /\ q.deleted = r.deleted
    /\ Goes(r, q) /\ Course(q) /\ q.G = p.G /\ q.G \in Nat /\ Counts(r, q)
    /\ \A i \in 1 .. Len(q.todo) :
          \/ \E j \in 1 .. Len(rows) : q.todo[i].row = rows[j]
          \/ \E j \in 1 .. Len(r.todo) : q.todo[i].row = r.todo[j].row

LEMMA MergeCourse ==
  ASSUME NEW r, NEW w, MergeAt(r, w), NEW p, Merging(r, p),
         NEW rows \in Seq(Rows(Entities)), NEW q, q = Passed(p, w.k, rows)
  PROVE  MergesOut(r, p, rows, q)
<1>1. /\ Good(r, Entities) /\ Course(r) /\ r.phase = "rows" /\ r.todo # <<>> /\ w = Head(r.todo)
      /\ w.k \in 1 .. Len(r.stmt.clauses) /\ r.stmt.clauses[w.k].op = "merge"
  BY DEF MergeAt
<1>2. /\ Good(p, Entities) /\ Steady(r, p) /\ p.deleted = r.deleted /\ p.b = r.b
      /\ p.todo = r.todo /\ Counts(r, p) /\ (p.used => r.used)
  BY DEF Merging
<1>3. Lifts(p, q, rows)
  <2>1. Good(p, Entities) /\ p.todo # <<>> /\ w.k \in 1 .. Len(p.stmt.clauses)
    BY <1>1, <1>2 DEF Steady
  <2> QED
    BY <2>1, PassedRun
<1>4. /\ Steady(p, q) /\ SameLists(p, q) /\ q.b = p.b /\ q.G = p.G /\ q.used = p.used
      /\ \A i \in 1 .. Len(q.todo) :
            \/ \E j \in 1 .. Len(rows) : q.todo[i].row = rows[j]
            \/ \E j \in 1 .. Len(p.todo) : q.todo[i].row = p.todo[j].row
  BY <1>3 DEF Lifts
<1>5. Steady(r, q) /\ q.created = p.created /\ q.inner = p.inner /\ q.deleted = r.deleted
  BY <1>2, <1>4 DEF Steady, SameLists
<1>6. p.G \in Nat /\ r.G \in Nat /\ r.base \in Nat
  BY <1>1, <1>2 DEF Good, Runs
<1>7. q.G \in Nat /\ Counts(r, q)
  BY <1>2, <1>4, <1>6 DEF Counts
<1>8. q.used => WritesLast(q)
  <2>1. r.used => WritesLast(r)
    BY <1>1 DEF Course
  <2>2. WritesLast(r) <=> WritesLast(q)
    BY <1>5 DEF WritesLast, Terminal, Steady
  <2> QED
    BY <1>2, <1>4, <2>1, <2>2
<1>9. r.base <= q.G
  <2>1. r.base <= r.G /\ r.G <= q.G
    BY <1>1, <1>6, <1>7 DEF Course, Counts
  <2> QED
    BY <1>6, <1>7, <2>1
<1>10. Course(q)
  <2>1. /\ q.stmt = r.stmt /\ q.base = r.base /\ q.level = r.level /\ q.phase = r.phase
        /\ q.b = r.b /\ q.deleted = r.deleted
    BY <1>2, <1>4, <1>5 DEF Steady
  <2> QED
    BY <1>1, <1>8, <1>9, <2>1, Zenon DEF Course
<1>11. Goes(r, q)
  BY <1>5, SamePending DEF Goes, Steady
<1>12. \A i \in 1 .. Len(q.todo) :
          \/ \E j \in 1 .. Len(rows) : q.todo[i].row = rows[j]
          \/ \E j \in 1 .. Len(r.todo) : q.todo[i].row = r.todo[j].row
  BY <1>2, <1>4
<1> QED
  BY <1>4, <1>5, <1>7, <1>10, <1>11, <1>12 DEF MergesOut

\* The views that run p keeps, and the paths it remembers, are those of r or like
\* the versions H.
InnerSafe(H, n, r, p) ==
    \A k \in 1 .. Len(p.inner) :
        \/ p.inner[k] = <<>> \/ (k \in 1 .. Len(r.inner) /\ r.inner[k] = p.inner[k])
        \/ \A e \in p.inner[k][1] : Alike(H, n, e)
PathSafe(H, n, vs) == \A i \in 1 .. Len(vs) : Alike(H, n, vs[i]) /\ vs[i].ends = <<>>
CreatedSafe(H, n, r, p) ==
    \A k \in Kinds(p.stmt, "merge") : \A m \in p.created[k] :
        m \in r.created[k] \/ PathSafe(H, n, m.vs)

LEMMA MergeSafe ==
  ASSUME NEW H, NEW n, NEW r, NEW p, NEW rows, NEW q, MergesOut(r, p, rows, q), p.stmt = r.stmt,
         InnerSafe(H, n, r, p), CreatedSafe(H, n, r, p),
         \A i \in 1 .. Len(rows) : RowSafe(H, n, q, rows[i])
  PROVE  NewSafe(H, n, r, q)
<1>1. /\ Steady(r, q) /\ q.created = p.created /\ q.inner = p.inner
      /\ \A i \in 1 .. Len(q.todo) :
            \/ \E j \in 1 .. Len(rows) : q.todo[i].row = rows[j]
            \/ \E j \in 1 .. Len(r.todo) : q.todo[i].row = r.todo[j].row
  BY DEF MergesOut
<1>2. q.rows = r.rows /\ q.stmt = r.stmt
  BY <1>1 DEF Steady
<1>3. \A i \in 1 .. Len(q.todo) :
         \/ \E j \in 1 .. Len(r.todo) : q.todo[i].row = r.todo[j].row
         \/ RowSafe(H, n, q, q.todo[i].row)
  BY <1>1
<1>4. \A k \in 1 .. Len(q.inner) :
         \/ q.inner[k] = <<>> \/ (k \in 1 .. Len(r.inner) /\ r.inner[k] = q.inner[k])
         \/ \A e \in q.inner[k][1] : Alike(H, n, e)
  BY <1>1 DEF InnerSafe
<1>5. \A k \in Kinds(q.stmt, "merge") : \A m \in q.created[k] :
         \/ m \in r.created[k]
         \/ \A i \in 1 .. Len(m.vs) : Alike(H, n, m.vs[i]) /\ m.vs[i].ends = <<>>
  BY <1>1, <1>2 DEF CreatedSafe, PathSafe
<1> QED
  BY <1>2, <1>3, <1>4, <1>5 DEF NewSafe

\* MERGE makes nothing.
LEMMA MergeWaits ==
  ASSUME NEW s, Lone(s), NEW r, r = run[s], NEW w, MergeAt(r, w), NEW p, Merging(r, p),
         InnerSafe(heap, ids, r, p), p.created = r.created,
         NEW rows \in Seq(Rows(Entities)), \A i \in 1 .. Len(rows) : RowSafe(heap, ids, r, rows[i]),
         run'[s] = Passed(p, w.k, rows), UNCHANGED <<heap, ids>>
  PROVE  Upheld(s)
<1> DEFINE q == Passed(p, w.k, rows)
<1>0. run'[s] = q
  OBVIOUS
<1>1. MergesOut(r, p, rows, q)
  BY MergeCourse
<1> HIDE DEF q
<1>2. /\ Steady(r, q) /\ q.deleted = r.deleted /\ Goes(r, q) /\ Course(q) /\ q.G \in Nat /\ Counts(r, q)
  BY <1>1 DEF MergesOut
<1>3. Onward(heap, ids, r, heap, ids, q)
  BY <1>2 DEF Onward, Goes, Held
<1>4. \A i \in 1 .. Len(rows) : RowSafe(heap, ids, q, rows[i])
  BY <1>3, RowSafeKept
<1>5. CreatedSafe(heap, ids, r, p)
  BY DEF CreatedSafe
<1>6. p.stmt = r.stmt /\ r.phase = "rows"
  BY DEF Merging, Steady, MergeAt
<1>7. NewSafe(heap, ids, r, q)
  BY <1>1, <1>4, <1>5, <1>6, MergeSafe
<1>8. /\ q.stmt = r.stmt /\ q.xid = r.xid /\ q.base = r.base /\ q.phase = r.phase
      /\ q.level = r.level
  BY <1>2 DEF Steady
<1> QED
  BY <1>0, <1>2, <1>6, <1>7, <1>8, Quiet

\* MERGE counts its command and remembers the path it made.
Makes(H, n, r, p, vs) ==
    /\ Merging(r, p) /\ InnerSafe(H, n, r, p) /\ r.base < p.G
    /\ \A k \in Kinds(r.stmt, "merge") : \A o \in p.created[k] : o \in r.created[k] \/ o.vs = vs

\* The vertices vs are bound in the row of m.
Among(vs, m) ==
    \A i \in 1 .. Len(vs) : vs[i].ends = <<>> /\ \E x \in DOMAIN m.row.ent : vs[i] = m.row.ent[x]

\* MERGE makes a path.
LEMMA MergeMakes ==
  ASSUME NEW s, Lone(s), NEW r, r = run[s], NEW w, MergeAt(r, w), NEW p, NEW vs,
         Makes(heap, ids, r, p, vs), NEW paths, NEW m, Making(s, w.k, w.row, paths, m, r.base),
         Among(vs, m), run'[s] = Passed(p, w.k, <<m.row>>)
  PROVE  Upheld(s)
<1> DEFINE rows == <<m.row>>
           q == Passed(p, w.k, rows)
<1>0. run'[s] = q
  OBVIOUS
<1>0b. /\ Merging(r, p) /\ InnerSafe(heap, ids, r, p) /\ r.base < p.G
       /\ \A k \in Kinds(r.stmt, "merge") : \A o \in p.created[k] : o \in r.created[k] \/ o.vs = vs
  BY DEF Makes
<1>0a. rows \in Seq(Rows(Entities)) /\ \A i \in 1 .. Len(rows) : rows[i] = m.row
  <2>1. m.row \in Rows(Entities)
    BY DEF Making, MadeWell
  <2> QED
    BY <2>1
<1> HIDE DEF rows
<1>1. MergesOut(r, p, rows, q)
  BY <1>0a, <1>0b, MergeCourse
<1> HIDE DEF q
<1>2. /\ Steady(r, q) /\ q.deleted = r.deleted /\ Goes(r, q) /\ Course(q) /\ q.G \in Nat
      /\ Counts(r, q) /\ q.G = p.G
  BY <1>1 DEF MergesOut
<1>3. MadeSafe(s, m, r.base, q)
  BY <1>2, MadeHeld
<1>4. /\ SameEnds(heap') /\ WholeGraph(heap', committed)
      /\ Onward(heap, ids, r, heap', ids', q) /\ NewHeld(heap, heap', q)
      /\ RowSafe(heap', ids', q, m.row)
      /\ \A v \in heap' : v \in heap \/ (v.xmin = r.xid /\ v.cmin = r.base /\ IsOpen(v))
  BY <1>3 DEF MadeSafe
<1>5. Stamped(heap', q)
  <2>1. Stamped(heap, r) /\ heap \in SUBSET Versions /\ r.G \in Nat /\ r.xid # NoXid
    BY DEF Lone, Safe, ActiveFacts
  <2>2. q.xid = r.xid
    BY <1>2 DEF Steady
  <2>3. Stamped(heap, q)
    BY <1>2, <2>1, <2>2, StampKept
  <2>4. r.base < q.G
    BY <1>0b, <1>2
  <2> QED
    BY <1>4, <2>1, <2>2, <2>3, <2>4 DEF Stamped, IsOpen
<1>6. PathSafe(heap', ids', vs)
  <2>1. \A x \in DOMAIN m.row.ent : Alike(heap', ids', m.row.ent[x])
    BY <1>4 DEF RowSafe, EntSafe
  <2> QED
    BY <2>1 DEF PathSafe, Among
<1>7. p.stmt = r.stmt /\ r.phase = "rows"
  BY <1>0b DEF Merging, Steady, MergeAt
<1>8. CreatedSafe(heap', ids', r, p)
  BY <1>0b, <1>6, <1>7 DEF CreatedSafe
<1>9. InnerSafe(heap', ids', r, p)
  <2>1. \A e : Alike(heap, ids, e) => Alike(heap', ids', e)
    BY <1>4 DEF Onward
  <2> QED
    BY <1>0b, <2>1 DEF InnerSafe
<1>10. NewSafe(heap', ids', r, q)
  <2>1. \A i \in 1 .. Len(rows) : RowSafe(heap', ids', q, rows[i])
    BY <1>0a, <1>4
  <2> QED
    BY <1>1, <1>7, <1>8, <1>9, <2>1, MergeSafe
<1> QED
  BY <1>0, <1>2, <1>4, <1>5, <1>7, <1>10, Going

\* What is seen is like the versions.
LEMMA ViewSafe ==
  ASSUME NEW s, Lone(s), NEW c, NEW e \in View(run[s], c)
  PROVE  e \in Entities /\ Alike(heap, ids, e)
<1>1. PICK v \in heap : e = Entity(v)
  BY DEF View, Visible
<1>2. /\ heap \in SUBSET Versions /\ SameEnds(heap) /\ ids \in Nat /\ \A w \in heap : w.id \in 1 .. ids
  BY DEF Lone, ActiveFacts
<1>3. e \in Entities /\ e.id = v.id /\ e.ends = v.ends
  BY <1>1, <1>2, EntityFields DEF Entity
<1> QED
  BY <1>1, <1>2, <1>3 DEF Alike, SameEnds

LEMMA MergeViewSafe ==
  ASSUME NEW s, Lone(s), NEW r, r = run[s], NEW w, MergeAt(r, w), NEW view,
         view = IF r.inner[w.k] # <<>> THEN r.inner[w.k][1] ELSE View(r, r.b + w.k - 1)
  PROVE  view \in Views(Entities) /\ \A e \in view : Alike(heap, ids, e)
<1> DEFINE k == w.k
           E == Entities
           inner == r.inner[k]
<1>1. /\ r \in Runs(E) /\ k \in 1 .. Len(r.inner) /\ RunSafe(heap, ids, r)
  BY DEF MergeAt, Good, Fits, Lone, Safe
<1>2. CASE inner # <<>>
  <2>1. inner \in Seq(Views(E))
    BY <1>1, SMTT(90) DEF Runs
  <2>2. view = inner[1]
    BY <1>2
  <2>3. \A e \in inner[1] : Alike(heap, ids, e)
    BY <1>1, <1>2 DEF RunSafe
  <2> HIDE DEF inner, E
  <2>4. 1 \in 1 .. Len(inner)
    BY <1>2, <2>1, EmptySeq
  <2>5. inner[1] \in Views(E)
    BY <2>1, <2>4
  <2> QED
    BY <2>2, <2>3, <2>5 DEF E
<1>3. CASE inner = <<>>
  <2> DEFINE c == r.b + k - 1
  <2>1. view = View(run[s], c)
    BY <1>3
  <2> HIDE DEF c
  <2>2. \A e \in view : e \in Entities /\ Alike(heap, ids, e)
    BY <2>1, ViewSafe
  <2>3. IsFiniteSet(view)
    BY <2>1, ViewFinite DEF Lone, ActiveFacts
  <2> QED
    BY <2>2, <2>3 DEF Views
<1> QED
  BY <1>2, <1>3, ZenonT(30)

\* MERGE may keep its view.
Viewed(H, n, r, q) == Merging(r, q) /\ q.created = r.created /\ q.G = r.G /\ InnerSafe(H, n, r, q)

LEMMA MergingView ==
  ASSUME NEW r, NEW w, MergeAt(r, w), NEW view \in Views(Entities), NEW H, NEW n,
         \A e \in view : Alike(H, n, e), NEW q, q = r \/ q = KeptView(r, w.k, view)
  PROVE  Viewed(H, n, r, q)
<1>1. CASE q = r
  BY <1>1 DEF Viewed, MergeAt, Merging, Steady, Counts, InnerSafe
<1>2. CASE q = KeptView(r, w.k, view)
  <2> DEFINE k == w.k
  <2>1. Good(r, Entities) /\ k \in 1 .. Len(r.stmt.clauses) /\ q = KeptView(r, k, view)
    BY <1>2 DEF MergeAt
  <2> HIDE DEF k
  <2>2. Keeps(r, k, view, q, Entities)
    BY <2>1, InnerRun
  <2>3. Merging(r, q)
    BY <2>2 DEF Keeps, Merging, Counts
  <2>4. InnerSafe(H, n, r, q)
    <3> SUFFICES ASSUME NEW i \in 1 .. Len(q.inner)
                 PROVE  \/ q.inner[i] = <<>> \/ (i \in 1 .. Len(r.inner) /\ r.inner[i] = q.inner[i])
                        \/ \A e \in q.inner[i][1] : Alike(H, n, e)
      BY DEF InnerSafe
    <3>1. i \in 1 .. Len(r.inner) /\ q.inner[i] = IF i = k THEN <<view>> ELSE r.inner[i]
      BY <2>2 DEF Keeps
    <3>2. <<view>>[1] = view
      OBVIOUS
    <3> QED
      BY <3>1, <3>2
  <2> QED
    BY <2>2, <2>3, <2>4 DEF Viewed, Keeps
<1> QED
  BY <1>1, <1>2

\* The row of a match is safe.
LEMMA BoundSafe ==
  ASSUME NEW H, NEW n, NEW r, r.stmt \in Statement, NEW k \in 1 .. Len(r.stmt.clauses),
         r.stmt.clauses[k].op = "merge", NEW path, path = r.stmt.clauses[k].path, path \in Seq(Node),
         NEW row \in Rows(Entities), RowSafe(H, n, r, row), NEW m, m.vs \in Seq(Entities),
         Len(m.vs) = Len(path),
         \A i \in 1 .. Len(path) : path[i].new => Alike(H, n, m.vs[i]) /\ m.vs[i].ends = <<>>
  PROVE  RowSafe(H, n, r, Bound(row, path, m))
<1> DEFINE names == {path[j].var : j \in {i \in DOMAIN path : path[i].new}}
           new == [x \in names |-> m.vs[CHOOSE j \in DOMAIN path : path[j].var = x]]
           ent == Extended(row.ent, new)
           c == r.stmt.clauses[k]
<1>1. Bound(row, path, m) = [row EXCEPT !.ent = ent]
  BY DEF Bound
<1>0. names = NewNames(c)
  <2>1. c.op = "merge" /\ path = c.path
    OBVIOUS
  <2> HIDE DEF c
  <2>2. NewNames(c) = {x.var : x \in {y \in ToSet(path) : y.new}}
    BY <2>1, MergeNames
  <2>3. names = {x.var : x \in {y \in ToSet(path) : y.new}}
    BY DEF ToSet
  <2> HIDE DEF names
  <2> QED
    BY <2>2, <2>3
<1>2. Bound(row, path, m).ent = ent
  <2> HIDE DEF ent, new, names
  <2>1. [row EXCEPT !.ent = ent].ent = ent
    BY DEF Rows
  <2> QED
    BY <1>1, <2>1
<1>3. DOMAIN path = 1 .. Len(path) /\ \A i \in DOMAIN path : path[i] \in Node
  OBVIOUS
<1>4. NewNames(c) \subseteq MergeVars(r.stmt)
  <2> HIDE DEF c
  <2>1. k \in Kinds(r.stmt, "merge")
    BY DEF Kinds
  <2> QED
    BY <2>1 DEF MergeVars, c
<1>5. \A i \in DOMAIN path : path[i].var \in NewNames(c) => path[i].new
  <2>0. \A i \in DOMAIN path : path[i].new \in BOOLEAN
    BY <1>3 DEF Node
  <2>1. c.op = "merge" /\ path = c.path
    OBVIOUS
  <2> HIDE DEF c
  <2>2. Nodes(c) = ToSet(path)
    BY <2>1, MergeNames
  <2>3. \A i \in DOMAIN path : ~path[i].new => path[i].var \in OldNames(c)
    BY <2>2 DEF OldNames, ToSet
  <2>4. OldNames(c) \subseteq Scope(r.stmt, k) /\ NewNames(c) \cap Scope(r.stmt, k) = {}
    BY ParsedStatement, PathNames DEF c
  <2> QED
    BY <2>0, <2>3, <2>4
<1> HIDE DEF c
<1>6. ASSUME NEW x \in names PROVE Alike(H, n, new[x]) /\ new[x].ends = <<>>
  <2> DEFINE j == CHOOSE i \in DOMAIN path : path[i].var = x
  <2>1. \E i \in DOMAIN path : path[i].var = x
    BY <1>6, ZenonT(30)
  <2>2. j \in DOMAIN path /\ path[j].var = x
    BY <2>1
  <2>3. new[x] = m.vs[j]
    <3> HIDE DEF names
    <3>1. \A y \in names : new[y] = m.vs[CHOOSE i \in DOMAIN path : path[i].var = y]
      BY Zenon
    <3> QED
      BY <3>1, Zenon
  <2>3a. x \in NewNames(c)
    BY <1>0
  <2> HIDE DEF j, new, names
  <2>4. path[j].new /\ j \in 1 .. Len(path)
    BY <1>3, <1>5, <2>2, <2>3a
  <2> QED
    BY <2>3, <2>4
<1>7. DOMAIN new = names
  OBVIOUS
<1> HIDE DEF new, names
<1>8. \A x \in DOMAIN ent : ent[x] = IF x \in names THEN new[x] ELSE row.ent[x]
  BY <1>7 DEF Extended
<1>9. \A x \in DOMAIN ent : x \in names \/ x \in DOMAIN row.ent
  BY <1>7 DEF Extended
<1> HIDE DEF ent
<1> SUFFICES ASSUME NEW x \in DOMAIN ent PROVE EntSafe(H, n, r, x, ent[x])
  BY <1>2 DEF RowSafe
<1>10. CASE x \in names
  BY <1>0, <1>4, <1>6, <1>8, <1>10 DEF EntSafe
<1>11. CASE x \notin names
  BY <1>8, <1>9, <1>11 DEF RowSafe
<1> QED
  BY <1>10, <1>11

LEMMA MergingMade ==
  ASSUME NEW r, NEW w, MergeAt(r, w), NEW H, NEW n, NEW q, Viewed(H, n, r, q),
         NEW m \in Merged(Entities), Len(m.vs) = Len(r.stmt.clauses[w.k].path),
         NEW p, p = Remembered(Inserted(q), w.k, m)
  PROVE  Makes(H, n, r, p, m.vs)
<1> DEFINE i == Inserted(q)
           E == Entities
<1>1. /\ Good(r, E) /\ Course(r) /\ r.phase = "rows" /\ r.todo # <<>> /\ w.k \in 1 .. Len(r.stmt.clauses)
  BY DEF MergeAt
<1>2. /\ Good(q, E) /\ Steady(r, q) /\ q.deleted = r.deleted /\ q.b = r.b
      /\ q.todo = r.todo /\ (q.used => r.used) /\ q.created = r.created /\ q.G = r.G
      /\ InnerSafe(H, n, r, q) /\ Counts(r, q)
  BY DEF Viewed, Merging
<1>3. /\ Good(i, E) /\ Steady(q, i) /\ SameLists(q, i) /\ i.b = q.b /\ i.todo = q.todo
      /\ q.G = q.base => i.G = q.G + 1 /\ ~i.used
      /\ q.G # q.base => i = q
  BY <1>2, InsertedRun
<1> HIDE DEF i
<1>4. i.stmt = r.stmt /\ p = Remembered(i, w.k, m)
  BY <1>2, <1>3 DEF Steady, i
<1>5. Remembers(i, m, p, E)
  BY <1>1, <1>3, <1>4, CreatedRun
<1>6. /\ Good(p, E) /\ Steady(i, p) /\ p.inner = i.inner /\ p.deleted = i.deleted
      /\ p.b = i.b /\ p.G = i.G /\ p.used = i.used /\ p.todo = i.todo
      /\ \A j \in 1 .. Len(i.created) : \A o \in p.created[j] : o \in i.created[j] \/ o = m
  BY <1>5 DEF Remembers
<1>7. /\ Steady(r, p) /\ p.inner = q.inner /\ p.deleted = r.deleted /\ p.b = r.b /\ p.todo = r.todo
      /\ i.created = r.created
  BY <1>2, <1>3, <1>6 DEF Steady, SameLists
<1>8. r.G \in Nat /\ r.base \in Nat /\ r.base <= r.G /\ q.base = r.base
  BY <1>1, <1>2 DEF Good, Runs, Course, Steady
<1>9. Counts(r, p) /\ (p.used => r.used) /\ r.base < p.G
  <2>1. CASE q.G = q.base
    BY <1>2, <1>3, <1>6, <1>8, <2>1 DEF Counts
  <2>2. CASE q.G # q.base
    BY <1>2, <1>3, <1>6, <1>8, <2>2 DEF Counts
  <2> QED
    BY <2>1, <2>2
<1>10. Merging(r, p)
  BY <1>6, <1>7, <1>9 DEF Merging
<1>11. InnerSafe(H, n, r, p)
  BY <1>2, <1>7 DEF InnerSafe
<1>12. \A k \in Kinds(r.stmt, "merge") : k \in 1 .. Len(i.created)
  BY <1>1, <1>7 DEF Kinds, Good, Fits
<1> QED
  BY <1>6, <1>7, <1>9, <1>10, <1>11, <1>12 DEF Makes

\* The vertices of a path that was remembered.
LEMMA AgainSafe ==
  ASSUME NEW s, Lone(s), NEW r, r = run[s], NEW w, MergeAt(r, w), NEW m \in r.created[w.k]
  PROVE  /\ m.vs \in Seq(Entities) /\ Len(m.vs) = Len(r.stmt.clauses[w.k].path)
         /\ PathSafe(heap, ids, m.vs)
<1> DEFINE k == w.k
<1>1. Good(r, Entities) /\ r.phase = "rows" /\ k \in 1 .. Len(r.stmt.clauses) /\ r.stmt.clauses[k].op = "merge"
  BY DEF MergeAt
<1>2. r.created \in Seq(SUBSET Merged(Entities)) /\ k \in 1 .. Len(r.created)
  BY <1>1 DEF Good, Runs, Fits
<1>3. r.created[k] \in SUBSET Merged(Entities)
  BY <1>2
<1>4. m.vs \in Seq(Entities)
  BY <1>3 DEF Merged
<1>5. Len(m.vs) = Len(r.stmt.clauses[k].path)
  BY <1>1, <1>2 DEF Good, Fits
<1>6. RunSafe(heap, ids, r) /\ k \in Kinds(r.stmt, "merge")
  BY <1>1 DEF Lone, Safe, Kinds
<1>7. PathSafe(heap, ids, m.vs)
  BY <1>6 DEF RunSafe, PathSafe
<1> QED
  BY <1>4, <1>5, <1>7

\* A match binds new variables to vertices of the view.
LEMMA MatchSafe ==
  ASSUME NEW view, NEW path \in Seq(Node), NEW row, NEW m \in Matches(view, path, row),
         NEW i \in 1 .. Len(path), path[i].new
  PROVE  m.vs[i] \in view /\ m.vs[i].ends = <<>>
<1> DEFINE vertices == {e \in view : e.ends = <<>>}
           fits(node) ==
             IF node.new
             THEN {e \in vertices : \A p \in DOMAIN node.props : e.prop[p] = Eval(node.props, row)[p]}
             ELSE {row.ent[node.var]}
           VS == {vs \in [DOMAIN path -> UNION {fits(node) : node \in ToSet(path)}] :
                    \A k \in DOMAIN path : vs[k] \in fits(path[k])}
           ES == [1 .. Len(path) - 1 -> view \ vertices]
<1>1. Matches(view, path, row) \subseteq [vs : VS, es : ES]
  BY DEF Matches
<1> HIDE DEF fits, ES, vertices
<1>2. m.vs \in VS
  BY <1>1
<1>3. m.vs[i] \in fits(path[i])
  BY <1>2
<1>4. fits(path[i]) \subseteq vertices
  BY DEF fits
<1> QED
  BY <1>3, <1>4 DEF vertices

\* Session s is at MERGE with work w, of a row and a path.
MergeOn(s, r, w, row, path) ==
    /\ Lone(s) /\ r = run[s] /\ MergeAt(r, w) /\ r.stmt \in Statement
    /\ path = r.stmt.clauses[w.k].path /\ path \in Seq(Node)
    /\ row = w.row /\ row \in Rows(Entities) /\ RowSafe(heap, ids, r, row)
    /\ \A x \in ToSet(path) : ~x.new => x.var \in DOMAIN row.ent
    /\ Earlier(<<path>>) \subseteq DOMAIN row.ent
    /\ Earlier(<<path>>) \subseteq OldNames(r.stmt.clauses[w.k])
    /\ \A x \in ToSet(path) : x.var \in NewIn(<<path>>) \/ x.var \in Earlier(<<path>>)

LEMMA OneElement ==
  ASSUME NEW x
  PROVE  ToSet(<<x>>) = {x}
BY DEF ToSet

LEMMA MergeWork ==
  ASSUME NEW s, Lone(s), At(s, "merge"), NEW r, r = run[s], NEW w, w = Head(r.todo),
         NEW row, row = w.row, NEW path, path = r.stmt.clauses[w.k].path
  PROVE  MergeOn(s, r, w, row, path)
<1> DEFINE c == r.stmt.clauses[w.k]
<1>1. /\ r.phase = "rows" /\ Good(r, Entities) /\ r.todo # <<>> /\ Course(r)
      /\ row \in Rows(Entities) /\ Reaches(r.stmt, row, w.k)
      /\ r.stmt \in Statement /\ w.k \in 1 .. Len(r.stmt.clauses) /\ w.k \in Nat \ {0}
      /\ c \in Clause /\ c.op = "merge" /\ RowSafe(heap, ids, r, row)
  BY LoneWork, ZenonT(30)
<1>2. MergeAt(r, w)
  BY <1>1, ZenonT(30) DEF MergeAt
<1>2a. c \in Clause /\ c.op = "merge" /\ r.stmt \in Statement /\ w.k \in 1 .. Len(r.stmt.clauses)
  BY <1>1, Zenon
<1>3. path \in Seq(Node) /\ path = c.path
  BY <1>2a, ClauseFields, Zenon
<1>4. OldNames(c) \subseteq Scope(r.stmt, w.k)
  BY <1>2a, ParsedStatement, Zenon
<1>4a. Scope(r.stmt, w.k) \subseteq DOMAIN row.ent
  BY <1>1 DEF Reaches
<1> HIDE DEF c
<1>5. /\ Nodes(c) = ToSet(path) /\ NewIn(<<path>>) = NewNames(c)
      /\ Earlier(<<path>>) \subseteq {x.var : x \in {y \in ToSet(path) : ~y.new}}
      /\ NewNames(c) = {x.var : x \in {y \in ToSet(path) : y.new}}
  BY <1>1, <1>3, MergeNames
<1>6. OldNames(c) = {x.var : x \in {y \in ToSet(path) : ~y.new}}
  BY <1>5, Zenon DEF OldNames
<1>7. \A x \in ToSet(path) : ~x.new => x.var \in DOMAIN row.ent
  BY <1>4, <1>4a, <1>6, Zenon
<1>8. Earlier(<<path>>) \subseteq DOMAIN row.ent /\ Earlier(<<path>>) \subseteq OldNames(c)
  BY <1>4, <1>4a, <1>5, <1>6, Zenon
<1>9. \A x \in ToSet(path) : x.var \in NewIn(<<path>>) \/ x.var \in Earlier(<<path>>)
  <2>1. ToSet(<<path>>) = {path}
    BY OneElement, Zenon
  <2>2. UNION {ToSet(p) : p \in ToSet(<<path>>)} = ToSet(path)
    BY <2>1, ZenonT(60)
  <2> QED
    BY <2>2, ZenonT(60) DEF NewIn, Earlier
<1> QED
  BY <1>1, <1>2, <1>3, <1>7, <1>8, <1>9, ZenonT(60) DEF MergeOn, c

\* The row of a match or of a remembered path goes up.
LEMMA BoundUp ==
  ASSUME NEW s, NEW r, NEW w, NEW row, NEW path, MergeOn(s, r, w, row, path),
         NEW m, m.vs \in Seq(Entities), Len(m.vs) = Len(path),
         \A i \in 1 .. Len(path) : path[i].new => Alike(heap, ids, m.vs[i]) /\ m.vs[i].ends = <<>>
  PROVE  Bound(row, path, m) \in Rows(Entities) /\ RowSafe(heap, ids, r, Bound(row, path, m))
<1> DEFINE k == w.k
<1>1. /\ r.stmt \in Statement /\ k \in 1 .. Len(r.stmt.clauses) /\ r.stmt.clauses[k].op = "merge"
      /\ path = r.stmt.clauses[k].path /\ path \in Seq(Node)
      /\ row \in Rows(Entities) /\ RowSafe(heap, ids, r, row)
  BY Zenon DEF MergeOn, MergeAt
<1> HIDE DEF k
<1>2. RowSafe(heap, ids, r, Bound(row, path, m))
  BY <1>1, BoundSafe
<1>3. Bound(row, path, m) \in Rows(Entities)
  BY <1>1, BoundGood
<1> QED
  BY <1>2, <1>3

LEMMA FoundUpheld ==
  ASSUME NEW s, NEW r, NEW w, NEW row, NEW path, MergeOn(s, r, w, row, path),
         NEW view \in Views(Entities), \A e \in view : Alike(heap, ids, e),
         NEW q, Viewed(heap, ids, r, q), NEW ms \in SetToSeqs(Matches(view, path, row)),
         run'[s] = Passed(q, w.k, [i \in DOMAIN ms |-> Bound(row, path, ms[i])]),
         UNCHANGED <<heap, ids>>
  PROVE  Upheld(s)
<1> DEFINE found == Matches(view, path, row)
           n == Cardinality(found)
           up == [i \in DOMAIN ms |-> Bound(row, path, ms[i])]
<1>1. /\ Lone(s) /\ r = run[s] /\ MergeAt(r, w) /\ path \in Seq(Node) /\ row \in Rows(Entities)
      /\ \A x \in ToSet(path) : ~x.new => x.var \in DOMAIN row.ent
  BY DEF MergeOn
<1>2. IsFiniteSet(found) /\ \A m \in found : m.vs \in Seq(Entities) /\ Len(m.vs) = Len(path)
  BY <1>1, MatchesGood
<1>3. \A m \in found : \A i \in 1 .. Len(path) :
         path[i].new => Alike(heap, ids, m.vs[i]) /\ m.vs[i].ends = <<>>
  BY <1>1, MatchSafe
<1>3a. run'[s] = Passed(q, w.k, up) /\ ms \in SetToSeqs(found)
  OBVIOUS
<1> HIDE DEF found
<1>4. n \in Nat /\ ms \in [1 .. n -> found]
  BY <1>2, <1>3a, FS_CardinalityType DEF SetToSeqs
<1> HIDE DEF n
<1>5. \A m \in found : Bound(row, path, m) \in Rows(Entities) /\ RowSafe(heap, ids, r, Bound(row, path, m))
  BY <1>2, <1>3, BoundUp
<1>6. up = [i \in 1 .. n |-> Bound(row, path, ms[i])]
  BY <1>4
<1>7. \A i \in 1 .. n : ms[i] \in found
  BY <1>4
<1> HIDE DEF up
<1>8. up \in Seq(Rows(Entities)) /\ \A i \in 1 .. Len(up) : RowSafe(heap, ids, r, up[i])
  BY <1>4, <1>5, <1>6, <1>7
<1>9. Merging(r, q) /\ InnerSafe(heap, ids, r, q) /\ q.created = r.created
  BY DEF Viewed
<1> QED
  BY <1>1, <1>3a, <1>8, <1>9, MergeWaits, ZenonT(30)

LEMMA AgainUpheld ==
  ASSUME NEW s, NEW r, NEW w, NEW row, NEW path, MergeOn(s, r, w, row, path),
         NEW q, Viewed(heap, ids, r, q), NEW m \in r.created[w.k],
         run'[s] = Passed(q, w.k, <<Bound(row, path, m)>>), UNCHANGED <<heap, ids>>
  PROVE  Upheld(s)
<1> DEFINE b == Bound(row, path, m)
           up == <<b>>
<1>1. /\ Lone(s) /\ r = run[s] /\ MergeAt(r, w) /\ path = r.stmt.clauses[w.k].path
  BY DEF MergeOn
<1>2. m.vs \in Seq(Entities) /\ Len(m.vs) = Len(path) /\ PathSafe(heap, ids, m.vs)
  BY <1>1, AgainSafe
<1>3. b \in Rows(Entities) /\ RowSafe(heap, ids, r, b)
  BY <1>2, BoundUp DEF PathSafe
<1>4. run'[s] = Passed(q, w.k, up)
  OBVIOUS
<1> HIDE DEF b
<1>5. up \in Seq(Rows(Entities)) /\ \A i \in 1 .. Len(up) : RowSafe(heap, ids, r, up[i])
  BY <1>3
<1> HIDE DEF up
<1>6. Merging(r, q) /\ InnerSafe(heap, ids, r, q) /\ q.created = r.created
  BY DEF Viewed
<1> QED
  BY <1>1, <1>4, <1>5, <1>6, MergeWaits, ZenonT(30)

\* The vertices of the path that a row asked for.
PathOf(path, ent) == [i \in DOMAIN path |-> ent[path[i].var]]

\* The path can be made, and its vertices are.
LEMMA PathMade ==
  ASSUME NEW s, NEW r, NEW w, NEW row, NEW path, MergeOn(s, r, w, row, path),
         \A st \in Statement : Firm(st),
         \A x \in Earlier(<<path>>) : Known(r, w.k, row.ent[x]),
         NEW m, m = MadePaths(row, <<path>>),
         heap' = heap \cup VersionsOf(m.made, r.xid, r.base), ids' = m.last
  PROVE  /\ Making(s, w.k, row, <<path>>, m, r.base)
         /\ \A i \in 1 .. Len(path) : /\ path[i].var \in DOMAIN m.row.ent
                                      /\ m.row.ent[path[i].var].ends = <<>>
<1> DEFINE paths == <<path>>
           k == w.k
<1>1. /\ Lone(s) /\ r = run[s] /\ MergeAt(r, w) /\ r.stmt \in Statement /\ path \in Seq(Node)
      /\ row \in Rows(Entities) /\ RowSafe(heap, ids, r, row)
      /\ Earlier(paths) \subseteq DOMAIN row.ent
      /\ Earlier(paths) \subseteq OldNames(r.stmt.clauses[k])
      /\ \A x \in ToSet(path) : x.var \in NewIn(paths) \/ x.var \in Earlier(paths)
  BY Zenon DEF MergeOn
<1>2. paths \in Seq(Seq(Node))
  BY <1>1
<1>3. m = MadePaths(row, paths) /\ ids \in Nat
  BY <1>1 DEF Lone, ActiveFacts
<1>4. \A x \in Earlier(paths) : entity_exists(r, r.b + k, row.ent[x].id)
  BY ZenonT(30) DEF Known
<1>4a. r.phase = "rows" /\ k \in 1 .. Len(r.stmt.clauses) /\ Firm(r.stmt)
  BY <1>1 DEF MergeAt
<1> HIDE DEF paths, k
<1>5. MadeWell(m, row, paths, Entities) /\ MadeEnds(m, row, paths)
  <2>1. Entities \subseteq Entities /\ \A e \in Entities : e.id > ids => e \in Entities
    OBVIOUS
  <2> QED
    BY <1>1, <1>2, <1>3, <2>1, MadePathsGood
<1>6. Making(s, k, row, paths, m, r.base)
  BY <1>1, <1>4, <1>4a, <1>5 DEF Making
<1>7. ASSUME NEW x \in Earlier(paths) PROVE x \in DOMAIN row.ent /\ row.ent[x].ends = <<>>
  <2>1. x \in DOMAIN row.ent /\ x \in OldNames(r.stmt.clauses[k]) /\ entity_exists(r, r.b + k, row.ent[x].id)
    BY <1>1, <1>4
  <2> QED
    BY <1>1, <1>4a, <2>1, ExistsHeld
<1>8. DOMAIN m.row.ent = DOMAIN row.ent \cup NewIn(paths)
  BY <1>5 DEF MadeWell
<1>9. /\ \A x \in NewIn(paths) : m.row.ent[x].ends = <<>>
      /\ \A x \in DOMAIN row.ent \ NewIn(paths) : m.row.ent[x] = row.ent[x]
  BY <1>5 DEF MadeEnds
<1>10. ASSUME NEW i \in 1 .. Len(path)
       PROVE  path[i].var \in DOMAIN m.row.ent /\ m.row.ent[path[i].var].ends = <<>>
  <2>1. path[i] \in ToSet(path)
    BY <1>1 DEF ToSet
  <2>2. path[i].var \in NewIn(paths) \/ path[i].var \in Earlier(paths)
    BY <1>1, <2>1
  <2> QED
    BY <1>7, <1>8, <1>9, <2>2
<1> QED
  BY <1>6, <1>10 DEF paths, k

LEMMA PathOfRow ==
  ASSUME NEW path \in Seq(Node), NEW ent
  PROVE  Len(path) \in Nat /\ PathOf(path, ent) = [i \in 1 .. Len(path) |-> ent[path[i].var]]
BY DEF PathOf

LEMMA MadeUpheld ==
  ASSUME NEW s, NEW r, NEW w, NEW row, NEW path, MergeOn(s, r, w, row, path),
         \A st \in Statement : Firm(st),
         \A x \in Earlier(<<path>>) : Known(r, w.k, row.ent[x]),
         NEW q, Viewed(heap, ids, r, q), NEW m, m = MadePaths(row, <<path>>),
         heap' = heap \cup VersionsOf(m.made, r.xid, r.base), ids' = m.last,
         NEW new, new = [key |-> PathKey(path, row), vs |-> PathOf(path, m.row.ent)],
         run'[s] = Passed(Remembered(Inserted(q), w.k, new), w.k, <<m.row>>)
  PROVE  Upheld(s)
<1> DEFINE paths == <<path>>
           k == w.k
           key == PathKey(path, row)
           vs == PathOf(path, m.row.ent)
           p == Remembered(Inserted(q), k, new)
<1>1. /\ Lone(s) /\ r = run[s] /\ MergeAt(r, w) /\ path \in Seq(Node) /\ row \in Rows(Entities)
      /\ path = r.stmt.clauses[k].path /\ row = w.row
      /\ \A x \in ToSet(path) : ~x.new => x.var \in DOMAIN row.ent
  BY Zenon DEF MergeOn
<1>2. /\ Making(s, k, row, paths, m, r.base)
      /\ \A i \in 1 .. Len(path) : path[i].var \in DOMAIN m.row.ent /\ m.row.ent[path[i].var].ends = <<>>
  BY PathMade
<1>3. key \in Seq(Nat \cup [Prop -> Values])
  BY <1>1, PathKeyType, Zenon
<1>4. m.row.ent \in [DOMAIN m.row.ent -> Entities]
  <2>1. m.row \in Rows(Entities)
    BY <1>2 DEF Making, MadeWell
  <2> QED
    BY <2>1, BindingsFields DEF Rows
<1>5. Len(path) \in Nat /\ vs = [i \in 1 .. Len(path) |-> m.row.ent[path[i].var]]
  BY <1>1, PathOfRow, Zenon
<1>5a. run'[s] = Passed(p, k, <<m.row>>) /\ new.vs = vs /\ new.key = key /\ new = [key |-> key, vs |-> vs]
  OBVIOUS
<1>5b. p = Remembered(Inserted(q), k, new)
  OBVIOUS
<1> HIDE DEF key, vs, paths, p
<1>6. \A i \in 1 .. Len(path) : m.row.ent[path[i].var] \in Entities
  BY <1>2, <1>4
<1>7. vs \in Seq(Entities) /\ Len(vs) = Len(path)
  BY <1>5, <1>6
<1>8. new \in Merged(Entities)
  BY <1>3, <1>5a, <1>7 DEF Merged
<1>9. Makes(heap, ids, r, p, vs)
  BY <1>1, <1>5a, <1>5b, <1>7, <1>8, MergingMade, Zenon DEF k
<1>10. Among(vs, m)
  <2>1. \A i \in 1 .. Len(path) : vs[i] = m.row.ent[path[i].var]
    BY <1>5
  <2> QED
    BY <1>2, <1>7, <2>1 DEF Among
<1>11. Making(s, w.k, w.row, paths, m, r.base) /\ run'[s] = Passed(p, w.k, <<m.row>>)
  BY <1>1, <1>2, <1>5a, Zenon DEF k
<1> QED
  <2>1. Lone(s) /\ r = run[s] /\ MergeAt(r, w)
    BY <1>1, Zenon
  <2> HIDE DEF k
  <2> QED
    BY <1>9, <1>10, <1>11, <2>1, MergeMakes, Zenon

LEMMA MergeUpheld ==
  ASSUME NEW s, Lone(s), exec_cypher_merge(s), \A st \in Statement : Firm(st)
  PROVE  Upheld(s) \/ Fail(s)
<1> DEFINE r     == run[s]
           w     == Head(r.todo)
           k     == w.k
           row   == w.row
           path  == r.stmt.clauses[k].path
           view  == IF r.inner[k] # <<>> THEN r.inner[k][1] ELSE View(r, r.b + k - 1)
           q     == IF r.fixed THEN [r EXCEPT !.inner[k] = <<view>>] ELSE r
           found == Matches(view, path, row)
           key   == PathKey(path, row)
           made  == MadePaths(row, <<path>>)
           vs    == [i \in DOMAIN path |-> made.row.ent[path[i].var]]
           new   == [key |-> key, vs |-> vs]
           more  == [Inserted(q) EXCEPT !.created[k] = @ \cup {new}]
           rows(ms) == [i \in DOMAIN ms |-> Bound(row, path, ms[i])]
<1>1. At(s, "merge")
  BY Zenon DEF exec_cypher_merge
<1>2. \/ \E ms \in SetToSeqs(found) :
            run' = [run EXCEPT ![s] = Passed(q, k, rows(ms))] /\ UNCHANGED <<heap, committed, ids>>
      \/ \E m \in {o \in r.created[k] : compare_2_paths(key, o.key)} :
            /\ run' = [run EXCEPT ![s] = Passed(q, k, <<Bound(row, path, m)>>)]
            /\ UNCHANGED <<heap, committed, ids>>
      \/ /\ \A x \in Earlier(<<path>>) : Known(r, k, row.ent[x])
         /\ heap' = heap \cup {Version(e, r.xid, r.base) : e \in made.made}
         /\ ids' = made.last
         /\ run' = [run EXCEPT ![s] = Passed(more, k, <<made.row>>)]
         /\ UNCHANGED committed
      \/ Fail(s)
  BY Zenon DEF exec_cypher_merge
<1>3. MergeOn(s, r, w, row, path)
  BY <1>1, MergeWork
<1>4. s \in DOMAIN run /\ MergeAt(r, w)
  BY <1>3, Zenon DEF MergeOn, Lone, ActiveFacts
<1>5. view \in Views(Entities) /\ \A e \in view : Alike(heap, ids, e)
  BY <1>4, MergeViewSafe
<1> HIDE DEF view
<1>6. q = r \/ q = KeptView(r, w.k, view)
  BY DEF KeptView
<1>6a. more = Remembered(Inserted(q), w.k, new) /\ vs = PathOf(path, made.row.ent)
  BY DEF Remembered, PathOf
<1> HIDE DEF q, more
<1>7. Viewed(heap, ids, r, q)
  <2> HIDE DEF r, w
  <2> QED
    BY <1>4, <1>5, <1>6, MergingView
<1>8. ASSUME NEW ms \in SetToSeqs(found), run' = [run EXCEPT ![s] = Passed(q, k, rows(ms))],
             UNCHANGED <<heap, committed, ids>>
      PROVE  Upheld(s)
  <2>1. run'[s] = Passed(q, w.k, [i \in DOMAIN ms |-> Bound(row, path, ms[i])])
    BY <1>4, <1>8, Zenon
  <2> HIDE DEF r, w, row, path
  <2> QED
    BY <1>3, <1>5, <1>7, <1>8, <2>1, FoundUpheld
<1>9. ASSUME NEW m \in {o \in r.created[k] : compare_2_paths(key, o.key)},
             run' = [run EXCEPT ![s] = Passed(q, k, <<Bound(row, path, m)>>)],
             UNCHANGED <<heap, committed, ids>>
      PROVE  Upheld(s)
  <2>1. run'[s] = Passed(q, w.k, <<Bound(row, path, m)>>) /\ m \in r.created[w.k]
    BY <1>4, <1>9, Zenon
  <2> HIDE DEF r, w, row, path
  <2> QED
    BY <1>3, <1>7, <1>9, <2>1, AgainUpheld
<1>10. ASSUME \A x \in Earlier(<<path>>) : Known(r, k, row.ent[x]),
              heap' = heap \cup {Version(e, r.xid, r.base) : e \in made.made}, ids' = made.last,
              run' = [run EXCEPT ![s] = Passed(more, k, <<made.row>>)]
       PROVE  Upheld(s)
  <2>1. run'[s] = Passed(Remembered(Inserted(q), w.k, new), w.k, <<made.row>>)
    BY <1>4, <1>6a, <1>10, Zenon
  <2>2. heap' = heap \cup VersionsOf(made.made, r.xid, r.base)
    BY <1>10, Zenon DEF VersionsOf
  <2>3. new = [key |-> PathKey(path, row), vs |-> PathOf(path, made.row.ent)]
    BY <1>6a, Zenon
  <2>4. \A x \in Earlier(<<path>>) : Known(r, w.k, row.ent[x])
    BY <1>10, Zenon
  <2>5. made = MadePaths(row, <<path>>)
    OBVIOUS
  <2> HIDE DEF made, new, r, w, row, path
  <2> QED
    BY <1>3, <1>7, <1>10, <2>1, <2>2, <2>3, <2>4, <2>5, MadeUpheld
<1> HIDE DEF found, rows, made, new, key
<1> QED
  BY <1>2, <1>8, <1>9, <1>10, Zenon

-----------------------------------------------------------------------------
(* A statement starts *)

\* Copies are what is seen, or NULL, and only r of a MATCH of edges is an edge.
Drives(ent, r, src, c) ==
    \A x \in DOMAIN ent : /\ ent[x] \in View(r, c) \cup {Null}
                          /\ ent[x].ends # <<>> => x \in EdgeNames(src)

LEMMA DrivingShape ==
  ASSUME NEW r, NEW c, NEW src \in Source
  PROVE  \A row \in DrivingRows(r, src, c) : Drives(row.ent, r, src, c)
<1> DEFINE vertices == {e \in View(r, c) : e.ends = <<>>}
           edges == View(r, c) \ vertices
<1>0. \A n, i, ent : Row(n, i, ent).ent = ent
  BY DEF Row
<1>1. CASE src.kind = "unwind"
  <2>0. DrivingRows(r, src, c) = {Row(k, src.values[k], <<>>) : k \in DOMAIN src.values}
    BY <1>1 DEF DrivingRows
  <2> TAKE row \in DrivingRows(r, src, c)
  <2>1. PICK k \in DOMAIN src.values : row = Row(k, src.values[k], <<>>)
    BY <2>0
  <2>2. row.ent = <<>>
    BY <1>0, <2>1
  <2>3. DOMAIN row.ent = {}
    BY <2>2
  <2> QED
    BY <2>3 DEF Drives
<1>2. CASE src.kind = "vertices"
  <2>0. DrivingRows(r, src, c) = {Row(0, None, f) : f \in [src.names -> vertices]}
    BY <1>2 DEF DrivingRows
  <2> TAKE row \in DrivingRows(r, src, c)
  <2>1. PICK f \in [src.names -> vertices] : row = Row(0, None, f)
    BY <2>0
  <2>2. row.ent = f
    BY <1>0, <2>1
  <2>3. \A x \in DOMAIN f : f[x] \in vertices
    OBVIOUS
  <2> QED
    BY <2>2, <2>3 DEF Drives
<1>3. CASE src.kind = "edges"
  <2> DEFINE f(m) == [x \in {"a", "r", "b"} |->
                      CASE x = "a" -> m[1] [] x = "r" -> m[2] [] x = "b" -> m[3]]
  <2>1. DrivingRows(r, src, c) =
          {Row(0, None, f(m)) : m \in {x \in vertices \X edges \X vertices :
                                        x[2].ends = <<x[1].id, x[3].id>>}}
    BY <1>3 DEF DrivingRows
  <2> TAKE row \in DrivingRows(r, src, c)
  <2> HIDE DEF f, vertices, edges
  <2>2. PICK m \in vertices \X edges \X vertices : row = Row(0, None, f(m))
    BY <2>1
  <2>3. row.ent = f(m)
    BY <1>0, <2>2
  <2> USE DEF f
  <2>4. m[1] \in vertices /\ m[2] \in edges /\ m[3] \in vertices
    OBVIOUS
  <2>5. /\ DOMAIN f(m) = {"a", "r", "b"}
        /\ f(m)["a"] = m[1] /\ f(m)["r"] = m[2] /\ f(m)["b"] = m[3]
    OBVIOUS
  <2> HIDE DEF f
  <2>6. EdgeNames(src) = {"r"}
    BY <1>3 DEF EdgeNames
  <2> USE DEF vertices, edges
  <2> QED
    BY <2>3, <2>4, <2>5, <2>6 DEF Drives
<1>4. CASE src.kind = "optional"
  <2> DEFINE found == {e \in vertices : e.prop[src.p] = src.v}
             lefts == IF found = {} THEN {Null} ELSE found
             f(a, b) == [x \in {"a", "b"} |-> IF x = "a" THEN a ELSE b]
  <2>1. DrivingRows(r, src, c) = {Row(0, None, f(a, b)) : a \in lefts, b \in vertices}
    BY <1>4 DEF DrivingRows
  <2> HIDE DEF f, lefts, vertices, edges
  <2> TAKE row \in DrivingRows(r, src, c)
  <2>2. \E a \in lefts, b \in vertices : row.ent = f(a, b)
    BY <2>1 DEF Row
  <2>3. PICK a \in lefts, b \in vertices : row.ent = f(a, b)
    BY <2>2
  <2> USE DEF f, lefts, vertices
  <2>4. DOMAIN f(a, b) = {"a", "b"} /\ f(a, b)["a"] = a /\ f(a, b)["b"] = b
    OBVIOUS
  <2>5. Null.ends = <<>>
    BY DEF Null
  <2>6. a \in vertices \cup {Null}
    OBVIOUS
  <2> HIDE DEF f, lefts, found
  <2> QED
    BY <2>3, <2>4, <2>5, <2>6 DEF Drives
<1>5. src.kind \in {"unwind", "vertices", "edges", "optional"}
  BY DEF Source
<1> QED
  BY <1>1, <1>2, <1>3, <1>4, <1>5

\* What a transaction x finds at its command g when it has the graph for itself.
Found(x, g) ==
    /\ heap \in SUBSET Versions /\ ids \in Nat /\ \A v \in heap : v.id \in 1 .. ids
    /\ SameEnds(heap) /\ g \in Nat /\ x \in Nat
    /\ NoXid \notin committed /\ x \notin committed
    /\ \A v \in heap : v.xmax \in committed \/ IsOpen(v) \/ (v.xmax = x /\ v.cmax < g)
    /\ \A v \in heap : v.xmin = x => v.cmin < g
    /\ \A e \in heap : IsOpen(e) => \A i \in DOMAIN e.ends : Alive(heap, e.ends[i])

LEMMA FoundSeen ==
  ASSUME NEW x, NEW g, Found(x, g), NEW r, r.xid = x, r.snap = committed, NEW e \in View(r, g)
  PROVE  e.id \in Nat /\ Alike(heap, ids, e) /\ (e.ends = <<>> => Alive(heap, e.id))
<1>1. PICK v \in Visible(r, g) : e = Entity(v)
  BY DEF View
<1>2. v \in heap /\ ~Sees(r, v.xmax, v.cmax, g)
  BY <1>1 DEF Visible
<1>3. /\ heap \in SUBSET Versions /\ ids \in Nat /\ \A w \in heap : w.id \in 1 .. ids
      /\ SameEnds(heap) /\ x \notin committed
      /\ v.xmax \in committed \/ IsOpen(v) \/ (v.xmax = x /\ v.cmax < g)
  BY <1>2 DEF Found
<1>4. e.id = v.id /\ e.ends = v.ends
  BY <1>1 DEF Entity
<1>5. IsOpen(v)
  BY <1>2, <1>3 DEF Sees, CidBefore
<1>6. Alike(heap, ids, e)
  BY <1>2, <1>3, <1>4 DEF Alike, SameEnds
<1>7. e.ends = <<>> => Alive(heap, e.id)
  BY <1>2, <1>4, <1>5 DEF Alive
<1> QED
  BY <1>2, <1>3, <1>4, <1>6, <1>7

LEMMA NullAlike ==
  ASSUME NEW x, NEW g, Found(x, g)
  PROVE  Alike(heap, ids, Null) /\ Null.ends = <<>> /\ Null.id = 0
<1>1. Null.ends = <<>> /\ Null.id = 0
  BY DEF Null
<1>2. ids \in Nat /\ \A w \in heap : w.id \in 1 .. ids
  BY DEF Found
<1>3. 0 \in 0 .. ids /\ \A w \in heap : w.id # 0
  BY <1>2
<1> QED
  BY <1>1, <1>3 DEF Alike

\* The first state of a run.
Fresher(q, st, x, g) ==
    /\ q.phase = "rows" /\ q.xid = x /\ q.stmt = st /\ q.snap = committed
    /\ q.G = g /\ q.used = FALSE /\ q.base = g /\ q.b = g /\ q.todo = <<>>
    /\ q.level = Len(st.clauses) /\ Len(q.deleted) = Len(st.clauses)
    /\ \A k \in 1 .. Len(st.clauses) : q.deleted[k] = {} /\ q.created[k] = {}
    /\ \A k \in 1 .. Len(q.inner) : q.inner[k] = <<>>

Filled(q, st, x, at, g, fixed, said, rows) ==
    q = [Started(st, x, at, committed, g, fixed, {}, said) EXCEPT !.rows = rows]

LEMMA StartedFresher ==
  ASSUME NEW st \in Statement, NEW x, NEW at, NEW g, NEW fixed, NEW said, NEW rows,
         NEW q, Filled(q, st, x, at, g, fixed, said, rows)
  PROVE  Fresher(q, st, x, g) /\ q.rows = rows
<1> DEFINE l == Len(st.clauses)
           r == Started(st, x, at, committed, g, fixed, {}, said)
           deleted == [k \in DOMAIN st.clauses |-> {}]
           created == [k \in DOMAIN st.clauses |-> {}]
           inner == [k \in DOMAIN st.clauses |-> <<>>]
           todo == <<>>
           o == [phase |-> "rows", xid |-> x, stmt |-> st, at |-> at, snap |-> committed,
                 G |-> g, used |-> FALSE, base |-> g, b |-> g,
                 rows |-> {}, n |-> 0, todo |-> todo, level |-> l,
                 deleted |-> deleted, created |-> created,
                 fixed |-> fixed, inner |-> inner, said |-> said]
<1>1. l \in Nat \ {0} /\ DOMAIN st.clauses = 1 .. l
  BY ParsedStatement
<1>2. r = o
  BY DEF Started
<1>3. /\ Len(deleted) = l /\ \A k \in 1 .. l : deleted[k] = {} /\ created[k] = {}
  BY <1>1
<1>4. Len(inner) = l /\ \A k \in 1 .. Len(inner) : inner[k] = <<>>
  BY <1>1
<1>5. todo = <<>> /\ l = Len(st.clauses)
  OBVIOUS
<1>7. q = [r EXCEPT !.rows = rows]
  BY DEF Filled
<1> HIDE DEF l, deleted, created, inner, todo, r
<1>6. /\ q.phase = "rows" /\ q.xid = x /\ q.stmt = st /\ q.snap = committed
      /\ q.G = g /\ q.used = FALSE /\ q.base = g /\ q.b = g /\ q.todo = todo /\ q.level = l
      /\ q.deleted = deleted /\ q.created = created /\ q.inner = inner /\ q.rows = rows
  BY <1>2, <1>7
<1> HIDE DEF o
<1> QED
  BY <1>3, <1>4, <1>5, <1>6 DEF Fresher

LEMMA FresherSafe ==
  ASSUME NEW x, NEW g, Found(x, g), NEW st \in Statement, NEW q, Fresher(q, st, x, g),
         NEW r, r.xid = x, r.snap = committed, q.rows = DrivingRows(r, st.source, g)
  PROVE  Safe(heap, ids, q)
<1>1. /\ q.phase = "rows" /\ q.xid = x /\ q.stmt = st
      /\ q.G = g /\ q.used = FALSE /\ q.base = g /\ q.b = g /\ q.todo = <<>>
      /\ q.level = Len(st.clauses) /\ Len(q.deleted) = Len(st.clauses)
      /\ \A k \in 1 .. Len(st.clauses) : q.deleted[k] = {} /\ q.created[k] = {}
      /\ \A k \in 1 .. Len(q.inner) : q.inner[k] = <<>>
  BY DEF Fresher
<1>2. /\ heap \in SUBSET Versions /\ g \in Nat /\ x \in Nat
      /\ NoXid \notin committed /\ x \notin committed
      /\ \A v \in heap : v.xmax \in committed \/ IsOpen(v) \/ (v.xmax = x /\ v.cmax < g)
      /\ \A v \in heap : v.xmin = x => v.cmin < g
      /\ \A e \in heap : IsOpen(e) => \A i \in DOMAIN e.ends : Alive(heap, e.ends[i])
  BY DEF Found
<1>3. Len(st.clauses) \in Nat \ {0} /\ st.source \in Source
  BY ParsedStatement
<1>4. Stamped(heap, q)
  BY <1>1, <1>2 DEF Stamped, IsOpen, NoXid
<1>5. EdgesHeld(heap, q)
  BY <1>2 DEF EdgesHeld, Held
<1>6. Course(q)
  <2>1. q.base <= q.G /\ q.b >= q.base
    BY <1>1, <1>2
  <2>2. q.level \in 1 .. Len(st.clauses)
    BY <1>1, <1>3
  <2> QED
    BY <1>1, <2>1, <2>2 DEF Course
<1>7. GoneHeld(heap, q)
  <2>1. ASSUME NEW v \in heap, v.xmax = x, v.cmax >= g PROVE FALSE
    <3>1. v.cmax < g /\ v.cmax \in Nat
      BY <1>2, <2>1 DEF IsOpen, NoXid, Versions
    <3> QED
      BY <1>2, <2>1, <3>1
  <2> QED
    BY <1>1, <2>1 DEF GoneHeld
<1>8. ASSUME NEW o \in q.rows PROVE RowSafe(heap, ids, q, o)
  <2>1. Drives(o.ent, r, st.source, g)
    BY <1>3, <1>8, DrivingShape
  <2>2. ASSUME NEW y \in DOMAIN o.ent PROVE EntSafe(heap, ids, q, y, o.ent[y])
    <3> DEFINE e == o.ent[y]
    <3>1. (e \in View(r, g) \/ e = Null) /\ (e.ends # <<>> => y \in EdgeNames(st.source))
      BY <2>1 DEF Drives
    <3> HIDE DEF e
    <3>2. CASE e \in View(r, g)
      BY <1>1, <3>1, <3>2, FoundSeen DEF EntSafe, Held, e
    <3>3. CASE e = Null
      BY <1>1, <3>3, NullAlike DEF EntSafe, e
    <3> QED
      BY <3>1, <3>2, <3>3
  <2> QED
    BY <2>2 DEF RowSafe
<1>9. RunSafe(heap, ids, q)
  <2>1. Len(q.todo) = 0
    BY <1>1, EmptySeq
  <2>2. \A i \in 1 .. Len(q.todo) : FALSE
    BY <2>1
  <2>3. \A k \in Kinds(q.stmt, "merge") : q.created[k] = {}
    BY <1>1 DEF Kinds
  <2> QED
    BY <1>1, <1>8, <2>2, <2>3 DEF RunSafe
<1> QED
  BY <1>4, <1>5, <1>6, <1>7, <1>9 DEF Safe

\* The session's first statement, when no other session is at work.
LEMMA IdleFound ==
  ASSUME IInv, EInv, ~overlap, NEW s \in Session, s \notin Active, Active = {}
  PROVE  Found(started + 1, Incremented(run[s]).G)
<1> DEFINE x == started + 1
           g == Incremented(run[s]).G
<1>1. TInv /\ Sound(heap, committed, Active, run)
  BY DEF IInv, Consistent
<1>2. run[s] = Idle
  BY <1>1 DEF TInv
<1>3. g \in Nat
  <2>1. run[s].phase = "idle"
    BY <1>2 DEF Idle
  <2> QED
    BY <1>1, <2>1, OldRun
<1>4. /\ heap \in SUBSET Versions /\ ids \in Nat /\ started \in Nat
      /\ committed \in SUBSET (0 .. started) /\ \A v \in heap : v.id \in 1 .. ids
  BY <1>1 DEF TInv
<1>5. x \in Nat /\ x \notin committed
  BY <1>4
<1>6. /\ NoXid \notin committed /\ \A v \in heap : v.xmin \in committed
      /\ \A v \in heap : v.xmax \in committed \/ v.xmax = NoXid
  BY <1>1 DEF Sound
<1>7. SameEnds(heap) /\ WholeGraph(heap, committed)
  BY DEF EInv
<1>8. ASSUME NEW e \in heap, IsOpen(e), NEW i \in DOMAIN e.ends PROVE Alive(heap, e.ends[i])
  <2>1. e.xmin \in committed /\ e.xmax \notin committed
    BY <1>6, <1>8 DEF IsOpen
  <2>2. PICK v \in heap : v.xmin \in committed /\ v.xmax \notin committed /\ v.id = e.ends[i] /\ v.ends = <<>>
    BY <1>7, <2>1 DEF WholeGraph
  <2>3. IsOpen(v)
    BY <1>6, <2>2 DEF IsOpen
  <2> QED
    BY <2>2, <2>3 DEF Alive
<1> HIDE DEF x, g
<1>9. Found(x, g)
  BY <1>3, <1>4, <1>5, <1>6, <1>7, <1>8 DEF Found, IsOpen
<1> QED
  BY <1>9 DEF x, g

\* A later statement of the session's transaction.
LEMMA ReadyFound ==
  ASSUME IInv, NEW s, Lone(s), run[s].phase = "ready"
  PROVE  Found(run[s].xid, Incremented(run[s]).G)
<1> DEFINE r == run[s]
           g == Incremented(run[s]).G
<1>1. TInv
  BY DEF IInv
<1>2. /\ heap \in SUBSET Versions /\ ids \in Nat /\ \A v \in heap : v.id \in 1 .. ids
  BY <1>1 DEF TInv
<1>3. /\ Good(r, Entities) /\ SameEnds(heap) /\ Safe(heap, ids, r)
      /\ NoXid \notin committed /\ r.xid \notin committed /\ r.xid # NoXid
      /\ \A v \in heap : v.xmax \in committed \/ v.xmax = NoXid \/ v.xmax = r.xid
  BY DEF Lone
<1>4. Stamped(heap, r) /\ EdgesHeld(heap, r) /\ Course(r)
  BY <1>3 DEF Safe
<1>5. ~r.used
  BY <1>4 DEF Course
<1>6. g = r.G
  BY <1>3, <1>5, IncrementedRun
<1> HIDE DEF g
<1>7. r.xid \in Nat /\ g \in Nat
  BY <1>3, <1>6 DEF Good, Runs
<1>8. Pending(r) = {}
  BY DEF Pending
<1>9. \A v \in heap : (v.xmin = r.xid => v.cmin < g) /\ (v.xmax = r.xid => v.cmax < g)
  BY <1>4, <1>5, <1>6 DEF Stamped
<1>10. \A e \in heap : IsOpen(e) => \A i \in DOMAIN e.ends : Alive(heap, e.ends[i])
  BY <1>4, <1>8 DEF EdgesHeld, Held
<1> HIDE DEF r
<1>11. Found(r.xid, g)
  BY <1>2, <1>3, <1>7, <1>9, <1>10 DEF Found, IsOpen
<1> QED
  BY <1>11 DEF g, r

LEMMA StartEdges ==
  ASSUME IInv, EInv, NEW s \in Session, Start(s)
  PROVE  EInv'
<1> SUFFICES ASSUME ~overlap' PROVE EInv'
  BY DEF EInv
<1> DEFINE old == Incremented(run[s])
           x == IF old.xid = NoXid THEN started' ELSE old.xid
           at == started'
           g == old.G
           said == old.said
<1>1. TInv /\ Consistent(heap, committed, Active, run)
  BY DEF IInv
<1>2. /\ run[s].phase \in {"idle", "ready"} /\ started' = started + 1
      /\ heap' = heap /\ committed' = committed /\ ids' = ids
      /\ ~overlap /\ \A t \in Session \ {s} : run[t].phase = "idle"
  BY DEF Start
<1>3. run = [t \in Session |-> run[t]]
  BY <1>1 DEF TInv
<1>4. /\ old.xid = run[s].xid
      /\ s \notin Active => run[s].xid = NoXid
      /\ s \in Active => run[s].xid \in 1 .. started
  BY <1>1, <1>2, OldRun
<1>5. Active \subseteq {s}
  BY <1>2 DEF Active
<1>6. Found(x, g)
  <2>1. CASE s \in Active
    <3>1. Lone(s)
      BY <1>2, <2>1, LoneSession
    <3>2. run[s].phase = "ready" /\ x = run[s].xid
      BY <1>2, <1>4, <2>1 DEF Active, NoXid
    <3> QED
      BY <3>1, <3>2, ReadyFound
  <2>2. CASE s \notin Active
    <3>1. Active = {}
      BY <1>5, <2>2
    <3>2. x = started + 1
      BY <1>2, <1>4, <2>2
    <3> QED
      BY <1>2, <2>2, <3>1, <3>2, IdleFound
  <2> QED
    BY <2>1, <2>2
<1>7. PICK st \in Statement, fixed \in BOOLEAN :
        LET r == Started(st, x, at, committed, g, fixed, {}, said)
        IN  run' = [run EXCEPT ![s] = [r EXCEPT !.rows = DrivingRows(r, st.source, r.b)]]
  BY Starting, Zenon
<1> HIDE DEF x, g, said, at, old
<1> DEFINE r == Started(st, x, at, committed, g, fixed, {}, said)
           rows == DrivingRows(r, st.source, g)
           q == [r EXCEPT !.rows = rows]
<1>8. run' = [run EXCEPT ![s] = [r EXCEPT !.rows = DrivingRows(r, st.source, r.b)]]
  BY <1>7
<1>9. /\ r.xid = x /\ r.snap = committed /\ r.b = g
  BY StartedFields
<1>10. Fresher(q, st, x, g) /\ q.rows = rows
  <2> HIDE DEF rows
  <2>1. Filled(q, st, x, at, g, fixed, said, rows)
    BY DEF Filled
  <2> HIDE DEF r, q
  <2> QED
    BY <2>1, StartedFresher
<1>11. run' = [run EXCEPT ![s] = q]
  BY <1>8, <1>9
<1> HIDE DEF q
<1>12. rows = DrivingRows(r, st.source, g)
  OBVIOUS
<1> HIDE DEF r, rows
<1>13. Safe(heap, ids, q)
  BY <1>6, <1>9, <1>10, <1>12, FresherSafe
<1>14. /\ run'[s] = q /\ \A t \in Session : t # s => run'[t] = run[t]
  BY <1>3, <1>11
<1>15. q.snap = committed /\ q.phase = "rows"
  BY <1>10 DEF Fresher
<1>16. \A t \in Active' : t = s
  BY <1>2, <1>14 DEF Active
<1>17. SameEnds(heap) /\ WholeGraph(heap, committed)
  BY <1>2 DEF EInv
<1> QED
  BY <1>2, <1>13, <1>14, <1>15, <1>16, <1>17 DEF EInv

-----------------------------------------------------------------------------
(* The invariant is kept *)

LEMMA StepEdges ==
  ASSUME IInv, EInv, NEW s \in Active, Stepped(s), UNCHANGED overlap, ~overlap => Upheld(s)
  PROVE  EInv'
<1> SUFFICES ASSUME ~overlap PROVE EInv'
  BY DEF EInv
<1>1. /\ Active' = Active /\ committed' = committed /\ run'[s].snap = run[s].snap
  BY StepActive DEF IInv, Stepped
<1>2. /\ \A t \in Active : t = s
      /\ run[s].snap = committed
  BY DEF EInv
<1>3. Safe(heap', ids', run'[s]) /\ SameEnds(heap') /\ WholeGraph(heap', committed)
  BY DEF Upheld
<1>4. WholeGraph(heap', committed')
  BY <1>1, <1>3
<1> QED
  BY <1>1, <1>2, <1>3, <1>4 DEF EInv

\* What the transaction made goes, and what it removed comes back.
LEMMA UndoneEnds ==
  ASSUME NEW v \in Versions, NEW x
  PROVE  Undone(v, x).ends = v.ends
<1>1. CASE v.xmax = x
  BY <1>1 DEF Undone, Versions
<1>2. CASE v.xmax # x
  BY <1>2 DEF Undone
<1> QED
  BY <1>1, <1>2

LEMMA FailEdges ==
  ASSUME IInv, EInv, NEW s \in Active, Fail(s), UNCHANGED overlap
  PROVE  EInv'
<1> SUFFICES ASSUME ~overlap PROVE EInv'
  BY DEF EInv
<1> DEFINE x == run[s].xid
           S == {w \in heap : w.xmin # x}
<1>1. Lone(s) /\ TInv
  BY LoneSession DEF IInv
<1>2. heap' = {Undone(v, x) : v \in S}
  BY Zenon DEF Fail, Undone
<1>3. run' = [run EXCEPT ![s] = Idle] /\ committed' = committed
  BY Zenon DEF Fail
<1>4. /\ heap \in SUBSET Versions /\ SameEnds(heap) /\ WholeGraph(heap, committed)
      /\ NoXid \notin committed /\ x \notin committed
  BY <1>1 DEF Lone, TInv
<1>5. Active' = {}
  <2>1. run = [t \in Session |-> run[t]]
    BY <1>1 DEF TInv
  <2>2. \A t \in Session : run'[t] = IF t = s THEN Idle ELSE run[t]
    BY <1>3, <2>1
  <2>3. \A t \in Active : t = s
    BY DEF EInv
  <2>4. \A t \in Session : run'[t].phase = "idle"
    BY <2>2, <2>3 DEF Active, Idle
  <2> QED
    BY <2>4 DEF Active
<1> HIDE DEF x
<1>6. ASSUME NEW v \in S
      PROVE  /\ Undone(v, x) \in heap' /\ Undone(v, x).id = v.id /\ Undone(v, x).ends = v.ends
             /\ Undone(v, x).xmin = v.xmin
             /\ Undone(v, x).xmax \in committed <=> v.xmax \in committed
  <2>1. v \in Versions
    BY <1>4
  <2>2. /\ Undone(v, x).id = v.id /\ Undone(v, x).ends = v.ends /\ Undone(v, x).xmin = v.xmin
        /\ Undone(v, x).xmax = IF v.xmax = x THEN NoXid ELSE v.xmax
    BY <2>1, UndoneFields, UndoneEnds
  <2>3. Undone(v, x) \in heap'
    BY <1>2
  <2> QED
    BY <1>4, <2>2, <2>3
<1>7. \A w \in heap' : \E v \in heap : w.id = v.id /\ w.ends = v.ends /\ w.xmin = v.xmin
                                       /\ (w.xmax \in committed <=> v.xmax \in committed)
  <2> TAKE w \in heap'
  <2>1. PICK v \in S : w = Undone(v, x)
    BY <1>2
  <2> QED
    BY <1>6, <2>1
<1>8. \A v \in heap : v.xmin \in committed => \E w \in heap' :
         w.id = v.id /\ w.ends = v.ends /\ w.xmin = v.xmin /\ (w.xmax \in committed <=> v.xmax \in committed)
  <2> SUFFICES ASSUME NEW v \in heap, v.xmin \in committed
               PROVE  \E w \in heap' : w.id = v.id /\ w.ends = v.ends /\ w.xmin = v.xmin
                                       /\ (w.xmax \in committed <=> v.xmax \in committed)
    OBVIOUS
  <2>1. v \in S
    BY <1>4
  <2> QED
    BY <1>6, <2>1
<1>9. SameEnds(heap')
  BY <1>4, <1>7 DEF SameEnds
<1>10. WholeGraph(heap', committed')
  <2>1. \A w \in heap' : w.xmin \in committed /\ w.xmax \notin committed =>
           \E v \in heap : v.xmin \in committed /\ v.xmax \notin committed /\ v.ends = w.ends
    BY <1>7
  <2>2. \A v \in heap : v.xmin \in committed /\ v.xmax \notin committed =>
           \E w \in heap' : w.xmin \in committed /\ w.xmax \notin committed /\ w.id = v.id /\ w.ends = v.ends
    BY <1>8
  <2>3. WholeGraph(heap', committed)
    BY <1>4, <2>1, <2>2, WholeKept
  <2> QED
    BY <1>3, <2>3
<1> QED
  BY <1>5, <1>9, <1>10 DEF EInv

\* What the transaction leaves open is the committed graph.
LEMMA CommitEdges ==
  ASSUME IInv, EInv, NEW s \in Session, Commit(s)
  PROVE  EInv'
<1> SUFFICES ASSUME ~overlap' PROVE EInv'
  BY DEF EInv
<1> DEFINE x == run[s].xid
<1>1. /\ run[s].phase = "ready" /\ committed' = committed \cup {x}
      /\ run' = [run EXCEPT ![s] = Idle] /\ heap' = heap /\ ~overlap
  BY DEF Commit
<1>2. s \in Active
  BY <1>1 DEF Active
<1>3. Lone(s) /\ TInv
  BY <1>1, <1>2, LoneSession DEF IInv
<1>4. /\ SameEnds(heap) /\ EdgesHeld(heap, run[s])
      /\ NoXid \notin committed /\ x # NoXid
      /\ \A v \in heap : v.xmin \in committed \/ v.xmin = x
      /\ \A v \in heap : v.xmax \in committed \/ v.xmax = NoXid \/ v.xmax = x
  BY <1>3 DEF Lone, Safe
<1>5. Active' = {}
  <2>1. run = [t \in Session |-> run[t]]
    BY <1>3 DEF TInv
  <2>2. \A t \in Session : run'[t] = IF t = s THEN Idle ELSE run[t]
    BY <1>1, <2>1
  <2>3. \A t \in Active : t = s
    BY <1>1, <1>2 DEF EInv
  <2>4. \A t \in Session : run'[t].phase = "idle"
    BY <2>2, <2>3 DEF Active, Idle
  <2> QED
    BY <2>4 DEF Active
<1> HIDE DEF x
<1>6. Pending(run[s]) = {}
  BY <1>1 DEF Pending
<1>7. \A v \in heap : v.xmin \in committed' /\ (v.xmax \notin committed' <=> IsOpen(v))
  BY <1>1, <1>4 DEF IsOpen
<1>8. WholeGraph(heap', committed')
  <2> SUFFICES ASSUME NEW e \in heap, IsOpen(e), NEW i \in DOMAIN e.ends
               PROVE  \E v \in heap : IsOpen(v) /\ v.id = e.ends[i] /\ v.ends = <<>>
    BY <1>1, <1>7 DEF WholeGraph
  <2>1. Alive(heap, e.ends[i])
    BY <1>4, <1>6 DEF EdgesHeld, Held
  <2> QED
    BY <2>1 DEF Alive
<1> QED
  BY <1>1, <1>4, <1>5, <1>8 DEF EInv

LEMMA InitialEdges ==
  ASSUME Init
  PROVE  EInv
<1>1. /\ heap = {Version(e, 0, 0) : e \in Graph} /\ committed = {0}
      /\ run = [s \in Session |-> Idle]
  BY DEF Init
<1>2. /\ \A e, f \in Graph : e.id = f.id => e = f
      /\ \A e \in Graph : e \in Entities
      /\ \A e \in Graph : \A i \in DOMAIN e.ends : \E v \in Graph : v.id = e.ends[i] /\ v.ends = <<>>
  <2>1. Graph \subseteq [id : 1 .. Cardinality(Graph), ends : Seq(Nat), prop : [Prop -> Value \cup {None}]]
    BY GraphAssumption
  <2>2. \A n : n \in 1 .. Cardinality(Graph) => n \in Int
    OBVIOUS
  <2>3. IsFiniteSet(Graph) /\ Cardinality(Graph) \in Nat
    BY GraphAssumption, FS_CardinalityType
  <2>4. \A e \in Graph : e \in Entities
    BY <2>1, <2>3 DEF Entities, Values
  <2> QED
    BY <2>4, GraphAssumption
<1>3. Active = {}
  BY <1>1 DEF Active, Idle
<1>4. ASSUME NEW e \in Graph
      PROVE  /\ Version(e, 0, 0) \in heap /\ Version(e, 0, 0).id = e.id /\ Version(e, 0, 0).ends = e.ends
             /\ Version(e, 0, 0).xmin \in committed /\ Version(e, 0, 0).xmax \notin committed
  <2>1. e \in Entities
    BY <1>2
  <2>2. /\ Version(e, 0, 0).id = e.id /\ Version(e, 0, 0).ends = e.ends
        /\ Version(e, 0, 0).xmin = 0 /\ Version(e, 0, 0).xmax = NoXid
    BY <2>1, VersionEnds
  <2> QED
    BY <1>1, <2>2 DEF NoXid
<1>5. \A v \in heap : \E e \in Graph : v.id = e.id /\ v.ends = e.ends
  BY <1>1, <1>4
<1>6. SameEnds(heap)
  BY <1>2, <1>5 DEF SameEnds
<1>7. WholeGraph(heap, committed)
  <2> SUFFICES ASSUME NEW v \in heap, NEW i \in DOMAIN v.ends
               PROVE  \E w \in heap : w.xmin \in committed /\ w.xmax \notin committed
                                      /\ w.id = v.ends[i] /\ w.ends = <<>>
    BY DEF WholeGraph
  <2>1. PICK e \in Graph : v.ends = e.ends
    BY <1>5
  <2>2. PICK f \in Graph : f.id = e.ends[i] /\ f.ends = <<>>
    BY <1>2, <2>1
  <2> QED
    BY <1>4, <2>1, <2>2
<1> QED
  BY <1>3, <1>6, <1>7 DEF EInv

LEMMA WorkEdges ==
  ASSUME IInv, EInv, NEW s \in Active, Stepped(s) \/ Fail(s), UNCHANGED overlap,
         ~overlap => Upheld(s) \/ Fail(s)
  PROVE  EInv'
<1>1. CASE Fail(s)
  BY <1>1, FailEdges
<1>2. CASE ~Fail(s)
  BY <1>2, StepEdges
<1> QED
  BY <1>1, <1>2

LEMMA NextEdges ==
  ASSUME IInv, EInv, Next, \A st \in Statement : Firm(st)
  PROVE  EInv'
<1>1. TInv /\ Consistent(heap, committed, Active, run)
  BY DEF IInv
<1>2. PICK s \in Session :
         \/ Start(s) \/ Pull(s) \/ Exhausted(s) \/ Commit(s) \/ Abort(s)
         \/ exec_cypher_create(s) \/ exec_cypher_merge(s)
         \/ process_update_list(s) \/ process_delete_list(s)
         \/ end_cypher_clause(s) \/ check_for_connected_edges(s)
  BY Zenon DEF Next
<1>3. ASSUME NEW op, At(s, op) PROVE s \in Active
  BY <1>3 DEF At, Active
<1>4. ASSUME NEW ops, Ending(s, ops) PROVE s \in Active
  BY <1>4 DEF Ending, Active
<1>5. s \in Active /\ ~overlap => Lone(s)
  BY LoneSession
<1>6. CASE Pull(s)
  <2>1. s \in Active /\ UNCHANGED overlap
    BY <1>6 DEF Pull, Active
  <2> QED
    BY <1>1, <1>5, <1>6, <2>1, PullStep, PullUpheld, WorkEdges
<1>7. CASE Exhausted(s)
  <2>1. s \in Active /\ UNCHANGED overlap
    BY <1>7 DEF Exhausted, Active
  <2> QED
    BY <1>1, <1>5, <1>7, <2>1, ExhaustedStep, ExhaustedUpheld, WorkEdges
<1>8. CASE end_cypher_clause(s)
  <2>1. s \in Active /\ UNCHANGED overlap
    BY <1>4, <1>8, Zenon DEF end_cypher_clause
  <2> QED
    BY <1>1, <1>5, <1>8, <2>1, EndClauseStep, EndClauseUpheld, WorkEdges
<1>9. CASE check_for_connected_edges(s)
  <2>1. s \in Active /\ UNCHANGED overlap
    BY <1>4, <1>9, Zenon DEF check_for_connected_edges
  <2> QED
    BY <1>1, <1>5, <1>9, <2>1, ConnectedEdgesStep, ConnectedUpheld, WorkEdges
<1>10. CASE exec_cypher_create(s)
  <2>1. s \in Active /\ UNCHANGED overlap
    BY <1>3, <1>10, Zenon DEF exec_cypher_create
  <2> QED
    BY <1>1, <1>5, <1>10, <2>1, CreateStep, CreateUpheld, WorkEdges
<1>11. CASE exec_cypher_merge(s)
  <2>1. s \in Active /\ UNCHANGED overlap
    BY <1>3, <1>11, Zenon DEF exec_cypher_merge
  <2>2. Sighted(s)
    BY <1>1, <2>1, SightedActive
  <2> QED
    BY <1>1, <1>5, <1>11, <2>1, <2>2, MergeStep, MergeUpheld, WorkEdges
<1>12. CASE process_update_list(s)
  <2>1. s \in Active /\ UNCHANGED overlap
    BY <1>3, <1>12, Zenon DEF process_update_list
  <2> QED
    BY <1>1, <1>5, <1>12, <2>1, SetStep, SetUpheld, WorkEdges
<1>13. CASE process_delete_list(s)
  <2>1. s \in Active /\ UNCHANGED overlap
    BY <1>3, <1>13, Zenon DEF process_delete_list
  <2> QED
    BY <1>1, <1>5, <1>13, <2>1, DeleteStep, DeleteUpheld, WorkEdges
<1>14. CASE Abort(s)
  <2>1. s \in Active /\ Fail(s) /\ UNCHANGED overlap
    BY <1>14 DEF Abort, Active
  <2> QED
    BY <2>1, FailEdges
<1> QED
  BY <1>2, <1>6, <1>7, <1>8, <1>9, <1>10, <1>11, <1>12, <1>13, <1>14, StartEdges, CommitEdges

LEMMA SameEdges ==
  ASSUME EInv, UNCHANGED vars
  PROVE  EInv'
<1>1. /\ heap' = heap /\ committed' = committed /\ ids' = ids /\ run' = run /\ overlap' = overlap
  BY DEF vars
<1>2. Active' = Active
  BY <1>1 DEF Active
<1> QED
  BY <1>1, <1>2 DEF EInv

\* Transactions that never overlapped leave no edge without both its vertices, for
\* statements in which no clause before a DELETE makes an edge at a vertex that a
\* MERGE bound: check_for_connected_edges finds every edge of what
\* process_delete_list removed, whichever clauses and rows made it, and
\* create_vertex and merge_vertex refuse a vertex that is no longer there.
THEOREM EdgesNeverDangle ==
  ASSUME \A st \in Statement : Firm(st)
  PROVE  Spec => []NoDanglingEdges
<1>1. Init => EInv
  BY InitialEdges
<1>2. IInv /\ EInv /\ [Next]_vars => EInv'
  BY NextEdges, SameEdges
<1>3. EInv => NoDanglingEdges
  <2> SUFFICES ASSUME EInv, ~overlap, NEW e \in heap, Stands(e), NEW i \in DOMAIN e.ends
               PROVE  \E v \in heap : Stands(v) /\ v.id = e.ends[i]
    BY DEF NoDanglingEdges
  <2> QED
    BY DEF EInv, WholeGraph, Stands
<1> QED
  BY <1>1, <1>2, <1>3, Invariant, PTL DEF Spec
=============================================================================
