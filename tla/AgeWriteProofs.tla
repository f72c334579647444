--------------------------- MODULE AgeWriteProofs ---------------------------
(***************************************************************************)
(* Proofs about AgeWrite, for any sessions, statements the parser lets     *)
(* pass, first graphs and bounds.  The inductive invariant IInv has two    *)
(* halves.  TInv types what a session holds: every copy of an entity in    *)
(* its rows differs from the version that stands in its snapshot only in   *)
(* what its own SETs said (Pool).  Consistent speaks of the versions of    *)
(* one entity:                                                             *)
(*   Sound  a transaction has one session, who removed a version saw it;   *)
(*   One    of two versions that no committed transaction removed, one's   *)
(*          maker removed the other;                                       *)
(*   Root   an uncommitted version is the first of its entity, or its      *)
(*          maker removed a committed one;                                 *)
(*   Chain  who has the standing version in its snapshot saw that the      *)
(*          others were removed;                                           *)
(*   Own    what a session wrote is like the standing version but for what *)
(*          it said.                                                       *)
(* Each step of a clause inserts, removes or replaces versions, or none of *)
(* these (Stepped), or rolls back: what is proved of these five holds for  *)
(* every action.                                                           *)
(***************************************************************************)
EXTENDS AgeWrite, FiniteSetTheorems, SequenceTheorems, TLAPS

Values == Value \cup {None}
Entities == [id : Nat, ends : Seq(Nat), prop : [Prop -> Values]]
Versions == [id : Nat, ends : Seq(Nat), prop : [Prop -> Values],
             xmin : Nat, cmin : Nat, xmax : Nat \cup {NoXid}, cmax : Nat]

\* Bindings, rows, work and runs whose copies of entities are members of E.
Bindings(E) == UNION {[X -> E] : X \in SUBSET Name}
Rows(E) == [n : Nat, i : Values, ent : Bindings(E)]
Works(E) == [k : Nat, j : Nat, row : Rows(E)]
Merged(E) == [key : Seq(Nat \cup [Prop -> Values]), vs : Seq(E)]
Views(E) == {V \in SUBSET E : IsFiniteSet(V)}
Items == [at : Nat, id : Nat, n : Nat, k : Nat, j : Nat, var : Name, p : Prop, v : Values,
          nulls : BOOLEAN]
Runs(E) == [phase : {"rows", "ending", "ready"}, xid : Nat, stmt : Statement, at : Nat,
            snap : SUBSET Nat, G : Nat, used : BOOLEAN, base : Nat, b : Int,
            rows : SUBSET Rows(E), n : Nat, todo : Seq(Works(E)), level : Int,
            deleted : Seq(SUBSET Nat), created : Seq(SUBSET Merged(E)), fixed : BOOLEAN,
            inner : Seq(Seq(Views(E))), said : SUBSET Items]

\* Row q can go up to clause k of st.
Reaches(st, q, k) == Scope(st, k) \subseteq DOMAIN q.ent
WorkFits(st, w) ==
    /\ w.k \in 1 .. Len(st.clauses) /\ Reaches(st, w.row, w.k)
    /\ st.clauses[w.k].op = "set" => w.j \in 1 .. Len(st.clauses[w.k].items)
    /\ st.clauses[w.k].op = "delete" => w.j \in 1 .. Len(st.clauses[w.k].names)
Fits(r) ==
    /\ \A q \in r.rows : Reaches(r.stmt, q, 1)
    /\ \A i \in 1 .. Len(r.todo) : WorkFits(r.stmt, r.todo[i])
    /\ Len(r.inner) = Len(r.stmt.clauses) /\ Len(r.created) = Len(r.stmt.clauses)
    /\ \A k \in 1 .. Len(r.created) : r.stmt.clauses[k].op = "merge" =>
          \A m \in r.created[k] : Len(m.vs) = Len(r.stmt.clauses[k].path)
Good(r, E) == r \in Runs(E) /\ Fits(r)

\* Run q is in the transaction of r, has its snapshot and said what r said.
Later(r, q) == q.xid = r.xid /\ q.snap = r.snap /\ q.said = r.said

-----------------------------------------------------------------------------
(* Statements *)

LEMMA ParsedStatement ==
  ASSUME NEW st \in Statement
  PROVE  /\ st.source \in Source /\ st.clauses \in Seq(Clause) /\ st.returns \in BOOLEAN
         /\ Len(st.clauses) \in Nat \ {0} /\ DOMAIN st.clauses = 1 .. Len(st.clauses)
         /\ \A k \in 1 .. Len(st.clauses) :
              LET c == st.clauses[k]
              IN  /\ c \in Clause
                  /\ c.op = "create" => Earlier(c.paths) \subseteq Scope(st, k)
                  /\ c.op = "merge" => OldNames(c) \subseteq Scope(st, k)
                  /\ c.op = "set" => c.items # <<>> /\ {i.var : i \in ToSet(c.items)} \subseteq Scope(st, k)
                  /\ c.op = "delete" => c.names # <<>> /\ ToSet(c.names) \subseteq Scope(st, k)
<1>1. Parsed(st)
  BY StatementsAssumption
<1>2. /\ st.source \in Source /\ st.clauses \in Seq(Clause) /\ st.returns \in BOOLEAN
      /\ st.clauses # <<>>
  BY <1>1 DEF Parsed
<1>3. /\ Len(st.clauses) \in Nat \ {0} /\ DOMAIN st.clauses = 1 .. Len(st.clauses)
      /\ \A k \in 1 .. Len(st.clauses) : st.clauses[k] \in Clause
  BY <1>2, EmptySeq
<1> QED
  BY <1>1, <1>2, <1>3 DEF Parsed

\* A path binds new variables, and no variable in it is an edge.
LEMMA PathNames ==
  ASSUME NEW st \in Statement, NEW k \in 1 .. Len(st.clauses)
  PROVE  /\ NewNames(st.clauses[k]) \cap Scope(st, k) = {}
         /\ OldNames(st.clauses[k]) \cap EdgeNames(st.source) = {}
<1>1. Parsed(st) /\ k \in DOMAIN st.clauses
  BY StatementsAssumption, ParsedStatement
<1> QED
  BY <1>1, Zenon DEF Parsed

LEMMA ClauseFields ==
  ASSUME NEW c \in Clause
  PROVE  /\ c.op \in {"create", "merge", "set", "delete"}
         /\ c.op = "create" => c.paths \in Seq(Seq(Node))
         /\ c.op = "merge" => c.path \in Seq(Node)
         /\ c.op = "set" => c.items \in Seq(Item)
         /\ c.op = "delete" => c.names \in Seq(Name) /\ c.detach \in BOOLEAN
BY DEF Clause

\* The scope grows by the new variables of the clause.
LEMMA NextScope ==
  ASSUME NEW st, NEW k \in Nat \ {0}
  PROVE  Scope(st, k + 1) = Scope(st, k) \cup NewNames(st.clauses[k])
<1>1. 1 .. (k + 1) - 1 = (1 .. k - 1) \cup {k}
  OBVIOUS
<1>2. \A x : x \in Scope(st, k + 1) <=> x \in Scope(st, k) \cup NewNames(st.clauses[k])
  BY <1>1, Zenon DEF Scope
<1> QED
  BY <1>2

-----------------------------------------------------------------------------
(* Runs *)

LEMMA BindingsFields ==
  ASSUME NEW E, NEW f \in Bindings(E)
  PROVE  f \in [DOMAIN f -> E] /\ DOMAIN f \in SUBSET Name
BY DEF Bindings

LEMMA BindingsMade ==
  ASSUME NEW E, NEW X \in SUBSET Name, NEW f \in [X -> E]
  PROVE  f \in Bindings(E)
BY DEF Bindings

LEMMA RowsGrow ==
  ASSUME NEW E, NEW F, E \subseteq F
  PROVE  Rows(E) \subseteq Rows(F)
<1>1. ASSUME NEW f \in Bindings(E) PROVE f \in Bindings(F)
  <2>1. PICK X \in SUBSET Name : f \in [X -> E]
    BY DEF Bindings
  <2>2. f \in [X -> F]
    BY <2>1
  <2> QED
    BY <2>2, BindingsMade
<1> QED
  BY <1>1 DEF Rows

LEMMA RunsGrow ==
  ASSUME NEW E, NEW F, E \subseteq F
  PROVE  Runs(E) \subseteq Runs(F)
<1>1. Rows(E) \subseteq Rows(F)
  BY RowsGrow
<1>2. Works(E) \subseteq Works(F)
  BY <1>1 DEF Works
<1>3. Merged(E) \subseteq Merged(F)
  BY SeqMonotonic DEF Merged
<1>4. Views(E) \subseteq Views(F)
  BY DEF Views
<1>5. Seq(Works(E)) \subseteq Seq(Works(F))
  BY <1>2, SeqMonotonic
<1>6. Seq(SUBSET Merged(E)) \subseteq Seq(SUBSET Merged(F))
  <2>1. SUBSET Merged(E) \subseteq SUBSET Merged(F)
    BY <1>3
  <2> QED
    BY <2>1, SeqMonotonic
<1>7. Seq(Seq(Views(E))) \subseteq Seq(Seq(Views(F)))
  <2>1. Seq(Views(E)) \subseteq Seq(Views(F))
    BY <1>4, SeqMonotonic
  <2> QED
    BY <2>1, SeqMonotonic
<1> HIDE DEF Rows
<1> QED
  BY <1>1, <1>5, <1>6, <1>7 DEF Runs

\* New work replaces the work of a run.
LEMMA TodoReplaced ==
  ASSUME NEW E, NEW r, Good(r, E), NEW t \in Seq(Works(E)),
         \A i \in 1 .. Len(t) : WorkFits(r.stmt, t[i])
  PROVE  Good([r EXCEPT !.todo = t], E) /\ Later(r, [r EXCEPT !.todo = t])
BY DEF Good, Runs, Fits, Later

LEMMA IncrementedGood ==
  ASSUME NEW E, NEW r, Good(r, E)
  PROVE  /\ Good(Incremented(r), E) /\ Later(r, Incremented(r))
         /\ Incremented(r).todo = r.todo /\ Incremented(r).stmt = r.stmt
         /\ Incremented(r).created = r.created
<1> DEFINE q == [r EXCEPT !.G = @ + 1, !.used = FALSE]
<1>1. /\ Good(q, E) /\ Later(r, q) /\ q.todo = r.todo /\ q.stmt = r.stmt /\ q.created = r.created
  <2>1. q \in Runs(E)
    <3>1. r \in Runs(E) /\ r.G + 1 \in Nat
      BY DEF Good, Runs
    <3> DEFINE g == r.G + 1
    <3> HIDE DEF g
    <3>2. q = [r EXCEPT !.G = g, !.used = FALSE]
      BY DEF g
    <3>3. g \in Nat
      BY <3>1 DEF g
    <3> QED
      BY <3>1, <3>2, <3>3 DEF Runs
  <2>2. /\ q.xid = r.xid /\ q.snap = r.snap /\ q.said = r.said /\ q.rows = r.rows
        /\ q.todo = r.todo /\ q.stmt = r.stmt /\ q.created = r.created /\ q.inner = r.inner
    BY DEF Good, Runs
  <2> HIDE DEF q
  <2>3. Fits(q)
    BY <2>2 DEF Good, Fits
  <2> QED
    BY <2>1, <2>2, <2>3 DEF Good, Later
<1>2. Incremented(r) = q \/ Incremented(r) = r
  BY Zenon DEF Incremented
<1> HIDE DEF q
<1> QED
  BY <1>1, <1>2 DEF Later

\* Every clause has something to do.
LEMMA FirstWork ==
  ASSUME NEW st \in Statement, NEW k \in 1 .. Len(st.clauses), NEW row, Reaches(st, row, k)
  PROVE  WorkFits(st, [k |-> k, j |-> 1, row |-> row])
<1> DEFINE c == st.clauses[k]
<1>1. /\ c \in Clause
      /\ c.op = "set" => c.items # <<>>
      /\ c.op = "delete" => c.names # <<>>
  BY ParsedStatement
<1> HIDE DEF c
<1>2. c.op = "set" => c.items \in Seq(Item) /\ Len(c.items) \in Nat \ {0}
  <2>1. c.op = "set" => c.items \in Seq(Item)
    BY <1>1, ClauseFields
  <2> QED
    BY <2>1, <1>1, EmptySeq
<1>3. c.op = "delete" => c.names \in Seq(Name) /\ Len(c.names) \in Nat \ {0}
  <2>1. c.op = "delete" => c.names \in Seq(Name)
    BY <1>1, ClauseFields
  <2> QED
    BY <2>1, <1>1, EmptySeq
<1> QED
  BY <1>2, <1>3 DEF WorkFits, c

\* What has done its work on clause k passes on rows of E.
LEMMA PassedGood ==
  ASSUME NEW E, NEW r, Good(r, E), r.todo # <<>>, NEW k \in 1 .. Len(r.stmt.clauses),
         NEW rows \in Seq(Rows(E)),
         \A i \in 1 .. Len(rows) : Reaches(r.stmt, rows[i], k + 1)
  PROVE  Good(Passed(r, k, rows), E) /\ Later(r, Passed(r, k, rows))
<1> DEFINE above == IF k = Len(r.stmt.clauses) THEN <<>>
                    ELSE [i \in DOMAIN rows |-> [k |-> k + 1, j |-> 1, row |-> rows[i]]]
           t == above \o Tail(r.todo)
<1>1. r \in Runs(E) /\ r.stmt \in Statement /\ r.todo \in Seq(Works(E)) /\ k \in Nat
  BY DEF Good, Runs
<1>2. /\ Tail(r.todo) \in Seq(Works(E))
      /\ \A i \in 1 .. Len(Tail(r.todo)) : WorkFits(r.stmt, Tail(r.todo)[i])
  <2>1. /\ Tail(r.todo) \in Seq(Works(E)) /\ Len(Tail(r.todo)) = Len(r.todo) - 1
        /\ \A i \in 1 .. Len(Tail(r.todo)) : Tail(r.todo)[i] = r.todo[i + 1]
    BY <1>1, HeadTailProperties
  <2>2. \A i \in 1 .. Len(r.todo) : WorkFits(r.stmt, r.todo[i])
    BY DEF Good, Fits
  <2>3. Len(r.todo) \in Nat
    BY <1>1
  <2> QED
    BY <2>1, <2>2, <2>3
<1>3. above \in Seq(Works(E)) /\ \A i \in 1 .. Len(above) : WorkFits(r.stmt, above[i])
  <2>1. CASE k = Len(r.stmt.clauses)
    BY <2>1
  <2>2. CASE k # Len(r.stmt.clauses)
    <3>1. k + 1 \in 1 .. Len(r.stmt.clauses)
      BY <1>1, <2>2, ParsedStatement
    <3>2. DOMAIN rows = 1 .. Len(rows) /\ Len(rows) \in Nat /\ \A i \in 1 .. Len(rows) : rows[i] \in Rows(E)
      OBVIOUS
    <3>3. above = [i \in 1 .. Len(rows) |-> [k |-> k + 1, j |-> 1, row |-> rows[i]]]
      BY <2>2, <3>2
    <3>4. \A i \in 1 .. Len(rows) : [k |-> k + 1, j |-> 1, row |-> rows[i]] \in Works(E)
      BY <1>1, <3>2 DEF Works
    <3>5. above \in Seq(Works(E)) /\ Len(above) = Len(rows)
      BY <3>2, <3>3, <3>4
    <3>6. \A i \in 1 .. Len(rows) : WorkFits(r.stmt, [k |-> k + 1, j |-> 1, row |-> rows[i]])
      BY <1>1, <3>1, FirstWork
    <3> QED
      BY <3>3, <3>5, <3>6
  <2> QED
    BY <2>1, <2>2
<1> HIDE DEF above
<1>4. t \in Seq(Works(E)) /\ \A i \in 1 .. Len(t) : WorkFits(r.stmt, t[i])
  <2>1. /\ t \in Seq(Works(E)) /\ Len(t) = Len(above) + Len(Tail(r.todo))
        /\ \A i \in 1 .. Len(above) + Len(Tail(r.todo)) :
              t[i] = IF i <= Len(above) THEN above[i] ELSE Tail(r.todo)[i - Len(above)]
    BY <1>2, <1>3, ConcatProperties
  <2> DEFINE rest == Tail(r.todo)
             a == Len(above)
             b == Len(rest)
  <2>2. a \in Nat /\ b \in Nat
    BY <1>2, <1>3
  <2>3. /\ \A i \in 1 .. a : WorkFits(r.stmt, above[i])
        /\ \A i \in 1 .. b : WorkFits(r.stmt, rest[i])
        /\ \A i \in 1 .. a + b : t[i] = IF i <= a THEN above[i] ELSE rest[i - a]
    BY <1>2, <1>3, <2>1
  <2>4. Len(t) = a + b
    BY <2>1
  <2> HIDE DEF t, a, b, rest
  <2>5. ASSUME NEW i \in 1 .. Len(t) PROVE WorkFits(r.stmt, t[i])
    <3>1. i \in 1 .. a + b
      BY <2>4
    <3>2. CASE i <= a
      <4>1. i \in 1 .. a /\ t[i] = above[i]
        BY <2>2, <2>3, <3>1, <3>2
      <4> QED
        BY <2>3, <4>1
    <3>3. CASE ~(i <= a)
      <4>1. i - a \in 1 .. b /\ t[i] = rest[i - a]
        BY <2>2, <2>3, <3>1, <3>3
      <4> QED
        BY <2>3, <4>1
    <3> QED
      BY <3>2, <3>3
  <2> QED
    BY <2>1, <2>5
<1>5. Passed(r, k, rows) = [r EXCEPT !.todo = t]
  BY DEF Passed, above
<1> HIDE DEF t
<1> QED
  BY <1>4, <1>5, TodoReplaced

LEMMA RowWrittenGood ==
  ASSUME NEW E, NEW r, Good(r, E), r.todo # <<>>, NEW k \in 1 .. Len(r.stmt.clauses),
         NEW row \in Rows(E), Reaches(r.stmt, row, k + 1)
  PROVE  Good(RowWritten(r, k, row), E) /\ Later(r, RowWritten(r, k, row))
<1> DEFINE q == IF Terminal(r, k) THEN r ELSE Incremented(r)
<1>1. Good(q, E) /\ Later(r, q) /\ q.todo = r.todo /\ q.stmt = r.stmt
  BY IncrementedGood DEF Later
<1> DEFINE rows == <<row>>
<1>2. rows \in Seq(Rows(E)) /\ \A i \in 1 .. Len(rows) : Reaches(r.stmt, rows[i], k + 1)
  OBVIOUS
<1> HIDE DEF q, rows
<1>3. q.todo # <<>> /\ k \in 1 .. Len(q.stmt.clauses) /\ q.stmt = r.stmt
  BY <1>1
<1>4. Good(Passed(q, k, rows), E) /\ Later(q, Passed(q, k, rows))
  BY <1>1, <1>2, <1>3, PassedGood
<1> QED
  BY <1>1, <1>4 DEF RowWritten, q, rows, Later

LEMMA FitsKept ==
  ASSUME NEW r, NEW q, Fits(r), q.rows = r.rows, q.todo = r.todo, q.stmt = r.stmt,
         q.created = r.created, q.inner = r.inner
  PROVE  Fits(q)
BY DEF Fits

LEMMA UsedGood ==
  ASSUME NEW E, NEW r, Good(r, E)
  PROVE  LET u == [r EXCEPT !.used = TRUE]
         IN  /\ Good(u, E) /\ Later(r, u) /\ u.todo = r.todo /\ u.stmt = r.stmt
             /\ u.created = r.created
<1> DEFINE u == [r EXCEPT !.used = TRUE]
<1>1. r \in Runs(E) /\ Fits(r)
  BY DEF Good
<1>2. u \in Runs(E)
  BY <1>1 DEF Runs
<1>3. /\ u.rows = r.rows /\ u.todo = r.todo /\ u.stmt = r.stmt
      /\ u.created = r.created /\ u.inner = r.inner
      /\ u.xid = r.xid /\ u.snap = r.snap /\ u.said = r.said
  BY <1>1 DEF Runs
<1> HIDE DEF u
<1> QED
  BY <1>1, <1>2, <1>3, FitsKept DEF Good, Later, u

LEMMA DeletedGood ==
  ASSUME NEW E, NEW r, Good(r, E), NEW k \in Int
  PROVE  /\ Good(Deleted(r, k), E) /\ Later(r, Deleted(r, k))
         /\ Deleted(r, k).todo = r.todo /\ Deleted(r, k).stmt = r.stmt
<1> DEFINE u == [r EXCEPT !.used = TRUE]
           q == Incremented(u)
           d == [q EXCEPT !.b = q.G - k]
<1>1. r \in Runs(E) /\ Fits(r)
  BY DEF Good
<1>2. Good(u, E) /\ Later(r, u) /\ u.todo = r.todo /\ u.stmt = r.stmt
  BY UsedGood
<1> HIDE DEF u
<1>3. /\ q \in Runs(E) /\ Fits(q) /\ Later(u, q) /\ q.todo = u.todo /\ q.stmt = u.stmt
  BY <1>2, IncrementedGood DEF Good
<1> HIDE DEF q
<1>4. d \in Runs(E)
  <2> DEFINE c == q.G - k
  <2>1. c \in Int
    BY <1>3 DEF Runs
  <2>2. d = [q EXCEPT !.b = c]
    OBVIOUS
  <2> HIDE DEF c, d
  <2> QED
    BY <1>3, <2>1, <2>2 DEF Runs
<1>5. /\ d.rows = q.rows /\ d.todo = q.todo /\ d.stmt = q.stmt
      /\ d.created = q.created /\ d.inner = q.inner
      /\ d.xid = q.xid /\ d.snap = q.snap /\ d.said = q.said
  BY <1>3 DEF Runs
<1>6. Deleted(r, k) = d
  BY DEF Deleted, d, q, u
<1> HIDE DEF d
<1> QED
  BY <1>2, <1>3, <1>4, <1>5, <1>6, FitsKept DEF Good, Later

\* What the work that comes next is.
LEMMA HeadGood ==
  ASSUME NEW E, NEW r, Good(r, E), r.todo # <<>>
  PROVE  /\ Head(r.todo) = r.todo[1] /\ Head(r.todo) \in Works(E) /\ WorkFits(r.stmt, Head(r.todo))
         /\ r.stmt \in Statement /\ Head(r.todo).k \in 1 .. Len(r.stmt.clauses)
         /\ Head(r.todo).row \in Rows(E) /\ Head(r.todo).j \in Nat
         /\ r.stmt.clauses[Head(r.todo).k] \in Clause
         /\ Len(r.todo) \in Nat /\ 1 \in 1 .. Len(r.todo)
<1>1. r.todo \in Seq(Works(E)) /\ r.stmt \in Statement
  BY DEF Good, Runs
<1>2. Head(r.todo) = r.todo[1] /\ Head(r.todo) \in Works(E) /\ Len(r.todo) \in Nat /\ 1 \in 1 .. Len(r.todo)
  BY <1>1, HeadTailProperties, EmptySeq
<1>3. WorkFits(r.stmt, Head(r.todo))
  BY <1>2 DEF Good, Fits
<1> QED
  BY <1>1, <1>2, <1>3, ParsedStatement DEF WorkFits, Works

\* The work that comes next goes to its next item, with its row or a new one.
LEMMA ItemGood ==
  ASSUME NEW E, NEW r, Good(r, E), r.todo # <<>>, NEW j \in Nat, NEW row \in Rows(E),
         WorkFits(r.stmt, [Head(r.todo) EXCEPT !.j = j, !.row = row])
  PROVE  /\ Good([r EXCEPT !.todo[1].j = j, !.todo[1].row = row], E)
         /\ Later(r, [r EXCEPT !.todo[1].j = j, !.todo[1].row = row])
         /\ row = Head(r.todo).row =>
              [r EXCEPT !.todo[1].j = j] = [r EXCEPT !.todo[1].j = j, !.todo[1].row = row]
<1> DEFINE w == [Head(r.todo) EXCEPT !.j = j, !.row = row]
           t == [r.todo EXCEPT ![1] = w]
<1>1. /\ Head(r.todo) = r.todo[1] /\ Head(r.todo) \in Works(E) /\ r.todo \in Seq(Works(E))
      /\ Len(r.todo) \in Nat /\ 1 \in 1 .. Len(r.todo) /\ r \in Runs(E)
  BY HeadGood DEF Good, Runs
<1>2. w \in Works(E)
  BY <1>1 DEF Works
<1>3. [r EXCEPT !.todo[1].j = j, !.todo[1].row = row] = [r EXCEPT !.todo = t]
  BY <1>1, ZenonT(60) DEF Runs
<1>4. ASSUME row = Head(r.todo).row PROVE [r EXCEPT !.todo[1].j = j] = [r EXCEPT !.todo = t]
  <2>1. w = [Head(r.todo) EXCEPT !.j = j]
    BY <1>1, <1>4 DEF Works
  <2> HIDE DEF w
  <2> QED
    BY <1>1, <2>1 DEF Runs
<1> HIDE DEF w
<1>5. t \in Seq(Works(E)) /\ Len(t) = Len(r.todo)
      /\ \A i \in 1 .. Len(r.todo) : t[i] = IF i = 1 THEN w ELSE r.todo[i]
  BY <1>1, <1>2, ExceptSeq
<1> HIDE DEF t
<1>6. \A i \in 1 .. Len(t) : WorkFits(r.stmt, t[i])
  BY <1>5 DEF Good, Fits, w
<1> QED
  BY <1>3, <1>4, <1>5, <1>6, TodoReplaced

LEMMA NoNewNames ==
  ASSUME NEW c, c.op \in {"set", "delete"}
  PROVE  NewNames(c) = {}
BY DEF NewNames, Nodes

-----------------------------------------------------------------------------
(* Rows *)

LEMMA DrivingRowsGood ==
  ASSUME NEW E, NEW r, NEW c, NEW src \in Source, View(r, c) \subseteq E, Null \in E
  PROVE  /\ DrivingRows(r, src, c) \subseteq Rows(E)
         /\ \A q \in DrivingRows(r, src, c) : Sourced(src) \subseteq DOMAIN q.ent
<1> DEFINE vertices == {e \in View(r, c) : e.ends = <<>>}
           edges == View(r, c) \ vertices
<1>1. CASE src.kind = "unwind"
  <2>1. src.values \in Seq(Value)
    BY <1>1 DEF Source
  <2>2. DrivingRows(r, src, c) = {Row(k, src.values[k], <<>>) : k \in DOMAIN src.values}
    BY <1>1 DEF DrivingRows
  <2>3. <<>> \in Bindings(E)
    <3>1. <<>> \in [1 .. 0 -> E] /\ 1 .. 0 = {}
      BY EmptySeq, LenProperties
    <3> QED
      BY <3>1, BindingsMade
  <2> QED
    BY <1>1, <2>1, <2>2, <2>3 DEF Rows, Row, Values, Sourced
<1>2. CASE src.kind = "vertices"
  <2>1. src.names \in SUBSET Name
    BY <1>2 DEF Source
  <2>2. DrivingRows(r, src, c) = {Row(0, None, f) : f \in [src.names -> vertices]}
    BY <1>2 DEF DrivingRows
  <2>3. \A f \in [src.names -> vertices] : f \in [src.names -> E]
    OBVIOUS
  <2>4. \A f \in [src.names -> vertices] : f \in Bindings(E) /\ DOMAIN f = src.names
    BY <2>1, <2>3, BindingsMade
  <2> QED
    BY <1>2, <2>2, <2>4 DEF Rows, Row, Values, Sourced
<1>3. CASE src.kind = "edges"
  <2> DEFINE f(m) == [x \in {"a", "r", "b"} |->
                      CASE x = "a" -> m[1] [] x = "r" -> m[2] [] x = "b" -> m[3]]
  <2>1. DrivingRows(r, src, c) =
          {Row(0, None, f(m)) : m \in {x \in vertices \X edges \X vertices :
                                        x[2].ends = <<x[1].id, x[3].id>>}}
    BY <1>3 DEF DrivingRows
  <2>2. ASSUME NEW m \in vertices \X edges \X vertices
        PROVE  f(m) \in Bindings(E) /\ DOMAIN f(m) = {"a", "r", "b"}
    <3>1. f(m) \in [{"a", "r", "b"} -> E] /\ DOMAIN f(m) = {"a", "r", "b"}
      OBVIOUS
    <3>2. {"a", "r", "b"} \in SUBSET Name
      BY StatementsAssumption
    <3> HIDE DEF f
    <3> QED
      BY <3>1, <3>2, BindingsMade
  <2> HIDE DEF f
  <2>3. \A m \in vertices \X edges \X vertices : f(m) \in Bindings(E) /\ DOMAIN f(m) = {"a", "r", "b"}
    BY <2>2
  <2> QED
    BY <1>3, <2>1, <2>3 DEF Rows, Row, Values, Sourced
<1>4. CASE src.kind = "optional"
  <2> DEFINE found == {e \in vertices : e.prop[src.p] = src.v}
             as == IF found = {} THEN {Null} ELSE found
             f(a, b) == [x \in {"a", "b"} |-> IF x = "a" THEN a ELSE b]
  <2>1. DrivingRows(r, src, c) = {Row(0, None, f(a, b)) : a \in as, b \in vertices}
    BY <1>4 DEF DrivingRows
  <2>2. ASSUME NEW a \in as, NEW b \in vertices
        PROVE  f(a, b) \in Bindings(E) /\ DOMAIN f(a, b) = {"a", "b"}
    <3>1. f(a, b) \in [{"a", "b"} -> E] /\ DOMAIN f(a, b) = {"a", "b"}
      OBVIOUS
    <3>2. {"a", "b"} \in SUBSET Name
      BY StatementsAssumption
    <3> HIDE DEF f
    <3> QED
      BY <3>1, <3>2, BindingsMade
  <2> HIDE DEF f
  <2>3. \A a \in as, b \in vertices : f(a, b) \in Bindings(E) /\ DOMAIN f(a, b) = {"a", "b"}
    BY <2>2
  <2> QED
    BY <1>4, <2>1, <2>3 DEF Rows, Row, Values, Sourced
<1>5. src.kind \in {"unwind", "vertices", "edges", "optional"}
  BY DEF Source
<1> QED
  BY <1>1, <1>2, <1>3, <1>4, <1>5

-----------------------------------------------------------------------------
(* Created paths *)

LEMMA NodeFields ==
  ASSUME NEW x \in Node
  PROVE  x.var \in Name /\ x.new \in BOOLEAN
BY DEF Node

LEMMA EvalType ==
  ASSUME NEW E, NEW P \in SUBSET Prop, NEW props \in [P -> Value \cup {"i"}], NEW row \in Rows(E)
  PROVE  Eval(props, row) \in [Prop -> Values]
<1>1. row.i \in Values
  BY DEF Rows
<1> QED
  BY <1>1 DEF Eval, Values

LEMMA EvalNode ==
  ASSUME NEW E, NEW x \in Node, NEW row \in Rows(E)
  PROVE  Eval(x.props, row) \in [Prop -> Values]
<1>1. PICK P \in SUBSET Prop : x.props \in [P -> Value \cup {"i"}]
  BY DEF Node
<1> QED
  BY <1>1, EvalType

LEMMA EvalNone ==
  ASSUME NEW E, NEW row \in Rows(E)
  PROVE  Eval(<<>>, row) \in [Prop -> Values]
<1>1. <<>> \in [1 .. 0 -> Value \cup {"i"}] /\ 1 .. 0 = {}
  BY EmptySeq, LenProperties
<1> QED
  BY <1>1, EvalType

LEMMA DrawFields ==
  ASSUME NEW paths \in Seq(Seq(Node)), NEW d \in Draws(paths)
  PROVE  /\ d = <<d[1], d[2], d[3]>> /\ d[1] \in 1 .. Len(paths) /\ d[2] \in {0, 1}
         /\ d[3] \in 1 .. Len(paths[d[1]]) /\ d \in Nat \X Nat \X Nat
         /\ d \in NewVertices(paths) => d[2] = 0 /\ paths[d[1]][d[3]].new
         /\ d \in NewEdges(paths) => d[2] = 1 /\ d[3] + 1 \in 1 .. Len(paths[d[1]])
<1>1. /\ DOMAIN paths = 1 .. Len(paths) /\ Len(paths) \in Nat
      /\ \A p \in 1 .. Len(paths) : DOMAIN paths[p] = 1 .. Len(paths[p]) /\ Len(paths[p]) \in Nat
  OBVIOUS
<1>2. CASE d \in NewVertices(paths)
  <2>1. PICK p \in DOMAIN paths : d \in {<<p, 0, k>> : k \in {i \in DOMAIN paths[p] : paths[p][i].new}}
    BY <1>2 DEF NewVertices
  <2>2. PICK k \in DOMAIN paths[p] : paths[p][k].new /\ d = <<p, 0, k>>
    BY <2>1
  <2>3. d[1] = p /\ d[2] = 0 /\ d[3] = k
    BY <2>2
  <2>4. d \notin NewEdges(paths)
    BY <2>3 DEF NewEdges
  <2> QED
    BY <1>1, <2>2, <2>3, <2>4
<1>3. CASE d \in NewEdges(paths)
  <2>1. PICK p \in DOMAIN paths : d \in {<<p, 1, k>> : k \in 1 .. Len(paths[p]) - 1}
    BY <1>3 DEF NewEdges
  <2>2. PICK k \in 1 .. Len(paths[p]) - 1 : d = <<p, 1, k>>
    BY <2>1
  <2>3. d[1] = p /\ d[2] = 1 /\ d[3] = k
    BY <2>2
  <2>4. d \notin NewVertices(paths)
    BY <2>3 DEF NewVertices
  <2> QED
    BY <1>1, <2>2, <2>3, <2>4
<1> QED
  BY <1>2, <1>3 DEF Draws

LEMMA DrawsFinite ==
  ASSUME NEW paths \in Seq(Seq(Node))
  PROVE  IsFiniteSet(Draws(paths)) /\ Cardinality(Draws(paths)) \in Nat
<1> DEFINE n == Len(paths)
           at(p) == 1 .. Len(paths[p])
           all == {at(p) : p \in 1 .. n}
           f == [p \in 1 .. n |-> at(p)]
           T == ((1 .. n) \X {0, 1}) \X UNION all
           g == [d \in Draws(paths) |-> <<<<d[1], d[2]>>, d[3]>>]
<1>1. n \in Nat /\ \A p \in 1 .. n : Len(paths[p]) \in Nat
  OBVIOUS
<1>2. IsFiniteSet(1 .. n) /\ \A p \in 1 .. n : IsFiniteSet(at(p))
  <2>1. ASSUME NEW m \in Nat PROVE IsFiniteSet(1 .. m)
    BY FS_Interval
  <2> HIDE DEF n
  <2> QED
    BY <1>1, <2>1
<1>3. IsFiniteSet(all)
  <2>1. f \in Surjection(1 .. n, all)
    BY DEF Surjection
  <2> HIDE DEF f, all
  <2> QED
    BY <1>2, <2>1, FS_Surjection
<1>4. IsFiniteSet(UNION all)
  BY <1>2, <1>3, FS_UNION
<1>5. IsFiniteSet({0, 1})
  <2>1. IsFiniteSet({0} \cup {1}) /\ {0, 1} = {0} \cup {1}
    BY FS_Singleton, FS_AddElement
  <2> QED
    BY <2>1
<1>6. IsFiniteSet(T)
  BY <1>2, <1>4, <1>5, FS_Product
<1>7. g \in Injection(Draws(paths), T)
  <2>1. ASSUME NEW d \in Draws(paths) PROVE g[d] \in T
    <3>1. d[1] \in 1 .. n /\ d[2] \in {0, 1} /\ d[3] \in at(d[1])
      BY DrawFields
    <3>2. d[3] \in UNION all
      BY <3>1
    <3> QED
      BY <3>1, <3>2
  <2>2. ASSUME NEW d \in Draws(paths), NEW e \in Draws(paths), g[d] = g[e] PROVE d = e
    <3>1. d = <<d[1], d[2], d[3]>> /\ e = <<e[1], e[2], e[3]>>
      BY DrawFields
    <3>2. d[1] = e[1] /\ d[2] = e[2] /\ d[3] = e[3]
      BY <2>2
    <3> QED
      BY <3>1, <3>2
  <2>3. g \in [Draws(paths) -> T]
    BY <2>1
  <2> HIDE DEF g, T
  <2> QED
    BY <2>2, <2>3 DEF Injection, IsInjective
<1> HIDE DEF T, g
<1> QED
  BY <1>6, <1>7, FS_Injection, FS_CardinalityType

\* Every new vertex and edge has an id of its own.
LEMMA DrawnIds ==
  ASSUME NEW paths \in Seq(Seq(Node)), ids \in Nat
  PROVE  /\ \A d \in Draws(paths) : Drawn(paths, d) \in (ids + 1) .. (ids + Cardinality(Draws(paths)))
         /\ \A d, e \in Draws(paths) : Drawn(paths, d) = Drawn(paths, e) => d = e
<1> DEFINE upTo(d) == {c \in Draws(paths) : NotAfter(c, d)}
           n == Cardinality(Draws(paths))
<1>0. \A d \in Draws(paths) : d = <<d[1], d[2], d[3]>> /\ d[1] \in Nat /\ d[2] \in Nat /\ d[3] \in Nat
  <2> TAKE d \in Draws(paths)
  <2>1. d = <<d[1], d[2], d[3]>> /\ d \in Nat \X Nat \X Nat
    BY DrawFields
  <2> QED
    BY <2>1
<1>1. IsFiniteSet(Draws(paths)) /\ n \in Nat
  BY DrawsFinite
<1>2. \A d \in Draws(paths) : /\ IsFiniteSet(upTo(d)) /\ Cardinality(upTo(d)) \in 1 .. n
  <2> TAKE d \in Draws(paths)
  <2>1. upTo(d) \in SUBSET Draws(paths) /\ d \in upTo(d)
    BY <1>0 DEF NotAfter
  <2> HIDE DEF upTo
  <2>2. IsFiniteSet(upTo(d)) /\ Cardinality(upTo(d)) <= n
    BY <1>1, <2>1, FS_Subset
  <2>3. Cardinality(upTo(d)) \in Nat /\ Cardinality(upTo(d)) # 0
    BY <2>1, <2>2, FS_CardinalityType, FS_EmptySet
  <2> QED
    BY <1>1, <2>2, <2>3
<1>3. ASSUME NEW d \in Draws(paths), NEW e \in Draws(paths),
             Cardinality(upTo(d)) = Cardinality(upTo(e))
      PROVE  d = e
  <2>1. upTo(d) \subseteq upTo(e) \/ upTo(e) \subseteq upTo(d)
    BY <1>0, SMTT(30) DEF NotAfter
  <2>2. d \in upTo(d) /\ e \in upTo(e)
    BY <1>0 DEF NotAfter
  <2>3. upTo(d) = upTo(e)
    <3> HIDE DEF upTo
    <3> QED
      BY <1>2, <1>3, <2>1, FS_Subset
  <2>4. NotAfter(d, e) /\ NotAfter(e, d)
    BY <2>2, <2>3
  <2>5. d[1] = e[1] /\ d[2] = e[2] /\ d[3] = e[3]
    BY <1>0, <2>4 DEF NotAfter
  <2> QED
    BY <1>0, <2>5
<1>4. \A d \in Draws(paths) : Drawn(paths, d) = ids + Cardinality(upTo(d))
  BY DEF Drawn
<1> HIDE DEF upTo, n
<1>5. ASSUME NEW d \in Draws(paths) PROVE Drawn(paths, d) \in (ids + 1) .. (ids + n)
  BY <1>1, <1>2, <1>4
<1>6. ASSUME NEW d \in Draws(paths), NEW e \in Draws(paths), Drawn(paths, d) = Drawn(paths, e)
      PROVE  d = e
  <2>1. Cardinality(upTo(d)) = Cardinality(upTo(e))
    <3> DEFINE a == Cardinality(upTo(d))
               b == Cardinality(upTo(e))
    <3>1. a \in Nat /\ b \in Nat /\ ids + a = ids + b
      BY <1>2, <1>4, <1>6
    <3> HIDE DEF a, b
    <3>2. a = b
      BY <3>1
    <3> QED
      BY <3>2 DEF a, b
  <2> QED
    BY <1>3, <2>1
<1> QED
  BY <1>5, <1>6 DEF n

NewIn(paths) == {x.var : x \in {y \in UNION {ToSet(path) : path \in ToSet(paths)} : y.new}}

\* Paths are made for row: the new entities have ids of their own, and the row,
\* of copies in F, binds the new variables.
MadeWell(m, row, paths, F) ==
    /\ m.row \in Rows(F) /\ DOMAIN m.row.ent = DOMAIN row.ent \cup NewIn(paths)
    /\ m.last \in Nat /\ ids <= m.last
    /\ m.made \subseteq Entities /\ IsFiniteSet(m.made)
    /\ \A e \in m.made : e.id \in (ids + 1) .. m.last
    /\ \A e, f \in m.made : e.id = f.id => e = f

\* The new variables are bound to new vertices and the others stay; new edges
\* lie between vertices of the paths.
MadeEnds(m, row, paths) ==
    /\ \A x \in NewIn(paths) : m.row.ent[x] \in m.made /\ m.row.ent[x].ends = <<>>
    /\ \A x \in DOMAIN row.ent \ NewIn(paths) : m.row.ent[x] = row.ent[x]
    /\ \A e \in m.made : \A i \in DOMAIN e.ends :
          \E x \in NewIn(paths) \cup Earlier(paths) : e.ends[i] = m.row.ent[x].id

LEMMA MadePathsGood ==
  ASSUME NEW E, NEW F, E \subseteq Entities, E \subseteq F, ids \in Nat,
         NEW paths \in Seq(Seq(Node)), NEW row \in Rows(E), Earlier(paths) \subseteq DOMAIN row.ent,
         \A e \in Entities : e.id > ids => e \in F
  PROVE  /\ MadeWell(MadePaths(row, paths), row, paths, F)
         /\ MadeEnds(MadePaths(row, paths), row, paths)
<1> DEFINE node(d)   == paths[d[1]][d[3]]
           vertex(d) == [id |-> Drawn(paths, d), ends |-> <<>>, prop |-> Eval(node(d).props, row)]
           names     == {node(d).var : d \in NewVertices(paths)}
           new       == [x \in names |-> vertex(CHOOSE d \in NewVertices(paths) : node(d).var = x)]
           ent       == Extended(row.ent, new)
           end(p, k) == ent[paths[p][k].var].id
           edge(d)   == [id |-> Drawn(paths, d), ends |-> <<end(d[1], d[3]), end(d[1], d[3] + 1)>>,
                         prop |-> Eval(<<>>, row)]
           last      == ids + Cardinality(Draws(paths))
           made      == {vertex(d) : d \in NewVertices(paths)} \cup {edge(d) : d \in NewEdges(paths)}
           nodes     == UNION {ToSet(path) : path \in ToSet(paths)}
           of(d)     == IF d \in NewVertices(paths) THEN vertex(d) ELSE edge(d)
<1>1. MadePaths(row, paths) = [row |-> [row EXCEPT !.ent = ent], last |-> last, made |-> made]
  BY DEF MadePaths
<1>2. last \in Nat /\ ids <= last
  BY DrawsFinite
<1>3. \A d \in Draws(paths) : Drawn(paths, d) \in (ids + 1) .. last
  BY DrawnIds
<1>4. \A d \in Draws(paths) : node(d) \in Node
  <2> TAKE d \in Draws(paths)
  <2>1. d[1] \in 1 .. Len(paths) /\ d[3] \in 1 .. Len(paths[d[1]])
    BY DrawFields
  <2>2. paths[d[1]] \in Seq(Node)
    BY <2>1
  <2> QED
    BY <2>1, <2>2
<1>5. names = {x.var : x \in {y \in nodes : y.new}} /\ names \subseteq Name
  <2>1. ASSUME NEW x \in names PROVE x \in {z.var : z \in {y \in nodes : y.new}}
    <3>1. PICK d \in NewVertices(paths) : x = node(d).var
      OBVIOUS
    <3>2. /\ d[1] \in DOMAIN paths /\ d[3] \in DOMAIN paths[d[1]] /\ node(d).new
      BY DrawFields DEF Draws
    <3>3. paths[d[1]] \in ToSet(paths) /\ node(d) \in ToSet(paths[d[1]])
      BY <3>2 DEF ToSet
    <3> QED
      BY <3>1, <3>2, <3>3
  <2>2. ASSUME NEW y \in nodes, y.new PROVE y.var \in names
    <3>1. PICK p \in DOMAIN paths : y \in ToSet(paths[p])
      BY DEF ToSet
    <3>2. PICK k \in DOMAIN paths[p] : y = paths[p][k]
      BY <3>1 DEF ToSet
    <3>3. <<p, 0, k>> \in NewVertices(paths)
      BY <2>2, <3>2 DEF NewVertices
    <3>4. node(<<p, 0, k>>) = y
      BY <3>2
    <3> QED
      BY <3>3, <3>4
  <2>3. \A x \in names : x \in Name
    BY <1>4, NodeFields DEF Draws
  <2> HIDE DEF names, nodes
  <2> QED
    BY <2>1, <2>2, <2>3
<1>6. ASSUME NEW d \in NewVertices(paths) PROVE vertex(d) \in Entities /\ vertex(d) \in F
  <2>1. Eval(node(d).props, row) \in [Prop -> Values]
    BY <1>4, EvalNode DEF Draws
  <2>2. Drawn(paths, d) \in Nat /\ Drawn(paths, d) > ids
    BY <1>2, <1>3 DEF Draws
  <2>3. <<>> \in Seq(Nat)
    OBVIOUS
  <2>4. vertex(d) \in Entities /\ vertex(d).id > ids
    BY <2>1, <2>2, <2>3 DEF Entities
  <2> QED
    BY <2>4
<1>6a. \A d \in NewVertices(paths) : vertex(d).ends = <<>>
  <2> HIDE DEF node
  <2> QED
    OBVIOUS
<1>7. new \in [names -> F]
  <2>1. ASSUME NEW x \in names PROVE (CHOOSE d \in NewVertices(paths) : node(d).var = x) \in NewVertices(paths)
    <3>1. \E d \in NewVertices(paths) : node(d).var = x
      OBVIOUS
    <3> QED
      BY <3>1
  <2> HIDE DEF names, vertex
  <2> QED
    BY <1>6, <2>1
<1> HIDE DEF new
<1>8. ent \in Bindings(F) /\ DOMAIN ent = DOMAIN row.ent \cup names
  <2>1. row.ent \in [DOMAIN row.ent -> E] /\ DOMAIN row.ent \in SUBSET Name
    BY BindingsFields DEF Rows
  <2>2. ent \in [names \cup DOMAIN row.ent -> F]
    BY <1>7, <2>1 DEF Extended
  <2>3. names \cup DOMAIN row.ent \in SUBSET Name
    BY <1>5, <2>1
  <2> HIDE DEF ent, names
  <2> QED
    BY <2>2, <2>3, BindingsMade
<1>9. \A x \in DOMAIN ent : ent[x].id \in Nat
  <2>1. row.ent \in [DOMAIN row.ent -> E] /\ DOMAIN row.ent \in SUBSET Name
    BY BindingsFields DEF Rows
  <2>2. \A x \in names : new[x] \in Entities
    <3>1. \A x \in names : new[x] = vertex(CHOOSE d \in NewVertices(paths) : node(d).var = x)
      BY DEF new
    <3>2. ASSUME NEW x \in names PROVE (CHOOSE d \in NewVertices(paths) : node(d).var = x) \in NewVertices(paths)
      <4>1. \E d \in NewVertices(paths) : node(d).var = x
        OBVIOUS
      <4> QED
        BY <4>1
    <3> HIDE DEF names, vertex
    <3> QED
      BY <1>6, <3>1, <3>2
  <2>3. ASSUME NEW x \in DOMAIN ent PROVE ent[x] \in Entities
    <3>1. ent[x] = IF x \in names THEN new[x] ELSE row.ent[x]
      BY <1>7, <1>8, <2>1 DEF Extended
    <3> HIDE DEF ent, names
    <3> QED
      BY <1>8, <2>1, <2>2, <3>1
  <2> QED
    BY <2>3 DEF Entities
<1>9a. /\ \A x \in names : ent[x] \in made /\ ent[x].ends = <<>>
       /\ \A x \in DOMAIN row.ent \ names : ent[x] = row.ent[x]
  <2>1. row.ent \in [DOMAIN row.ent -> E]
    BY BindingsFields DEF Rows
  <2>2. DOMAIN new = names
    BY <1>7
  <2>3. /\ \A x \in names : ent[x] = new[x]
        /\ \A x \in DOMAIN row.ent \ names : ent[x] = row.ent[x]
    BY <2>2 DEF Extended
  <2>4. \A x \in names : new[x] = vertex(CHOOSE d \in NewVertices(paths) : node(d).var = x)
    BY DEF new
  <2>5. ASSUME NEW x \in names PROVE (CHOOSE d \in NewVertices(paths) : node(d).var = x) \in NewVertices(paths)
    <3>1. \E d \in NewVertices(paths) : node(d).var = x
      OBVIOUS
    <3> QED
      BY <3>1
  <2>6. \A d \in NewVertices(paths) : vertex(d) \in made
    OBVIOUS
  <2> HIDE DEF names, vertex, made
  <2>7. ASSUME NEW x \in names PROVE new[x] \in made /\ new[x].ends = <<>>
    <3>1. PICK d \in NewVertices(paths) : new[x] = vertex(d)
      BY <2>4, <2>5
    <3> QED
      BY <1>6a, <2>6, <3>1
  <2> HIDE DEF ent
  <2> QED
    BY <2>3, <2>7
<1> HIDE DEF ent
<1>10. ASSUME NEW d \in NewEdges(paths)
       PROVE  /\ edge(d) \in Entities
              /\ \A i \in DOMAIN edge(d).ends :
                    \E x \in names \cup Earlier(paths) : edge(d).ends[i] = ent[x].id
  <2>1. ASSUME NEW k \in 1 .. Len(paths[d[1]])
        PROVE  end(d[1], k) \in Nat /\ \E x \in names \cup Earlier(paths) : end(d[1], k) = ent[x].id
    <3>1. d[1] \in DOMAIN paths /\ k \in DOMAIN paths[d[1]]
      BY DrawFields DEF Draws
    <3>2. paths[d[1]][k] \in nodes
      <4>1. paths[d[1]] \in ToSet(paths) /\ paths[d[1]][k] \in ToSet(paths[d[1]])
        BY <3>1 DEF ToSet
      <4> QED
        BY <4>1
    <3>3. paths[d[1]][k].var \in names \/ paths[d[1]][k].var \in Earlier(paths)
      BY <1>5, <3>2 DEF Earlier
    <3>4. paths[d[1]][k].var \in DOMAIN ent
      BY <1>8, <3>3
    <3> QED
      BY <1>9, <3>3, <3>4
  <2>2. d[3] \in 1 .. Len(paths[d[1]]) /\ d[3] + 1 \in 1 .. Len(paths[d[1]])
    BY DrawFields DEF Draws
  <2>3. /\ end(d[1], d[3]) \in Nat /\ end(d[1], d[3] + 1) \in Nat
        /\ \E x \in names \cup Earlier(paths) : end(d[1], d[3]) = ent[x].id
        /\ \E x \in names \cup Earlier(paths) : end(d[1], d[3] + 1) = ent[x].id
    BY <2>1, <2>2
  <2>4. Eval(<<>>, row) \in [Prop -> Values] /\ Drawn(paths, d) \in Nat
    BY <1>2, <1>3, EvalNone DEF Draws
  <2> HIDE DEF end
  <2>5. <<end(d[1], d[3]), end(d[1], d[3] + 1)>> \in Seq(Nat)
    BY <2>3
  <2>6. edge(d) \in Entities
    BY <2>4, <2>5 DEF Entities
  <2>7. edge(d).ends = <<end(d[1], d[3]), end(d[1], d[3] + 1)>>
    OBVIOUS
  <2> HIDE DEF edge, names
  <2> QED
    BY <2>3, <2>6, <2>7
<1>11. \A d \in Draws(paths) : of(d).id = Drawn(paths, d)
  OBVIOUS
<1>12. made = {of(d) : d \in Draws(paths)}
  <2>1. ASSUME NEW d \in NewEdges(paths) PROVE d \notin NewVertices(paths)
    <3>1. d \in Draws(paths)
      BY DEF Draws
    <3> QED
      BY <3>1, DrawFields
  <2> HIDE DEF vertex, edge
  <2> QED
    BY <2>1 DEF Draws
<1>13. IsFiniteSet(made)
  <2> DEFINE f == [d \in Draws(paths) |-> of(d)]
  <2> HIDE DEF of, made
  <2>1. f \in Surjection(Draws(paths), made)
    BY <1>12 DEF Surjection
  <2> HIDE DEF f
  <2> QED
    BY <2>1, DrawsFinite, FS_Surjection
<1>14. made \subseteq Entities
  <2> HIDE DEF vertex, edge
  <2> QED
    BY <1>6, <1>10
<1>15. \A e \in made : e.id \in (ids + 1) .. last
  <2> HIDE DEF made, of, last
  <2> QED
    BY <1>3, <1>11, <1>12
<1>16. \A e, f \in made : e.id = f.id => e = f
  <2> HIDE DEF made, of, last
  <2> QED
    BY <1>11, <1>12, DrawnIds
<1>16a. \A e \in made : \A i \in DOMAIN e.ends : \E x \in names \cup Earlier(paths) : e.ends[i] = ent[x].id
  <2>1. ASSUME NEW e \in made PROVE e.ends = <<>> \/ \E d \in NewEdges(paths) : e = edge(d)
    <3> HIDE DEF vertex, edge
    <3> QED
      BY <1>6a
  <2> HIDE DEF made, edge, names
  <2> QED
    BY <1>10, <2>1
<1>17. [row EXCEPT !.ent = ent] \in Rows(F) /\ [row EXCEPT !.ent = ent].ent = ent
  BY <1>8 DEF Rows
<1> HIDE DEF names, last, made
<1> DEFINE m == MadePaths(row, paths)
           to == [row EXCEPT !.ent = ent]
<1> HIDE DEF m, to
<1>18. m = [row |-> to, last |-> last, made |-> made] /\ to \in Rows(F) /\ to.ent = ent
  BY <1>1, <1>17 DEF m, to
<1>19. DOMAIN m.row.ent = DOMAIN row.ent \cup {x.var : x \in {y \in nodes : y.new}}
  BY <1>5, <1>8, <1>18
<1>20. /\ m.row \in Rows(F) /\ m.last \in Nat /\ ids <= m.last
       /\ m.made \subseteq Entities /\ IsFiniteSet(m.made)
       /\ \A e \in m.made : e.id \in (ids + 1) .. m.last
       /\ \A e, f \in m.made : e.id = f.id => e = f
  BY <1>2, <1>13, <1>14, <1>15, <1>16, <1>18
<1>21. names = NewIn(paths)
  BY <1>5 DEF NewIn
<1>22. MadeEnds(m, row, paths)
  <2> HIDE DEF nodes
  <2> QED
    BY <1>9a, <1>16a, <1>18, <1>21 DEF MadeEnds
<1> QED
  BY <1>19, <1>20, <1>22 DEF m, MadeWell, NewIn

-----------------------------------------------------------------------------
(* Matched paths *)

LEMMA FiniteFunctions ==
  ASSUME NEW S, NEW T, IsFiniteSet(S), IsFiniteSet(T)
  PROVE  IsFiniteSet([S -> T])
<1> DEFINE g == [f \in [S -> T] |-> {<<x, f[x]>> : x \in S}]
<1>1. IsFiniteSet(SUBSET (S \X T))
  BY FS_Product, FS_SUBSET
<1>2. g \in Injection([S -> T], SUBSET (S \X T))
  <2>1. g \in [[S -> T] -> SUBSET (S \X T)]
    OBVIOUS
  <2>2. ASSUME NEW e \in [S -> T], NEW f \in [S -> T], g[e] = g[f] PROVE e = f
    <3>1. ASSUME NEW x \in S PROVE e[x] = f[x]
      <4>1. <<x, e[x]>> \in g[f]
        BY <2>2
      <4>2. PICK y \in S : <<x, e[x]>> = <<y, f[y]>>
        BY <4>1
      <4> QED
        BY <4>2
    <3> QED
      BY <3>1
  <2> HIDE DEF g
  <2> QED
    BY <2>1, <2>2 DEF Injection, IsInjective
<1> HIDE DEF g
<1> QED
  BY <1>1, <1>2, FS_Injection

LEMMA FinitePath ==
  ASSUME NEW S, NEW path \in Seq(S)
  PROVE  IsFiniteSet(DOMAIN path) /\ DOMAIN path = 1 .. Len(path) /\ IsFiniteSet(1 .. Len(path) - 1)
<1> DEFINE n == Len(path)
           m == Len(path) - 1
<1>1. n \in Nat /\ m \in Int /\ DOMAIN path = 1 .. n
  OBVIOUS
<1> HIDE DEF n, m
<1>2. IsFiniteSet(1 .. n) /\ IsFiniteSet(1 .. m)
  BY <1>1, FS_Interval
<1> QED
  BY <1>1, <1>2 DEF n, m

\* The matches of a pattern are finitely many, and their vertices are the view's
\* or the row's.
LEMMA MatchesGood ==
  ASSUME NEW E, NEW view \in Views(E), NEW path \in Seq(Node), NEW row \in Rows(E),
         \A x \in ToSet(path) : ~x.new => x.var \in DOMAIN row.ent
  PROVE  /\ IsFiniteSet(Matches(view, path, row))
         /\ \A m \in Matches(view, path, row) : m.vs \in Seq(E) /\ Len(m.vs) = Len(path)
<1> DEFINE vertices == {e \in view : e.ends = <<>>}
           fits(node) ==
             IF node.new
             THEN {e \in vertices : \A p \in DOMAIN node.props : e.prop[p] = Eval(node.props, row)[p]}
             ELSE {row.ent[node.var]}
           U == UNION {fits(node) : node \in ToSet(path)}
           VS == {vs \in [DOMAIN path -> U] : \A k \in DOMAIN path : vs[k] \in fits(path[k])}
           ES == [1 .. Len(path) - 1 -> view \ vertices]
           found == Matches(view, path, row)
           R == {row.ent[path[k].var] : k \in DOMAIN path}
<1>1. found \subseteq [vs : VS, es : ES]
  BY DEF Matches
<1>2. row.ent \in [DOMAIN row.ent -> E] /\ view \subseteq E /\ IsFiniteSet(view)
  BY BindingsFields DEF Rows, Views
<1>3. U \subseteq view \cup R
  <2>1. ASSUME NEW node \in ToSet(path) PROVE fits(node) \subseteq view \cup R
    <3>1. PICK k \in DOMAIN path : node = path[k]
      BY DEF ToSet
    <3>2. row.ent[node.var] \in R
      BY <3>1
    <3> HIDE DEF R
    <3>3. CASE node.new
      BY <3>3
    <3>4. CASE ~node.new
      BY <3>2, <3>4
    <3> QED
      BY <3>3, <3>4
  <2> HIDE DEF fits, R
  <2> QED
    BY <2>1
<1>4. U \subseteq E
  <2>1. ASSUME NEW node \in ToSet(path) PROVE fits(node) \subseteq E
    <3>1. CASE node.new
      BY <1>2, <3>1
    <3>2. CASE ~node.new
      BY <1>2, <3>2
    <3> QED
      BY <3>1, <3>2
  <2> HIDE DEF fits
  <2> QED
    BY <2>1
<1> HIDE DEF fits, U, vertices
<1>5. IsFiniteSet(DOMAIN path) /\ DOMAIN path = 1 .. Len(path) /\ IsFiniteSet(1 .. Len(path) - 1)
  BY FinitePath
<1>6. IsFiniteSet(U)
  <2> DEFINE f == [k \in DOMAIN path |-> row.ent[path[k].var]]
  <2>1. f \in Surjection(DOMAIN path, R)
    BY DEF Surjection
  <2> HIDE DEF f, R
  <2>2. IsFiniteSet(R)
    BY <1>5, <2>1, FS_Surjection
  <2>3. IsFiniteSet(view \cup R)
    BY <1>2, <2>2, FS_Union
  <2> QED
    BY <1>3, <2>3, FS_Subset
<1>7. IsFiniteSet(VS)
  <2>1. IsFiniteSet([DOMAIN path -> U])
    BY <1>5, <1>6, FiniteFunctions
  <2>2. VS \subseteq [DOMAIN path -> U]
    OBVIOUS
  <2> HIDE DEF VS
  <2> QED
    BY <2>1, <2>2, FS_Subset
<1>8. IsFiniteSet(ES)
  <2>1. IsFiniteSet(view \ vertices)
    BY <1>2, FS_Difference
  <2> QED
    BY <1>5, <2>1, FiniteFunctions
<1>9. ASSUME NEW m \in found PROVE m.vs \in Seq(E) /\ Len(m.vs) = Len(path)
  <2>1. m.vs \in [1 .. Len(path) -> U]
    BY <1>1, <1>5
  <2>2. m.vs \in [1 .. Len(path) -> E] /\ Len(path) \in Nat
    BY <1>4, <2>1
  <2> QED
    BY <2>2
<1>10. IsFiniteSet(found)
  <2> DEFINE g == [m \in found |-> <<m.vs, m.es>>]
  <2> HIDE DEF found, VS, ES
  <2>1. g \in [found -> VS \X ES]
    BY <1>1
  <2>2. ASSUME NEW m \in found, NEW o \in found, g[m] = g[o] PROVE m = o
    <3>1. m.vs = o.vs /\ m.es = o.es
      BY <2>2
    <3> QED
      BY <1>1, <3>1
  <2> HIDE DEF g
  <2>3. g \in Injection(found, VS \X ES)
    BY <2>1, <2>2 DEF Injection, IsInjective
  <2>4. IsFiniteSet(VS \X ES)
    BY <1>7, <1>8, FS_Product
  <2> QED
    BY <2>3, <2>4, FS_Injection
<1> QED
  BY <1>9, <1>10

\* A match of the pattern binds its new variables.
LEMMA BoundGood ==
  ASSUME NEW E, NEW path \in Seq(Node), NEW row \in Rows(E), NEW m, m.vs \in Seq(E),
         Len(m.vs) = Len(path)
  PROVE  /\ Bound(row, path, m) \in Rows(E)
         /\ DOMAIN Bound(row, path, m).ent
              = DOMAIN row.ent \cup {x.var : x \in {y \in ToSet(path) : y.new}}
<1> DEFINE names == {path[k].var : k \in {j \in DOMAIN path : path[j].new}}
           new == [x \in names |-> m.vs[CHOOSE k \in DOMAIN path : path[k].var = x]]
           ent == Extended(row.ent, new)
<1>1. Bound(row, path, m) = [row EXCEPT !.ent = ent]
  BY DEF Bound
<1>2. names = {x.var : x \in {y \in ToSet(path) : y.new}}
  BY DEF ToSet
<1>3. names \subseteq Name
  BY NodeFields
<1>4. new \in [names -> E]
  <2>1. ASSUME NEW x \in names PROVE m.vs[CHOOSE k \in DOMAIN path : path[k].var = x] \in E
    <3>1. \E k \in DOMAIN path : path[k].var = x
      OBVIOUS
    <3>2. (CHOOSE k \in DOMAIN path : path[k].var = x) \in DOMAIN path
      BY <3>1
    <3> QED
      BY <3>2
  <2> HIDE DEF names
  <2> QED
    BY <2>1
<1> HIDE DEF names, new
<1>5. row.ent \in [DOMAIN row.ent -> E] /\ DOMAIN row.ent \in SUBSET Name
  BY BindingsFields DEF Rows
<1>6. ent \in [names \cup DOMAIN row.ent -> E] /\ DOMAIN ent = DOMAIN row.ent \cup names
  BY <1>4, <1>5 DEF Extended
<1> HIDE DEF ent
<1>7. ent \in Bindings(E)
  BY <1>3, <1>5, <1>6, BindingsMade
<1>8. [row EXCEPT !.ent = ent] \in Rows(E) /\ [row EXCEPT !.ent = ent].ent = ent
  BY <1>7 DEF Rows
<1> QED
  BY <1>1, <1>2, <1>6, <1>8

LEMMA PathKeyType ==
  ASSUME NEW E, E \subseteq Entities, NEW path \in Seq(Node), NEW row \in Rows(E),
         \A x \in ToSet(path) : ~x.new => x.var \in DOMAIN row.ent
  PROVE  PathKey(path, row) \in Seq(Nat \cup [Prop -> Values])
<1> DEFINE key(k) == IF path[k].new THEN Eval(path[k].props, row) ELSE row.ent[path[k].var].id
<1>1. DOMAIN path = 1 .. Len(path) /\ Len(path) \in Nat
  OBVIOUS
<1>2. ASSUME NEW k \in 1 .. Len(path) PROVE key(k) \in Nat \cup [Prop -> Values]
  <2>1. path[k] \in Node /\ path[k] \in ToSet(path)
    BY <1>1 DEF ToSet
  <2>2. CASE path[k].new
    BY <2>1, <2>2, EvalNode
  <2>3. CASE ~path[k].new
    <3>1. path[k].var \in DOMAIN row.ent
      BY <2>1, <2>3
    <3>2. row.ent[path[k].var] \in Entities
      BY <3>1, BindingsFields DEF Rows
    <3> QED
      BY <2>3, <3>2 DEF Entities
  <2> QED
    BY <2>2, <2>3
<1>3. PathKey(path, row) = [k \in 1 .. Len(path) |-> key(k)]
  BY <1>1 DEF PathKey
<1> HIDE DEF key
<1> QED
  BY <1>1, <1>2, <1>3

-----------------------------------------------------------------------------
(* The invariant *)

Active == {s \in Session : run[s].phase # "idle"}

\* Run r said what property p of entity id is.
SaidOf(r, id, p) == \E m \in r.said : m.id = id /\ m.p = p

\* Entity e has what version w has, but for what r said.
Like(r, e, w) == \A p \in Prop : e.prop[p] = w.prop[p] \/ SaidOf(r, e.id, p)

\* What the copies in the rows of session s may be: they are like the standing
\* version of their entity in the snapshot.
Pool(s) ==
    {e \in Entities : \A w \in heap :
        w.id = e.id /\ Stands(w) /\ w.xmin \in run[s].snap => Like(run[s], e, w)}

TInv ==
    /\ heap \in SUBSET Versions /\ IsFiniteSet(heap)
    /\ ids \in Nat /\ started \in Nat /\ committed \in SUBSET (0 .. started)
    /\ \A v \in heap : v.id \in 1 .. ids
    /\ run = [s \in Session |-> run[s]]
    /\ \A s \in Session \ Active : run[s] = Idle
    /\ \A s \in Active : /\ Good(run[s], Pool(s)) /\ run[s].xid \in 1 .. started
                         /\ run[s].snap \subseteq committed

-----------------------------------------------------------------------------
(* What the steps of a statement do *)

\* Version v is open and in the snapshot of session s.
OpenTo(s, v) == v.xmax = NoXid /\ (v.xmin = run[s].xid \/ v.xmin \in run[s].snap)

Inserts(s) ==
    \E made \in SUBSET Entities, c \in Nat :
        /\ IsFiniteSet(made)
        /\ \A e \in made : e.id \in (ids + 1) .. ids'
        /\ \A e, f \in made : e.id = f.id => e = f
        /\ ids' \in Nat /\ ids <= ids'
        /\ heap' = heap \cup {Version(e, run[s].xid, c) : e \in made}

Removes(s) == \E v \in heap : OpenTo(s, v) /\ heap' = Closed(run[s], v) /\ ids' = ids

\* The pool of session s has what its step may copy.
Reaching(s) ==
    /\ Pool(s) \subseteq Pool(s)'
    /\ \A e \in Entities : e.id > ids => e \in Pool(s)'
    /\ \A e \in Pool(s), p \in Prop, v \in Values :
          SaidOf(run'[s], e.id, p) => [e EXCEPT !.prop[p] = v] \in Pool(s)'

Replaces(s) ==
    \E v \in heap, e \in Entities :
        /\ OpenTo(s, v) /\ e.id = v.id /\ heap' = Written(run[s], v, e) /\ ids' = ids
        /\ Reaching(s) => e \in Pool(s)'

\* A step of the statement of session s.
Stepped(s) ==
    /\ run' = [run EXCEPT ![s] = run'[s]]
    /\ run'[s].xid = run[s].xid /\ run'[s].snap = run[s].snap /\ run[s].said \subseteq run'[s].said
    /\ UNCHANGED <<committed, started>>
    /\ UNCHANGED <<heap, ids>> \/ Inserts(s) \/ Removes(s) \/ Replaces(s)
    /\ Reaching(s) => Good(run'[s], Pool(s)')

LEMMA ActiveRun ==
  ASSUME TInv, NEW s \in Session, run[s].phase # "idle"
  PROVE  /\ Good(run[s], Pool(s)) /\ Pool(s) \subseteq Entities
         /\ run[s].xid \in Nat /\ s \in DOMAIN run
<1>1. s \in Active
  BY DEF Active
<1>2. s \in DOMAIN run
  <2>1. run = [t \in Session |-> run[t]]
    BY DEF TInv
  <2> QED
    BY <2>1
<1>3. Good(run[s], Pool(s)) /\ run[s].xid \in 1 .. started /\ started \in Nat
  BY <1>1 DEF TInv
<1>4. Pool(s) \subseteq Entities
  BY DEF Pool
<1> QED
  BY <1>2, <1>3, <1>4

LEMMA GoodGrows ==
  ASSUME NEW E, NEW F, E \subseteq F, NEW r, Good(r, E)
  PROVE  Good(r, F)
BY RunsGrow DEF Good

\* A step that only moves a run on.
LEMMA MovesOn ==
  ASSUME TInv, NEW s \in Session, run[s].phase # "idle", NEW q,
         run' = [run EXCEPT ![s] = q], Later(run[s], q),
         Reaching(s) => Good(q, Pool(s)'),
         UNCHANGED <<heap, committed, ids, started>>
  PROVE  Stepped(s)
<1>1. run'[s] = q
  BY ActiveRun
<1> QED
  BY <1>1 DEF Stepped, Later

LEMMA PullStep ==
  ASSUME TInv, NEW s \in Session, Pull(s)
  PROVE  Stepped(s)
<1> DEFINE r == run[s]
           E == Pool(s)
<1>1. PICK row \in r.rows :
        run' = [run EXCEPT ![s].rows = @ \ {row}, ![s].n = @ + 1,
                           ![s].todo = <<[k |-> 1, j |-> 1, row |-> [row EXCEPT !.n = r.n + 1]]>>]
  BY DEF Pull
<1>2. r.phase = "rows" /\ UNCHANGED <<heap, committed, ids, started>>
  BY DEF Pull
<1>3. Good(r, E) /\ s \in DOMAIN run /\ r \in Runs(E) /\ Fits(r)
  BY <1>2, ActiveRun DEF Good
<1> DEFINE to == [row EXCEPT !.n = r.n + 1]
           w == [k |-> 1, j |-> 1, row |-> to]
           t == <<w>>
           n == r.n + 1
           rest == r.rows \ {row}
           q == [r EXCEPT !.rows = rest, !.n = n, !.todo = t]
<1>4. run' = [run EXCEPT ![s] = q]
  BY <1>1, <1>3
<1>5. /\ row \in Rows(E) /\ r.stmt \in Statement /\ n \in Nat /\ Reaches(r.stmt, row, 1)
      /\ rest \in SUBSET Rows(E)
  BY <1>3 DEF Runs, Fits
<1>6. to \in Rows(E) /\ Reaches(r.stmt, to, 1)
  BY <1>5 DEF Rows, Reaches
<1> HIDE DEF to, n, rest
<1>7. w \in Works(E) /\ WorkFits(r.stmt, w)
  <2>1. 1 \in 1 .. Len(r.stmt.clauses)
    BY <1>5, ParsedStatement
  <2> QED
    BY <1>5, <1>6, <2>1, FirstWork DEF Works
<1> HIDE DEF w
<1>8. t \in Seq(Works(E)) /\ \A i \in 1 .. Len(t) : WorkFits(r.stmt, t[i])
  BY <1>7
<1> HIDE DEF t
<1>9. q \in Runs(E)
  BY <1>3, <1>5, <1>8 DEF Runs
<1>10. /\ Later(r, q) /\ q.rows = rest /\ q.todo = t /\ q.stmt = r.stmt /\ q.created = r.created
       /\ q.inner = r.inner
  BY <1>3 DEF Runs, Later
<1> HIDE DEF q
<1>11. Fits(q)
  BY <1>3, <1>8, <1>10 DEF Fits, rest
<1>12. Good(q, E)
  BY <1>9, <1>11 DEF Good
<1> QED
  BY <1>2, <1>4, <1>10, <1>12, GoodGrows, MovesOn DEF Reaching

LEMMA Incrementing ==
  ASSUME NEW E, NEW r, Good(r, E), NEW q, q = r \/ q = Incremented(r)
  PROVE  Good(q, E) /\ Later(r, q) /\ q.todo = r.todo /\ q.stmt = r.stmt
BY IncrementedGood DEF Later

LEMMA PhaseGood ==
  ASSUME NEW E, NEW r, Good(r, E), NEW phase \in {"rows", "ending", "ready"}
  PROVE  Good([r EXCEPT !.phase = phase], E) /\ Later(r, [r EXCEPT !.phase = phase])
<1> DEFINE q == [r EXCEPT !.phase = phase]
<1>1. r \in Runs(E) /\ Fits(r)
  BY DEF Good
<1>2. q \in Runs(E)
  BY <1>1 DEF Runs
<1>3. /\ Later(r, q) /\ q.rows = r.rows /\ q.todo = r.todo /\ q.stmt = r.stmt
      /\ q.created = r.created /\ q.inner = r.inner
  BY <1>1 DEF Runs, Later
<1> HIDE DEF q
<1> QED
  BY <1>1, <1>2, <1>3, FitsKept DEF Good, q

LEMMA EndedGood ==
  ASSUME NEW E, NEW r, Good(r, E)
  PROVE  Good(EndedLevel(r), E) /\ Later(r, EndedLevel(r))
<1> DEFINE l == r.level - 1
           q == [r EXCEPT !.level = l]
<1>1. r \in Runs(E) /\ Fits(r)
  BY DEF Good
<1>2. l \in Int
  BY <1>1 DEF Runs
<1>3. EndedLevel(r) = [r EXCEPT !.phase = "ready"] \/ EndedLevel(r) = q
  BY DEF EndedLevel
<1> HIDE DEF l
<1>4. q \in Runs(E)
  BY <1>1, <1>2 DEF Runs
<1>5. /\ Later(r, q) /\ q.rows = r.rows /\ q.todo = r.todo /\ q.stmt = r.stmt
      /\ q.created = r.created /\ q.inner = r.inner
  BY <1>1 DEF Runs, Later
<1> HIDE DEF q
<1>6. Good(q, E)
  BY <1>1, <1>4, <1>5, FitsKept DEF Good
<1> DEFINE e == [r EXCEPT !.phase = "ready"]
<1>7. Good(e, E) /\ Later(r, e)
  <2>1. "ready" \in {"rows", "ending", "ready"}
    OBVIOUS
  <2> QED
    BY <2>1, PhaseGood
<1>8. EndedLevel(r) = e \/ EndedLevel(r) = q
  BY <1>3
<1> HIDE DEF e
<1> QED
  BY <1>5, <1>6, <1>7, <1>8

LEMMA ExhaustedStep ==
  ASSUME TInv, NEW s \in Session, Exhausted(s)
  PROVE  Stepped(s)
<1> DEFINE r == run[s]
           E == Pool(s)
           k == Len(r.stmt.clauses)
           q == IF Terminal(r, k) /\ r.stmt.clauses[k].op \in {"create", "set"} THEN Incremented(r) ELSE r
           to == [q EXCEPT !.phase = "ending"]
<1>1. run' = [run EXCEPT ![s] = to]
  BY DEF Exhausted
<1>2. r.phase = "rows" /\ UNCHANGED <<heap, committed, ids, started>>
  BY DEF Exhausted
<1>3. Good(r, E)
  BY <1>2, ActiveRun
<1>4. Good(q, E) /\ Later(r, q)
  BY <1>3, Incrementing
<1> HIDE DEF q
<1>5. Good(to, E) /\ Later(r, to)
  BY <1>4, PhaseGood DEF Later
<1> HIDE DEF to
<1> QED
  BY <1>1, <1>2, <1>5, GoodGrows, MovesOn DEF Reaching

LEMMA EndClauseStep ==
  ASSUME TInv, NEW s \in Session, end_cypher_clause(s)
  PROVE  Stepped(s)
<1> DEFINE r == run[s]
           E == Pool(s)
           q == IF r.stmt.clauses[r.level].op = "set" THEN r ELSE Incremented(r)
           to == EndedLevel(q)
<1>1. run' = [run EXCEPT ![s] = to]
  BY DEF end_cypher_clause
<1>2. r.phase = "ending" /\ UNCHANGED <<heap, committed, ids, started>>
  BY DEF end_cypher_clause, Ending
<1>3. Good(r, E)
  BY <1>2, ActiveRun
<1>4. Good(q, E) /\ Later(r, q)
  BY <1>3, Incrementing
<1> HIDE DEF q
<1>5. Good(to, E) /\ Later(r, to)
  BY <1>4, EndedGood DEF Later
<1> HIDE DEF to
<1> QED
  BY <1>1, <1>2, <1>5, GoodGrows, MovesOn DEF Reaching

\* Only an open version of the snapshot is locked for writing.
LEMMA LockedIsOpen ==
  ASSUME NEW s, NEW c, NEW v \in Visible(run[s], c), LockResult(run[s], v) = "Ok"
  PROVE  v \in heap /\ OpenTo(s, v)
<1>1. v.xmax = NoXid
  BY DEF LockResult
<1> QED
  BY <1>1 DEF Visible, Sees, OpenTo

\* A step that writes and moves the run on.
LEMMA WritesOn ==
  ASSUME TInv, NEW s \in Session, run[s].phase # "idle", NEW q,
         run' = [run EXCEPT ![s] = q], Later(run[s], q),
         Reaching(s) => Good(q, Pool(s)'),
         UNCHANGED <<committed, started>>,
         UNCHANGED <<heap, ids>> \/ Inserts(s) \/ Removes(s) \/ Replaces(s)
  PROVE  Stepped(s)
<1>1. run'[s] = q
  BY ActiveRun
<1> QED
  BY <1>1 DEF Stepped, Later

LEMMA ConnectedEdgesStep ==
  ASSUME TInv, NEW s \in Session, check_for_connected_edges(s)
  PROVE  Stepped(s) \/ Fail(s)
<1> DEFINE r == run[s]
           E == Pool(s)
           d == Deleted(r, 0)
           b == [r EXCEPT !.b = r.G]
           e == EndedLevel(b)
<1>1. r.phase = "ending" /\ UNCHANGED started
  BY DEF check_for_connected_edges, Ending
<1>2. r \in Runs(E) /\ Fits(r) /\ Good(r, E)
  BY <1>1, ActiveRun DEF Good
<1>3. \/ run' = [run EXCEPT ![s] = e] /\ UNCHANGED <<heap, committed, ids>>
      \/ \E v \in ConnectedEdges(r) :
            /\ LockResult(r, v) = "Ok" /\ heap' = Closed(r, v)
            /\ run' = [run EXCEPT ![s] = d] /\ UNCHANGED <<committed, ids>>
      \/ Fail(s)
  BY DEF check_for_connected_edges
<1>4. Good(d, E) /\ Later(r, d)
  BY <1>2, DeletedGood
<1>5. Good(e, E) /\ Later(r, e)
  <2> DEFINE g == r.G
  <2>1. g \in Int
    BY <1>2 DEF Runs
  <2>2. b = [r EXCEPT !.b = g]
    OBVIOUS
  <2> HIDE DEF g
  <2>3. b \in Runs(E)
    BY <1>2, <2>1, <2>2 DEF Runs
  <2>4. /\ Later(r, b) /\ b.rows = r.rows /\ b.todo = r.todo /\ b.stmt = r.stmt
        /\ b.created = r.created /\ b.inner = r.inner
    BY <1>2, <2>2 DEF Runs, Later
  <2> HIDE DEF b
  <2>5. Good(b, E)
    BY <1>2, <2>3, <2>4, FitsKept DEF Good
  <2> QED
    BY <2>4, <2>5, EndedGood DEF Later
<1> HIDE DEF d, e
<1>6. CASE run' = [run EXCEPT ![s] = e] /\ UNCHANGED <<heap, committed, ids>>
  BY <1>1, <1>5, <1>6, GoodGrows, MovesOn DEF Reaching
<1>7. ASSUME NEW v \in ConnectedEdges(r), LockResult(r, v) = "Ok", heap' = Closed(r, v),
             run' = [run EXCEPT ![s] = d], UNCHANGED <<committed, ids>>
      PROVE  Stepped(s)
  <2>1. v \in Visible(r, r.G)
    BY DEF ConnectedEdges
  <2>2. Removes(s)
    BY <1>7, <2>1, LockedIsOpen DEF Removes
  <2> QED
    BY <1>1, <1>4, <1>7, <2>2, GoodGrows, WritesOn DEF Reaching
<1> QED
  BY <1>3, <1>6, <1>7

LEMMA AtWork ==
  ASSUME TInv, NEW s \in Session, NEW op, At(s, op)
  PROVE  LET r == run[s]
             w == Head(r.todo)
             c == r.stmt.clauses[w.k]
         IN  /\ r.phase # "idle" /\ Good(r, Pool(s)) /\ r.todo # <<>> /\ Pool(s) \subseteq Entities
             /\ w \in Works(Pool(s)) /\ w.row \in Rows(Pool(s)) /\ w.j \in Nat
             /\ WorkFits(r.stmt, w) /\ Reaches(r.stmt, w.row, w.k)
             /\ r.stmt \in Statement /\ w.k \in 1 .. Len(r.stmt.clauses) /\ w.k \in Nat \ {0}
             /\ c \in Clause /\ c.op = op
<1> DEFINE r == run[s]
           w == Head(r.todo)
<1>1. r.phase # "idle" /\ r.todo # <<>> /\ r.stmt.clauses[w.k].op = op
  BY DEF At
<1>2. Good(r, Pool(s)) /\ Pool(s) \subseteq Entities
  BY <1>1, ActiveRun
<1>3. /\ w \in Works(Pool(s)) /\ WorkFits(r.stmt, w)
      /\ r.stmt \in Statement /\ w.k \in 1 .. Len(r.stmt.clauses)
      /\ w.row \in Rows(Pool(s)) /\ w.j \in Nat /\ r.stmt.clauses[w.k] \in Clause
  BY <1>1, <1>2, HeadGood
<1>4. w.k \in Nat \ {0}
  BY <1>3, ParsedStatement
<1> QED
  BY <1>1, <1>2, <1>3, <1>4 DEF WorkFits

LEMMA CreateStep ==
  ASSUME TInv, NEW s \in Session, exec_cypher_create(s)
  PROVE  Stepped(s) \/ Fail(s)
<1> DEFINE r    == run[s]
           E    == Pool(s)
           F    == Pool(s)'
           w    == Head(r.todo)
           c    == r.stmt.clauses[w.k]
           made == MadePaths(w.row, c.paths)
           u    == [r EXCEPT !.used = TRUE]
           to   == RowWritten(u, w.k, made.row)
<1>1. At(s, "create") /\ UNCHANGED started
  BY DEF exec_cypher_create
<1>2. SUFFICES ASSUME /\ heap' = heap \cup {Version(e, r.xid, r.G) : e \in made.made}
                      /\ ids' = made.last
                      /\ run' = [run EXCEPT ![s] = to]
                      /\ UNCHANGED committed
               PROVE  Stepped(s)
  BY DEF exec_cypher_create
<1>3. /\ r.phase # "idle" /\ Good(r, E) /\ r.todo # <<>> /\ E \subseteq Entities
      /\ w.row \in Rows(E) /\ Reaches(r.stmt, w.row, w.k)
      /\ r.stmt \in Statement /\ w.k \in 1 .. Len(r.stmt.clauses) /\ w.k \in Nat \ {0}
      /\ c \in Clause /\ c.op = "create" /\ r \in Runs(E) /\ Fits(r)
  BY <1>1, AtWork DEF Good
<1>4. c.paths \in Seq(Seq(Node)) /\ Earlier(c.paths) \subseteq DOMAIN w.row.ent
  <2>1. Earlier(c.paths) \subseteq Scope(r.stmt, w.k)
    BY <1>3, ParsedStatement
  <2> QED
    BY <1>3, <2>1, ClauseFields DEF Reaches
<1>5. ids \in Nat
  BY DEF TInv
<1> HIDE DEF made
<1>6. ASSUME NEW P, E \subseteq P, \A e \in Entities : e.id > ids => e \in P
      PROVE  MadeWell(made, w.row, c.paths, P)
  <2> DEFINE paths == c.paths
             row == w.row
  <2>1. /\ paths \in Seq(Seq(Node)) /\ row \in Rows(E) /\ Earlier(paths) \subseteq DOMAIN row.ent
        /\ made = MadePaths(row, paths)
    BY <1>3, <1>4 DEF made
  <2> HIDE DEF c, w, r, E, paths, row
  <2>2. MadeWell(made, row, paths, P)
    BY <1>3, <1>5, <1>6, <2>1, MadePathsGood
  <2> QED
    BY <2>2 DEF paths, row
<1>6a. NewNames(c) = NewIn(c.paths)
  <2>1. Nodes(c) = UNION {ToSet(path) : path \in ToSet(c.paths)}
    BY <1>3 DEF Nodes
  <2> QED
    BY <2>1 DEF NewNames, NewIn
<1>7. Inserts(s)
  <2>1. /\ made.last \in Nat /\ ids <= made.last
        /\ made.made \in SUBSET Entities /\ IsFiniteSet(made.made)
        /\ \A e \in made.made : e.id \in (ids + 1) .. made.last
        /\ \A e, f \in made.made : e.id = f.id => e = f
    BY <1>3, <1>6 DEF MadeWell
  <2>2. r.G \in Nat
    BY <1>3 DEF Runs
  <2> QED
    BY <1>2, <2>1, <2>2 DEF Inserts
<1>8. Reaching(s) => Good(to, F)
  <2> SUFFICES ASSUME Reaching(s) PROVE Good(to, F)
    OBVIOUS
  <2>1. E \subseteq F /\ \A e \in Entities : e.id > ids => e \in F
    BY DEF Reaching
  <2>2. made.row \in Rows(F) /\ DOMAIN made.row.ent = DOMAIN w.row.ent \cup NewNames(c)
    BY <1>6, <1>6a, <2>1 DEF MadeWell
  <2>3. Good(u, F) /\ u.todo # <<>> /\ u.stmt = r.stmt
    BY <1>3, <2>1, GoodGrows, UsedGood
  <2>4. Reaches(r.stmt, made.row, w.k + 1)
    BY <1>3, <2>2, NextScope DEF Reaches
  <2> HIDE DEF u, w, r, F
  <2> QED
    BY <1>3, <2>2, <2>3, <2>4, RowWrittenGood
<1>9. Later(r, to)
  <2>1. /\ Good(u, Entities) /\ Later(r, u) /\ u.todo # <<>> /\ u.stmt = r.stmt
    BY <1>3, GoodGrows, UsedGood
  <2>2. made.row \in Rows(Entities) /\ Reaches(r.stmt, made.row, w.k + 1)
    <3>1. made.row \in Rows(Entities) /\ DOMAIN made.row.ent = DOMAIN w.row.ent \cup NewNames(c)
      BY <1>3, <1>6, <1>6a DEF MadeWell
    <3> QED
      BY <1>3, <3>1, NextScope DEF Reaches
  <2> HIDE DEF u, w, r
  <2>3. Later(u, to)
    BY <1>3, <2>1, <2>2, RowWrittenGood
  <2> QED
    BY <2>1, <2>3 DEF Later
<1> HIDE DEF to
<1> QED
  BY <1>1, <1>2, <1>3, <1>7, <1>8, <1>9, WritesOn

\* Run r, of which said is all that was said.
WithSaid(r, said) == [r EXCEPT !.said = said]

LEMMA SaidGood ==
  ASSUME NEW E, NEW r, Good(r, E), NEW said \in SUBSET Items, NEW q, q = WithSaid(r, said)
  PROVE  /\ Good(q, E) /\ q.todo = r.todo /\ q.stmt = r.stmt
         /\ q.xid = r.xid /\ q.snap = r.snap /\ q.said = said
<1>1. r \in Runs(E) /\ Fits(r)
  BY DEF Good
<1>2. q \in Runs(E)
  BY <1>1 DEF Runs, WithSaid
<1>3. /\ q.rows = r.rows /\ q.todo = r.todo /\ q.stmt = r.stmt
      /\ q.created = r.created /\ q.inner = r.inner
      /\ q.xid = r.xid /\ q.snap = r.snap /\ q.said = said
  BY <1>1 DEF Runs, WithSaid
<1> QED
  BY <1>1, <1>2, <1>3, FitsKept DEF Good


LEMMA AlteredEntity ==
  ASSUME NEW e \in Entities, NEW item \in Item
  PROVE  /\ Altered(e, item) \in Entities /\ Altered(e, item).id = e.id
         /\ Altered(e, item) = [e EXCEPT !.prop[item.p] = item.v]
         /\ item.p \in Prop /\ item.v \in Values /\ item.var \in Name
<1>1. item.p \in Prop /\ item.v \in Values /\ item.var \in Name
  BY DEF Item, Values
<1> DEFINE prop == [e.prop EXCEPT ![item.p] = item.v]
<1>2. Altered(e, item) = [e EXCEPT !.prop = prop]
  BY DEF Altered, Entities
<1>3. e.prop \in [Prop -> Values]
  BY DEF Entities
<1>4. prop \in [Prop -> Values]
  BY <1>1, <1>3
<1>5. Altered(e, item) = [e EXCEPT !.prop[item.p] = item.v]
  BY DEF Altered
<1> HIDE DEF prop
<1>6. [e EXCEPT !.prop = prop] \in Entities /\ [e EXCEPT !.prop = prop].id = e.id
  BY <1>4 DEF Entities
<1> QED
  BY <1>1, <1>2, <1>5, <1>6

\* Where run q goes after item w of n items of SET, with row and what it said.
SetNext(q, w, n, row, said) ==
    LET t == [q EXCEPT !.said = said]
    IN  IF w.j < n THEN [t EXCEPT !.todo[1].j = w.j + 1, !.todo[1].row = row]
                   ELSE RowWritten(t, w.k, row)

SetGood(q, P, r, said) == Good(q, P) /\ q.xid = r.xid /\ q.snap = r.snap /\ q.said = said

LEMMA SetNextGood ==
  ASSUME NEW P, NEW q, Good(q, P), q.todo # <<>>, NEW w, w = Head(q.todo),
         NEW said \in SUBSET Items, NEW row \in Rows(P), DOMAIN row.ent = DOMAIN w.row.ent,
         q.stmt.clauses[w.k].op = "set", NEW n, n = Len(q.stmt.clauses[w.k].items)
  PROVE  SetGood(SetNext(q, w, n, row, said), P, q, said)
<1> DEFINE t == [q EXCEPT !.said = said]
           next == SetNext(q, w, n, row, said)
<1>0. t = WithSaid(q, said)
  BY DEF WithSaid
<1>0a. next = IF w.j < n THEN [t EXCEPT !.todo[1].j = w.j + 1, !.todo[1].row = row]
                        ELSE RowWritten(t, w.k, row)
  BY DEF SetNext
<1> HIDE DEF t, next
<1>1. /\ Good(t, P) /\ t.todo = q.todo /\ t.stmt = q.stmt
      /\ t.xid = q.xid /\ t.snap = q.snap /\ t.said = said
  BY <1>0, SaidGood
<1>2. /\ w \in Works(P) /\ WorkFits(q.stmt, w) /\ w.k \in 1 .. Len(q.stmt.clauses)
      /\ w = q.todo[1] /\ w.j \in Nat /\ q.stmt \in Statement /\ q.stmt.clauses[w.k] \in Clause
      /\ 1 \in 1 .. Len(q.todo) /\ q \in Runs(P) /\ q.todo \in Seq(Works(P))
  BY HeadGood DEF Good, Runs
<1>3. w.j \in 1 .. n /\ n \in Nat
  <2> DEFINE items == q.stmt.clauses[w.k].items
  <2>1. items \in Seq(Item) /\ n = Len(items)
    BY <1>2, ClauseFields
  <2> HIDE DEF items
  <2>2. n \in Nat
    BY <2>1
  <2>3. w.j \in 1 .. n
    BY <1>2 DEF WorkFits
  <2> QED
    BY <2>2, <2>3
<1>4. CASE w.j < n
  <2> DEFINE j == w.j + 1
             to == [t EXCEPT !.todo[1].j = j, !.todo[1].row = row]
             ww == [w EXCEPT !.j = j, !.row = row]
  <2>1. j \in Nat /\ j \in 1 .. n
    BY <1>3, <1>4, SMTT(30)
  <2>2. next = to
    BY <1>4, <1>0a
  <2>3. WorkFits(q.stmt, ww)
    <3>1. ww.k = w.k /\ ww.j = j /\ ww.row = row
      BY <1>2 DEF Works
    <3> HIDE DEF ww, j
    <3> QED
      BY <1>2, <2>1, <3>1 DEF WorkFits, Reaches
  <2> HIDE DEF j
  <2>4. Good(to, P) /\ Later(t, to)
    BY <1>1, <2>1, <2>3, ItemGood
  <2> HIDE DEF to
  <2>5. SetGood(next, P, q, said)
    BY <1>1, <2>2, <2>4 DEF Later, SetGood
  <2> QED
    BY <2>5 DEF next
<1>5. CASE ~(w.j < n)
  <2> DEFINE k == w.k
             to == RowWritten(t, k, row)
  <2>1. next = to
    BY <1>5, <1>0a
  <2>2. k \in Nat \ {0} /\ k \in 1 .. Len(q.stmt.clauses)
    BY <1>2, ParsedStatement
  <2>3. Reaches(q.stmt, row, k + 1)
    <3>0. NewNames(q.stmt.clauses[k]) = {}
      BY NoNewNames
    <3> HIDE DEF k
    <3>1. Scope(q.stmt, k + 1) = Scope(q.stmt, k) \cup NewNames(q.stmt.clauses[k])
      BY <2>2, NextScope
    <3>2. Scope(q.stmt, k + 1) = Scope(q.stmt, k)
      BY <3>0, <3>1
    <3> QED
      BY <1>2, <3>2 DEF Reaches, WorkFits, k
  <2> HIDE DEF k
  <2>4. Good(to, P) /\ Later(t, to)
    BY <1>1, <1>2, <2>2, <2>3, RowWrittenGood
  <2> HIDE DEF to
  <2>5. SetGood(next, P, q, said)
    BY <1>1, <2>1, <2>4 DEF Later, SetGood
  <2> QED
    BY <2>5 DEF next
<1> QED
  BY <1>4, <1>5

\* The row after an item of SET.
LEMMA AlteredRow ==
  ASSUME NEW P, NEW row \in Rows(P), NEW x \in DOMAIN row.ent, NEW to \in P
  PROVE  /\ [row EXCEPT !.ent[x] = to] \in Rows(P)
         /\ DOMAIN [row EXCEPT !.ent[x] = to].ent = DOMAIN row.ent
<1> DEFINE ent == [row.ent EXCEPT ![x] = to]
           there == [row EXCEPT !.ent = ent]
<1>1. row.ent \in [DOMAIN row.ent -> P] /\ DOMAIN row.ent \in SUBSET Name
  BY BindingsFields DEF Rows
<1>2. ent \in [DOMAIN row.ent -> P]
  BY <1>1
<1>3. ent \in Bindings(P) /\ DOMAIN ent = DOMAIN row.ent
  BY <1>1, <1>2, BindingsMade
<1>4. [row EXCEPT !.ent[x] = to] = there
  BY DEF Rows
<1> HIDE DEF ent
<1>5. there \in Rows(P) /\ there.ent = ent
  BY <1>3 DEF Rows
<1> QED
  BY <1>3, <1>4, <1>5


\* A step that writes, says more and moves the run on.
LEMMA SaysOn ==
  ASSUME TInv, NEW s \in Session, run[s].phase # "idle", NEW q,
         run' = [run EXCEPT ![s] = q], q.xid = run[s].xid, q.snap = run[s].snap,
         run[s].said \subseteq q.said,
         Reaching(s) => Good(q, Pool(s)'),
         UNCHANGED <<committed, started>>,
         UNCHANGED <<heap, ids>> \/ Inserts(s) \/ Removes(s) \/ Replaces(s)
  PROVE  Stepped(s)
<1>1. run'[s] = q
  BY ActiveRun
<1> QED
  BY <1>1 DEF Stepped

LEMMA SetStep ==
  ASSUME TInv, NEW s \in Session, process_update_list(s)
  PROVE  Stepped(s) \/ Fail(s)
<1> DEFINE r       == run[s]
           E       == Pool(s)
           F       == Pool(s)'
           w       == Head(r.todo)
           items   == r.stmt.clauses[w.k].items
           n       == Len(items)
           item    == items[w.j]
           ent     == w.row.ent
           e       == ent[item.var]
           to      == Altered(e, item)
           row     == IF e = Null THEN w.row ELSE [w.row EXCEPT !.ent[item.var] = to]
           nulls   == \E i \in DOMAIN items : w.row.ent[items[i].var] = Null
           m       == [at |-> r.at, id |-> e.id, n |-> w.row.n, k |-> w.k, j |-> w.j,
                       var |-> item.var, p |-> item.p, v |-> item.v, nulls |-> nulls]
           said    == IF e = Null THEN r.said ELSE r.said \cup {m}
           next(q) == SetNext(q, w, n, row, said)
           u       == [r EXCEPT !.used = TRUE]
           written == {v \in Visible(r, r.G) : v.id = e.id}
<1>1. At(s, "set") /\ UNCHANGED started
  BY DEF process_update_list
<1>2. \/ run' = [run EXCEPT ![s] = next(r)] /\ UNCHANGED <<heap, committed, ids>>
      \/ /\ e # Null
         /\ \E v \in written :
               \/ /\ LockResult(r, v) = "Ok" /\ heap' = Written(r, v, to)
                  /\ run' = [run EXCEPT ![s] = next(u)] /\ UNCHANGED <<committed, ids>>
               \/ /\ run' = [run EXCEPT ![s] = next(u)] /\ UNCHANGED <<heap, committed, ids>>
               \/ Fail(s)
  BY Zenon DEF process_update_list, SetNext
<1>3. /\ r.phase # "idle" /\ Good(r, E) /\ r.todo # <<>> /\ E \subseteq Entities
      /\ w \in Works(E) /\ w.row \in Rows(E) /\ Reaches(r.stmt, w.row, w.k)
      /\ r.stmt \in Statement /\ w.k \in 1 .. Len(r.stmt.clauses) /\ w.k \in Nat \ {0}
      /\ r.stmt.clauses[w.k] \in Clause /\ r.stmt.clauses[w.k].op = "set"
      /\ WorkFits(r.stmt, w) /\ r \in Runs(E) /\ w.j \in Nat /\ s \in DOMAIN run
  BY <1>1, AtWork, ActiveRun DEF Good
<1>4. /\ items \in Seq(Item) /\ w.j \in 1 .. Len(items)
      /\ {i.var : i \in ToSet(items)} \subseteq DOMAIN ent
  <2>1. items \in Seq(Item) /\ w.j \in 1 .. Len(items)
    BY <1>3, ClauseFields DEF WorkFits
  <2>2. {i.var : i \in ToSet(items)} \subseteq Scope(r.stmt, w.k)
    BY <1>3, ParsedStatement
  <2> HIDE DEF items
  <2> QED
    BY <1>3, <2>1, <2>2 DEF Reaches
<1>5. item \in Item /\ item.var \in DOMAIN ent /\ ent \in [DOMAIN ent -> E] /\ e \in E
  <2> HIDE DEF items, ent
  <2> DEFINE j == w.j
  <2>1. items \in Seq(Item) /\ j \in 1 .. Len(items)
    BY <1>4
  <2> HIDE DEF w, j
  <2>2. items[j] \in Item /\ items[j] \in ToSet(items)
    BY <2>1 DEF ToSet
  <2>3. ent \in [DOMAIN ent -> E]
    BY <1>3, BindingsFields DEF Rows, ent
  <2>4. item \in Item /\ item \in ToSet(items)
    BY <2>2 DEF j
  <2> HIDE DEF item
  <2>5. item.var \in DOMAIN ent
    BY <1>4, <2>4
  <2> QED
    BY <2>3, <2>4, <2>5
<1> HIDE DEF item, ent
<1>6. /\ to \in Entities /\ to.id = e.id /\ to = [e EXCEPT !.prop[item.p] = item.v]
      /\ item.p \in Prop /\ item.v \in Values /\ item.var \in Name /\ e \in Entities
  <2> HIDE DEF e
  <2> QED
    BY <1>3, <1>5, AlteredEntity
<1>7. /\ said \in SUBSET Items
      /\ r.said \subseteq said
      /\ (e # Null => \E o \in said : o.id = e.id /\ o.p = item.p)
  <2>1. nulls \in BOOLEAN
    BY Zenon
  <2> HIDE DEF nulls
  <2>2. r.said \in SUBSET Items /\ r.at \in Nat /\ w.row.n \in Nat /\ e.id \in Nat
    BY <1>3, <1>6 DEF Runs, Rows, Entities
  <2> HIDE DEF e
  <2>3. m \in Items /\ m.id = e.id /\ m.p = item.p
    BY <1>3, <1>6, <2>1, <2>2 DEF Items
  <2> HIDE DEF m
  <2> QED
    BY <2>2, <2>3
<1> HIDE DEF said, to, items, n
\* What follows holds of every pool that has the altered entity.
<1>8. ASSUME NEW P, E \subseteq P, e = Null \/ to \in P, NEW q, Good(q, P), Later(r, q),
             q.todo = r.todo, q.stmt = r.stmt
      PROVE  SetGood(next(q), P, r, said)
  <2>1. row \in Rows(P) /\ DOMAIN row.ent = DOMAIN w.row.ent
    <3>1. w.row \in Rows(P)
      BY <1>3, <1>8, RowsGrow
    <3>2. CASE e = Null
      BY <3>1, <3>2
    <3>3. CASE e # Null
      <4> DEFINE x == item.var
                 old == w.row
                 there == [old EXCEPT !.ent[x] = to]
      <4>1. row = there /\ old \in Rows(P) /\ to \in P /\ x \in DOMAIN old.ent
        BY <1>5, <1>8, <3>1, <3>3 DEF ent
      <4> HIDE DEF x, row, old
      <4>2. there \in Rows(P) /\ DOMAIN there.ent = DOMAIN old.ent
        BY <4>1, AlteredRow
      <4> QED
        BY <4>1, <4>2 DEF old
    <3> QED
      BY <3>2, <3>3
  <2>2. /\ w = Head(q.todo) /\ q.todo # <<>> /\ q.stmt.clauses[w.k].op = "set"
        /\ n = Len(q.stmt.clauses[w.k].items)
    BY <1>3, <1>8 DEF n, items
  <2>3. q.xid = r.xid /\ q.snap = r.snap
    BY <1>8 DEF Later
  <2> HIDE DEF row, w, r
  <2>4. SetGood(SetNext(q, w, n, row, said), P, q, said)
    BY <1>7, <1>8, <2>1, <2>2, SetNextGood
  <2> QED
    BY <2>3, <2>4 DEF SetGood
<1>9. ASSUME NEW P, E \subseteq P, NEW q \in {r, u}
      PROVE  Good(q, P) /\ Later(r, q) /\ q.todo = r.todo /\ q.stmt = r.stmt
  <2>1. Good(r, P)
    BY <1>3, <1>9, GoodGrows
  <2>2. Good(u, P) /\ Later(r, u) /\ u.todo = r.todo /\ u.stmt = r.stmt
    BY <2>1, UsedGood
  <2>3. Later(r, r)
    BY DEF Later
  <2> HIDE DEF u, r
  <2> QED
    BY <1>9, <2>1, <2>2, <2>3
<1> HIDE DEF next, u, row, w
<1>10. ASSUME NEW q \in {r, u}, run' = [run EXCEPT ![s] = next(q)]
       PROVE  /\ SetGood(next(q), Entities, r, said)
              /\ Reaching(s) => (e = Null \/ to \in F) /\ Good(next(q), F)
  <2> HIDE DEF r, E, F, e
  <2>1. SetGood(next(q), Entities, r, said)
    BY <1>3, <1>6, <1>8, <1>9
  <2>2. next(q).said = said
    BY <2>1 DEF SetGood
  <2>3. ASSUME Reaching(s), e # Null PROVE to \in F
    <3>1. run'[s] = next(q)
      BY <1>3, <1>10
    <3>2. SaidOf(run'[s], e.id, item.p)
      BY <1>7, <2>2, <2>3, <3>1 DEF SaidOf
    <3> QED
      BY <1>5, <1>6, <2>3, <3>2 DEF Reaching, E, F
  <2>4. ASSUME Reaching(s) PROVE (e = Null \/ to \in F) /\ Good(next(q), F)
    <3>1. E \subseteq F
      BY <2>4 DEF Reaching, E, F
    <3>2. e = Null \/ to \in F
      BY <2>3, <2>4
    <3>3. SetGood(next(q), F, r, said)
      BY <1>8, <1>9, <3>1, <3>2
    <3> QED
      BY <3>2, <3>3 DEF SetGood
  <2> QED
    BY <2>1, <2>4
<1>11. ASSUME NEW q \in {r, u}, run' = [run EXCEPT ![s] = next(q)], UNCHANGED committed,
              UNCHANGED <<heap, ids>> \/ Inserts(s) \/ Removes(s) \/ Replaces(s)
       PROVE  Stepped(s)
  <2> DEFINE t == next(q)
  <2>1. /\ t.xid = r.xid /\ t.snap = r.snap /\ r.said \subseteq t.said
        /\ Reaching(s) => Good(t, F)
        /\ run' = [run EXCEPT ![s] = t]
    <3> HIDE DEF r, e, F
    <3> QED
      BY <1>7, <1>10, <1>11 DEF SetGood
  <2> HIDE DEF t
  <2> QED
    BY <1>1, <1>3, <1>11, <2>1, SaysOn
<1>12. ASSUME NEW v \in written, LockResult(r, v) = "Ok", heap' = Written(r, v, to), e # Null,
              run' = [run EXCEPT ![s] = next(u)], UNCHANGED <<committed, ids>>
       PROVE  Replaces(s)
  <2>1. v \in heap /\ OpenTo(s, v) /\ v.id = e.id
    BY <1>12, LockedIsOpen
  <2>2. Reaching(s) => to \in F
    <3> HIDE DEF r, e, F, written
    <3> QED
      BY <1>10, <1>12
  <2> HIDE DEF e, written
  <2> QED
    BY <1>6, <1>12, <2>1, <2>2 DEF Replaces
<1> HIDE DEF written, e
<1> QED
  BY <1>2, <1>11, <1>12


\* Run q has the work of r still to do.
SameWork(r, q, E) == Good(q, E) /\ Later(r, q) /\ q.todo = r.todo /\ q.stmt = r.stmt

LEMMA CurcidGood ==
  ASSUME NEW E, NEW r, Good(r, E), NEW b \in Int, NEW q, q = [r EXCEPT !.b = b]
  PROVE  SameWork(r, q, E)
<1>1. r \in Runs(E) /\ Fits(r)
  BY DEF Good
<1>2. q \in Runs(E)
  BY <1>1 DEF Runs
<1>3. /\ Later(r, q) /\ q.rows = r.rows /\ q.todo = r.todo /\ q.stmt = r.stmt
      /\ q.created = r.created /\ q.inner = r.inner
  BY <1>1 DEF Runs, Later
<1> QED
  BY <1>1, <1>2, <1>3, FitsKept DEF Good, SameWork

LEMMA ListedGood ==
  ASSUME NEW E, NEW r, Good(r, E), NEW k \in Nat, NEW id \in Nat,
         NEW l, l = [r EXCEPT !.deleted[k] = @ \cup {id}]
  PROVE  SameWork(r, l, E)
<1> DEFINE d == [r.deleted EXCEPT ![k] = @ \cup {id}]
<1>1. r \in Runs(E) /\ Fits(r)
  BY DEF Good
<1>4. l = [r EXCEPT !.deleted[k] = @ \cup {id}]
  OBVIOUS
<1>4a. l = [r EXCEPT !.deleted = d]
  BY <1>4
<1>5. d \in Seq(SUBSET Nat)
  <2> DEFINE old == r.deleted
  <2>1. old \in Seq(SUBSET Nat)
    BY <1>1 DEF Runs
  <2> HIDE DEF old
  <2>2. d = [old EXCEPT ![k] = @ \cup {id}]
    BY DEF old
  <2>3. CASE k \in 1 .. Len(old)
    <3> DEFINE new == old[k] \cup {id}
    <3>1. new \in SUBSET Nat
      BY <2>1, <2>3
    <3>2. d = [old EXCEPT ![k] = new]
      BY <2>2
    <3> HIDE DEF new, d
    <3> QED
      BY <2>1, <2>3, <3>1, <3>2, ExceptSeq
  <2>4. CASE k \notin 1 .. Len(old)
    <3>1. DOMAIN old = 1 .. Len(old)
      BY <2>1
    <3>2. d = old
      BY <2>1, <2>2, <2>4, <3>1
    <3> QED
      BY <2>1, <3>2
  <2> QED
    BY <2>3, <2>4
<1> HIDE DEF d
<1>6. l \in Runs(E)
  BY <1>1, <1>4a, <1>5 DEF Runs
<1>7. /\ Later(r, l) /\ l.rows = r.rows /\ l.todo = r.todo /\ l.stmt = r.stmt
      /\ l.created = r.created /\ l.inner = r.inner
  BY <1>1, <1>4a DEF Runs, Later
<1> QED
  BY <1>1, <1>6, <1>7, FitsKept DEF Good, SameWork

LEMMA GoneGood ==
  ASSUME NEW E, NEW r, Good(r, E), NEW k \in Int
  PROVE  SameWork(r, Deleted(r, k), E)
BY DeletedGood DEF SameWork

LEMMA WorkStays ==
  ASSUME NEW E, NEW p, NEW q, NEW r, SameWork(p, q, E), SameWork(q, r, E)
  PROVE  SameWork(p, r, E)
BY DEF SameWork, Later

\* Where run q goes after item w of n items of DELETE.
DeleteNext(q, w, n) ==
    IF w.j < n THEN [q EXCEPT !.todo[1].j = w.j + 1] ELSE Passed(q, w.k, <<w.row>>)

LEMMA NextItemGood ==
  ASSUME NEW P, NEW r, Good(r, P), r.todo # <<>>, NEW w, w = Head(r.todo), NEW j \in Nat,
         WorkFits(r.stmt, [w EXCEPT !.j = j]), NEW q, q = [r EXCEPT !.todo[1].j = j]
  PROVE  Good(q, P) /\ Later(r, q)
<1> DEFINE ww == [w EXCEPT !.j = j]
           t == [r.todo EXCEPT ![1] = ww]
           to == [r EXCEPT !.todo = t]
<1>1. /\ w = r.todo[1] /\ w \in Works(P) /\ r.todo \in Seq(Works(P))
      /\ Len(r.todo) \in Nat /\ 1 \in 1 .. Len(r.todo) /\ r \in Runs(P)
  BY HeadGood DEF Good, Runs
<1>2. ww \in Works(P) /\ WorkFits(r.stmt, ww)
  BY <1>1 DEF Works
<1>3. q = to
  BY <1>1 DEF Runs
<1> HIDE DEF ww
<1>5. t \in Seq(Works(P)) /\ Len(t) = Len(r.todo)
      /\ \A i \in 1 .. Len(r.todo) : t[i] = IF i = 1 THEN ww ELSE r.todo[i]
  BY <1>1, <1>2, ExceptSeq
<1> HIDE DEF t
<1>6. \A i \in 1 .. Len(t) : WorkFits(r.stmt, t[i])
  BY <1>2, <1>5 DEF Good, Fits
<1>7. Good(to, P) /\ Later(r, to)
  BY <1>5, <1>6, TodoReplaced
<1> HIDE DEF to
<1> QED
  BY <1>3, <1>7

LEMMA NextIn ==
  ASSUME NEW n \in Nat, NEW i \in 1 .. n, i < n
  PROVE  i + 1 \in Nat /\ i + 1 \in 1 .. n
OBVIOUS

LEMMA DeleteNextGood ==
  ASSUME NEW P, NEW q, Good(q, P), q.todo # <<>>, NEW w, w = Head(q.todo),
         q.stmt.clauses[w.k].op = "delete", NEW n, n = Len(q.stmt.clauses[w.k].names)
  PROVE  Good(DeleteNext(q, w, n), P) /\ Later(q, DeleteNext(q, w, n))
<1>2. /\ w \in Works(P) /\ WorkFits(q.stmt, w) /\ w.k \in 1 .. Len(q.stmt.clauses)
      /\ w = q.todo[1] /\ w.j \in Nat /\ q.stmt \in Statement /\ q.stmt.clauses[w.k] \in Clause
      /\ 1 \in 1 .. Len(q.todo) /\ q \in Runs(P) /\ q.todo \in Seq(Works(P)) /\ w.row \in Rows(P)
  BY HeadGood DEF Good, Runs
<1>3. w.j \in 1 .. n /\ n \in Nat
  <2> DEFINE names == q.stmt.clauses[w.k].names
  <2>1. names \in Seq(Name) /\ n = Len(names)
    BY <1>2, ClauseFields
  <2> HIDE DEF names
  <2>2. n \in Nat
    BY <2>1
  <2>3. w.j \in 1 .. n
    BY <1>2 DEF WorkFits
  <2> QED
    BY <2>2, <2>3
<1>4. CASE w.j < n
  <2> DEFINE i == w.j
             j == i + 1
             to == [q EXCEPT !.todo[1].j = j]
             ww == [w EXCEPT !.j = j]
  <2>1. i \in 1 .. n /\ n \in Nat /\ i < n
    BY <1>3, <1>4
  <2>2. DeleteNext(q, w, n) = to
    BY <1>4 DEF DeleteNext
  <2> HIDE DEF i
  <2>3. j \in Nat /\ j \in 1 .. n
    BY <2>1, NextIn
  <2> HIDE DEF j
  <2>4. WorkFits(q.stmt, ww)
    <3>1. ww.k = w.k /\ ww.j = j /\ ww.row = w.row
      BY <1>2 DEF Works
    <3> HIDE DEF ww
    <3> QED
      BY <1>2, <2>3, <3>1 DEF WorkFits, Reaches
  <2>5. Good(to, P) /\ Later(q, to)
    BY <2>3, <2>4, NextItemGood
  <2> HIDE DEF to
  <2> QED
    BY <2>2, <2>5
<1>5. CASE ~(w.j < n)
  <2> DEFINE k == w.k
             rows == <<w.row>>
             to == Passed(q, k, rows)
  <2>1. DeleteNext(q, w, n) = to
    BY <1>5 DEF DeleteNext
  <2>2. k \in Nat \ {0} /\ k \in 1 .. Len(q.stmt.clauses)
    BY <1>2, ParsedStatement
  <2>3. Reaches(q.stmt, w.row, k + 1)
    <3>0. NewNames(q.stmt.clauses[k]) = {}
      BY NoNewNames
    <3> HIDE DEF k
    <3>1. Scope(q.stmt, k + 1) = Scope(q.stmt, k) \cup NewNames(q.stmt.clauses[k])
      BY <2>2, NextScope
    <3>2. Scope(q.stmt, k + 1) = Scope(q.stmt, k)
      BY <3>0, <3>1
    <3> QED
      BY <1>2, <3>2 DEF Reaches, WorkFits, k
  <2>4. rows \in Seq(Rows(P)) /\ \A i \in 1 .. Len(rows) : Reaches(q.stmt, rows[i], k + 1)
    BY <1>2, <2>3
  <2> HIDE DEF k, rows
  <2>5. Good(to, P) /\ Later(q, to)
    BY <2>2, <2>4, PassedGood
  <2> QED
    BY <2>1, <2>5
<1> QED
  BY <1>4, <1>5

LEMMA DeleteStep ==
  ASSUME TInv, NEW s \in Session, process_delete_list(s)
  PROVE  Stepped(s) \/ Fail(s)
<1> DEFINE r       == run[s]
           E       == Pool(s)
           w       == Head(r.todo)
           names   == r.stmt.clauses[w.k].names
           n       == Len(names)
           ent     == w.row.ent
           e       == ent[names[w.j]]
           q       == [r EXCEPT !.b = r.G - w.k]
           listed  == IF e.ends = <<>> THEN [q EXCEPT !.deleted[w.k] = @ \cup {e.id}] ELSE q
           gone    == Deleted(listed, w.k)
           there   == {v \in Visible(r, r.G) : v.id = e.id}
<1>1. At(s, "delete") /\ UNCHANGED started
  BY Zenon DEF process_delete_list
<1>2. \/ /\ run' = [run EXCEPT ![s] = DeleteNext(IF e = Null THEN r ELSE IF there = {} THEN q ELSE listed, w, n)]
         /\ UNCHANGED <<heap, committed, ids>>
      \/ \E v \in there :
            \/ /\ LockResult(r, v) = "Ok" /\ heap' = Closed(r, v)
               /\ run' = [run EXCEPT ![s] = DeleteNext(gone, w, n)] /\ UNCHANGED <<committed, ids>>
            \/ Fail(s)
  BY Zenon DEF process_delete_list, DeleteNext
<1>3. /\ r.phase # "idle" /\ Good(r, E) /\ r.todo # <<>> /\ E \subseteq Entities
      /\ w \in Works(E) /\ w.row \in Rows(E) /\ Reaches(r.stmt, w.row, w.k)
      /\ r.stmt \in Statement /\ w.k \in 1 .. Len(r.stmt.clauses) /\ w.k \in Nat \ {0}
      /\ r.stmt.clauses[w.k] \in Clause /\ r.stmt.clauses[w.k].op = "delete"
      /\ WorkFits(r.stmt, w) /\ r \in Runs(E) /\ w.j \in Nat /\ s \in DOMAIN run
  BY <1>1, AtWork, ActiveRun DEF Good
<1>4. /\ names \in Seq(Name) /\ w.j \in 1 .. Len(names)
      /\ ToSet(names) \subseteq DOMAIN ent
  <2>1. names \in Seq(Name) /\ w.j \in 1 .. Len(names)
    BY <1>3, ClauseFields DEF WorkFits
  <2>2. ToSet(names) \subseteq Scope(r.stmt, w.k)
    BY <1>3, ParsedStatement
  <2> HIDE DEF names
  <2> QED
    BY <1>3, <2>1, <2>2 DEF Reaches
<1>5. e.id \in Nat
  <2> HIDE DEF names, ent
  <2> DEFINE j == w.j
             x == names[j]
  <2>1. names \in Seq(Name) /\ j \in 1 .. Len(names)
    BY <1>4
  <2> HIDE DEF w, j
  <2>2. x \in ToSet(names)
    BY <2>1 DEF ToSet
  <2>3. ent \in [DOMAIN ent -> E]
    BY <1>3, BindingsFields DEF Rows, ent
  <2> HIDE DEF x
  <2>4. ent[x] \in Entities
    BY <1>3, <1>4, <2>2, <2>3
  <2>5. ent[x].id \in Nat
    BY <2>4 DEF Entities
  <2> QED
    BY <2>5 DEF x, j
<1>6. \A p \in {r, q, listed, gone} : SameWork(r, p, E)
  <2> DEFINE b == r.G - w.k
             k == w.k
             id == e.id
             more == [q EXCEPT !.deleted[k] = @ \cup {id}]
  <2>1. b \in Int /\ k \in Nat /\ id \in Nat
    <3>1. r.G \in Nat
      BY <1>3 DEF Runs
    <3> HIDE DEF r, w, e
    <3> QED
      BY <1>3, <1>5, <3>1
  <2> HIDE DEF r, w, e, E
  <2>2. q = [r EXCEPT !.b = b] /\ (listed = q \/ listed = more) /\ gone = Deleted(listed, k)
    OBVIOUS
  <2> HIDE DEF b, id, q, listed, gone, k
  <2>3. SameWork(r, q, E)
    BY <1>3, <2>1, <2>2, CurcidGood
  <2>4. SameWork(q, more, E)
    <3>1. Good(q, E)
      BY <2>3 DEF SameWork
    <3> QED
      BY <2>1, <3>1, ListedGood
  <2> HIDE DEF more
  <2>5. SameWork(r, listed, E)
    BY <2>2, <2>3, <2>4, WorkStays
  <2>6. SameWork(r, gone, E)
    <3>1. Good(listed, E) /\ k \in Int
      BY <2>1, <2>5 DEF SameWork
    <3>2. SameWork(listed, gone, E)
      BY <2>2, <3>1, GoneGood
    <3> QED
      BY <2>5, <3>2, WorkStays
  <2>7. SameWork(r, r, E)
    BY <1>3 DEF SameWork, Later
  <2> QED
    BY <2>3, <2>5, <2>6, <2>7
<1> HIDE DEF q, listed, gone
<1>7. ASSUME NEW p \in {r, q, listed, gone}, run' = [run EXCEPT ![s] = DeleteNext(p, w, n)],
             UNCHANGED committed, UNCHANGED <<heap, ids>> \/ Removes(s)
      PROVE  Stepped(s)
  <2> DEFINE to == DeleteNext(p, w, n)
  <2>1. /\ w = Head(p.todo) /\ p.todo # <<>> /\ p.stmt.clauses[w.k].op = "delete"
        /\ n = Len(p.stmt.clauses[w.k].names) /\ Good(p, E) /\ Later(r, p)
    BY <1>3, <1>6 DEF SameWork
  <2> HIDE DEF w, n, r, E, names, ent, e, there
  <2>2. Good(to, E) /\ Later(p, to)
    BY <2>1, DeleteNextGood
  <2> HIDE DEF to
  <2>3. Good(to, E) /\ Later(r, to)
    BY <2>1, <2>2 DEF Later
  <2>3a. run' = [run EXCEPT ![s] = to]
    BY <1>7 DEF to
  <2>4. Reaching(s) => Good(to, Pool(s)')
    BY <2>3, GoodGrows DEF Reaching, E
  <2> QED
    BY <1>1, <1>3, <1>7, <2>3, <2>3a, <2>4, WritesOn DEF r
<1>8. ASSUME NEW v \in there, LockResult(r, v) = "Ok", heap' = Closed(r, v), UNCHANGED ids
      PROVE  Removes(s)
  <2> HIDE DEF e
  <2>1. v \in Visible(r, r.G)
    OBVIOUS
  <2> HIDE DEF there
  <2>2. v \in heap /\ OpenTo(s, v)
    BY <1>8, <2>1, LockedIsOpen
  <2> HIDE DEF r
  <2> QED
    BY <1>8, <2>2 DEF Removes, r
<1> HIDE DEF w, n, there, e
<1> QED
  BY <1>2, <1>7, <1>8


-----------------------------------------------------------------------------
(* MERGE *)

\* A clause keeps the view it matches against.
LEMMA InnerGood ==
  ASSUME NEW E, NEW r, Good(r, E), NEW k \in Nat, NEW view \in Views(E),
         NEW q, q = [r EXCEPT !.inner[k] = <<view>>]
  PROVE  SameWork(r, q, E)
<1> DEFINE old == r.inner
           one == <<view>>
           d == [old EXCEPT ![k] = one]
<1>1. r \in Runs(E) /\ Fits(r)
  BY DEF Good
<1>2. old \in Seq(Seq(Views(E)))
  BY <1>1 DEF Runs
<1>3. one \in Seq(Views(E))
  OBVIOUS
<1>4. q = [r EXCEPT !.inner = d]
  OBVIOUS
<1> HIDE DEF old, one
<1>5. d \in Seq(Seq(Views(E))) /\ Len(d) = Len(old)
  <2>1. CASE k \in 1 .. Len(old)
    BY <1>2, <1>3, <2>1, ExceptSeq
  <2>2. CASE k \notin 1 .. Len(old)
    <3>1. DOMAIN old = 1 .. Len(old)
      BY <1>2
    <3>2. d = old
      BY <1>2, <2>2, <3>1
    <3> HIDE DEF d
    <3> QED
      BY <1>2, <3>2
  <2> QED
    BY <2>1, <2>2
<1> HIDE DEF d
<1>6. q \in Runs(E)
  BY <1>1, <1>4, <1>5 DEF Runs
<1>7. /\ Later(r, q) /\ q.rows = r.rows /\ q.todo = r.todo /\ q.stmt = r.stmt
      /\ q.created = r.created /\ q.inner = d
  BY <1>1, <1>4 DEF Runs, Later
<1>8. Fits(q)
  <2>1. Len(q.inner) = Len(r.inner)
    BY <1>5, <1>7 DEF old
  <2> QED
    BY <1>1, <1>7, <2>1 DEF Fits
<1> QED
  BY <1>6, <1>7, <1>8 DEF Good, SameWork

LEMMA InsertedGood ==
  ASSUME NEW E, NEW r, Good(r, E)
  PROVE  SameWork(r, Inserted(r), E)
<1> DEFINE u == [r EXCEPT !.used = TRUE]
<1>1. Good(u, E) /\ Later(r, u) /\ u.todo = r.todo /\ u.stmt = r.stmt
  BY UsedGood
<1>2. Inserted(r) = Incremented(u) \/ Inserted(r) = r
  BY DEF Inserted
<1> HIDE DEF u
<1>3. SameWork(r, u, E) /\ SameWork(r, r, E)
  BY <1>1 DEF SameWork, Later
<1>4. SameWork(u, Incremented(u), E)
  BY <1>1, IncrementedGood DEF SameWork
<1> QED
  BY <1>2, <1>3, <1>4, WorkStays

\* A clause remembers a path it made.
LEMMA CreatedGood ==
  ASSUME NEW E, NEW r, Good(r, E), NEW k \in 1 .. Len(r.stmt.clauses), NEW m \in Merged(E),
         Len(m.vs) = Len(r.stmt.clauses[k].path), NEW q, q = [r EXCEPT !.created[k] = @ \cup {m}]
  PROVE  SameWork(r, q, E)
<1> DEFINE old == r.created
           new == old[k] \cup {m}
           d == [old EXCEPT ![k] = new]
<1>1. r \in Runs(E) /\ Fits(r)
  BY DEF Good
<1>2. old \in Seq(SUBSET Merged(E)) /\ Len(old) = Len(r.stmt.clauses) /\ k \in 1 .. Len(old)
  BY <1>1 DEF Runs, Fits
<1>3. q = [r EXCEPT !.created = d]
  OBVIOUS
<1>4. new \in SUBSET Merged(E)
  <2> HIDE DEF old
  <2>1. old[k] \in SUBSET Merged(E)
    BY <1>2
  <2> QED
    BY <2>1
<1>5. \A i \in 1 .. Len(old) : r.stmt.clauses[i].op = "merge" =>
         \A x \in old[i] : Len(x.vs) = Len(r.stmt.clauses[i].path)
  BY <1>1 DEF Fits
<1>6. \A x \in new : x = m \/ x \in old[k]
  OBVIOUS
<1> HIDE DEF old, new
<1>7. /\ d \in Seq(SUBSET Merged(E)) /\ Len(d) = Len(old)
      /\ \A i \in 1 .. Len(old) : d[i] = IF i = k THEN new ELSE old[i]
  BY <1>2, <1>4, ExceptSeq
<1> HIDE DEF d
<1>8. \A i \in 1 .. Len(d) : r.stmt.clauses[i].op = "merge" =>
         \A x \in d[i] : Len(x.vs) = Len(r.stmt.clauses[i].path)
  BY <1>2, <1>5, <1>6, <1>7
<1>9. q \in Runs(E)
  BY <1>1, <1>3, <1>7 DEF Runs
<1>10. /\ Later(r, q) /\ q.rows = r.rows /\ q.todo = r.todo /\ q.stmt = r.stmt
       /\ q.created = d /\ q.inner = r.inner
  BY <1>1, <1>3 DEF Runs, Later
<1>11. Fits(q)
  <2>1. Len(q.created) = Len(q.stmt.clauses)
    BY <1>2, <1>7, <1>10
  <2> QED
    BY <1>1, <1>8, <1>10, <2>1 DEF Fits
<1> QED
  BY <1>9, <1>10, <1>11 DEF Good, SameWork

LEMMA ViewFinite ==
  ASSUME IsFiniteSet(heap), NEW r, NEW c
  PROVE  IsFiniteSet(View(r, c))
<1> DEFINE S == Visible(r, c)
           T == View(r, c)
           f == [v \in S |-> Entity(v)]
<1>1. IsFiniteSet(S)
  BY FS_Subset DEF Visible
<1>2. T = {Entity(v) : v \in S}
  BY DEF View
<1> HIDE DEF S, T
<1>3. f \in Surjection(S, T)
  BY <1>2 DEF Surjection
<1> HIDE DEF f
<1>4. IsFiniteSet(T)
  BY <1>1, <1>3, FS_Surjection
<1> QED
  BY <1>4 DEF T

\* The names of a path of MERGE.
LEMMA MergeNames ==
  ASSUME NEW c, c.op = "merge", NEW path, path = c.path
  PROVE  /\ NewNames(c) = {x.var : x \in {y \in ToSet(path) : y.new}}
         /\ Nodes(c) = ToSet(path)
         /\ NewIn(<<path>>) = NewNames(c)
         /\ Earlier(<<path>>) \subseteq {x.var : x \in {y \in ToSet(path) : ~y.new}}
<1>1. Nodes(c) = ToSet(path)
  BY DEF Nodes
<1>2. UNION {ToSet(p) : p \in ToSet(<<path>>)} = ToSet(path)
  <2>1. ToSet(<<path>>) = {path}
    BY DEF ToSet
  <2> QED
    BY <2>1
<1>3. NewIn(<<path>>) = NewNames(c)
  BY <1>1, <1>2 DEF NewIn, NewNames
<1>4. Earlier(<<path>>) \subseteq {x.var : x \in {y \in ToSet(path) : ~y.new}}
  BY <1>2 DEF Earlier
<1> QED
  BY <1>1, <1>3, <1>4 DEF NewNames


\* What session s sees may be copied into its rows.
Sighted(s) == \A c \in Int : View(run[s], c) \subseteq Pool(s)

\* The rows that go up from a clause.
LEMMA PassesOn ==
  ASSUME NEW E, NEW r, Good(r, E), r.todo # <<>>, NEW q, SameWork(r, q, E),
         NEW k \in Nat \ {0}, k \in 1 .. Len(r.stmt.clauses), NEW rows \in Seq(Rows(E)), NEW ent,
         Scope(r.stmt, k) \subseteq DOMAIN ent,
         \A i \in 1 .. Len(rows) : DOMAIN rows[i].ent = DOMAIN ent \cup NewNames(r.stmt.clauses[k])
  PROVE  Good(Passed(q, k, rows), E) /\ Later(r, Passed(q, k, rows))
<1>1. Good(q, E) /\ Later(r, q) /\ q.todo # <<>> /\ q.stmt = r.stmt
  BY DEF SameWork
<1>2. Scope(r.stmt, k + 1) = Scope(r.stmt, k) \cup NewNames(r.stmt.clauses[k])
  BY NextScope
<1>3. \A i \in 1 .. Len(rows) : Reaches(q.stmt, rows[i], k + 1)
  BY <1>1, <1>2 DEF Reaches
<1>4. Good(Passed(q, k, rows), E) /\ Later(q, Passed(q, k, rows))
  BY <1>1, <1>3, PassedGood
<1> QED
  BY <1>1, <1>4 DEF Later

\* The view that MERGE matches its pattern against.
LEMMA MergeView ==
  ASSUME TInv, NEW s \in Session, Sighted(s), NEW r, r = run[s], Good(r, Pool(s)),
         NEW k \in 1 .. Len(r.stmt.clauses), NEW view,
         view = IF r.inner[k] # <<>> THEN r.inner[k][1] ELSE View(r, r.b + k - 1)
  PROVE  view \in Views(Pool(s))
<1> DEFINE E == Pool(s)
           inner == r.inner[k]
<1>1. r \in Runs(E) /\ Fits(r) /\ r.stmt \in Statement
  BY DEF Good, Runs
<1>2. k \in Int /\ r.b \in Int
  BY <1>1, ParsedStatement DEF Runs
<1>3. CASE inner # <<>>
  <2>1. r.inner \in Seq(Seq(Views(E))) /\ k \in 1 .. Len(r.inner)
    BY <1>1 DEF Runs, Fits
  <2>2. inner \in Seq(Views(E))
    BY <2>1
  <2>3. view = inner[1]
    BY <1>3
  <2> HIDE DEF inner, E
  <2>4. 1 \in 1 .. Len(inner)
    BY <1>3, <2>2, EmptySeq
  <2>5. inner[1] \in Views(E)
    BY <2>2, <2>4
  <2> QED
    BY <2>3, <2>5 DEF E
<1>4. CASE inner = <<>>
  <2> DEFINE c == r.b + k - 1
  <2>1. view = View(r, c)
    BY <1>4
  <2>2. c \in Int
    BY <1>2
  <2> HIDE DEF c
  <2>3. View(r, c) \subseteq E
    BY <2>2 DEF Sighted
  <2>4. IsFiniteSet(View(r, c))
    BY ViewFinite DEF TInv
  <2> QED
    BY <2>1, <2>3, <2>4 DEF Views
<1> QED
  BY <1>3, <1>4

LEMMA MergeStep ==
  ASSUME TInv, NEW s \in Session, Sighted(s), exec_cypher_merge(s)
  PROVE  Stepped(s) \/ Fail(s)
<1> DEFINE r     == run[s]
           E     == Pool(s)
           F     == Pool(s)'
           w     == Head(r.todo)
           k     == w.k
           row   == w.row
           c     == r.stmt.clauses[k]
           path  == c.path
           view  == IF r.inner[k] # <<>> THEN r.inner[k][1] ELSE View(r, r.b + k - 1)
           q     == IF r.fixed THEN [r EXCEPT !.inner[k] = <<view>>] ELSE r
           found == Matches(view, path, row)
           key   == PathKey(path, row)
           again == {m \in r.created[k] : compare_2_paths(key, m.key)}
           made  == MadePaths(row, <<path>>)
           vs    == [i \in DOMAIN path |-> made.row.ent[path[i].var]]
           new   == [key |-> key, vs |-> vs]
           more  == [Inserted(q) EXCEPT !.created[k] = @ \cup {new}]
           rows(ms) == [i \in DOMAIN ms |-> Bound(row, path, ms[i])]
<1>1. At(s, "merge") /\ UNCHANGED started
  BY Zenon DEF exec_cypher_merge
<1>2. \/ \E ms \in SetToSeqs(found) :
            run' = [run EXCEPT ![s] = Passed(q, k, rows(ms))] /\ UNCHANGED <<heap, committed, ids>>
      \/ \E m \in again :
            /\ run' = [run EXCEPT ![s] = Passed(q, k, <<Bound(row, path, m)>>)]
            /\ UNCHANGED <<heap, committed, ids>>
      \/ /\ heap' = heap \cup {Version(e, r.xid, r.base) : e \in made.made}
         /\ ids' = made.last
         /\ run' = [run EXCEPT ![s] = Passed(more, k, <<made.row>>)]
         /\ UNCHANGED committed
      \/ Fail(s)
  BY Zenon DEF exec_cypher_merge
<1>3. /\ r.phase # "idle" /\ Good(r, E) /\ r.todo # <<>> /\ E \subseteq Entities
      /\ row \in Rows(E) /\ Scope(r.stmt, k) \subseteq DOMAIN row.ent
      /\ r.stmt \in Statement /\ k \in 1 .. Len(r.stmt.clauses) /\ k \in Nat \ {0}
      /\ c \in Clause /\ c.op = "merge" /\ r \in Runs(E) /\ Fits(r) /\ s \in DOMAIN run
  BY <1>1, AtWork, ActiveRun DEF Good, Reaches
<1>4. /\ path \in Seq(Node)
      /\ \A x \in ToSet(path) : ~x.new => x.var \in DOMAIN row.ent
      /\ NewNames(c) = {x.var : x \in {y \in ToSet(path) : y.new}}
      /\ Earlier(<<path>>) \subseteq DOMAIN row.ent
      /\ NewIn(<<path>>) = NewNames(c)
  <2>1. path \in Seq(Node)
    BY <1>3, ClauseFields
  <2>2. {x.var : x \in {y \in Nodes(c) : ~y.new}} \subseteq Scope(r.stmt, k)
    <3>1. OldNames(c) \subseteq Scope(r.stmt, k)
      BY <1>3, ParsedStatement
    <3> QED
      BY <3>1 DEF OldNames
  <2> HIDE DEF path, c, row, k, r
  <2>3. /\ NewNames(c) = {x.var : x \in {y \in ToSet(path) : y.new}}
        /\ Nodes(c) = ToSet(path)
        /\ NewIn(<<path>>) = NewNames(c)
        /\ Earlier(<<path>>) \subseteq {x.var : x \in {y \in ToSet(path) : ~y.new}}
    BY <1>3, MergeNames DEF path
  <2>4. {x.var : x \in {y \in ToSet(path) : ~y.new}} \subseteq DOMAIN row.ent
    BY <1>3, <2>2, <2>3
  <2> QED
    BY <2>1, <2>3, <2>4
<1> HIDE DEF w, path, c, row, k
<1>5. view \in Views(E)
  BY <1>3, MergeView
<1>6. SameWork(r, q, E)
  <2> DEFINE kept == [r EXCEPT !.inner[k] = <<view>>]
  <2>1. SameWork(r, r, E)
    BY <1>3 DEF SameWork, Later
  <2>2. q = kept \/ q = r
    OBVIOUS
  <2> HIDE DEF view, r, q
  <2>3. SameWork(r, kept, E)
    BY <1>3, <1>5, InnerGood
  <2> HIDE DEF kept
  <2> QED
    BY <2>1, <2>2, <2>3
<1> HIDE DEF view, q
\* What goes up when nothing is made.
<1>7. ASSUME NEW up \in Seq(Rows(E)), run' = [run EXCEPT ![s] = Passed(q, k, up)],
             \A i \in 1 .. Len(up) : DOMAIN up[i].ent = DOMAIN row.ent \cup NewNames(c),
             UNCHANGED <<heap, committed, ids>>
      PROVE  Stepped(s)
  <2> DEFINE to == Passed(q, k, up)
             ent == row.ent
  <2> HIDE DEF ent, r, E
  <2>1. \A i \in 1 .. Len(up) : DOMAIN up[i].ent = DOMAIN ent \cup NewNames(r.stmt.clauses[k])
    BY <1>7 DEF ent, c
  <2>2. Scope(r.stmt, k) \subseteq DOMAIN ent
    BY <1>3 DEF ent
  <2>3. Good(to, E) /\ Later(r, to)
    BY <1>3, <1>6, <1>7, <2>1, <2>2, PassesOn
  <2>4. run' = [run EXCEPT ![s] = to]
    BY <1>7
  <2> HIDE DEF to
  <2>5. Reaching(s) => Good(to, Pool(s)')
    BY <2>3, GoodGrows DEF Reaching, E
  <2> QED
    BY <1>1, <1>3, <1>7, <2>3, <2>4, <2>5, MovesOn DEF r
<1>8. ASSUME NEW m, m.vs \in Seq(E), Len(m.vs) = Len(path)
      PROVE  /\ Bound(row, path, m) \in Rows(E)
             /\ DOMAIN Bound(row, path, m).ent = DOMAIN row.ent \cup NewNames(c)
  BY <1>3, <1>4, <1>8, BoundGood
<1>9. ASSUME NEW ms \in SetToSeqs(found), run' = [run EXCEPT ![s] = Passed(q, k, rows(ms))],
             UNCHANGED <<heap, committed, ids>>
      PROVE  Stepped(s)
  <2>1. IsFiniteSet(found) /\ \A m \in found : m.vs \in Seq(E) /\ Len(m.vs) = Len(path)
    BY <1>3, <1>4, <1>5, MatchesGood
  <2> HIDE DEF found, E
  <2> DEFINE n == Cardinality(found)
             up == rows(ms)
  <2>2. n \in Nat /\ ms \in [1 .. n -> found]
    BY <2>1, FS_CardinalityType DEF SetToSeqs
  <2> HIDE DEF n
  <2>3. \A i \in 1 .. n : /\ Bound(row, path, ms[i]) \in Rows(E)
                          /\ DOMAIN Bound(row, path, ms[i]).ent = DOMAIN row.ent \cup NewNames(c)
    BY <1>8, <2>1, <2>2
  <2>4. up = [i \in 1 .. n |-> Bound(row, path, ms[i])]
    BY <2>2
  <2>5. run' = [run EXCEPT ![s] = Passed(q, k, up)]
    BY <1>9
  <2> HIDE DEF up
  <2>6. up \in Seq(Rows(E)) /\ Len(up) = n
    BY <2>2, <2>3, <2>4
  <2>7. \A i \in 1 .. Len(up) : DOMAIN up[i].ent = DOMAIN row.ent \cup NewNames(c)
    BY <2>3, <2>4, <2>6
  <2> QED
    BY <1>7, <1>9, <2>5, <2>6, <2>7
<1>10. ASSUME NEW m \in again, run' = [run EXCEPT ![s] = Passed(q, k, <<Bound(row, path, m)>>)],
              UNCHANGED <<heap, committed, ids>>
       PROVE  Stepped(s)
  <2>1. m \in r.created[k]
    OBVIOUS
  <2>2. m.vs \in Seq(E) /\ Len(m.vs) = Len(path)
    <3>1. r.created \in Seq(SUBSET Merged(E)) /\ k \in 1 .. Len(r.created)
      BY <1>3 DEF Runs, Fits
    <3>2. m \in Merged(E)
      BY <2>1, <3>1
    <3>3. Len(m.vs) = Len(path)
      BY <1>3, <2>1, <3>1 DEF Fits, path, c
    <3> HIDE DEF E
    <3> QED
      BY <3>2, <3>3 DEF Merged
  <2> DEFINE b == Bound(row, path, m)
             up == <<b>>
  <2> HIDE DEF E, again
  <2>3. b \in Rows(E) /\ DOMAIN b.ent = DOMAIN row.ent \cup NewNames(c)
    BY <1>8, <2>2
  <2> HIDE DEF b
  <2>4. up \in Seq(Rows(E)) /\ \A i \in 1 .. Len(up) : DOMAIN up[i].ent = DOMAIN row.ent \cup NewNames(c)
    BY <2>3
  <2>5. run' = [run EXCEPT ![s] = Passed(q, k, up)]
    BY <1>10 DEF b
  <2> HIDE DEF up
  <2> QED
    BY <1>7, <1>10, <2>4, <2>5
<1> HIDE DEF found, rows, again
<1>11. ASSUME heap' = heap \cup {Version(e, r.xid, r.base) : e \in made.made}, ids' = made.last,
              run' = [run EXCEPT ![s] = Passed(more, k, <<made.row>>)], UNCHANGED committed
       PROVE  Stepped(s)
  <2>1. ids \in Nat
    BY DEF TInv
  <2>2. ASSUME NEW P, E \subseteq P, \A e \in Entities : e.id > ids => e \in P
        PROVE  MadeWell(made, row, <<path>>, P)
    <3> DEFINE paths == <<path>>
    <3>1. paths \in Seq(Seq(Node)) /\ Earlier(paths) \subseteq DOMAIN row.ent
      BY <1>4
    <3> HIDE DEF paths, E
    <3>2. MadeWell(MadePaths(row, paths), row, paths, P)
      BY <1>3, <2>1, <2>2, <3>1, MadePathsGood
    <3> QED
      BY <3>2 DEF paths
  <2> HIDE DEF made
  <2>3. Inserts(s)
    <3>1. /\ made.last \in Nat /\ ids <= made.last
          /\ made.made \in SUBSET Entities /\ IsFiniteSet(made.made)
          /\ \A e \in made.made : e.id \in (ids + 1) .. made.last
          /\ \A e, f \in made.made : e.id = f.id => e = f
      BY <1>3, <2>2 DEF MadeWell
    <3>2. r.base \in Nat
      BY <1>3 DEF Runs
    <3> HIDE DEF more
    <3> QED
      BY <1>11, <3>1, <3>2 DEF Inserts
  <2> DEFINE up == <<made.row>>
             to == Passed(more, k, up)
             ent == row.ent
  <2>4. ASSUME NEW P, E \subseteq P, \A e \in Entities : e.id > ids => e \in P,
               P \subseteq Entities
        PROVE  Good(to, P) /\ Later(r, to)
    <3>1. /\ made.row \in Rows(P) /\ DOMAIN made.row.ent = DOMAIN row.ent \cup NewNames(c)
      BY <1>4, <2>2, <2>4 DEF MadeWell
    <3>2. made.row.ent \in [DOMAIN made.row.ent -> P]
      BY <3>1, BindingsFields DEF Rows
    <3>3. key \in Seq(Nat \cup [Prop -> Values])
      BY <1>3, <1>4, PathKeyType
    <3>4. vs \in Seq(P) /\ Len(vs) = Len(path)
      <4> DEFINE n == Len(path)
                 bound == made.row.ent
      <4>1. n \in Nat /\ DOMAIN path = 1 .. n /\ \A i \in 1 .. n : path[i] \in ToSet(path)
        BY <1>4 DEF ToSet
      <4>2. \A i \in 1 .. n : path[i].var \in DOMAIN bound
        BY <1>4, <3>1, <4>1
      <4> HIDE DEF n
      <4>3. bound \in [DOMAIN bound -> P]
        BY <3>2
      <4> HIDE DEF bound
      <4>4. \A i \in 1 .. n : bound[path[i].var] \in P
        BY <4>2, <4>3
      <4>5. vs = [i \in 1 .. n |-> bound[path[i].var]]
        BY <4>1 DEF bound
      <4> HIDE DEF vs
      <4> QED
        BY <4>1, <4>4, <4>5 DEF n
    <3> HIDE DEF key, vs
    <3>5. new \in Merged(P) /\ Len(new.vs) = Len(path)
      BY <3>3, <3>4 DEF Merged
    <3> HIDE DEF new
    <3>6. Good(r, P) /\ SameWork(r, q, P)
      <4>1. Good(q, E) /\ Later(r, q) /\ q.todo = r.todo /\ q.stmt = r.stmt
        BY <1>6 DEF SameWork
      <4> HIDE DEF r, E
      <4> QED
        BY <1>3, <2>4, <4>1, GoodGrows DEF SameWork
    <3> HIDE DEF r
    <3>7. SameWork(r, Inserted(q), P)
      <4>1. Good(q, P)
        BY <3>6 DEF SameWork
      <4> QED
        BY <3>6, <4>1, InsertedGood, WorkStays
    <3>8. SameWork(r, more, P)
      <4> DEFINE i == Inserted(q)
      <4>1. Good(i, P) /\ i.stmt = r.stmt
        BY <3>7 DEF SameWork
      <4>2. k \in 1 .. Len(i.stmt.clauses) /\ Len(new.vs) = Len(i.stmt.clauses[k].path)
        BY <1>3, <3>5, <4>1 DEF path, c
      <4>3. more = [i EXCEPT !.created[k] = @ \cup {new}]
        OBVIOUS
      <4> HIDE DEF i, more
      <4>4. SameWork(i, more, P)
        BY <3>5, <4>1, <4>2, <4>3, CreatedGood
      <4> QED
        BY <3>7, <4>4, WorkStays DEF i
    <3> HIDE DEF more
    <3>9. up \in Seq(Rows(P)) /\ Scope(r.stmt, k) \subseteq DOMAIN ent
          /\ \A i \in 1 .. Len(up) : DOMAIN up[i].ent = DOMAIN ent \cup NewNames(r.stmt.clauses[k])
      BY <1>3, <3>1 DEF c
    <3> HIDE DEF up, ent
    <3> QED
      BY <1>3, <3>6, <3>8, <3>9, PassesOn
  <2>5. run' = [run EXCEPT ![s] = to]
    BY <1>11
  <2> HIDE DEF to, more
  <2>6. Later(r, to)
    BY <1>3, <2>4
  <2>7. Reaching(s) => Good(to, F)
    <3>1. F \subseteq Entities
      BY DEF Pool
    <3> HIDE DEF E, F
    <3> QED
      BY <2>4, <3>1 DEF Reaching, E, F
  <2> QED
    BY <1>1, <1>3, <1>11, <2>3, <2>5, <2>6, <2>7, WritesOn
<1> HIDE DEF more, made
<1> QED
  BY <1>2, <1>9, <1>10, <1>11


-----------------------------------------------------------------------------
(* Versions: H are the versions, C the transactions that committed, A the    *)
(* active sessions and R their runs.                                         *)

\* Every transaction has one session, and what it wrote it may have seen.
Sound(H, C, A, R) ==
    /\ NoXid \notin C
    /\ \A s \in A : R[s].xid # NoXid /\ R[s].xid \notin C /\ R[s].snap \subseteq C
    /\ \A s, t \in A : R[s].xid = R[t].xid => s = t
    /\ \A v \in H : v.xmin \in C \/ \E s \in A : v.xmin = R[s].xid
    /\ \A v \in H : v.xmax \in C \/ v.xmax = NoXid \/ \E s \in A : v.xmax = R[s].xid
    /\ \A v \in H : v.xmin \notin C => v.xmax = NoXid \/ v.xmax = v.xmin
    /\ \A v \in H, s \in A : v.xmax = R[s].xid => v.xmin = R[s].xid \/ v.xmin \in R[s].snap

\* Of two versions of an entity that no committed transaction removed, the
\* transaction that made one removed the other.
One(H, C) ==
    \A v, w \in H : v.id = w.id /\ v # w /\ v.xmax \notin C /\ w.xmax \notin C =>
        v.xmin = w.xmax \/ w.xmin = v.xmax

\* A version of a running transaction is the first of its entity, or the
\* transaction removed a committed one.
Root(H, C) ==
    \A v \in H : v.xmin \notin C =>
        \/ \A w \in H : w.id = v.id => w.xmin = v.xmin
        \/ \E w \in H : w.id = v.id /\ w.xmin \in C /\ w.xmax = v.xmin

\* Who has the version that stands in the snapshot saw the others removed.
Chain(H, C, A, R) ==
    \A s \in A, v, w \in H :
        /\ v.id = w.id
        /\ v.xmin \in C /\ v.xmax \in C
        /\ w.xmin \in R[s].snap /\ w.xmax \notin C
        => v.xmax \in R[s].snap

\* What a session wrote is like the version that stands, but for what it said.
Own(H, C, A, R) ==
    \A s \in A, v, w \in H :
        v.xmin = R[s].xid /\ w.id = v.id /\ w.xmin \in C /\ w.xmax \notin C => Like(R[s], v, w)

Consistent(H, C, A, R) ==
    Sound(H, C, A, R) /\ One(H, C) /\ Root(H, C) /\ Chain(H, C, A, R) /\ Own(H, C, A, R)

LEMMA LikeSaysMore ==
  ASSUME NEW r, NEW q, r.said \subseteq q.said, NEW e, NEW w, Like(r, e, w)
  PROVE  Like(q, e, w)
BY DEF Like, SaidOf

LEMMA LikeFields ==
  ASSUME NEW r, NEW e, NEW w, Like(r, e, w), NEW f, NEW x,
         f.id = e.id, f.prop = e.prop, x.prop = w.prop
  PROVE  Like(r, f, x)
BY DEF Like

\* A session says more.
LEMMA SaysMoreConsistent ==
  ASSUME NEW H, NEW C, NEW A, NEW R, Consistent(H, C, A, R), NEW Q,
         \A s \in A : Q[s].xid = R[s].xid /\ Q[s].snap = R[s].snap /\ R[s].said \subseteq Q[s].said
  PROVE  Consistent(H, C, A, Q)
<1>1. Sound(H, C, A, Q)
  BY DEF Consistent, Sound
<1>2. Chain(H, C, A, Q)
  BY DEF Consistent, Chain
<1>3. Own(H, C, A, Q)
  BY LikeSaysMore DEF Consistent, Own
<1> QED
  BY <1>1, <1>2, <1>3 DEF Consistent

\* A session removes an open version that it sees.
LEMMA CloseConsistent ==
  ASSUME NEW H, NEW C, NEW A, NEW R, Consistent(H, C, A, R), NEW s \in A,
         NEW v \in H, v.xmax = NoXid, v.xmin = R[s].xid \/ v.xmin \in R[s].snap,
         NEW u, u.id = v.id, u.prop = v.prop, u.xmin = v.xmin, u.xmax = R[s].xid,
         NEW G, G = (H \ {v}) \cup {u}
  PROVE  /\ Consistent(G, C, A, R)
         /\ \A w \in G : w.id = v.id /\ w.xmax \notin C => w.xmax = R[s].xid
<1>1. Sound(H, C, A, R) /\ One(H, C) /\ Root(H, C) /\ Chain(H, C, A, R) /\ Own(H, C, A, R)
  BY DEF Consistent
<1>2. /\ NoXid \notin C /\ R[s].xid # NoXid /\ R[s].xid \notin C /\ R[s].snap \subseteq C
      /\ \A w \in H : w.xmin # NoXid
  BY <1>1 DEF Sound
\* What was true of v is true of u.
<1>3. \A x \in G : \E y \in H : /\ y.id = x.id /\ y.prop = x.prop /\ y.xmin = x.xmin
                                /\ x.xmax \notin C <=> y.xmax \notin C
                                /\ x = y \/ (x = u /\ y = v)
  BY <1>2
<1>4. \A w \in H : w.id = v.id /\ w # v /\ w.xmax \notin C => v.xmin = w.xmax
  BY <1>1, <1>2 DEF One
<1>5. \A w \in G : w.id = v.id /\ w.xmax \notin C => w.xmax = R[s].xid
  BY <1>2, <1>4
<1>6. Sound(G, C, A, R)
  <2>1. v.xmin \in C \/ v.xmin = R[s].xid
    BY <1>2
  <2> QED
    BY <1>1, <2>1 DEF Sound
<1>7. One(G, C)
  <2>1. ASSUME NEW x \in G, NEW y \in G, x.id = y.id, x # y, x.xmax \notin C, y.xmax \notin C
        PROVE  x.xmin = y.xmax \/ y.xmin = x.xmax
    <3>1. CASE x = u
      BY <1>4, <2>1, <3>1
    <3>2. CASE y = u
      BY <1>4, <2>1, <3>2
    <3>3. CASE x # u /\ y # u
      BY <1>1, <2>1, <3>3 DEF One
    <3> QED
      BY <3>1, <3>2, <3>3
  <2> QED
    BY <2>1 DEF One
<1>8. Root(G, C)
  <2>1. ASSUME NEW x \in G, x.xmin \notin C
        PROVE  \/ \A w \in G : w.id = x.id => w.xmin = x.xmin
               \/ \E w \in G : w.id = x.id /\ w.xmin \in C /\ w.xmax = x.xmin
    <3>1. PICK y \in H : y.id = x.id /\ y.xmin = x.xmin
      BY <1>3
    <3>2. CASE \A w \in H : w.id = y.id => w.xmin = y.xmin
      BY <1>3, <3>1, <3>2
    <3>3. CASE \E w \in H : w.id = y.id /\ w.xmin \in C /\ w.xmax = y.xmin
      <4>1. PICK w \in H : w.id = y.id /\ w.xmin \in C /\ w.xmax = y.xmin
        BY <3>3
      <4>2. w # v
        BY <1>2, <4>1
      <4> QED
        BY <3>1, <4>1, <4>2
    <3> QED
      BY <1>1, <2>1, <3>1, <3>2, <3>3 DEF Root
  <2> QED
    BY <2>1 DEF Root
<1>9. Chain(G, C, A, R)
  <2>1. ASSUME NEW t \in A, NEW x \in G, NEW y \in G, x.id = y.id, x.xmin \in C, x.xmax \in C,
               y.xmin \in R[t].snap, y.xmax \notin C
        PROVE  x.xmax \in R[t].snap
    <3>1. x \in H
      BY <1>2, <2>1
    <3>2. PICK z \in H : z.id = y.id /\ z.xmin = y.xmin /\ z.xmax \notin C
      BY <1>3, <2>1
    <3> QED
      BY <1>1, <2>1, <3>1, <3>2 DEF Chain
  <2> QED
    BY <2>1 DEF Chain
<1>10. Own(G, C, A, R)
  <2>1. ASSUME NEW t \in A, NEW x \in G, NEW y \in G, x.xmin = R[t].xid, y.id = x.id,
               y.xmin \in C, y.xmax \notin C
        PROVE  Like(R[t], x, y)
    <3>1. PICK a \in H : a.id = x.id /\ a.prop = x.prop /\ a.xmin = x.xmin
      BY <1>3
    <3>2. PICK b \in H : b.id = y.id /\ b.prop = y.prop /\ b.xmin = y.xmin /\ b.xmax \notin C
      BY <1>3, <2>1
    <3>3. Like(R[t], a, b)
      BY <1>1, <2>1, <3>1, <3>2 DEF Own
    <3> QED
      BY <3>1, <3>2, <3>3, LikeFields
  <2> QED
    BY <2>1 DEF Own
<1> QED
  BY <1>5, <1>6, <1>7, <1>8, <1>9, <1>10 DEF Consistent

\* A session adds versions: first ones, or of an entity whose open version it removed.
LEMMA AddConsistent ==
  ASSUME NEW H, NEW C, NEW A, NEW R, Consistent(H, C, A, R), NEW s \in A, NEW M,
         \A m \in M :
            /\ m.xmin = R[s].xid /\ m.xmax = NoXid
            /\ \A n \in M : n.id = m.id => n = m
            /\ \/ \A w \in H : w.id # m.id
               \/ /\ \A w \in H : w.id = m.id /\ w.xmax \notin C => w.xmax = R[s].xid
                  /\ \E w \in H : w.id = m.id /\ w.xmax = R[s].xid
                  /\ \A w \in H : w.id = m.id /\ w.xmin \in R[s].snap /\ w.xmax \notin C => Like(R[s], m, w),
         NEW G, G = H \cup M
  PROVE  Consistent(G, C, A, R)
<1>1. Sound(H, C, A, R) /\ One(H, C) /\ Root(H, C) /\ Chain(H, C, A, R) /\ Own(H, C, A, R)
  BY DEF Consistent
<1>2. /\ NoXid \notin C /\ R[s].xid # NoXid /\ R[s].xid \notin C /\ R[s].snap \subseteq C
      /\ \A w \in H : w.xmax = R[s].xid => w.xmin = R[s].xid \/ w.xmin \in R[s].snap
      /\ \A t \in A : R[t].snap \subseteq C
  BY <1>1 DEF Sound
<1>3. \A m \in M : m.xmin = R[s].xid /\ m.xmin \notin C /\ m.xmax = NoXid
  BY <1>2
<1>6. Sound(G, C, A, R)
  <2>1. \A v \in G : v.xmin \in C \/ \E t \in A : v.xmin = R[t].xid
    BY <1>1, <1>3 DEF Sound
  <2>2. \A v \in G : v.xmax \in C \/ v.xmax = NoXid \/ \E t \in A : v.xmax = R[t].xid
    BY <1>1, <1>3 DEF Sound
  <2>3. \A v \in G : v.xmin \notin C => v.xmax = NoXid \/ v.xmax = v.xmin
    BY <1>1, <1>3 DEF Sound
  <2>4. \A v \in G, t \in A : v.xmax = R[t].xid => v.xmin = R[t].xid \/ v.xmin \in R[t].snap
    BY <1>1, <1>3 DEF Sound
  <2> QED
    BY <1>1, <2>1, <2>2, <2>3, <2>4 DEF Sound
<1>7. One(G, C)
  <2>1. ASSUME NEW x \in M, NEW y \in G, x.id = y.id, x # y, y.xmax \notin C
        PROVE  x.xmin = y.xmax
    BY <2>1
  <2>2. ASSUME NEW x \in G, NEW y \in G, x.id = y.id, x # y, x.xmax \notin C, y.xmax \notin C
        PROVE  x.xmin = y.xmax \/ y.xmin = x.xmax
    <3>1. CASE x \in M
      BY <2>1, <2>2, <3>1
    <3>2. CASE y \in M
      BY <2>1, <2>2, <3>2
    <3>3. CASE x \in H /\ y \in H
      BY <1>1, <2>2, <3>3 DEF One
    <3> QED
      BY <3>1, <3>2, <3>3
  <2> QED
    BY <2>2 DEF One
<1>8. Root(G, C)
  <2>1. ASSUME NEW x \in G, x.xmin \notin C
        PROVE  \/ \A w \in G : w.id = x.id => w.xmin = x.xmin
               \/ \E w \in G : w.id = x.id /\ w.xmin \in C /\ w.xmax = x.xmin
    <3>1. CASE \E u \in H : u.id = x.id /\ u.xmax = R[s].xid
      <4>1. PICK u \in H : u.id = x.id /\ u.xmax = R[s].xid
        BY <3>1
      <4>2. u.xmin \in C \/ u.xmin = R[s].xid
        BY <1>2, <4>1
      <4>3. CASE x \in M
        <5>1. CASE u.xmin \in C
          BY <1>3, <4>1, <4>3, <5>1
        <5>2. CASE u.xmin = R[s].xid
          <6>1. CASE \E w \in H : w.id = u.id /\ w.xmin \in C /\ w.xmax = u.xmin
            BY <1>3, <4>1, <4>3, <5>2, <6>1
          <6>2. CASE \A w \in H : w.id = u.id => w.xmin = u.xmin
            BY <1>3, <4>1, <4>3, <5>2, <6>2
          <6> QED
            BY <1>1, <1>2, <5>2, <6>1, <6>2 DEF Root
        <5> QED
          BY <4>2, <5>1, <5>2
      <4>4. CASE x \in H
        <5>1. CASE \E w \in H : w.id = x.id /\ w.xmin \in C /\ w.xmax = x.xmin
          BY <5>1
        <5>2. CASE \A w \in H : w.id = x.id => w.xmin = x.xmin
          <6>1. x.xmin = R[s].xid
            BY <2>1, <4>1, <4>2, <5>2
          <6> QED
            BY <1>3, <5>2, <6>1
        <5> QED
          BY <1>1, <2>1, <4>4, <5>1, <5>2 DEF Root
      <4> QED
        BY <4>3, <4>4
    <3>2. CASE ~ \E u \in H : u.id = x.id /\ u.xmax = R[s].xid
      <4>1. CASE x \in M
        BY <3>2, <4>1
      <4>2. CASE x \in H
        <5>1. \A m \in M : m.id # x.id
          BY <3>2, <4>2
        <5> QED
          BY <1>1, <2>1, <4>2, <5>1 DEF Root
      <4> QED
        BY <4>1, <4>2
    <3> QED
      BY <3>1, <3>2
  <2> QED
    BY <2>1 DEF Root
<1>9. Chain(G, C, A, R)
  <2>1. ASSUME NEW t \in A, NEW x \in G, NEW y \in G, x.id = y.id, x.xmin \in C, x.xmax \in C,
               y.xmin \in R[t].snap, y.xmax \notin C
        PROVE  x.xmax \in R[t].snap
    <3>1. x \in H /\ y \in H
      BY <1>2, <1>3, <2>1
    <3> QED
      BY <1>1, <2>1, <3>1 DEF Chain
  <2> QED
    BY <2>1 DEF Chain
<1>10. Own(G, C, A, R)
  <2>1. ASSUME NEW t \in A, NEW x \in G, NEW y \in G, x.xmin = R[t].xid, y.id = x.id,
               y.xmin \in C, y.xmax \notin C
        PROVE  Like(R[t], x, y)
    <3>1. y \in H
      BY <1>3, <2>1
    <3>2. CASE x \in H
      BY <1>1, <2>1, <3>1, <3>2 DEF Own
    <3>3. CASE x \in M
      <4>1. t = s
        BY <1>1, <1>3, <2>1, <3>3 DEF Sound
      <4>2. y.xmax = R[s].xid /\ y.xmin # R[s].xid
        BY <1>2, <2>1, <3>1, <3>3
      <4>3. y.xmin \in R[s].snap
        BY <1>2, <3>1, <4>2
      <4> QED
        BY <2>1, <3>1, <3>3, <4>1, <4>3
    <3> QED
      BY <3>2, <3>3
  <2> QED
    BY <2>1 DEF Own
<1> QED
  BY <1>6, <1>7, <1>8, <1>9, <1>10 DEF Consistent


\* What rolling transaction x back makes of version v.
Undone(v, x) == IF v.xmax = x THEN [v EXCEPT !.xmax = NoXid, !.cmax = 0] ELSE v

LEMMA UndoneFields ==
  ASSUME NEW v \in Versions, NEW x
  PROVE  /\ Undone(v, x) \in Versions
         /\ Undone(v, x).id = v.id /\ Undone(v, x).prop = v.prop
         /\ Undone(v, x).xmin = v.xmin /\ Undone(v, x).cmin = v.cmin
         /\ Undone(v, x).xmax = IF v.xmax = x THEN NoXid ELSE v.xmax
         /\ v.xmax # x => Undone(v, x) = v
<1>1. CASE v.xmax = x
  <2> DEFINE u == [v EXCEPT !.xmax = NoXid, !.cmax = 0]
  <2>1. Undone(v, x) = u
    BY <1>1 DEF Undone
  <2>2. /\ u \in Versions /\ u.id = v.id /\ u.prop = v.prop
        /\ u.xmin = v.xmin /\ u.cmin = v.cmin /\ u.xmax = NoXid
    BY DEF Versions
  <2> HIDE DEF u
  <2> QED
    BY <1>1, <2>1, <2>2
<1>2. CASE v.xmax # x
  BY <1>2 DEF Undone
<1> QED
  BY <1>1, <1>2

\* The transaction of session s is rolled back: what it wrote goes, and what it
\* removed is open again.
LEMMA UndoneConsistent ==
  ASSUME NEW H \in SUBSET Versions, NEW C, NEW A, NEW R, Consistent(H, C, A, R), NEW s \in A,
         NEW G, G = {Undone(v, R[s].xid) : v \in {w \in H : w.xmin # R[s].xid}}
  PROVE  Consistent(G, C, A \ {s}, R)
<1> DEFINE B == A \ {s}
           x0 == R[s].xid
<1>1. Sound(H, C, A, R) /\ One(H, C) /\ Root(H, C) /\ Chain(H, C, A, R) /\ Own(H, C, A, R)
  BY DEF Consistent
<1>2. NoXid \notin C /\ x0 # NoXid /\ x0 \notin C
  BY <1>1 DEF Sound
<1>3. \A x \in G : \E v \in H :
         /\ v.xmin # x0 /\ x = Undone(v, x0)
         /\ v.id = x.id /\ v.prop = x.prop /\ v.xmin = x.xmin
         /\ v.xmax # x0 => x.xmax = v.xmax
         /\ v.xmax = x0 => x.xmax = NoXid
  BY UndoneFields
<1>4. \A v \in H : v.xmin # x0 /\ v.xmax # x0 => v \in G
  BY UndoneFields
<1>5. Sound(G, C, B, R)
  <2>1. \A x \in G : x.xmin \in C \/ \E t \in B : x.xmin = R[t].xid
    BY <1>1, <1>3 DEF Sound
  <2>2. \A x \in G : x.xmax \in C \/ x.xmax = NoXid \/ \E t \in B : x.xmax = R[t].xid
    <3> SUFFICES ASSUME NEW x \in G
                 PROVE  x.xmax \in C \/ x.xmax = NoXid \/ \E t \in B : x.xmax = R[t].xid
      OBVIOUS
    <3>1. PICK v \in H : (v.xmax # x0 /\ x.xmax = v.xmax) \/ x.xmax = NoXid
      BY <1>3
    <3> QED
      BY <1>1, <3>1 DEF Sound
  <2>3. \A x \in G : x.xmin \notin C => x.xmax = NoXid \/ x.xmax = x.xmin
    BY <1>1, <1>3 DEF Sound
  <2>4. \A x \in G, t \in B : x.xmax = R[t].xid => x.xmin = R[t].xid \/ x.xmin \in R[t].snap
    BY <1>1, <1>3 DEF Sound
  <2> QED
    BY <1>1, <2>1, <2>2, <2>3, <2>4 DEF Sound
<1>6. One(G, C)
  <2>1. ASSUME NEW x \in G, NEW y \in G, x.id = y.id, x # y, x.xmax \notin C, y.xmax \notin C
        PROVE  x.xmin = y.xmax \/ y.xmin = x.xmax
    <3>1. PICK v \in H : /\ v.xmin # x0 /\ x = Undone(v, x0) /\ v.id = x.id /\ v.xmin = x.xmin
                         /\ v.xmax # x0 => x.xmax = v.xmax
                         /\ v.xmax \notin C
      BY <1>2, <1>3, <2>1
    <3>2. PICK w \in H : /\ w.xmin # x0 /\ y = Undone(w, x0) /\ w.id = y.id /\ w.xmin = y.xmin
                         /\ w.xmax # x0 => y.xmax = w.xmax
                         /\ w.xmax \notin C
      BY <1>2, <1>3, <2>1
    <3>3. v # w
      BY <2>1, <3>1, <3>2
    <3>4. v.xmin = w.xmax \/ w.xmin = v.xmax
      BY <1>1, <2>1, <3>1, <3>2, <3>3 DEF One
    <3> QED
      BY <3>1, <3>2, <3>4
  <2> QED
    BY <2>1 DEF One
<1>7. Root(G, C)
  <2>1. ASSUME NEW x \in G, x.xmin \notin C
        PROVE  \/ \A w \in G : w.id = x.id => w.xmin = x.xmin
               \/ \E w \in G : w.id = x.id /\ w.xmin \in C /\ w.xmax = x.xmin
    <3>1. PICK v \in H : v.xmin # x0 /\ v.id = x.id /\ v.xmin = x.xmin
      BY <1>3
    <3>2. CASE \A w \in H : w.id = v.id => w.xmin = v.xmin
      BY <1>3, <3>1, <3>2
    <3>3. CASE \E w \in H : w.id = v.id /\ w.xmin \in C /\ w.xmax = v.xmin
      <4>1. PICK w \in H : w.id = v.id /\ w.xmin \in C /\ w.xmax = v.xmin
        BY <3>3
      <4>2. w \in G
        BY <1>2, <1>4, <3>1, <4>1
      <4> QED
        BY <3>1, <4>1, <4>2
    <3> QED
      BY <1>1, <2>1, <3>1, <3>2, <3>3 DEF Root
  <2> QED
    BY <2>1 DEF Root
<1>8. Chain(G, C, B, R)
  <2>1. ASSUME NEW t \in B, NEW x \in G, NEW y \in G, x.id = y.id, x.xmin \in C, x.xmax \in C,
               y.xmin \in R[t].snap, y.xmax \notin C
        PROVE  x.xmax \in R[t].snap
    <3>1. PICK v \in H : v.id = x.id /\ v.xmin = x.xmin /\ v.xmax = x.xmax
      BY <1>2, <1>3, <2>1
    <3>2. PICK w \in H : w.id = y.id /\ w.xmin = y.xmin /\ w.xmax \notin C
      BY <1>2, <1>3, <2>1
    <3> QED
      BY <1>1, <2>1, <3>1, <3>2 DEF Chain
  <2> QED
    BY <2>1 DEF Chain
<1>9. Own(G, C, B, R)
  <2>1. ASSUME NEW t \in B, NEW x \in G, NEW y \in G, x.xmin = R[t].xid, y.id = x.id,
               y.xmin \in C, y.xmax \notin C
        PROVE  Like(R[t], x, y)
    <3>1. PICK v \in H : v.id = x.id /\ v.prop = x.prop /\ v.xmin = x.xmin
      BY <1>3
    <3>2. PICK w \in H : w.id = y.id /\ w.prop = y.prop /\ w.xmin = y.xmin /\ w.xmax \notin C
      BY <1>2, <1>3, <2>1
    <3>3. Like(R[t], v, w)
      BY <1>1, <2>1, <3>1, <3>2 DEF Own
    <3> QED
      BY <3>1, <3>2, <3>3, LikeFields
  <2> QED
    BY <2>1 DEF Own
<1> QED
  BY <1>5, <1>6, <1>7, <1>8, <1>9 DEF Consistent

\* The transaction of session s commits.
LEMMA CommitConsistent ==
  ASSUME NEW H, NEW C, NEW A, NEW R, Consistent(H, C, A, R), NEW s \in A
  PROVE  Consistent(H, C \cup {R[s].xid}, A \ {s}, R)
<1> DEFINE B == A \ {s}
           x0 == R[s].xid
           D == C \cup {x0}
<1>1. Sound(H, C, A, R) /\ One(H, C) /\ Root(H, C) /\ Chain(H, C, A, R) /\ Own(H, C, A, R)
  BY DEF Consistent
<1>2. /\ NoXid \notin C /\ x0 # NoXid /\ x0 \notin C
      /\ \A t \in B : R[t].xid # x0 /\ R[t].snap \subseteq C /\ R[t].xid # NoXid
      /\ \A v \in H : v.xmin \notin C => v.xmax = NoXid \/ v.xmax = v.xmin
      /\ \A v \in H : v.xmin # NoXid
  BY <1>1 DEF Sound
<1>3. Sound(H, D, B, R)
  BY <1>1, <1>2 DEF Sound
<1>4. One(H, D)
  BY <1>1 DEF One
<1>5. Root(H, D)
  BY <1>1 DEF Root
<1>6. Chain(H, D, B, R)
  <2>1. ASSUME NEW t \in B, NEW x \in H, NEW y \in H, x.id = y.id, x.xmin \in D, x.xmax \in D,
               y.xmin \in R[t].snap, y.xmax \notin D
        PROVE  x.xmax \in R[t].snap
    <3>1. CASE x.xmax = x0
      <4>1. x.xmin = y.xmax \/ y.xmin = x.xmax
        BY <1>1, <1>2, <2>1, <3>1 DEF One
      <4> QED
        BY <1>2, <2>1, <3>1, <4>1
    <3>2. CASE x.xmax \in C
      <4>1. x.xmin \in C
        BY <1>2, <2>1, <3>2
      <4> QED
        BY <1>1, <2>1, <3>2, <4>1 DEF Chain
    <3> QED
      BY <2>1, <3>1, <3>2
  <2> QED
    BY <2>1 DEF Chain
<1>7. Own(H, D, B, R)
  <2>1. ASSUME NEW t \in B, NEW x \in H, NEW y \in H, x.xmin = R[t].xid, y.id = x.id,
               y.xmin \in D, y.xmax \notin D
        PROVE  Like(R[t], x, y)
    <3>1. CASE y.xmin \in C
      BY <1>1, <2>1, <3>1 DEF Own
    <3>2. CASE y.xmin = x0
      <4>1. x # y /\ x.xmin \notin C
        BY <1>1, <1>2, <2>1, <3>2 DEF Sound
      <4>2. (x.xmax = NoXid \/ x.xmax = x.xmin) /\ y.xmax = NoXid
        BY <1>2, <2>1, <3>2, <4>1
      <4>3. x.xmin = y.xmax \/ y.xmin = x.xmax
        BY <1>1, <1>2, <2>1, <4>1, <4>2 DEF One
      <4> QED
        BY <1>2, <2>1, <3>2, <4>2, <4>3
    <3> QED
      BY <2>1, <3>1, <3>2
  <2> QED
    BY <2>1 DEF Own
<1> QED
  BY <1>3, <1>4, <1>5, <1>6, <1>7 DEF Consistent

\* Session s starts a statement, in its transaction or in one of its own.
LEMMA StartConsistent ==
  ASSUME NEW H, NEW C, NEW A, NEW R, Consistent(H, C, A, R), NEW s, NEW Q,
         \A t \in A \ {s} : Q[t].xid = R[t].xid /\ Q[t].snap = R[t].snap /\ R[t].said \subseteq Q[t].said,
         Q[s].snap = C,
         \/ s \in A /\ Q[s].xid = R[s].xid /\ R[s].said \subseteq Q[s].said
         \/ /\ s \notin A /\ Q[s].xid # NoXid /\ Q[s].xid \notin C
            /\ \A t \in A : R[t].xid # Q[s].xid
  PROVE  Consistent(H, C, A \cup {s}, Q)
<1> DEFINE B == A \cup {s}
<1>1. Sound(H, C, A, R) /\ One(H, C) /\ Root(H, C) /\ Chain(H, C, A, R) /\ Own(H, C, A, R)
  BY DEF Consistent
<1>2. Sound(H, C, B, Q)
  <2>1. \A t \in A : Q[t].xid = R[t].xid
    OBVIOUS
  <2>2. \A t \in B : Q[t].xid # NoXid /\ Q[t].xid \notin C /\ Q[t].snap \subseteq C
    BY <1>1 DEF Sound
  <2>3. \A t, u \in B : Q[t].xid = Q[u].xid => t = u
    BY <1>1, <2>1 DEF Sound
  <2>4. \A v \in H : v.xmin \in C \/ \E t \in B : v.xmin = Q[t].xid
    BY <1>1, <2>1 DEF Sound
  <2>5. \A v \in H : v.xmax \in C \/ v.xmax = NoXid \/ \E t \in B : v.xmax = Q[t].xid
    BY <1>1, <2>1 DEF Sound
  <2>6. \A v \in H, t \in B : v.xmax = Q[t].xid => v.xmin = Q[t].xid \/ v.xmin \in Q[t].snap
    <3> SUFFICES ASSUME NEW v \in H, NEW t \in B, v.xmax = Q[t].xid
                 PROVE  v.xmin = Q[t].xid \/ v.xmin \in Q[t].snap
      OBVIOUS
    <3>1. CASE t \in A
      BY <1>1, <2>1, <3>1 DEF Sound
    <3>2. CASE t \notin A
      <4>1. \A w \in H : w.xmax # Q[s].xid
        BY <1>1, <3>2 DEF Sound
      <4> QED
        BY <3>2, <4>1
    <3> QED
      BY <3>1, <3>2
  <2> QED
    BY <1>1, <2>2, <2>3, <2>4, <2>5, <2>6 DEF Sound
<1>3. Chain(H, C, B, Q)
  BY <1>1 DEF Chain
<1>4. Own(H, C, B, Q)
  <2>1. ASSUME NEW t \in B, NEW x \in H, NEW y \in H, x.xmin = Q[t].xid, y.id = x.id,
               y.xmin \in C, y.xmax \notin C
        PROVE  Like(Q[t], x, y)
    <3>1. CASE t \in A
      <4>1. Like(R[t], x, y) /\ R[t].said \subseteq Q[t].said
        BY <1>1, <2>1, <3>1 DEF Own
      <4> QED
        BY <4>1, LikeSaysMore
    <3>2. CASE t \notin A
      BY <1>1, <2>1, <3>2 DEF Sound
    <3> QED
      BY <3>1, <3>2
  <2> QED
    BY <2>1 DEF Own
<1> QED
  BY <1>1, <1>2, <1>3, <1>4 DEF Consistent

\* What a session sees is like the version that stands in its snapshot.
LEMMA SeenAlike ==
  ASSUME NEW H, NEW C, NEW A, NEW R, Consistent(H, C, A, R), NEW s \in A, NEW v \in H,
         v.xmin = R[s].xid \/ v.xmin \in R[s].snap, v.xmax \notin R[s].snap, NEW w \in H,
         w.id = v.id, w.xmin \in R[s].snap, w.xmax \notin C
  PROVE  Like(R[s], v, w)
<1>1. Sound(H, C, A, R) /\ One(H, C) /\ Chain(H, C, A, R) /\ Own(H, C, A, R) /\ R[s].snap \subseteq C
  BY DEF Consistent, Sound
<1>2. CASE v.xmin = R[s].xid
  BY <1>1, <1>2 DEF Own
<1>3. CASE v.xmin \in R[s].snap
  <2>1. v.xmax \notin C
    BY <1>1, <1>3 DEF Chain
  <2>2. v = w
    BY <1>1, <1>3, <2>1 DEF One
  <2> QED
    BY <2>2 DEF Like
<1> QED
  BY <1>2, <1>3


-----------------------------------------------------------------------------
(* What a session may copy *)

LEMMA VersionFields ==
  ASSUME NEW e \in Entities, NEW x \in Nat, NEW c \in Nat
  PROVE  /\ Version(e, x, c) \in Versions
         /\ Version(e, x, c).id = e.id /\ Version(e, x, c).prop = e.prop
         /\ Version(e, x, c).xmin = x /\ Version(e, x, c).xmax = NoXid /\ Version(e, x, c).cmin = c
BY DEF Version, Versions, Entities

LEMMA ClosedFields ==
  ASSUME NEW v \in Versions, NEW r, r.xid \in Nat, r.G \in Nat
  PROVE  \E u \in Versions :
            /\ Closed(r, v) = (heap \ {v}) \cup {u}
            /\ u.id = v.id /\ u.prop = v.prop /\ u.xmin = v.xmin /\ u.cmin = v.cmin /\ u.xmax = r.xid
<1> DEFINE x == r.xid
           g == r.G
           u == [v EXCEPT !.xmax = x, !.cmax = g]
<1>1. Closed(r, v) = (heap \ {v}) \cup {u} /\ x \in Nat /\ g \in Nat
  BY DEF Closed
<1> HIDE DEF x, g
<1>2. /\ u \in Versions
      /\ u.id = v.id /\ u.prop = v.prop /\ u.xmin = v.xmin /\ u.cmin = v.cmin /\ u.xmax = x
  BY <1>1 DEF Versions
<1> HIDE DEF u
<1> QED
  BY <1>1, <1>2 DEF x

LEMMA EntityFields ==
  ASSUME NEW v \in Versions
  PROVE  Entity(v) \in Entities /\ Entity(v).id = v.id /\ Entity(v).prop = v.prop
BY DEF Entity, Versions, Entities

LEMMA ViewAlike ==
  ASSUME heap \in SUBSET Versions, NEW A, NEW R, Consistent(heap, committed, A, R), NEW s \in A,
         NEW c, NEW e \in View(R[s], c)
  PROVE  /\ e \in Entities
         /\ \A w \in heap : w.id = e.id /\ Stands(w) /\ w.xmin \in R[s].snap => Like(R[s], e, w)
<1>1. PICK v \in heap : /\ e = Entity(v)
                        /\ Sees(R[s], v.xmin, v.cmin, c) /\ ~Sees(R[s], v.xmax, v.cmax, c)
  BY DEF View, Visible
<1>2. e \in Entities /\ e.id = v.id /\ e.prop = v.prop
  BY <1>1, EntityFields
<1>3. R[s].xid \notin committed /\ R[s].snap \subseteq committed
  BY DEF Consistent, Sound
<1>4. (v.xmin = R[s].xid \/ v.xmin \in R[s].snap) /\ v.xmax \notin R[s].snap
  BY <1>1, <1>3 DEF Sees
<1>5. ASSUME NEW w \in heap, w.id = e.id, Stands(w), w.xmin \in R[s].snap
      PROVE  Like(R[s], e, w)
  <2>1. Like(R[s], v, w)
    BY <1>2, <1>4, <1>5, SeenAlike DEF Stands
  <2> QED
    BY <1>2, <2>1, LikeFields
<1> QED
  BY <1>2, <1>5

LEMMA SightedActive ==
  ASSUME TInv, Consistent(heap, committed, Active, run), NEW s \in Active
  PROVE  Sighted(s)
<1>1. heap \in SUBSET Versions
  BY DEF TInv
<1>2. ASSUME NEW c \in Int, NEW e \in View(run[s], c) PROVE e \in Pool(s)
  <2>1. /\ e \in Entities
        /\ \A w \in heap : w.id = e.id /\ Stands(w) /\ w.xmin \in run[s].snap => Like(run[s], e, w)
    BY <1>1, ViewAlike
  <2> QED
    BY <2>1 DEF Pool
<1> QED
  BY <1>2 DEF Sighted

\* What stands in the snapshot of session s after a step stood there before.
Followed(s) ==
    \A x \in heap' : x.xmin \in run[s].snap /\ x.xmax \notin committed' =>
        \E w \in heap : w.id = x.id /\ w.prop = x.prop /\ w.xmin = x.xmin /\ w.xmax \notin committed

LEMMA PoolGrows ==
  ASSUME NEW s, Followed(s), run[s].snap \subseteq committed,
         run'[s].snap = run[s].snap, run[s].said \subseteq run'[s].said
  PROVE  Pool(s) \subseteq Pool(s)'
<1> SUFFICES ASSUME NEW e \in Pool(s), NEW x \in heap', x.id = e.id, Stands(x)',
                    x.xmin \in run'[s].snap
             PROVE  Like(run'[s], e, x)
  BY DEF Pool
<1>1. PICK w \in heap : w.id = x.id /\ w.prop = x.prop /\ w.xmin = x.xmin /\ w.xmax \notin committed
  BY DEF Followed, Stands
<1>2. Like(run[s], e, w)
  BY <1>1 DEF Pool, Stands
<1>3. Like(run'[s], e, w)
  BY <1>2, LikeSaysMore
<1> QED
  BY <1>1, <1>3, LikeFields

LEMMA Reached ==
  ASSUME TInv, NEW s, Followed(s), run[s].snap \subseteq committed,
         run'[s].snap = run[s].snap, run[s].said \subseteq run'[s].said
  PROVE  Reaching(s)
<1>1. Pool(s) \subseteq Pool(s)'
  BY PoolGrows
<1>2. ASSUME NEW e \in Entities, e.id > ids PROVE e \in Pool(s)'
  <2>1. ids \in Nat /\ \A w \in heap : w.id \in 1 .. ids
    BY DEF TInv
  <2>2. \A w \in heap : w.id # e.id
    BY <1>2, <2>1
  <2>3. \A x \in heap' : ~ (x.id = e.id /\ Stands(x)' /\ x.xmin \in run'[s].snap)
    BY <2>2 DEF Followed, Stands
  <2> QED
    BY <2>3 DEF Pool
<1>3. ASSUME NEW e \in Pool(s), NEW p \in Prop, NEW v \in Values, SaidOf(run'[s], e.id, p)
      PROVE  [e EXCEPT !.prop[p] = v] \in Pool(s)'
  <2> DEFINE prop == [e.prop EXCEPT ![p] = v]
             f == [e EXCEPT !.prop = prop]
  <2>1. e \in Entities /\ e \in Pool(s)'
    BY <1>1 DEF Pool
  <2>2. e.prop \in [Prop -> Values]
    BY <2>1 DEF Entities
  <2>3. prop \in [Prop -> Values] /\ \A o \in Prop : o # p => prop[o] = e.prop[o]
    BY <2>2
  <2>4. [e EXCEPT !.prop[p] = v] = f
    BY <2>1 DEF Entities
  <2> HIDE DEF prop
  <2>5. f \in Entities /\ f.id = e.id /\ f.prop = prop
    BY <2>1, <2>3 DEF Entities
  <2> HIDE DEF f
  <2>6. ASSUME NEW x \in heap', x.id = f.id, Stands(x)', x.xmin \in run'[s].snap
        PROVE  Like(run'[s], f, x)
    <3>1. Like(run'[s], e, x)
      BY <2>1, <2>5, <2>6 DEF Pool
    <3> QED
      BY <1>3, <2>3, <2>5, <3>1 DEF Like
  <2>7. f \in Pool(s)'
    BY <2>5, <2>6 DEF Pool
  <2> QED
    BY <2>4, <2>7
<1> QED
  BY <1>1, <1>2, <1>3 DEF Reaching


-----------------------------------------------------------------------------
(* What a step of a statement does to the versions *)

\* Version m is one that session s adds.
Added(s, m) == m \in Versions /\ m.xmin = run[s].xid /\ m.xmax = NoXid

\* Version u is v removed by session s.
Shut(s, v, u) ==
    /\ OpenTo(s, v) /\ u \in Versions
    /\ u.id = v.id /\ u.prop = v.prop /\ u.xmin = v.xmin /\ u.cmin = v.cmin /\ u.xmax = run[s].xid

ActiveFacts(s) ==
    /\ run[s].xid \in Nat /\ run[s].G \in Nat /\ run[s].phase # "idle"
    /\ run[s].snap \subseteq committed /\ run[s].xid \in 1 .. started /\ started \in Nat
    /\ heap \in SUBSET Versions /\ IsFiniteSet(heap) /\ ids \in Nat
    /\ \A v \in heap : v.id \in 1 .. ids
    /\ s \in Session /\ s \in DOMAIN run

LEMMA ActiveHas ==
  ASSUME TInv, NEW s \in Active
  PROVE  ActiveFacts(s)
<1>1. s \in Session /\ run[s].phase # "idle"
  BY DEF Active
<1>2. Good(run[s], Pool(s)) /\ run[s].xid \in Nat /\ s \in DOMAIN run
  BY <1>1, ActiveRun
<1>3. run[s].G \in Nat
  BY <1>2 DEF Good, Runs
<1> QED
  BY <1>1, <1>2, <1>3 DEF ActiveFacts, TInv

LEMMA Insertion ==
  ASSUME TInv, NEW s \in Active, Inserts(s)
  PROVE  \E M : /\ IsFiniteSet(M)
                /\ \A m \in M : /\ Added(s, m) /\ m.id \in (ids + 1) .. ids'
                                /\ \A n \in M : n.id = m.id => n = m
                /\ heap' = heap \cup M /\ ids' \in Nat /\ ids <= ids'
<1>1. PICK made \in SUBSET Entities, c \in Nat :
        /\ IsFiniteSet(made)
        /\ \A e \in made : e.id \in (ids + 1) .. ids'
        /\ \A e, f \in made : e.id = f.id => e = f
        /\ ids' \in Nat /\ ids <= ids'
        /\ heap' = heap \cup {Version(e, run[s].xid, c) : e \in made}
  BY DEF Inserts
<1> DEFINE x == run[s].xid
           M == {Version(e, x, c) : e \in made}
           f == [e \in made |-> Version(e, x, c)]
<1>2. x \in Nat
  BY ActiveHas DEF ActiveFacts
<1>3. \A e \in made : /\ Version(e, x, c) \in Versions /\ Version(e, x, c).id = e.id
                      /\ Version(e, x, c).xmin = x /\ Version(e, x, c).xmax = NoXid
  <2> HIDE DEF x
  <2> QED
    BY <1>2, VersionFields
<1>4. \A m \in M : /\ Added(s, m) /\ m.id \in (ids + 1) .. ids'
                   /\ \A n \in M : n.id = m.id => n = m
  <2>1. ASSUME NEW m \in M PROVE \E e \in made : m = Version(e, x, c) /\ m.id = e.id /\ Added(s, m)
    BY <1>3 DEF Added
  <2> HIDE DEF M
  <2> QED
    BY <1>1, <2>1
<1>5. IsFiniteSet(M)
  <2>1. f \in Surjection(made, M)
    BY DEF Surjection
  <2> HIDE DEF f, M
  <2> QED
    BY <1>1, <2>1, FS_Surjection
<1>6. heap' = heap \cup M
  BY <1>1
<1> HIDE DEF M
<1> QED
  BY <1>1, <1>4, <1>5, <1>6

LEMMA Shutting ==
  ASSUME TInv, NEW s \in Active, NEW v \in heap, OpenTo(s, v)
  PROVE  \E u : Shut(s, v, u) /\ Closed(run[s], v) = (heap \ {v}) \cup {u}
<1>1. v \in Versions /\ run[s].xid \in Nat /\ run[s].G \in Nat
  BY ActiveHas DEF ActiveFacts
<1> QED
  BY <1>1, ClosedFields DEF Shut

LEMMA Removal ==
  ASSUME TInv, NEW s \in Active, Removes(s)
  PROVE  \E v, u : v \in heap /\ Shut(s, v, u) /\ heap' = (heap \ {v}) \cup {u} /\ ids' = ids
BY Shutting DEF Removes

\* Session s removes v, which makes it u, and adds m, the version of entity e.
Replaced(s, v, u, m, e) ==
    /\ v \in heap /\ e \in Entities
    /\ Shut(s, v, u) /\ Added(s, m) /\ m.id = v.id /\ m.id = e.id /\ m.prop = e.prop
    /\ heap' = ((heap \ {v}) \cup {u}) \cup {m} /\ ids' = ids
    /\ (Reaching(s) => e \in Pool(s)')

LEMMA Replacement ==
  ASSUME TInv, NEW s \in Active, Replaces(s)
  PROVE  \E v, u, m, e : Replaced(s, v, u, m, e)
<1>1. PICK v \in heap, e \in Entities :
        /\ OpenTo(s, v) /\ e.id = v.id /\ heap' = Written(run[s], v, e) /\ ids' = ids
        /\ Reaching(s) => e \in Pool(s)'
  BY DEF Replaces
<1>2. PICK u : Shut(s, v, u) /\ Closed(run[s], v) = (heap \ {v}) \cup {u}
  BY <1>1, Shutting
<1> DEFINE x == run[s].xid
           g == run[s].G
           m == Version(e, x, g)
<1>3. x \in Nat /\ g \in Nat
  BY ActiveHas DEF ActiveFacts
<1>4. heap' = ((heap \ {v}) \cup {u}) \cup {m}
  BY <1>1, <1>2 DEF Written
<1> HIDE DEF x, g
<1>5. m \in Versions /\ m.id = e.id /\ m.prop = e.prop /\ m.xmin = x /\ m.xmax = NoXid
  BY <1>3, VersionFields
<1> HIDE DEF m
<1>6. Added(s, m)
  BY <1>5 DEF Added, x
<1>7. Replaced(s, v, u, m, e)
  BY <1>1, <1>2, <1>4, <1>5, <1>6 DEF Replaced
<1> QED
  BY <1>7

LEMMA StepFollowed ==
  ASSUME TInv, Consistent(heap, committed, Active, run), NEW s \in Active, Stepped(s), NEW t \in Active
  PROVE  Followed(t)
<1>1. /\ committed' = committed /\ run[s].xid \notin committed /\ NoXid \notin committed
      /\ run[t].snap \subseteq committed
  BY DEF Stepped, Consistent, Sound
<1>2. \A v, u : Shut(s, v, u) => /\ u.id = v.id /\ u.prop = v.prop /\ u.xmin = v.xmin
                                 /\ v.xmax \notin committed
  BY <1>1 DEF Shut, OpenTo
<1>3. \A m : Added(s, m) => m.xmin \notin committed
  BY <1>1 DEF Added
<1>4. CASE heap' = heap
  BY <1>1, <1>4 DEF Followed
<1>5. CASE Inserts(s)
  <2>1. PICK M : (\A m \in M : Added(s, m)) /\ heap' = heap \cup M
    BY <1>5, Insertion
  <2> QED
    BY <1>1, <1>3, <2>1 DEF Followed
<1>6. CASE Removes(s)
  <2>1. PICK v, u : v \in heap /\ Shut(s, v, u) /\ heap' = (heap \ {v}) \cup {u}
    BY <1>6, Removal
  <2> QED
    BY <1>1, <1>2, <2>1 DEF Followed
<1>7. CASE Replaces(s)
  <2>1. PICK v, u, m, e : Replaced(s, v, u, m, e)
    BY <1>7, Replacement
  <2>2. v \in heap /\ Shut(s, v, u) /\ Added(s, m) /\ heap' = ((heap \ {v}) \cup {u}) \cup {m}
    BY <2>1 DEF Replaced
  <2> QED
    BY <1>1, <1>2, <1>3, <2>2 DEF Followed
<1> QED
  BY <1>4, <1>5, <1>6, <1>7 DEF Stepped

LEMMA StepReached ==
  ASSUME TInv, Consistent(heap, committed, Active, run), NEW s \in Active, Stepped(s)
  PROVE  Reaching(s) /\ Good(run'[s], Pool(s)') /\ run'[s].phase # "idle"
<1>1. Followed(s)
  BY StepFollowed
<1>2. run[s].snap \subseteq committed
  BY ActiveHas DEF ActiveFacts
<1>3. Reaching(s)
  BY <1>1, <1>2, Reached DEF Stepped
<1>4. Good(run'[s], Pool(s)')
  BY <1>3 DEF Stepped
<1>5. run'[s].phase \in {"rows", "ending", "ready"}
  BY <1>4 DEF Good, Runs
<1> QED
  BY <1>3, <1>4, <1>5

LEMMA StepActive ==
  ASSUME TInv, Consistent(heap, committed, Active, run), NEW s \in Active, Stepped(s)
  PROVE  /\ Active' = Active
         /\ \A t \in Session : t # s => run'[t] = run[t]
         /\ run' = [t \in Session |-> run'[t]]
         /\ \A t \in Active : /\ run'[t].xid = run[t].xid /\ run'[t].snap = run[t].snap
                              /\ run[t].said \subseteq run'[t].said
<1>1. run'[s].phase # "idle" /\ s \in Session /\ run[s].phase # "idle"
  BY StepReached DEF Active
<1>2. run' = [run EXCEPT ![s] = run'[s]] /\ run = [t \in Session |-> run[t]]
  BY DEF Stepped, TInv
<1>3. \A t \in Session : t # s => run'[t] = run[t]
  BY <1>2
<1>4. run' = [t \in Session |-> run'[t]]
  BY <1>2
<1>5. Active' = Active
  BY <1>1, <1>3 DEF Active
<1> QED
  BY <1>3, <1>4, <1>5 DEF Stepped, Active

LEMMA StepTyped ==
  ASSUME TInv, NEW s \in Active, Stepped(s)
  PROVE  /\ heap' \in SUBSET Versions /\ IsFiniteSet(heap')
         /\ ids' \in Nat /\ ids <= ids'
         /\ \A v \in heap' : v.id \in 1 .. ids'
<1>1. /\ heap \in SUBSET Versions /\ IsFiniteSet(heap) /\ ids \in Nat
      /\ \A v \in heap : v.id \in 1 .. ids
  BY DEF TInv
<1>2. CASE UNCHANGED <<heap, ids>>
  BY <1>1, <1>2
<1>3. CASE Inserts(s)
  <2>1. PICK M : /\ IsFiniteSet(M)
                 /\ \A m \in M : Added(s, m) /\ m.id \in (ids + 1) .. ids'
                 /\ heap' = heap \cup M /\ ids' \in Nat /\ ids <= ids'
    BY <1>3, Insertion
  <2>2. IsFiniteSet(heap')
    BY <1>1, <2>1, FS_Union
  <2> QED
    BY <1>1, <2>1, <2>2 DEF Added
<1>4. CASE Removes(s)
  <2>1. PICK v, u : v \in heap /\ Shut(s, v, u) /\ heap' = (heap \ {v}) \cup {u} /\ ids' = ids
    BY <1>4, Removal
  <2>2. IsFiniteSet(heap')
    BY <1>1, <2>1, FS_RemoveElement, FS_AddElement
  <2> QED
    BY <1>1, <2>1, <2>2 DEF Shut
<1>5. CASE Replaces(s)
  <2>1. PICK v, u, m, e : Replaced(s, v, u, m, e)
    BY <1>5, Replacement
  <2>2. /\ v \in heap /\ Shut(s, v, u) /\ Added(s, m) /\ m.id = v.id
        /\ heap' = ((heap \ {v}) \cup {u}) \cup {m} /\ ids' = ids
    BY <2>1 DEF Replaced
  <2>3. IsFiniteSet(heap')
    BY <1>1, <2>2, FS_RemoveElement, FS_AddElement
  <2> QED
    BY <1>1, <2>2, <2>3 DEF Shut, Added
<1> QED
  BY <1>2, <1>3, <1>4, <1>5 DEF Stepped

LEMMA StepConsistent ==
  ASSUME TInv, Consistent(heap, committed, Active, run), NEW s \in Active, Stepped(s)
  PROVE  Consistent(heap', committed', Active', run')
<1>1. /\ Active' = Active /\ committed' = committed
      /\ run'[s].xid = run[s].xid /\ run'[s].snap = run[s].snap
  BY StepActive DEF Stepped
<1>2. Consistent(heap, committed, Active, run')
  BY StepActive, SaysMoreConsistent
<1>3. \A v, u : Shut(s, v, u) =>
         /\ v.xmax = NoXid /\ (v.xmin = run'[s].xid \/ v.xmin \in run'[s].snap)
         /\ u.id = v.id /\ u.prop = v.prop /\ u.xmin = v.xmin /\ u.xmax = run'[s].xid
  BY <1>1 DEF Shut, OpenTo
<1>4. \A m : Added(s, m) => m.xmin = run'[s].xid /\ m.xmax = NoXid
  BY <1>1 DEF Added
<1>5. CASE heap' = heap
  BY <1>1, <1>2, <1>5
<1>6. CASE Inserts(s)
  <2>1. PICK M : /\ \A m \in M : /\ Added(s, m) /\ m.id \in (ids + 1) .. ids'
                                 /\ \A n \in M : n.id = m.id => n = m
                 /\ heap' = heap \cup M
    BY <1>6, Insertion
  <2>2. ids \in Nat /\ \A w \in heap : w.id \in 1 .. ids
    BY DEF TInv
  <2>3. \A m \in M : /\ m.xmin = run'[s].xid /\ m.xmax = NoXid
                     /\ \A n \in M : n.id = m.id => n = m
                     /\ \A w \in heap : w.id # m.id
    BY <1>4, <2>1, <2>2
  <2> QED
    BY <1>1, <1>2, <2>1, <2>3, AddConsistent
<1>7. CASE Removes(s)
  <2>1. PICK v, u : v \in heap /\ Shut(s, v, u) /\ heap' = (heap \ {v}) \cup {u}
    BY <1>7, Removal
  <2>2. /\ v.xmax = NoXid /\ (v.xmin = run'[s].xid \/ v.xmin \in run'[s].snap)
        /\ u.id = v.id /\ u.prop = v.prop /\ u.xmin = v.xmin /\ u.xmax = run'[s].xid
    BY <1>3, <2>1
  <2> QED
    BY <1>1, <1>2, <2>1, <2>2, CloseConsistent
<1>8. CASE Replaces(s)
  <2>1. PICK v, u, m, e : Replaced(s, v, u, m, e)
    BY <1>8, Replacement
  <2>2. /\ v \in heap /\ e \in Entities
        /\ Shut(s, v, u) /\ Added(s, m) /\ m.id = v.id /\ m.id = e.id /\ m.prop = e.prop
        /\ heap' = ((heap \ {v}) \cup {u}) \cup {m} /\ e \in Pool(s)'
    BY <2>1, StepReached DEF Replaced
  <2> DEFINE G == (heap \ {v}) \cup {u}
             M == {m}
  <2>3. /\ v.xmax = NoXid /\ (v.xmin = run'[s].xid \/ v.xmin \in run'[s].snap)
        /\ u.id = v.id /\ u.prop = v.prop /\ u.xmin = v.xmin /\ u.xmax = run'[s].xid
    BY <1>3, <2>2
  <2>4. heap' = G \cup M /\ u \in G
    BY <2>2
  <2>5. G = (heap \ {v}) \cup {u}
    OBVIOUS
  <2> HIDE DEF G
  <2>6. /\ Consistent(G, committed, Active, run')
        /\ \A w \in G : w.id = v.id /\ w.xmax \notin committed => w.xmax = run'[s].xid
    <3> DEFINE Q == run'
    <3>1. /\ Consistent(heap, committed, Active, Q)
          /\ v \in heap /\ v.xmax = NoXid /\ (v.xmin = Q[s].xid \/ v.xmin \in Q[s].snap)
          /\ u.id = v.id /\ u.prop = v.prop /\ u.xmin = v.xmin /\ u.xmax = Q[s].xid
      BY <1>2, <2>2, <2>3
    <3> HIDE DEF Q
    <3>2. Consistent(G, committed, Active, Q)
      BY <2>5, <3>1, CloseConsistent
    <3>3. \A w \in G : w.id = v.id /\ w.xmax \notin committed => w.xmax = Q[s].xid
      BY <2>5, <3>1, CloseConsistent
    <3> QED
      BY <3>2, <3>3 DEF Q
  <2>10. run[s].snap \subseteq committed
    BY ActiveHas DEF ActiveFacts
  <2>7. ASSUME NEW w \in G, w.id = m.id, w.xmin \in run'[s].snap, w.xmax \notin committed
        PROVE  Like(run'[s], m, w)
    <3>1. w \in heap' /\ Stands(w)' /\ w.id = e.id
      BY <1>1, <2>2, <2>4, <2>10, <2>7 DEF Stands
    <3>2. Like(run'[s], e, w)
      BY <2>2, <2>7, <3>1 DEF Pool
    <3> QED
      BY <2>2, <3>2, LikeFields
  <2>8. \A n \in M :
          /\ n.xmin = run'[s].xid /\ n.xmax = NoXid
          /\ \A o \in M : o.id = n.id => o = n
          /\ \A w \in G : w.id = n.id /\ w.xmax \notin committed => w.xmax = run'[s].xid
          /\ \E w \in G : w.id = n.id /\ w.xmax = run'[s].xid
          /\ \A w \in G : w.id = n.id /\ w.xmin \in run'[s].snap /\ w.xmax \notin committed =>
                Like(run'[s], n, w)
    BY <1>4, <2>2, <2>3, <2>4, <2>6, <2>7
  <2> HIDE DEF M
  <2>9. Consistent(heap', committed, Active, run')
    BY <2>4, <2>6, <2>8, AddConsistent
  <2> QED
    BY <1>1, <2>9
<1> QED
  BY <1>5, <1>6, <1>7, <1>8 DEF Stepped

-----------------------------------------------------------------------------
(* The invariant is kept *)

IInv == TInv /\ Consistent(heap, committed, Active, run)

\* A session that does nothing keeps its copies.
LEMMA OthersGood ==
  ASSUME TInv, NEW t \in Active, Followed(t), run'[t] = run[t]
  PROVE  Good(run'[t], Pool(t)')
<1>1. Good(run[t], Pool(t)) /\ run[t].snap \subseteq committed
  BY DEF TInv
<1>2. Pool(t) \subseteq Pool(t)'
  BY <1>1, PoolGrows
<1> QED
  BY <1>1, <1>2, GoodGrows

LEMMA StepKeeps ==
  ASSUME IInv, NEW s \in Active, Stepped(s)
  PROVE  IInv'
<1>1. TInv /\ Consistent(heap, committed, Active, run)
  BY DEF IInv
<1>2. Consistent(heap', committed', Active', run')
  BY <1>1, StepConsistent
<1>3. /\ heap' \in SUBSET Versions /\ IsFiniteSet(heap') /\ ids' \in Nat
      /\ \A v \in heap' : v.id \in 1 .. ids'
  BY <1>1, StepTyped
<1>4. /\ Active' = Active /\ run' = [t \in Session |-> run'[t]]
      /\ \A t \in Session : t # s => run'[t] = run[t]
      /\ \A t \in Active : run'[t].xid = run[t].xid /\ run'[t].snap = run[t].snap
  BY <1>1, StepActive
<1>5. committed' = committed /\ started' = started
  BY DEF Stepped
<1>6. \A t \in Active : Good(run'[t], Pool(t)')
  <2>1. Good(run'[s], Pool(s)')
    BY <1>1, StepReached
  <2>2. ASSUME NEW t \in Active, t # s PROVE Good(run'[t], Pool(t)')
    <3>1. Followed(t)
      BY <1>1, StepFollowed
    <3>2. run'[t] = run[t]
      BY <1>4, <2>2 DEF Active
    <3> QED
      BY <1>1, <3>1, <3>2, OthersGood
  <2> QED
    BY <2>1, <2>2
<1>7. /\ started \in Nat /\ committed \in SUBSET (0 .. started)
      /\ \A t \in Session \ Active : run[t] = Idle
      /\ \A t \in Active : run[t].xid \in 1 .. started /\ run[t].snap \subseteq committed
  BY <1>1 DEF TInv
<1>8. \A t \in Session \ Active : run'[t] = Idle
  BY <1>4, <1>7
<1>9. TInv'
  BY <1>3, <1>4, <1>5, <1>6, <1>7, <1>8 DEF TInv
<1> QED
  BY <1>2, <1>9 DEF IInv

\* Session s ends its transaction.
LEMMA EndKeeps ==
  ASSUME IInv, NEW s \in Active, run' = [run EXCEPT ![s] = Idle],
         ids' = ids, started' = started, committed' \in SUBSET (0 .. started),
         committed \subseteq committed',
         heap' \in SUBSET Versions, IsFiniteSet(heap'), \A v \in heap' : v.id \in 1 .. ids,
         \A t \in Active : t # s => Followed(t),
         Consistent(heap', committed', Active \ {s}, run)
  PROVE  IInv'
<1>1. TInv
  BY DEF IInv
<1>2. run = [t \in Session |-> run[t]] /\ s \in Session
  BY <1>1 DEF TInv, Active
<1>3. /\ run'[s] = Idle /\ \A t \in Session : t # s => run'[t] = run[t]
  BY <1>2
<1>4. run' = [t \in Session |-> run'[t]]
  BY <1>2
<1>5. Active' = Active \ {s}
  BY <1>2, <1>3 DEF Active, Idle
<1>6. Consistent(heap', committed', Active', run')
  <2>1. \A t \in Active \ {s} : run'[t] = run[t]
    BY <1>3 DEF Active
  <2> QED
    BY <1>5, <2>1, SaysMoreConsistent
<1>7. \A t \in Active' : Good(run'[t], Pool(t)')
  <2>1. ASSUME NEW t \in Active, t # s PROVE Good(run'[t], Pool(t)')
    <3>1. run'[t] = run[t]
      BY <1>3, <2>1 DEF Active
    <3> QED
      BY <1>1, <2>1, <3>1, OthersGood
  <2> QED
    BY <1>5, <2>1
<1>8. /\ started \in Nat /\ ids \in Nat
      /\ \A t \in Session \ Active : run[t] = Idle
      /\ \A t \in Active : run[t].xid \in 1 .. started /\ run[t].snap \subseteq committed
  BY <1>1 DEF TInv
<1>9. \A t \in Session \ Active' : run'[t] = Idle
  BY <1>3, <1>5, <1>8
<1>10. \A t \in Active' : run'[t].xid \in 1 .. started' /\ run'[t].snap \subseteq committed'
  BY <1>3, <1>5, <1>8 DEF Active
<1>11. TInv'
  BY <1>4, <1>7, <1>8, <1>9, <1>10 DEF TInv
<1> QED
  BY <1>6, <1>11 DEF IInv

LEMMA FailKeeps ==
  ASSUME IInv, NEW s \in Active, Fail(s), UNCHANGED started
  PROVE  IInv'
<1> DEFINE x == run[s].xid
           S == {w \in heap : w.xmin # x}
           f == [v \in S |-> Undone(v, x)]
<1>1. TInv /\ Consistent(heap, committed, Active, run)
  BY DEF IInv
<1>2. heap' = {Undone(v, x) : v \in S}
  BY Zenon DEF Fail, Undone
<1>3. run' = [run EXCEPT ![s] = Idle] /\ committed' = committed /\ ids' = ids
  BY Zenon DEF Fail
<1>4. /\ heap \in SUBSET Versions /\ IsFiniteSet(heap) /\ committed \in SUBSET (0 .. started)
      /\ \A v \in heap : v.id \in 1 .. ids
      /\ \A t \in Active : run[t].snap \subseteq committed
  BY <1>1 DEF TInv
<1>5. IsFiniteSet(heap')
  <2>1. f \in Surjection(S, heap')
    BY <1>2 DEF Surjection
  <2>2. IsFiniteSet(S)
    BY <1>4, FS_Subset
  <2> HIDE DEF f, S
  <2> QED
    BY <2>1, <2>2, FS_Surjection
<1>6. \A y \in heap' : \E v \in heap :
         /\ y \in Versions /\ y.id = v.id /\ y.prop = v.prop /\ y.xmin = v.xmin /\ y.cmin = v.cmin
         /\ (y.xmax = v.xmax \/ v.xmax = x)
  BY <1>2, <1>4, UndoneFields
<1>7. x \notin committed
  BY <1>1 DEF Consistent, Sound
<1>8. \A t \in Active : Followed(t)
  BY <1>3, <1>6, <1>7 DEF Followed
<1>9. Consistent(heap', committed', Active \ {s}, run)
  BY <1>1, <1>2, <1>3, <1>4, UndoneConsistent
<1>10. heap' \in SUBSET Versions /\ \A v \in heap' : v.id \in 1 .. ids
  BY <1>4, <1>6
<1> HIDE DEF x, S, f
<1> QED
  BY <1>3, <1>4, <1>5, <1>8, <1>9, <1>10, EndKeeps

LEMMA CommitKeeps ==
  ASSUME IInv, NEW s \in Session, Commit(s)
  PROVE  IInv'
<1>1. TInv /\ Consistent(heap, committed, Active, run) /\ s \in Active
  BY DEF IInv, Commit, Active
<1>2. /\ run' = [run EXCEPT ![s] = Idle] /\ committed' = committed \cup {run[s].xid}
      /\ heap' = heap /\ ids' = ids /\ started' = started
  BY DEF Commit
<1>3. /\ heap \in SUBSET Versions /\ IsFiniteSet(heap) /\ committed \in SUBSET (0 .. started)
      /\ \A v \in heap : v.id \in 1 .. ids
      /\ run[s].xid \in 1 .. started /\ started \in Nat
  BY <1>1 DEF TInv
<1>4. committed' \in SUBSET (0 .. started)
  <2> DEFINE x == run[s].xid
  <2>1. x \in 0 .. started /\ committed' = committed \cup {x}
    BY <1>2, <1>3
  <2> HIDE DEF x
  <2> QED
    BY <1>3, <2>1
<1>5. Consistent(heap', committed', Active \ {s}, run)
  BY <1>1, <1>2, CommitConsistent
<1>6. \A t \in Active : Followed(t)
  BY <1>2 DEF Followed
<1> QED
  BY <1>1, <1>2, <1>3, <1>4, <1>5, <1>6, EndKeeps


LEMMA NullFields == Null \in Entities /\ Null.id = 0
<1> DEFINE prop == [p \in Prop |-> None]
<1>1. prop \in [Prop -> Values]
  BY DEF Values
<1>2. Null = [id |-> 0, ends |-> <<>>, prop |-> prop]
  BY DEF Null
<1> HIDE DEF prop
<1> QED
  BY <1>1, <1>2 DEF Entities

\* A session that was idle has said nothing, one that ended a statement goes on.
LEMMA OldRun ==
  ASSUME TInv, NEW s \in Session, run[s].phase \in {"idle", "ready"}
  PROVE  /\ Incremented(run[s]).xid = run[s].xid /\ Incremented(run[s]).said = run[s].said
         /\ Incremented(run[s]).G \in Nat /\ run[s].said \in SUBSET Items
         /\ s \notin Active => run[s].xid = NoXid
         /\ s \in Active => run[s].xid \in 1 .. started
<1>1. CASE s \in Active
  <2>1. Good(run[s], Pool(s)) /\ run[s].xid \in 1 .. started
    BY <1>1 DEF TInv
  <2>2. Good(Incremented(run[s]), Pool(s)) /\ Later(run[s], Incremented(run[s]))
    BY <2>1, IncrementedGood
  <2> QED
    BY <1>1, <2>1, <2>2 DEF Good, Runs, Later
<1>2. CASE s \notin Active
  <2>1. run[s] = Idle
    BY <1>2 DEF TInv
  <2>2. Incremented(Idle) = Idle /\ Idle.xid = NoXid /\ Idle.said = {} /\ Idle.G = 0
    BY DEF Incremented, Idle
  <2> QED
    BY <1>2, <2>1, <2>2
<1> QED
  BY <1>1, <1>2

\* The record of a run that starts.
Started(st, x, at, C, g, fixed, rows, said) ==
    [phase |-> "rows", xid |-> x, stmt |-> st, at |-> at, snap |-> C,
     G |-> g, used |-> FALSE, base |-> g, b |-> g,
     rows |-> rows, n |-> 0, todo |-> <<>>, level |-> Len(st.clauses),
     deleted |-> [k \in DOMAIN st.clauses |-> {}],
     created |-> [k \in DOMAIN st.clauses |-> {}],
     fixed |-> fixed, inner |-> [k \in DOMAIN st.clauses |-> <<>>], said |-> said]

LEMMA StartedGood ==
  ASSUME NEW E, NEW st \in Statement, NEW x \in Nat, NEW at \in Nat, NEW C \in SUBSET Nat,
         NEW g \in Nat, NEW fixed \in BOOLEAN, NEW rows \in SUBSET Rows(E), NEW said \in SUBSET Items,
         \A q \in rows : Sourced(st.source) \subseteq DOMAIN q.ent
  PROVE  Good(Started(st, x, at, C, g, fixed, rows, said), E)
<1> DEFINE l == Len(st.clauses)
           deleted == [k \in DOMAIN st.clauses |-> {}]
           created == [k \in DOMAIN st.clauses |-> {}]
           inner == [k \in DOMAIN st.clauses |-> <<>>]
           todo == <<>>
           q == [phase |-> "rows", xid |-> x, stmt |-> st, at |-> at, snap |-> C,
                 G |-> g, used |-> FALSE, base |-> g, b |-> g,
                 rows |-> rows, n |-> 0, todo |-> todo, level |-> l,
                 deleted |-> deleted, created |-> created,
                 fixed |-> fixed, inner |-> inner, said |-> said]
<1>1. l \in Nat \ {0} /\ DOMAIN st.clauses = 1 .. l
  BY ParsedStatement
<1>2. Started(st, x, at, C, g, fixed, rows, said) = q
  BY DEF Started
<1>3. deleted \in Seq(SUBSET Nat) /\ Len(deleted) = l
  BY <1>1
<1>4. created \in Seq(SUBSET Merged(E)) /\ Len(created) = l /\ \A k \in 1 .. l : created[k] = {}
  BY <1>1
<1>5. inner \in Seq(Seq(Views(E))) /\ Len(inner) = l
  <2>1. \A k \in 1 .. l : <<>> \in Seq(Views(E))
    OBVIOUS
  <2> QED
    BY <1>1, <2>1
<1>6. todo \in Seq(Works(E)) /\ Len(todo) = 0
  OBVIOUS
<1>7. Scope(st, 1) = Sourced(st.source)
  BY DEF Scope
<1>8. l = Len(st.clauses) /\ l \in Int /\ g \in Int
  BY <1>1
<1> HIDE DEF l, deleted, created, inner, todo
<1>9. q \in Runs(E)
  BY <1>3, <1>4, <1>5, <1>6, <1>8 DEF Runs
<1>10. /\ q.stmt = st /\ q.rows = rows /\ q.todo = todo /\ q.created = created /\ q.inner = inner
  OBVIOUS
<1> HIDE DEF q
<1>11. Fits(q)
  BY <1>4, <1>5, <1>6, <1>7, <1>8, <1>10 DEF Fits, Reaches
<1> QED
  BY <1>2, <1>9, <1>11 DEF Good

LEMMA StartedFields ==
  ASSUME NEW st, NEW x, NEW at, NEW C, NEW g, NEW fixed, NEW rows, NEW said, NEW q,
         q = Started(st, x, at, C, g, fixed, rows, said)
  PROVE  /\ q.phase = "rows" /\ q.xid = x /\ q.snap = C /\ q.said = said /\ q.b = g /\ q.stmt = st
BY DEF Started

LEMMA RowsReplaced ==
  ASSUME NEW E, NEW r, Good(r, E), NEW rows \in SUBSET Rows(E),
         \A o \in rows : Reaches(r.stmt, o, 1), NEW q, q = [r EXCEPT !.rows = rows]
  PROVE  Good(q, E) /\ Later(r, q) /\ q.phase = r.phase
BY DEF Good, Runs, Fits, Later

LEMMA Starting ==
  ASSUME NEW s, Start(s)
  PROVE  \E st \in Statement, fixed \in BOOLEAN :
            LET old == Incremented(run[s])
                x   == IF old.xid = NoXid THEN started' ELSE old.xid
                r   == Started(st, x, started', committed, old.G, fixed, {}, old.said)
            IN  run' = [run EXCEPT ![s] = [r EXCEPT !.rows = DrivingRows(r, st.source, r.b)]]
<1> DEFINE old == Incremented(run[s])
           x   == IF old.xid = NoXid THEN started' ELSE old.xid
           r(st, fixed) == [phase |-> "rows", xid |-> x,
                            stmt |-> st, at |-> started', snap |-> committed,
                            G |-> old.G, used |-> FALSE, base |-> old.G, b |-> old.G,
                            rows |-> {}, n |-> 0, todo |-> <<>>, level |-> Len(st.clauses),
                            deleted |-> [k \in DOMAIN st.clauses |-> {}],
                            created |-> [k \in DOMAIN st.clauses |-> {}],
                            fixed |-> fixed, inner |-> [k \in DOMAIN st.clauses |-> <<>>],
                            said |-> old.said]
<1>1. PICK st \in Statement, fixed \in BOOLEAN :
        /\ fixed => \E k \in 2 .. Len(st.clauses) : st.clauses[k].op = "merge"
        /\ run' = [run EXCEPT ![s] = [r(st, fixed) EXCEPT !.rows =
                                        DrivingRows(r(st, fixed), st.source, r(st, fixed).b)]]
  BY Zenon DEF Start
<1> DEFINE q == r(st, fixed)
<1>2. q = Started(st, x, started', committed, old.G, fixed, {}, old.said)
  BY DEF Started
<1>3. run' = [run EXCEPT ![s] = [q EXCEPT !.rows = DrivingRows(q, st.source, q.b)]]
  BY <1>1
<1> HIDE DEF q
<1> WITNESS st \in Statement, fixed \in BOOLEAN
<1> QED
  BY <1>2, <1>3, Zenon

LEMMA StartKeeps ==
  ASSUME IInv, NEW s \in Session, Start(s)
  PROVE  IInv'
<1> DEFINE old == Incremented(run[s])
           x == IF old.xid = NoXid THEN started' ELSE old.xid
           at == started'
           g == old.G
           said == old.said
<1>1. TInv /\ Consistent(heap, committed, Active, run)
  BY DEF IInv
<1>2. /\ run[s].phase \in {"idle", "ready"} /\ started' = started + 1
      /\ heap' = heap /\ committed' = committed /\ ids' = ids
  BY DEF Start
<1>3. /\ heap \in SUBSET Versions /\ IsFiniteSet(heap) /\ ids \in Nat /\ started \in Nat
      /\ committed \in SUBSET (0 .. started)
      /\ \A v \in heap : v.id \in 1 .. ids
      /\ run = [t \in Session |-> run[t]]
      /\ \A t \in Session \ Active : run[t] = Idle
      /\ \A t \in Active : run[t].xid \in 1 .. started /\ run[t].snap \subseteq committed
  BY <1>1 DEF TInv
<1>4. /\ g \in Nat /\ said = run[s].said /\ said \in SUBSET Items
      /\ s \notin Active => x = started + 1
      /\ s \in Active => x = run[s].xid
  BY <1>1, <1>2, <1>3, OldRun DEF NoXid
<1>5. PICK st \in Statement, fixed \in BOOLEAN :
        LET r == Started(st, x, at, committed, g, fixed, {}, said)
        IN  run' = [run EXCEPT ![s] = [r EXCEPT !.rows = DrivingRows(r, st.source, r.b)]]
  BY Zenon, Starting
<1> DEFINE r == Started(st, x, at, committed, g, fixed, {}, said)
           rows == DrivingRows(r, st.source, g)
           q == [r EXCEPT !.rows = rows]
<1>6. x \in 1 .. started' /\ at \in Nat /\ x # NoXid /\ x \in Nat
  BY <1>2, <1>3, <1>4 DEF NoXid
<1> HIDE DEF x, g, said, at, old
<1>7. run' = [run EXCEPT ![s] = [r EXCEPT !.rows = DrivingRows(r, st.source, r.b)]]
  BY <1>5
<1>8. /\ r.phase = "rows" /\ r.xid = x /\ r.snap = committed /\ r.said = said /\ r.b = g
      /\ r.stmt = st
  BY StartedFields
<1>24. committed \in SUBSET Nat /\ st.source \in Source /\ Scope(st, 1) = Sourced(st.source)
  BY <1>3, ParsedStatement DEF Scope
<1>25. \A E : Good(r, E)
  <2> DEFINE none == {}
  <2>1. ASSUME NEW E PROVE Good(Started(st, x, at, committed, g, fixed, none, said), E)
    <3>1. none \in SUBSET Rows(E) /\ \A o \in none : Sourced(st.source) \subseteq DOMAIN o.ent
      OBVIOUS
    <3>2. g \in Nat /\ said \in SUBSET Items /\ x \in Nat /\ at \in Nat /\ committed \in SUBSET Nat
      BY <1>4, <1>6, <1>24
    <3> HIDE DEF none, r
    <3> QED
      BY <3>1, <3>2, StartedGood
  <2> QED
    BY <2>1
<1> HIDE DEF r
<1>9. q.phase = "rows" /\ q.xid = x /\ q.snap = committed /\ q.said = said
  <2>1. r \in Runs({})
    BY <1>25 DEF Good
  <2> HIDE DEF rows
  <2> QED
    BY <1>8, <2>1 DEF Runs
<1>10. run' = [run EXCEPT ![s] = q]
  BY <1>7, <1>8
<1> HIDE DEF q
<1>11. View(r, g) = View(q, g)
  BY <1>8, <1>9 DEF View, Visible, Sees
<1> HIDE DEF rows
<1>12. /\ run'[s] = q /\ \A t \in Session : t # s => run'[t] = run[t]
  BY <1>3, <1>10
<1>13. run' = [t \in Session |-> run'[t]]
  BY <1>3, <1>10
<1>14. Active' = Active \cup {s}
  BY <1>9, <1>12 DEF Active
<1>15. \A t \in Active \ {s} : run'[t] = run[t]
  BY <1>12 DEF Active
<1>16. Consistent(heap, committed, Active \cup {s}, run')
  <2> DEFINE Q == run'
  <2>1. /\ \A t \in Active \ {s} : /\ Q[t].xid = run[t].xid /\ Q[t].snap = run[t].snap
                                   /\ run[t].said \subseteq Q[t].said
        /\ Q[s].snap = committed /\ Q[s].xid = x /\ run[s].said \subseteq Q[s].said
    BY <1>4, <1>9, <1>12, <1>15
  <2>2. \/ s \in Active /\ Q[s].xid = run[s].xid
        \/ /\ s \notin Active /\ Q[s].xid # NoXid /\ Q[s].xid \notin committed
           /\ \A t \in Active : run[t].xid # Q[s].xid
    BY <1>3, <1>4, <1>6, <2>1
  <2> HIDE DEF Q
  <2>3. Consistent(heap, committed, Active \cup {s}, Q)
    BY <1>1, <2>1, <2>2, StartConsistent
  <2> QED
    BY <2>3 DEF Q
<1>17. Good(run'[s], Pool(s)')
  <2> DEFINE E == Pool(s)'
  <2>1. View(q, g) \subseteq E
    <3> SUFFICES ASSUME NEW e \in View(q, g) PROVE e \in E
      OBVIOUS
    <3>1. e \in View(run'[s], g)
      BY <1>12
    <3>2. /\ e \in Entities
          /\ \A w \in heap : w.id = e.id /\ Stands(w) /\ w.xmin \in run'[s].snap => Like(run'[s], e, w)
      BY <1>3, <1>16, <3>1, ViewAlike
    <3> QED
      BY <1>2, <3>2 DEF Pool, Stands
  <2>2. Null \in E
    BY <1>2, <1>3, NullFields DEF Pool
  <2> HIDE DEF E
  <2>3. rows \subseteq Rows(E) /\ \A o \in rows : Sourced(st.source) \subseteq DOMAIN o.ent
    BY <1>11, <1>24, <2>1, <2>2, DrivingRowsGood DEF rows
  <2>4. \A o \in rows : Reaches(r.stmt, o, 1)
    BY <1>8, <1>24, <2>3 DEF Reaches
  <2>5. Good(r, E)
    BY <1>25
  <2>6. Good(q, E)
    BY <2>3, <2>4, <2>5, RowsReplaced DEF q
  <2> QED
    BY <1>12, <2>6 DEF E
<1>18. ASSUME NEW t \in Active, t # s PROVE Good(run'[t], Pool(t)')
  <2>1. Followed(t)
    BY <1>2 DEF Followed
  <2> QED
    BY <1>1, <1>15, <1>18, <2>1, OthersGood
<1>19. \A t \in Active' : Good(run'[t], Pool(t)')
  BY <1>14, <1>17, <1>18
<1>20. \A t \in Active' : run'[t].xid \in 1 .. started' /\ run'[t].snap \subseteq committed'
  <2>1. run'[s].xid \in 1 .. started' /\ run'[s].snap \subseteq committed'
    BY <1>2, <1>6, <1>9, <1>12
  <2>2. ASSUME NEW t \in Active, t # s
        PROVE  run'[t].xid \in 1 .. started' /\ run'[t].snap \subseteq committed'
    <3>1. run'[t] = run[t] /\ run[t].xid \in 1 .. started /\ run[t].snap \subseteq committed
      BY <1>3, <1>15, <2>2
    <3> QED
      BY <1>2, <1>3, <3>1
  <2> QED
    BY <1>14, <2>1, <2>2
<1>21. \A t \in Session \ Active' : run'[t] = Idle
  BY <1>3, <1>12, <1>14
<1>22. started' \in Nat /\ committed' \in SUBSET (0 .. started')
  BY <1>2, <1>3
<1>23. TInv'
  BY <1>2, <1>3, <1>13, <1>19, <1>20, <1>21, <1>22 DEF TInv
<1> QED
  BY <1>2, <1>14, <1>16, <1>23 DEF IInv

\* A step starts a statement, ends a transaction, or is one of a statement's.
LEMMA NextCases ==
  ASSUME IInv, Next
  PROVE  \E s \in Session : \/ Start(s) \/ Commit(s)
                            \/ s \in Active /\ Stepped(s)
                            \/ s \in Active /\ Fail(s) /\ UNCHANGED started
<1>1. TInv /\ Consistent(heap, committed, Active, run)
  BY DEF IInv
<1>2. PICK s \in Session :
         \/ Start(s) \/ Pull(s) \/ Exhausted(s) \/ Commit(s) \/ Abort(s)
         \/ exec_cypher_create(s) \/ exec_cypher_merge(s)
         \/ process_update_list(s) \/ process_delete_list(s)
         \/ end_cypher_clause(s) \/ check_for_connected_edges(s)
  BY Zenon DEF Next
<1>3. ASSUME NEW op, At(s, op) PROVE s \in Active
  BY <1>3 DEF At, Active
<1>4. ASSUME NEW ops, Ending(s, ops) PROVE s \in Active
  BY <1>4 DEF Ending, Active
<1>5. CASE Pull(s) \/ Exhausted(s)
  <2>1. run[s].phase = "rows"
    BY <1>5, Zenon DEF Pull, Exhausted
  <2> QED
    BY <1>1, <1>5, <2>1, PullStep, ExhaustedStep DEF Active
<1>6. CASE end_cypher_clause(s)
  <2>1. s \in Active
    BY <1>4, <1>6, Zenon DEF end_cypher_clause
  <2> QED
    BY <1>1, <1>6, <2>1, EndClauseStep
<1>7. CASE check_for_connected_edges(s)
  <2>1. s \in Active /\ UNCHANGED started
    BY <1>4, <1>7, Zenon DEF check_for_connected_edges
  <2> QED
    BY <1>1, <1>7, <2>1, ConnectedEdgesStep
<1>8. CASE exec_cypher_create(s)
  <2>1. s \in Active /\ UNCHANGED started
    BY <1>3, <1>8, Zenon DEF exec_cypher_create
  <2> QED
    BY <1>1, <1>8, <2>1, CreateStep
<1>9. CASE exec_cypher_merge(s)
  <2>1. s \in Active /\ UNCHANGED started
    BY <1>3, <1>9, Zenon DEF exec_cypher_merge
  <2>2. Sighted(s)
    BY <1>1, <2>1, SightedActive
  <2> QED
    BY <1>1, <1>9, <2>1, <2>2, MergeStep
<1>10. CASE process_update_list(s)
  <2>1. s \in Active /\ UNCHANGED started
    BY <1>3, <1>10, Zenon DEF process_update_list
  <2> QED
    BY <1>1, <1>10, <2>1, SetStep
<1>11. CASE process_delete_list(s)
  <2>1. s \in Active /\ UNCHANGED started
    BY <1>3, <1>11, Zenon DEF process_delete_list
  <2> QED
    BY <1>1, <1>11, <2>1, DeleteStep
<1>12. CASE Abort(s)
  <2>1. s \in Active /\ Fail(s) /\ UNCHANGED started
    BY <1>12 DEF Abort, Active
  <2> QED
    BY <2>1
<1> QED
  BY <1>2, <1>5, <1>6, <1>7, <1>8, <1>9, <1>10, <1>11, <1>12

LEMMA InvInitial ==
  ASSUME Init
  PROVE  IInv
<1> DEFINE f == [e \in Graph |-> Version(e, 0, 0)]
<1>1. /\ heap = {Version(e, 0, 0) : e \in Graph} /\ committed = {0} /\ ids = Cardinality(Graph)
      /\ run = [s \in Session |-> Idle] /\ started = 0
  BY DEF Init
<1>2. /\ IsFiniteSet(Graph) /\ Cardinality(Graph) \in Nat
      /\ \A e \in Graph : e \in Entities /\ e.id \in 1 .. Cardinality(Graph)
      /\ \A e, g \in Graph : e.id = g.id => e = g
  BY GraphAssumption, FS_CardinalityType DEF Entities, Values
<1>3. \A v \in heap : \E e \in Graph :
         v = Version(e, 0, 0) /\ v \in Versions /\ v.id = e.id /\ v.xmin = 0 /\ v.xmax = NoXid
  BY <1>1, <1>2, VersionFields
<1>4. IsFiniteSet(heap)
  <2>1. f \in Surjection(Graph, heap)
    BY <1>1 DEF Surjection
  <2> HIDE DEF f
  <2> QED
    BY <1>2, <2>1, FS_Surjection
<1>5. \A s \in Session : run[s] = Idle
  BY <1>1
<1>6. Active = {}
  BY <1>5 DEF Active, Idle
<1>7. \A v, w \in heap : v.id = w.id => v = w
  BY <1>2, <1>3
<1>8. /\ heap \in SUBSET Versions /\ \A v \in heap : v.id \in 1 .. ids
  BY <1>1, <1>2, <1>3
<1>9. TInv
  BY <1>1, <1>2, <1>4, <1>5, <1>6, <1>8 DEF TInv
<1>10. Sound(heap, committed, Active, run)
  BY <1>1, <1>3, <1>6 DEF Sound, NoXid
<1>11. One(heap, committed) /\ Root(heap, committed)
  BY <1>1, <1>3, <1>7 DEF One, Root
<1>12. Chain(heap, committed, Active, run) /\ Own(heap, committed, Active, run)
  BY <1>6 DEF Chain, Own
<1> QED
  BY <1>9, <1>10, <1>11, <1>12 DEF IInv, Consistent

LEMMA InvStep ==
  ASSUME IInv, [Next]_vars
  PROVE  IInv'
<1>1. CASE Next
  <2>1. PICK s \in Session : \/ Start(s) \/ Commit(s)
                             \/ s \in Active /\ Stepped(s)
                             \/ s \in Active /\ Fail(s) /\ UNCHANGED started
    BY <1>1, NextCases
  <2> QED
    BY <2>1, StartKeeps, CommitKeeps, StepKeeps, FailKeeps
<1>2. CASE UNCHANGED vars
  <2>1. heap' = heap /\ committed' = committed /\ ids' = ids /\ run' = run /\ started' = started
    BY <1>2 DEF vars
  <2>2. Active' = Active
    BY <2>1 DEF Active
  <2>3. \A t \in Active : Good(run[t], Pool(t)) => Good(run'[t], Pool(t)')
    <3>1. \A t : Pool(t)' = Pool(t)
      BY <2>1 DEF Pool, Stands
    <3> QED
      BY <2>1, <3>1
  <2>4. TInv'
    BY <2>1, <2>2, <2>3 DEF IInv, TInv
  <2> QED
    BY <2>1, <2>2, <2>4 DEF IInv
<1> QED
  BY <1>1, <1>2

LEMMA Invariant == Spec => []IInv
BY InvInitial, InvStep, PTL DEF Spec

-----------------------------------------------------------------------------
(* The theorems *)

LEMMA InvTyped ==
  ASSUME IInv
  PROVE  TypeOK
<1>1. TInv /\ Sound(heap, committed, Active, run) /\ One(heap, committed)
  BY DEF IInv, Consistent
<1>2. \A v \in heap : v \in Versions /\ v.id \in 1 .. ids
  BY <1>1 DEF TInv
<1>3. \A v \in heap : v.prop \in [Prop -> Value \cup {None}] /\ v.xmin # NoXid
  BY <1>2 DEF Versions, Values, NoXid
<1>4. \A v, w \in heap : v.id = w.id /\ v.xmax = NoXid /\ w.xmax = NoXid => v = w
  BY <1>1, <1>3 DEF One, Sound
<1>5. ASSUME NEW s \in Session PROVE run[s].phase \in {"idle", "rows", "ending", "ready"}
  <2>1. CASE s \in Active
    BY <1>1, <2>1 DEF TInv, Good, Runs
  <2>2. CASE s \notin Active
    BY <2>2 DEF Active
  <2> QED
    BY <2>1, <2>2
<1> QED
  BY <1>2, <1>3, <1>4, <1>5 DEF TypeOK

\* Values stay in their sets, every id was drawn from a sequence (create_vertex,
\* create_edge, merge_vertex, merge_edge), and no two versions of an entity are
\* ever open, whichever sessions write it: update_entity_tuple and
\* delete_entity close the version they have locked.
THEOREM WriteTypeCorrect == Spec => []TypeOK
BY Invariant, InvTyped, PTL

\* Version v has another triple than those of the heap.
Unheard(v) == \A u \in heap : <<u.id, u.xmin, u.cmin>> # <<v.id, v.xmin, v.cmin>>

\* What others wrote of the entity of version v stays.
Saves(v) ==
    LET before == {w \in heap : w.id = v.id /\ w.xmin \in committed}
    IN  /\ before # {} => \E w \in before : Stands(w)
        /\ \A w \in before, p \in Prop :
              Stands(w) /\ v.prop[p] # w.prop[p] =>
                 \E s \in Session : /\ run[s].xid = v.xmin
                                    /\ \E m \in run'[s].said : m.id = v.id /\ m.p = p

SavesAll == \A v \in heap' : Unheard(v) => Saves(v)

\* A session writes over what stands.
LEMMA ReplacementSaves ==
  ASSUME IInv, NEW s \in Active, Stepped(s), NEW v, NEW u, NEW m, NEW e, Replaced(s, v, u, m, e)
  PROVE  Saves(m)
<1>1. TInv /\ Consistent(heap, committed, Active, run)
  BY DEF IInv
<1>2. /\ v \in heap /\ Shut(s, v, u) /\ Added(s, m) /\ m.id = v.id
      /\ heap' = ((heap \ {v}) \cup {u}) \cup {m}
  BY DEF Replaced
<1>3. /\ v.xmax = NoXid /\ (v.xmin = run[s].xid \/ v.xmin \in run[s].snap)
      /\ u.id = v.id /\ u.prop = v.prop /\ u.xmin = v.xmin /\ u.xmax = run[s].xid
      /\ m.xmin = run[s].xid
  BY <1>2 DEF Shut, OpenTo, Added
<1>4. /\ NoXid \notin committed /\ run[s].xid \notin committed /\ run[s].snap \subseteq committed
      /\ Root(heap, committed)
  BY <1>1 DEF Consistent, Sound
<1>5. ASSUME NEW w \in heap, w.id = m.id, w.xmin \in committed
      PROVE  \E o \in heap : o.id = m.id /\ o.xmin \in committed /\ Stands(o)
  <2>1. CASE v.xmin \in committed
    BY <1>2, <1>3, <1>4, <2>1 DEF Stands
  <2>2. CASE v.xmin = run[s].xid
    <3>1. w.xmin # v.xmin /\ w.id = v.id
      BY <1>2, <1>4, <1>5, <2>2
    <3>2. PICK o \in heap : o.id = v.id /\ o.xmin \in committed /\ o.xmax = v.xmin
      BY <1>2, <1>4, <2>2, <3>1 DEF Root
    <3> QED
      BY <1>2, <1>4, <2>2, <3>2 DEF Stands
  <2> QED
    BY <1>3, <1>4, <2>1, <2>2
<1>6. /\ committed' = committed /\ Active' = Active /\ run'[s].xid = run[s].xid
      /\ Own(heap', committed', Active', run')
  BY <1>1, StepActive, StepConsistent DEF Stepped, Consistent
<1>7. ASSUME NEW w \in heap, w.id = m.id, Stands(w) PROVE Like(run'[s], m, w)
  <2>1. PICK o \in heap' : /\ o.id = m.id /\ o.prop = w.prop
                           /\ o.xmin \in committed' /\ o.xmax \notin committed'
    BY <1>2, <1>3, <1>4, <1>6, <1>7 DEF Stands
  <2>2. m \in heap' /\ m.xmin = run'[s].xid
    BY <1>2, <1>3, <1>6
  <2>3. Like(run'[s], m, o)
    BY <1>6, <2>1, <2>2 DEF Own
  <2> QED
    BY <2>1, <2>3, LikeFields
<1>8. s \in Session
  BY DEF Active
<1> DEFINE before == {w \in heap : w.id = m.id /\ w.xmin \in committed}
<1>9. before # {} => \E w \in before : Stands(w)
  BY <1>5
<1>10. ASSUME NEW w \in before, NEW p \in Prop, Stands(w), m.prop[p] # w.prop[p]
       PROVE  \E t \in Session : /\ run[t].xid = m.xmin
                                 /\ \E o \in run'[t].said : o.id = m.id /\ o.p = p
  <2>1. SaidOf(run'[s], m.id, p)
    BY <1>7, <1>10 DEF Like
  <2> QED
    BY <1>3, <1>8, <2>1 DEF SaidOf
<1> QED
  BY <1>9, <1>10 DEF Saves

LEMMA StepSaves ==
  ASSUME IInv, NEW s \in Active, Stepped(s)
  PROVE  SavesAll
<1>1. TInv
  BY DEF IInv
<1>2. \A v \in heap : ~Unheard(v)
  BY DEF Unheard
<1>3. \A v, u : v \in heap /\ Shut(s, v, u) => ~Unheard(u)
  BY DEF Shut, Unheard
<1>4. CASE heap' = heap
  BY <1>2, <1>4 DEF SavesAll
<1>5. CASE Inserts(s)
  <2>1. PICK M : (\A m \in M : Added(s, m) /\ m.id \in (ids + 1) .. ids') /\ heap' = heap \cup M
    BY <1>1, <1>5, Insertion
  <2>2. ids \in Nat /\ \A w \in heap : w.id \in 1 .. ids
    BY <1>1 DEF TInv
  <2>3. \A m \in M, w \in heap : w.id # m.id
    BY <2>1, <2>2
  <2>4. \A m \in M : Saves(m)
    BY <2>3 DEF Saves
  <2> QED
    BY <1>2, <2>1, <2>4 DEF SavesAll
<1>6. CASE Removes(s)
  <2>1. PICK v, u : v \in heap /\ Shut(s, v, u) /\ heap' = (heap \ {v}) \cup {u}
    BY <1>1, <1>6, Removal
  <2> QED
    BY <1>2, <1>3, <2>1 DEF SavesAll
<1>7. CASE Replaces(s)
  <2>1. PICK v, u, m, e : Replaced(s, v, u, m, e)
    BY <1>1, <1>7, Replacement
  <2>2. v \in heap /\ Shut(s, v, u) /\ heap' = ((heap \ {v}) \cup {u}) \cup {m}
    BY <2>1 DEF Replaced
  <2>3. Saves(m)
    BY <2>1, ReplacementSaves
  <2> QED
    BY <1>2, <1>3, <2>2, <2>3 DEF SavesAll
<1> QED
  BY <1>4, <1>5, <1>6, <1>7 DEF Stepped

LEMMA NextSaves ==
  ASSUME IInv, Next
  PROVE  SavesAll
<1>1. PICK s \in Session : \/ Start(s) \/ Commit(s)
                           \/ s \in Active /\ Stepped(s)
                           \/ s \in Active /\ Fail(s) /\ UNCHANGED started
  BY NextCases
<1>2. CASE Start(s) \/ Commit(s)
  <2>1. heap' = heap
    BY <1>2 DEF Start, Commit
  <2> QED
    BY <2>1 DEF SavesAll, Unheard
<1>3. CASE s \in Active /\ Fail(s)
  <2> DEFINE x == run[s].xid
  <2>1. heap \in SUBSET Versions
    BY DEF IInv, TInv
  <2>2. heap' = {Undone(v, x) : v \in {w \in heap : w.xmin # x}}
    BY <1>3, Zenon DEF Fail, Undone
  <2> HIDE DEF x
  <2>3. \A y \in heap' : \E v \in heap : y.id = v.id /\ y.xmin = v.xmin /\ y.cmin = v.cmin
    BY <2>1, <2>2, UndoneFields
  <2> QED
    BY <2>3 DEF SavesAll, Unheard
<1> QED
  BY <1>1, <1>2, <1>3, StepSaves

\* SET writes back, as a whole, the properties it read when the row was matched
\* (process_update_list, update_entity_tuple).  Still a version that stands over
\* a committed one differs from it only in what its transaction itself SET, and
\* an entity that another transaction removed does not come back.
THEOREM NoUpdateLost == Spec => NoLostUpdate
<1>1. IInv /\ [Next]_vars => [SavesAll]_vars
  BY NextSaves
<1> QED
  BY <1>1, Invariant, PTL DEF Spec, NoLostUpdate, SavesAll, Unheard, Saves

=============================================================================
