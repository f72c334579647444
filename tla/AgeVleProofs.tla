---------------------------- MODULE AgeVleProofs ----------------------------
(***************************************************************************)
(* Proofs about AgeVle, for any graph, statements, changes and number of   *)
(* transactions.                                                           *)
(*   FreshInv   a key (xmin, xmax and curcid of a snapshot) that comes back *)
(*              stands for the same graph;                                 *)
(*   CacheInv   a search in use has stacks that fit each other, the ones   *)
(*              that wait in the cache are empty, and the one in use is    *)
(*              not among them.                                            *)
(***************************************************************************)
EXTENDS AgeVle, FiniteSetTheorems, SequenceTheorems, TLAPS

-----------------------------------------------------------------------------
(* Least and greatest of a set of numbers *)

LEMMA Least ==
  ASSUME NEW S \in SUBSET Nat, S # {}
  PROVE  Min(S) \in S /\ \A y \in S : Min(S) <= y
<1>1. \E k \in S : \A j \in S : ~(<<j, k>> \in OpToRel(<, Nat))
  BY WFMin, NatLessThanWellFounded
<1>2. ASSUME NEW j \in Nat, NEW k \in Nat, ~(<<j, k>> \in OpToRel(<, Nat)) PROVE k <= j
  BY <1>2 DEF OpToRel
<1>3. \E k \in S : \A j \in S : k <= j
  BY <1>1, <1>2
<1> QED
  BY <1>3 DEF Min

LEMMA Greatest ==
  ASSUME NEW N \in Nat, NEW S \in SUBSET (0 .. N), S # {}
  PROVE  Max(S) \in S /\ \A y \in S : y <= Max(S)
<1> DEFINE T == {N - y : y \in S}
<1>1. T \in SUBSET Nat /\ T # {}
  <2>1. \A y \in S : N - y \in Nat
    OBVIOUS
  <2>2. PICK y \in S : TRUE
    OBVIOUS
  <2> QED
    BY <2>1, <2>2
<1>2. Min(T) \in T /\ \A y \in T : Min(T) <= y
  BY <1>1, Least
<1>3. PICK k \in S : Min(T) = N - k
  BY <1>2
<1>4. ASSUME NEW y \in S PROVE y <= k
  <2>1. N - y \in T
    OBVIOUS
  <2>2. N - k <= N - y
    BY <1>2, <1>3, <2>1
  <2> QED
    BY <2>2
<1>5. \E x \in S : \A y \in S : x >= y
  BY <1>4
<1> QED
  BY <1>5 DEF Max

-----------------------------------------------------------------------------
(* Transactions *)

LEMMA VleConstants ==
  /\ MaxContexts \in Nat /\ MaxXid \in Nat /\ MaxRunning \in Nat
  /\ None \notin Nat /\ None \notin Changes
BY AgeVleConstants

\* With two transactions at a time, at most one that runs is older than the
\* last one that completed: the other place was that one's.
StoreInv ==
    /\ nextXid \in Nat /\ completed \in Nat /\ completed < nextXid
    /\ DOMAIN running \in SUBSET (1 .. nextXid - 1) /\ completed \notin DOMAIN running
    /\ running = [x \in DOMAIN running |-> running[x]]
    /\ \A x \in DOMAIN running : running[x] = None \/ running[x] \in Changes
    /\ own \in DOMAIN running \cup {None}
    /\ Cardinality(DOMAIN running) <= MaxRunning
    /\ MaxRunning <= 2 =>
         \A x, y \in DOMAIN running : x < completed /\ y < completed => x = y

Xmin == Min(DOMAIN running \cup {completed + 1})

\* The graph g is what a snapshot known by key sees, if key is that of the
\* current one; a key of which this is not so will not come back.
Fits(key, g) ==
    /\ key.xmin \in Nat /\ key.xmax \in Nat /\ key.xmax <= completed + 1
    /\ key.xmax = completed + 1 => key.xmin <= Xmin
    /\ key.xmax = completed + 1 /\ key.xmin = Xmin =>
         IF key.curcid = 2 THEN own # None /\ running[own] # None /\ g = Changed(stored, running[own])
         ELSE g = stored

LEMMA StoreFinite ==
  ASSUME StoreInv
  PROVE  /\ IsFiniteSet(DOMAIN running) /\ Cardinality(DOMAIN running) \in Nat
         /\ DOMAIN running \cup {completed + 1} \in SUBSET Nat
<1>1. 1 \in Int /\ nextXid - 1 \in Int
  BY DEF StoreInv
<1>2. IsFiniteSet(1 .. nextXid - 1)
  BY <1>1, FS_Interval
<1>3. IsFiniteSet(DOMAIN running)
  BY <1>2, FS_Subset DEF StoreInv
<1> QED
  BY <1>3, FS_CardinalityType DEF StoreInv

LEMMA XminIsLeast ==
  ASSUME StoreInv
  PROVE  /\ Xmin \in Nat /\ Xmin \in DOMAIN running \cup {completed + 1}
         /\ \A x \in DOMAIN running \cup {completed + 1} : Xmin <= x
BY StoreFinite, Least DEF Xmin

\* A new snapshot is what its key stands for.
LEMMA SnapshotFits ==
  ASSUME StoreInv
  PROVE  Fits(Snapshot, Seen)
<1>1. Snapshot.xmin = Xmin /\ Snapshot.xmax = completed + 1
  BY DEF Snapshot, Xmin
<1>2. Snapshot.curcid = IF own = None THEN 0 ELSE IF running[own] = None THEN 1 ELSE 2
  BY DEF Snapshot
<1>3. completed \in Nat /\ Xmin \in Nat
  BY XminIsLeast DEF StoreInv
<1> QED
  BY <1>1, <1>2, <1>3 DEF Fits, Seen

\* What a current key stands for is what is seen now.
LEMMA CurrentKey ==
  ASSUME StoreInv, NEW key, NEW g, Fits(key, g), key = Snapshot
  PROVE  g = Seen
<1>1. key.xmin = Xmin /\ key.xmax = completed + 1
  BY DEF Snapshot, Xmin
<1>2. key.curcid = IF own = None THEN 0 ELSE IF running[own] = None THEN 1 ELSE 2
  BY DEF Snapshot
<1> QED
  BY <1>1, <1>2 DEF Fits, Seen

LEMMA XminIs ==
  ASSUME NEW D \in SUBSET Nat, NEW c \in Nat, NEW k,
         k \in D \cup {c + 1}, \A x \in D \cup {c + 1} : k <= x
  PROVE  Min(D \cup {c + 1}) = k
<1>1. D \cup {c + 1} \in SUBSET Nat /\ D \cup {c + 1} # {}
  OBVIOUS
<1>2. Min(D \cup {c + 1}) \in D \cup {c + 1} /\ \A y \in D \cup {c + 1} : Min(D \cup {c + 1}) <= y
  BY <1>1, Least
<1>3. Min(D \cup {c + 1}) \in Nat /\ k \in Nat
  BY <1>1, <1>2
<1> QED
  BY <1>2, <1>3

\* A transaction that gets its xid leaves what the snapshots show.
LEMMA AssignFits ==
  ASSUME StoreInv, NEW mine \in BOOLEAN, Assign(mine)
  PROVE  StoreInv' /\ \A key, g : Fits(key, g) => Fits(key, g)'
<1>1. /\ running' = [x \in DOMAIN running \cup {nextXid} |-> IF x = nextXid THEN None ELSE running[x]] /\ nextXid' = nextXid + 1
      /\ own' = IF mine THEN nextXid ELSE own
      /\ stored' = stored /\ completed' = completed
      /\ Cardinality(DOMAIN running) < MaxRunning /\ (mine => own = None)
  BY DEF Assign
<1>2. /\ DOMAIN running' = DOMAIN running \cup {nextXid}
      /\ running' = [x \in DOMAIN running' |-> running'[x]]
      /\ \A x \in DOMAIN running : running'[x] = running[x]
  BY <1>1 DEF StoreInv
<1>3. running'[nextXid] = None /\ nextXid \notin DOMAIN running
  BY <1>1 DEF StoreInv
<1>4. Cardinality(DOMAIN running') = Cardinality(DOMAIN running) + 1
  BY <1>2, <1>3, StoreFinite, FS_AddElement
<1>5. StoreInv'
  <2>1. Cardinality(DOMAIN running') <= MaxRunning
    BY <1>1, <1>4, StoreFinite, VleConstants
  <2>2. DOMAIN running' \in SUBSET (1 .. nextXid' - 1)
    BY <1>1, <1>2 DEF StoreInv
  <2>3. own' \in DOMAIN running' \cup {None}
    BY <1>1, <1>2 DEF StoreInv
  <2>4. \A x \in DOMAIN running' : running'[x] = None \/ running'[x] \in Changes
    BY <1>2, <1>3 DEF StoreInv
  <2>5. completed' \notin DOMAIN running' /\ completed' < nextXid' /\ nextXid' \in Nat /\ completed' \in Nat
    BY <1>1, <1>2 DEF StoreInv
  <2>6. MaxRunning <= 2 => \A x, y \in DOMAIN running' : x < completed' /\ y < completed' => x = y
    BY <1>1, <1>2 DEF StoreInv
  <2> QED
    BY <1>2, <2>1, <2>2, <2>3, <2>4, <2>5, <2>6 DEF StoreInv
<1>6. Xmin' = Xmin
  <2>1. DOMAIN running \in SUBSET Nat /\ completed \in Nat /\ nextXid \in Nat /\ completed < nextXid
    BY DEF StoreInv
  <2>2. Xmin \in DOMAIN running' \cup {completed + 1} /\ \A x \in DOMAIN running' \cup {completed + 1} : Xmin <= x
    <3>1. Xmin <= completed + 1 /\ Xmin \in Nat /\ Xmin \in DOMAIN running \cup {completed + 1}
      BY XminIsLeast
    <3>2. Xmin <= nextXid
      BY <3>1, <2>1
    <3> QED
      BY <1>2, <3>1, <3>2, XminIsLeast
  <2>3. DOMAIN running' \in SUBSET Nat
    BY <1>2, <2>1
  <2>4. Min(DOMAIN running' \cup {completed + 1}) = Xmin
    BY <2>1, <2>2, <2>3, XminIs
  <2> QED
    BY <1>1, <2>4 DEF Xmin
<1>7. ASSUME NEW key, NEW g, Fits(key, g) PROVE Fits(key, g)'
  <2>1. own # None => own' = own /\ own \in DOMAIN running /\ running'[own] = running[own]
    BY <1>1, <1>2 DEF StoreInv
  <2>2. key.xmin \in Nat /\ key.xmax \in Nat /\ key.xmax <= completed' + 1
        /\ (key.xmax = completed' + 1 => key.xmin <= Xmin')
    BY <1>1, <1>6, <1>7 DEF Fits
  <2>3. key.xmax = completed' + 1 /\ key.xmin = Xmin' =>
         IF key.curcid = 2 THEN own' # None /\ running'[own'] # None /\ g = Changed(stored', running'[own'])
         ELSE g = stored'
    BY <1>1, <1>6, <1>7, <2>1 DEF Fits
  <2> QED
    BY <2>2, <2>3 DEF Fits, Changed
<1> QED
  BY <1>5, <1>7

\* What is written is not seen before the end of the transaction, but by the
\* backend itself.
LEMMA WriteFits ==
  ASSUME StoreInv, NEW x \in DOMAIN running, NEW c \in Changes, Write(x, c)
  PROVE  StoreInv' /\ \A key, g : Fits(key, g) => Fits(key, g)'
<1>1. /\ running' = [running EXCEPT ![x] = c] /\ running[x] = None
      /\ stored' = stored /\ own' = own /\ completed' = completed /\ nextXid' = nextXid
  BY DEF Write
<1>2. /\ DOMAIN running' = DOMAIN running /\ running' = [y \in DOMAIN running' |-> running'[y]]
      /\ \A y \in DOMAIN running : y # x => running'[y] = running[y]
      /\ running'[x] = c
  BY <1>1 DEF StoreInv
<1>3. StoreInv'
  BY <1>1, <1>2 DEF StoreInv
<1>4. Xmin' = Xmin
  BY <1>1, <1>2 DEF Xmin
<1>5. ASSUME NEW key, NEW g, Fits(key, g) PROVE Fits(key, g)'
  <2>1. key.xmin \in Nat /\ key.xmax \in Nat /\ key.xmax <= completed' + 1
        /\ (key.xmax = completed' + 1 => key.xmin <= Xmin')
    BY <1>1, <1>4, <1>5 DEF Fits
  <2>2. key.xmax = completed' + 1 /\ key.xmin = Xmin' =>
         IF key.curcid = 2 THEN own' # None /\ running'[own'] # None /\ g = Changed(stored', running'[own'])
         ELSE g = stored'
    <3>1. own # None => own \in DOMAIN running
      BY DEF StoreInv
    <3> QED
      BY <1>1, <1>2, <1>4, <1>5, <3>1 DEF Fits
  <2> QED
    BY <2>1, <2>2 DEF Fits, Changed
<1> QED
  BY <1>3, <1>5

LEMMA MaxOfTwo ==
  ASSUME NEW x \in Nat, NEW c \in Nat
  PROVE  Max({x} \cup {c}) = IF x > c THEN x ELSE c
<1>1. x + c \in Nat /\ {x} \cup {c} \in SUBSET (0 .. x + c) /\ {x} \cup {c} # {}
  OBVIOUS
<1>2. Max({x} \cup {c}) \in {x} \cup {c} /\ \A y \in {x} \cup {c} : y <= Max({x} \cup {c})
  BY <1>1, Greatest
<1> QED
  BY <1>2

\* The end of a transaction changes what the snapshots are known by: it is the
\* last to complete, or else it was the oldest that runs.
LEMMA EndedFits ==
  ASSUME StoreInv, MaxRunning <= 2, NEW x \in DOMAIN running, Ended({x})
  PROVE  StoreInv' /\ \A key, g : Fits(key, g) => Fits(key, g)'
<1>1. /\ running' = [y \in DOMAIN running \ {x} |-> running[y]]
      /\ own' = (IF own = x THEN None ELSE own) /\ nextXid' = nextXid
      /\ completed' = Max({x} \cup {completed})
  BY DEF Ended
<1>2. /\ DOMAIN running' = DOMAIN running \ {x} /\ running' = [y \in DOMAIN running' |-> running'[y]]
      /\ \A y \in DOMAIN running' : running'[y] = running[y]
  BY <1>1
<1>3. x \in Nat /\ completed \in Nat /\ nextXid \in Nat /\ x < nextXid /\ x # completed
      /\ completed < nextXid /\ DOMAIN running \in SUBSET Nat /\ x \notin {None}
  BY VleConstants DEF StoreInv
<1>4. completed' = IF x > completed THEN x ELSE completed
  BY <1>1, <1>3, MaxOfTwo
<1>5. IsFiniteSet(DOMAIN running) /\ Cardinality(DOMAIN running) \in Nat
      /\ Cardinality(DOMAIN running') = Cardinality(DOMAIN running) - 1
  BY <1>2, StoreFinite, FS_RemoveElement
<1>6. \A y, z \in DOMAIN running' : y < completed' /\ z < completed' => y = z
  <2>1. CASE x < completed
    BY <1>2, <1>4, <2>1, <1>3 DEF StoreInv
  <2>2. CASE x > completed
    <3> SUFFICES ASSUME NEW y \in DOMAIN running', NEW z \in DOMAIN running', y # z PROVE FALSE
      OBVIOUS
    <3>1. IsFiniteSet(DOMAIN running') /\ Cardinality(DOMAIN running') \in Nat
      BY <1>2, <1>5, FS_Subset, FS_CardinalityType
    <3>2. IsFiniteSet(DOMAIN running' \ {y}) /\ Cardinality(DOMAIN running' \ {y}) = Cardinality(DOMAIN running') - 1
      BY <3>1, FS_RemoveElement
    <3>3. Cardinality((DOMAIN running' \ {y}) \ {z}) = Cardinality(DOMAIN running' \ {y}) - 1
          /\ IsFiniteSet((DOMAIN running' \ {y}) \ {z})
      BY <3>2, FS_RemoveElement
    <3>4. Cardinality((DOMAIN running' \ {y}) \ {z}) \in Nat
      BY <3>3, FS_CardinalityType
    <3>5. Cardinality(DOMAIN running) <= 2
      BY <1>5, VleConstants DEF StoreInv
    <3> QED
      BY <1>5, <3>1, <3>2, <3>3, <3>4, <3>5
  <2> QED
    BY <1>3, <2>1, <2>2
<1>7. StoreInv'
  <2>1. Cardinality(DOMAIN running') <= MaxRunning
    BY <1>5, VleConstants DEF StoreInv
  <2>2. completed' \notin DOMAIN running' /\ completed' < nextXid' /\ nextXid' \in Nat /\ completed' \in Nat
    BY <1>1, <1>2, <1>3, <1>4 DEF StoreInv
  <2>3. own' \in DOMAIN running' \cup {None}
    BY <1>1, <1>2 DEF StoreInv
  <2>4. DOMAIN running' \in SUBSET (1 .. nextXid' - 1)
    BY <1>1, <1>2 DEF StoreInv
  <2>5. \A y \in DOMAIN running' : running'[y] = None \/ running'[y] \in Changes
    BY <1>2 DEF StoreInv
  <2> QED
    BY <1>2, <1>6, <2>1, <2>2, <2>3, <2>4, <2>5 DEF StoreInv
<1>8. x < completed => Xmin' \in Nat /\ Xmin < Xmin'
  <2> HAVE x < completed
  <2>1. completed' = completed
    BY <1>3, <1>4
  <2>2. Xmin \in Nat /\ Xmin \in DOMAIN running \cup {completed + 1} /\ Xmin <= x
        /\ \A y \in DOMAIN running \cup {completed + 1} : Xmin <= y
    BY XminIsLeast
  <2>3. Xmin \in DOMAIN running /\ Xmin < completed
    BY <1>3, <2>2
  <2>4. Xmin = x
    BY <2>3 DEF StoreInv
  <2>5. DOMAIN running' \cup {completed' + 1} \in SUBSET Nat /\ DOMAIN running' \cup {completed' + 1} # {}
    BY <1>2, <1>3, <2>1
  <2>6. Xmin' \in DOMAIN running' \cup {completed' + 1}
    BY <2>5, Least DEF Xmin
  <2>7. Xmin' \in DOMAIN running \cup {completed + 1} /\ Xmin' # x
    BY <1>2, <1>3, <2>1, <2>6
  <2> QED
    BY <1>3, <2>2, <2>4, <2>7
<1>9. ASSUME NEW key, NEW g, Fits(key, g) PROVE Fits(key, g)'
  <2>1. key.xmin \in Nat /\ key.xmax \in Nat /\ key.xmax <= completed + 1
    BY <1>9 DEF Fits
  <2>2. CASE x > completed
    <3>1. key.xmax <= completed' + 1 /\ key.xmax # completed' + 1
      BY <1>3, <1>4, <2>1, <2>2
    <3> QED
      BY <2>1, <3>1 DEF Fits
  <2>3. CASE x < completed
    <3>1. completed' = completed /\ Xmin' \in Nat /\ Xmin < Xmin' /\ Xmin \in Nat
      BY <1>3, <1>4, <1>8, <2>3, XminIsLeast
    <3>2. key.xmax = completed' + 1 => key.xmin <= Xmin' /\ key.xmin # Xmin'
      BY <1>9, <2>1, <3>1 DEF Fits
    <3> QED
      BY <2>1, <3>1, <3>2 DEF Fits
  <2> QED
    BY <1>3, <2>2, <2>3
<1> QED
  BY <1>7, <1>9

LEMMA AbortsFits ==
  ASSUME StoreInv, MaxRunning <= 2, Aborts
  PROVE  StoreInv' /\ \A key, g : Fits(key, g) => Fits(key, g)'
<1>1. CASE own # None
  <2>1. own \in DOMAIN running /\ {own} \ {None} = {own}
    BY <1>1 DEF StoreInv
  <2>2. Ended({own})
    BY <2>1 DEF Aborts
  <2> QED
    BY <2>1, <2>2, EndedFits
<1>2. CASE own = None
  <2>1. Ended({}) /\ stored' = stored
    BY <1>2 DEF Aborts
  <2>2. /\ running' = [y \in DOMAIN running |-> running[y]] /\ nextXid' = nextXid /\ own' = own
        /\ completed' = Max({} \cup {completed})
    BY <2>1 DEF Ended
  <2>3. completed' = completed
    <3>1. completed \in Nat /\ {} \cup {completed} = {completed} \cup {completed}
      BY DEF StoreInv
    <3>2. Max({completed} \cup {completed}) = completed
      BY <3>1, MaxOfTwo
    <3> QED
      BY <2>2, <3>1, <3>2
  <2>4. running' = running
    BY <2>2 DEF StoreInv
  <2>5. StoreInv'
    <3>1. own' = own /\ nextXid' = nextXid
      BY <2>2
    <3> QED
      BY <3>1, <2>3, <2>4 DEF StoreInv
  <2>6. \A key, g : Fits(key, g) => Fits(key, g)'
    BY <2>1, <2>2, <2>3, <2>4 DEF Fits, Xmin, Changed
  <2> QED
    BY <2>5, <2>6
<1> QED
  BY <1>1, <1>2

LEMMA CrashStore ==
  ASSUME StoreInv, Crash
  PROVE  StoreInv'
<1>1. /\ running' = [y \in DOMAIN running \ DOMAIN running |-> running[y]]
      /\ own' = (IF own \in DOMAIN running THEN None ELSE own) /\ nextXid' = nextXid
      /\ completed' = Max(DOMAIN running \cup {completed})
  BY DEF Crash, Ended
<1>2. /\ DOMAIN running' = {} /\ running' = [y \in DOMAIN running' |-> running'[y]]
  BY <1>1
<1>3. /\ nextXid - 1 \in Nat /\ DOMAIN running \cup {completed} \in SUBSET (0 .. nextXid - 1)
      /\ DOMAIN running \cup {completed} # {} /\ nextXid \in Nat
  BY DEF StoreInv
<1>4. Max(DOMAIN running \cup {completed}) \in DOMAIN running \cup {completed}
  BY <1>3, Greatest
<1>5. completed' \in 0 .. nextXid - 1
  BY <1>1, <1>3, <1>4
<1>6. own' = None
  BY <1>1 DEF StoreInv
<1>7. Cardinality(DOMAIN running') = 0 /\ MaxRunning \in Nat
  BY <1>2, FS_EmptySet, VleConstants
<1>8. /\ nextXid' \in Nat /\ completed' \in Nat /\ completed' < nextXid'
      /\ DOMAIN running' \in SUBSET (1 .. nextXid' - 1) /\ completed' \notin DOMAIN running'
  BY <1>1, <1>2, <1>3, <1>5
<1> QED
  BY <1>2, <1>6, <1>7, <1>8 DEF StoreInv

-----------------------------------------------------------------------------
(* A statement searches the graph its snapshot sees *)

\* the records a call is made of
CallShape ==
    /\ Inside => call = [phase |-> call.phase, local |-> call.local, from |-> call.from, graph |-> call.graph,
                         seen |-> call.seen, rows |-> call.rows]
    /\ call.phase = "load" => call = [phase |-> "load", op |-> call.op, key |-> call.key, seen |-> call.seen]

\* The graph loaded, and the one being loaded, fit the key they have.
FreshInv ==
    /\ StoreInv /\ CallShape
    /\ context # None => Fits(context.key, context.graph)
    /\ call.phase = "load" => Fits(call.key, call.seen)
    /\ FreshGraph

LEMMA FreshInit ==
  ASSUME AgeVleConstants, Init
  PROVE  FreshInv
<1>1. DOMAIN running = {} /\ running = [x \in DOMAIN running |-> running[x]]
  BY DEF Init
<1>2. Cardinality(DOMAIN running) = 0
  BY <1>1, FS_EmptySet
<1>3. StoreInv
  BY <1>1, <1>2, VleConstants DEF Init, StoreInv
<1> QED
  BY <1>3 DEF Init, Idle, FreshInv, CallShape, FreshGraph, Inside

\* A step that leaves the call and the context as they are.
LEMMA FreshStore ==
  ASSUME FreshInv, StoreInv', \A key, g : Fits(key, g) => Fits(key, g)',
         call' = call, context' = context
  PROVE  FreshInv'
<1>1. PICK ck, cg, lk, ls : ck = context.key /\ cg = context.graph /\ lk = call.key /\ ls = call.seen
  OBVIOUS
<1>2. /\ context # None => Fits(ck, cg)
      /\ call.phase = "load" => Fits(lk, ls)
  BY <1>1 DEF FreshInv
<1>3. /\ context' # None => Fits(ck, cg)'
      /\ call'.phase = "load" => Fits(lk, ls)'
  BY <1>2
<1>4. /\ context' # None => Fits(context.key, context.graph)'
      /\ call'.phase = "load" => Fits(call.key, call.seen)'
  BY <1>1, <1>3 DEF Fits, Xmin, Changed
<1>5. CallShape' /\ FreshGraph'
  BY DEF FreshInv, CallShape, FreshGraph, Inside
<1> QED
  BY <1>4, <1>5 DEF FreshInv

LEMMA StoreSame ==
  ASSUME StoreInv, UNCHANGED store
  PROVE  StoreInv' /\ \A key, g : Fits(key, g) => Fits(key, g)'
<1>1. stored' = stored /\ running' = running /\ own' = own /\ completed' = completed /\ nextXid' = nextXid
  BY DEF store
<1> QED
  BY <1>1 DEF StoreInv, Fits, Xmin, Changed

\* A step that does not load or search.
LEMMA FreshQuiet ==
  ASSUME FreshInv, StoreInv', \A key, g : Fits(key, g) => Fits(key, g)',
         context' \in {context, None}, call'.phase \notin {"fetch", "search", "load"}
  PROVE  FreshInv'
<1>1. PICK ck, cg : ck = context.key /\ cg = context.graph
  OBVIOUS
<1>2. context # None => Fits(ck, cg)
  BY <1>1 DEF FreshInv
<1>3. context' # None => Fits(ck, cg)'
  BY <1>2
<1>4. context' # None => Fits(context.key, context.graph)'
  BY <1>1, <1>3 DEF Fits, Xmin, Changed
<1>5. CallShape' /\ FreshGraph'
  BY DEF CallShape, FreshGraph, Inside
<1> QED
  BY <1>4, <1>5 DEF FreshInv

\* A step of the search.
LEMMA FreshSearch ==
  ASSUME FreshInv, StoreInv', \A key, g : Fits(key, g) => Fits(key, g)', context' = context,
         NEW phase \in {"fetch", "search"}, NEW local, NEW from, NEW rows, NEW g,
         call' = [phase |-> phase, local |-> local, from |-> from, graph |-> g, seen |-> g, rows |-> rows]
  PROVE  FreshInv'
<1>1. PICK ck, cg : ck = context.key /\ cg = context.graph
  OBVIOUS
<1>2. context # None => Fits(ck, cg)
  BY <1>1 DEF FreshInv
<1>3. context' # None => Fits(ck, cg)'
  BY <1>2
<1>4. context' # None => Fits(context.key, context.graph)'
  BY <1>1, <1>3 DEF Fits, Xmin, Changed
<1>5. CallShape' /\ FreshGraph'
  BY DEF CallShape, FreshGraph, Inside
<1> QED
  BY <1>4, <1>5 DEF FreshInv

\* What is done with a graph is done with what is seen.
LEMMA FreshContinue ==
  ASSUME StoreInv, MaxRunning <= 2, NEW op, NEW g, Continue(op, g, g)
  PROVE  /\ StoreInv' /\ \A key, h : Fits(key, h) => Fits(key, h)'
         /\ CallShape' /\ FreshGraph' /\ call'.phase # "load"
<1>1. CASE \E l, f : call' = Begun(l, f, g, g) /\ UNCHANGED store
  <2>1. StoreInv' /\ \A key, h : Fits(key, h) => Fits(key, h)'
    BY <1>1, StoreSame
  <2> QED
    BY <1>1, <2>1 DEF Begun, CallShape, FreshGraph, Inside
<1>2. CASE call' = Idle /\ (Aborts \/ UNCHANGED store)
  <2>1. StoreInv' /\ \A key, h : Fits(key, h) => Fits(key, h)'
    BY <1>2, StoreSame, AbortsFits
  <2> QED
    BY <1>2, <2>1 DEF Idle, CallShape, FreshGraph, Inside
<1> QED
  BY <1>1, <1>2 DEF Continue

LEMMA FreshManage ==
  ASSUME FreshInv, MaxRunning <= 2, NEW op, NEW valid \in BOOLEAN, valid => ~Loads,
         manage_GRAPH_global_contexts(op, valid)
  PROVE  FreshInv'
<1>1. StoreInv
  BY DEF FreshInv
<1>2. CASE valid
  <2>1. context # None /\ context.key = Snapshot
    BY <1>2 DEF Loads, is_ggctx_invalid
  <2>2. context.graph = Seen
    BY <1>1, <2>1, CurrentKey DEF FreshInv
  <2>3. Continue(op, context.graph, context.graph) /\ context' = context
    BY <1>2, <2>2 DEF manage_GRAPH_global_contexts
  <2>4. /\ StoreInv' /\ \A key, h : Fits(key, h) => Fits(key, h)'
        /\ CallShape' /\ FreshGraph' /\ call'.phase # "load"
    BY <1>1, <2>3, FreshContinue
  <2>5. PICK ck, cg : ck = context.key /\ cg = context.graph
    OBVIOUS
  <2>6. Fits(ck, cg)'
    BY <2>1, <2>4, <2>5 DEF FreshInv
  <2>7. Fits(context.key, context.graph)'
    BY <2>3, <2>5, <2>6 DEF Fits, Xmin, Changed
  <2> QED
    BY <2>4, <2>7 DEF FreshInv
<1>3. CASE ~valid
  <2>1. context' = None /\ call' = [phase |-> "load", op |-> op, key |-> Snapshot, seen |-> Seen] /\ UNCHANGED store
    BY <1>3 DEF manage_GRAPH_global_contexts
  <2>2. StoreInv' /\ \A key, h : Fits(key, h) => Fits(key, h)'
    BY <1>1, <2>1, StoreSame
  <2>3. PICK lk, ls : lk = Snapshot /\ ls = Seen
    OBVIOUS
  <2>4. Fits(lk, ls)'
    BY <1>1, <2>2, <2>3, SnapshotFits
  <2>5. call'.key = lk /\ call'.seen = ls /\ call'.phase = "load"
    BY <2>1, <2>3
  <2>6. Fits(call.key, call.seen)'
    BY <2>4, <2>5 DEF Fits, Xmin, Changed
  <2>7. CallShape' /\ FreshGraph'
    BY <2>1, <2>5 DEF CallShape, FreshGraph, Inside
  <2> QED
    BY <2>1, <2>2, <2>6, <2>7 DEF FreshInv
<1> QED
  BY <1>2, <1>3

LEMMA FreshLoad ==
  ASSUME FreshInv, MaxRunning <= 2, load_GRAPH_global_hashtables
  PROVE  FreshInv'
<1>1. StoreInv /\ call.phase = "load" /\ Fits(call.key, call.seen)
      /\ context' = NewContext(call.key, call.seen) /\ Continue(call.op, call.seen, call.seen)
  BY DEF FreshInv, load_GRAPH_global_hashtables
<1>2. /\ StoreInv' /\ \A key, h : Fits(key, h) => Fits(key, h)'
      /\ CallShape' /\ FreshGraph' /\ call'.phase # "load"
  BY <1>1, FreshContinue
<1>3. PICK lk, ls : lk = call.key /\ ls = call.seen
  OBVIOUS
<1>4. Fits(lk, ls)'
  BY <1>1, <1>2, <1>3
<1>5. context'.key = lk /\ context'.graph = ls
  BY <1>1, <1>3 DEF NewContext
<1>6. Fits(context.key, context.graph)'
  BY <1>4, <1>5 DEF Fits, Xmin, Changed
<1> QED
  BY <1>2, <1>6 DEF FreshInv

LEMMA FreshStart ==
  ASSUME FreshInv, MaxRunning <= 2, NEW n, NEW from, NEW to, Start(n, from, to)
  PROVE  FreshInv'
<1>1. StoreInv
  BY DEF FreshInv
<1> DEFINE old == get_cached_VLE_local_context(n)
<1>2. CASE manage_GRAPH_global_contexts([what |-> "vle", node |-> n, from |-> from, to |-> to], ~Loads)
  <2>1. (~Loads) \in BOOLEAN
    BY DEF Loads, is_ggctx_invalid
  <2> QED
    BY <1>2, <2>1, FreshManage
<1>3. CASE /\ old # {} /\ context' = context /\ UNCHANGED store
           /\ call' = Begun(ReusedLocal(CHOOSE l \in old : TRUE, from, to), from, context.graph, Seen)
  <2>1. context # None /\ context.key = Snapshot
    BY <1>3 DEF get_cached_VLE_local_context, find_GRAPH_global_context, is_ggctx_invalid
  <2>2. context.graph = Seen
    BY <1>1, <2>1, CurrentKey DEF FreshInv
  <2>3. StoreInv' /\ \A key, h : Fits(key, h) => Fits(key, h)'
    BY <1>1, <1>3, StoreSame
  <2>4. \E l, r : call' = [phase |-> "fetch", local |-> l, from |-> from, graph |-> context.graph,
                            seen |-> context.graph, rows |-> r]
    BY <1>3, <2>2 DEF Begun
  <2> QED
    BY <1>3, <2>3, <2>4, FreshSearch
<1>4. CASE Crash
  <2>1. StoreInv' /\ context' = None /\ call' = Idle
    BY <1>1, <1>4, CrashStore DEF Crash
  <2> QED
    BY <2>1 DEF Idle, FreshInv, CallShape, FreshGraph, Inside
<1> QED
  BY <1>2, <1>3, <1>4 DEF Start

LEMMA FreshSearches ==
  ASSUME FreshInv, MaxRunning <= 2, BackingUp \/ dfs_find_a_path \/ NextStart
  PROVE  FreshInv'
<1>1. StoreInv /\ Inside /\ context' = context
  BY DEF FreshInv, BackingUp, dfs_find_a_path, NextStart
<1>2. call = [phase |-> call.phase, local |-> call.local, from |-> call.from, graph |-> call.graph,
              seen |-> call.graph, rows |-> call.rows]
  BY <1>1 DEF FreshInv, CallShape, FreshGraph
<1>3. CASE call' = Idle /\ Aborts
  <2>1. StoreInv' /\ \A key, h : Fits(key, h) => Fits(key, h)'
    BY <1>1, <1>3, AbortsFits
  <2>2. call'.phase \notin {"fetch", "search", "load"}
    BY <1>3 DEF Idle
  <2> QED
    BY <1>1, <2>1, <2>2, FreshQuiet
<1>4. CASE /\ UNCHANGED store
           /\ \/ \E l : call' = [call EXCEPT !.phase = "search", !.local = l]
              \/ \E l, r : call' = [call EXCEPT !.phase = "fetch", !.local = l, !.rows = r]
  <2>1. StoreInv' /\ \A key, h : Fits(key, h) => Fits(key, h)'
    BY <1>1, <1>4, StoreSame
  <2>2. \E ph \in {"fetch", "search"} : \E l, f, r :
            call' = [phase |-> ph, local |-> l, from |-> f, graph |-> call.graph, seen |-> call.graph, rows |-> r]
    <3>0. PICK p, a, f, g, q : call = [phase |-> p, local |-> a, from |-> f, graph |-> g, seen |-> g, rows |-> q]
      BY <1>2
    <3>1. ASSUME NEW l, call' = [call EXCEPT !.phase = "search", !.local = l]
          PROVE  call' = [phase |-> "search", local |-> l, from |-> call.from, graph |-> call.graph,
                          seen |-> call.graph, rows |-> call.rows]
      <4>1. call' = [phase |-> "search", local |-> l, from |-> f, graph |-> g, seen |-> g, rows |-> q]
        BY <3>0, <3>1
      <4>2. call.graph = g /\ call.rows = q /\ call.from = f
        BY <3>0
      <4> QED
        BY <4>1, <4>2
    <3>2. ASSUME NEW l, NEW r, call' = [call EXCEPT !.phase = "fetch", !.local = l, !.rows = r]
          PROVE  call' = [phase |-> "fetch", local |-> l, from |-> call.from, graph |-> call.graph,
                          seen |-> call.graph, rows |-> r]
      <4>1. call' = [phase |-> "fetch", local |-> l, from |-> f, graph |-> g, seen |-> g, rows |-> r]
        BY <3>0, <3>2
      <4>2. call.graph = g /\ call.from = f
        BY <3>0
      <4> QED
        BY <4>1, <4>2
    <3> QED
      BY <1>4, <3>1, <3>2
  <2> QED
    BY <1>1, <2>1, <2>2, FreshSearch
<1>5. ASSUME BackingUp PROVE UNCHANGED store /\ \E l : call' = [call EXCEPT !.phase = "search", !.local = l]
  BY <1>5 DEF BackingUp
<1>6. ASSUME NextStart
      PROVE  /\ UNCHANGED store
             /\ \/ \E l : call' = [call EXCEPT !.phase = "search", !.local = l]
                \/ \E l, r : call' = [call EXCEPT !.phase = "fetch", !.local = l, !.rows = r]
  BY <1>6 DEF NextStart
<1>7. ASSUME dfs_find_a_path
      PROVE  \/ call' = Idle /\ Aborts
             \/ /\ UNCHANGED store
                /\ \/ \E l : call' = [call EXCEPT !.phase = "search", !.local = l]
                   \/ \E l, r : call' = [call EXCEPT !.phase = "fetch", !.local = l, !.rows = r]
  BY <1>7 DEF dfs_find_a_path
<1> QED
  BY <1>3, <1>4, <1>5, <1>6, <1>7

LEMMA FreshStep ==
  ASSUME AgeVleConstants, FreshInv, MaxRunning <= 2, [Next]_vars
  PROVE  FreshInv'
<1>1. StoreInv
  BY DEF FreshInv
<1>2. ASSUME NEW mine \in BOOLEAN, Assign(mine) PROVE FreshInv'
  <2>1. StoreInv' /\ \A key, h : Fits(key, h) => Fits(key, h)'
    BY <1>1, <1>2, AssignFits
  <2> QED
    BY <1>2, <2>1, FreshStore DEF Assign
<1>3. ASSUME NEW x \in DOMAIN running, NEW c \in Changes, Write(x, c) PROVE FreshInv'
  <2>1. StoreInv' /\ \A key, h : Fits(key, h) => Fits(key, h)'
    BY <1>1, <1>3, WriteFits
  <2> QED
    BY <1>3, <2>1, FreshStore DEF Write
<1>4. ASSUME NEW x \in DOMAIN running, NEW commits \in BOOLEAN, End(x, commits) PROVE FreshInv'
  <2>1. StoreInv' /\ \A key, h : Fits(key, h) => Fits(key, h)'
    BY <1>1, <1>4, EndedFits DEF End
  <2> QED
    BY <1>4, <2>1, FreshStore DEF End
<1>5. ASSUME NEW n, NEW from, NEW to, Start(n, from, to) PROVE FreshInv'
  BY <1>5, FreshStart
<1>6. CASE CancelLoad \/ CancelFetch
  <2>1. StoreInv' /\ \A key, h : Fits(key, h) => Fits(key, h)'
    BY <1>1, <1>6, AbortsFits DEF CancelLoad, CancelFetch
  <2>2. context' = context /\ call' = Idle
    BY <1>6 DEF CancelLoad, CancelFetch
  <2>3. call'.phase \notin {"fetch", "search", "load"}
    BY <2>2 DEF Idle
  <2> QED
    BY <2>1, <2>2, <2>3, FreshQuiet
<1>7. CASE Hang \/ NoneLeft \/ age_delete_global_graphs
  <2>1. UNCHANGED store
    BY <1>7 DEF Hang, NoneLeft, age_delete_global_graphs
  <2>2. StoreInv' /\ \A key, h : Fits(key, h) => Fits(key, h)'
    BY <1>1, <2>1, StoreSame
  <2>3. context' \in {context, None}
    BY <1>7 DEF Hang, NoneLeft, age_delete_global_graphs
  <2>4. call'.phase \notin {"fetch", "search", "load"}
    <3>1. ASSUME NoneLeft PROVE call'.phase = "done"
      BY <3>1 DEF NoneLeft, FreshInv, CallShape
    <3> QED
      BY <1>7, <3>1 DEF Hang, age_delete_global_graphs, Idle
  <2> QED
    BY <2>2, <2>3, <2>4, FreshQuiet
<1>8. CASE age_vertex_stats \/ age_graph_stats
  <2>1. (~Loads) \in BOOLEAN
    BY DEF Loads, is_ggctx_invalid
  <2> QED
    BY <1>8, <2>1, FreshManage DEF age_vertex_stats, age_graph_stats
<1>9. CASE load_GRAPH_global_hashtables
  BY <1>9, FreshLoad
<1>10. CASE BackingUp \/ dfs_find_a_path \/ NextStart
  BY <1>10, FreshSearches
<1>11. CASE UNCHANGED vars
  <2>1. UNCHANGED store /\ call' = call /\ context' = context
    BY <1>11 DEF vars
  <2>2. StoreInv' /\ \A key, h : Fits(key, h) => Fits(key, h)'
    BY <1>1, <2>1, StoreSame
  <2> QED
    BY <2>1, <2>2, FreshStore
<1> QED
  BY <1>2, <1>3, <1>4, <1>5, <1>6, <1>7, <1>8, <1>9, <1>10, <1>11 DEF Next

(* With no more than two transactions that write at a time, a statement    *)
(* searches the graph its snapshot sees (is_ggctx_invalid compares xmin,   *)
(* xmax and the command id): the end of the second is always one that the  *)
(* snapshots show.  With a third there is a counterexample.                *)
THEOREM VleGraphFresh ==
  ASSUME MaxRunning <= 2
  PROVE  Spec => []FreshGraph
<1>1. Init => FreshInv
  BY AgeVleConstants, FreshInit
<1>2. FreshInv /\ [Next]_vars => FreshInv'
  BY AgeVleConstants, FreshStep
<1>3. FreshInv => FreshGraph
  BY DEF FreshInv
<1> QED
  BY <1>1, <1>2, <1>3, PTL DEF Spec

-----------------------------------------------------------------------------
(* The rows of a table in their order *)

Upto(T, i) == {j \in T : j <= i}

LEMMA CountsUp ==
  ASSUME NEW N \in Nat, NEW T \in SUBSET (1 .. N), NEW n \in 1 .. Cardinality(T)
  PROVE  \E i \in T : Cardinality(Upto(T, i)) = n
<1>1. IsFiniteSet(T) /\ Cardinality(T) \in Nat
  <2>1. IsFiniteSet(1 .. N)
    BY FS_Interval
  <2> QED
    BY <2>1, FS_Subset, FS_CardinalityType
<1>2. ASSUME NEW i \in Nat PROVE IsFiniteSet(Upto(T, i)) /\ Cardinality(Upto(T, i)) \in Nat
  <2>1. Upto(T, i) \subseteq T
    BY DEF Upto
  <2> QED
    BY <1>1, <2>1, FS_Subset, FS_CardinalityType
<1>3. Upto(T, N) = T /\ Upto(T, 0) = {}
  <2>1. \A j \in T : j \in Nat /\ j <= N /\ ~(j <= 0)
    OBVIOUS
  <2>2. \A j : j \in Upto(T, N) <=> j \in T
    BY <2>1 DEF Upto
  <2>3. \A j : j \notin Upto(T, 0)
    BY <2>1 DEF Upto
  <2> QED
    BY <2>2, <2>3
<1>4. Cardinality(Upto(T, 0)) = 0
  BY <1>3, FS_EmptySet
<1> DEFINE I == {i \in Nat : n <= Cardinality(Upto(T, i))}
<1>5. N \in I /\ I \in SUBSET Nat /\ I # {}
  BY <1>1, <1>3
<1>6. PICK i \in I : \A k \in I : i <= k
  <2> HIDE DEF I
  <2> QED
    BY <1>5, Least
<1>7. i # 0 /\ i \in Nat /\ n \in Nat /\ n >= 1 /\ n <= Cardinality(Upto(T, i))
  BY <1>1, <1>4
<1>8. i - 1 \in Nat /\ i - 1 < i
  BY <1>7
<1>9. i - 1 \notin I
  <2> HIDE DEF I
  <2> QED
    BY <1>6, <1>7, <1>8
<1>10. Cardinality(Upto(T, i - 1)) < n
  BY <1>2, <1>7, <1>8, <1>9
<1>11. CASE i \notin T
  <2>1. Upto(T, i) = Upto(T, i - 1)
    <3>1. \A j \in T : j \in Nat /\ (j <= i <=> j <= i - 1)
      BY <1>7, <1>11
    <3>2. \A j : j \in Upto(T, i) <=> j \in Upto(T, i - 1)
      BY <3>1 DEF Upto
    <3> QED
      BY <3>2
  <2> QED
    BY <1>2, <1>7, <1>8, <1>10, <2>1
<1>12. CASE i \in T
  <2>1. Upto(T, i) = Upto(T, i - 1) \cup {i} /\ i \notin Upto(T, i - 1)
    <3>1. \A j \in T : j \in Nat /\ (j <= i <=> j <= i - 1 \/ j = i)
      BY <1>7
    <3>2. i <= i /\ ~(i <= i - 1)
      BY <1>7
    <3>3. \A j : j \in Upto(T, i) <=> j \in Upto(T, i - 1) \cup {i}
      BY <1>12, <3>1, <3>2 DEF Upto
    <3>4. i \notin Upto(T, i - 1)
      BY <3>2 DEF Upto
    <3> QED
      BY <3>3, <3>4
  <2>2. Cardinality(Upto(T, i)) = Cardinality(Upto(T, i - 1)) + 1
    BY <1>2, <1>8, <2>1, FS_AddElement
  <2>3. Cardinality(Upto(T, i - 1)) \in Nat
    BY <1>2, <1>8
  <2>4. Cardinality(Upto(T, i)) = n
    BY <1>7, <1>10, <2>2, <2>3
  <2> QED
    BY <1>12, <2>4
<1> QED
  BY <1>11, <1>12

LEMMA InOrderSeq ==
  ASSUME NEW table, table \in Seq(Range(table)), NEW S
  PROVE  InOrder(table, S) \in Seq(S \cap Range(table))
<1> DEFINE T == {i \in DOMAIN table : table[i] \in S}
           At(n) == CHOOSE i \in T : Cardinality(Upto(T, i)) = n
<1>1. Len(table) \in Nat /\ DOMAIN table = 1 .. Len(table)
  OBVIOUS
<1>2. T \in SUBSET (1 .. Len(table))
  BY <1>1
<1>3. IsFiniteSet(T) /\ Cardinality(T) \in Nat
  <2>1. IsFiniteSet(1 .. Len(table))
    BY <1>1, FS_Interval
  <2> QED
    BY <1>2, <2>1, FS_Subset, FS_CardinalityType
<1>4. ASSUME NEW n \in 1 .. Cardinality(T) PROVE table[At(n)] \in S \cap Range(table)
  <2>1. \E i \in T : Cardinality(Upto(T, i)) = n
    <3> HIDE DEF T
    <3> QED
      BY <1>1, <1>2, CountsUp
  <2>2. At(n) \in T
    BY <2>1
  <2> QED
    BY <2>2 DEF Range
<1>5. InOrder(table, S) = [n \in 1 .. Cardinality(T) |-> table[At(n)]]
  BY DEF InOrder, Upto
<1> HIDE DEF At, T
<1> QED
  BY <1>3, <1>4, <1>5

LEMMA ReverseSeq ==
  ASSUME NEW X, NEW s \in Seq(X)
  PROVE  Reverse(s) \in Seq(X)
BY DEF Reverse

-----------------------------------------------------------------------------
(* The stacks of a search *)

\* The path is made of edges that lie in the edge stack, in their order, each at
\* the place nearest to the top where that edge lies.
Explored(es, ps) ==
    \E pos \in [1 .. Len(ps) -> 1 .. Len(es)] :
        /\ \A i \in 1 .. Len(ps) : es[pos[i]] = ps[i]
        /\ \A i, j \in 1 .. Len(ps) : i < j => pos[i] < pos[j]
        /\ \A i \in 1 .. Len(ps), k \in 1 .. Len(es) : k < pos[i] => es[k] # ps[i]

LEMMA ExploredAll ==
  ASSUME NEW E, NEW ps \in Seq(E), Explored(<<>>, ps)
  PROVE  ps = <<>>
<1>1. PICK pos \in [1 .. Len(ps) -> 1 .. Len(<<>>)] : TRUE
  BY DEF Explored
<1>2. Len(<<>>) = 0 /\ Len(ps) \in Nat
  OBVIOUS
<1>3. Len(ps) = 0
  <2> SUFFICES ASSUME Len(ps) # 0 PROVE FALSE
    OBVIOUS
  <2>1. 1 \in 1 .. Len(ps)
    BY <1>2
  <2>2. pos[1] \in 1 .. 0
    BY <1>1, <1>2, <2>1
  <2> QED
    BY <2>2
<1> QED
  BY <1>3

LEMMA ExploredNone ==
  ASSUME NEW E, NEW es \in Seq(E)
  PROVE  Explored(es, <<>>)
<1> DEFINE none == 1 .. Len(<<>>)
           pos == [i \in none |-> 1]
<1>1. none = {}
  OBVIOUS
<1>2. pos \in [none -> 1 .. Len(es)]
  BY <1>1
<1> HIDE DEF pos
<1>3. \A i \in none : es[pos[i]] = <<>>[i]
  BY <1>1
<1>4. \A i, j \in none : i < j => pos[i] < pos[j]
  BY <1>1
<1>5. \A i \in none, k \in 1 .. Len(es) : k < pos[i] => es[k] # <<>>[i]
  BY <1>1
<1> QED
  BY <1>2, <1>3, <1>4, <1>5, Zenon DEF Explored

LEMMA ExploredPush ==
  ASSUME NEW E, NEW es \in Seq(E), NEW ps \in Seq(E), NEW new \in Seq(E),
         Explored(es, ps), \A k \in 1 .. Len(new) : new[k] \notin Range(ps)
  PROVE  Explored(new \o es, ps)
<1>1. PICK pos \in [1 .. Len(ps) -> 1 .. Len(es)] :
        /\ \A i \in 1 .. Len(ps) : es[pos[i]] = ps[i]
        /\ \A i, j \in 1 .. Len(ps) : i < j => pos[i] < pos[j]
        /\ \A i \in 1 .. Len(ps), k \in 1 .. Len(es) : k < pos[i] => es[k] # ps[i]
  BY DEF Explored
<1> DEFINE to == [i \in 1 .. Len(ps) |-> pos[i] + Len(new)]
<1>2. /\ Len(new) \in Nat /\ Len(es) \in Nat /\ Len(ps) \in Nat /\ Len(new \o es) = Len(new) + Len(es)
      /\ \A k \in 1 .. Len(new \o es) :
           (new \o es)[k] = IF k <= Len(new) THEN new[k] ELSE es[k - Len(new)]
  OBVIOUS
<1>3. \A i \in 1 .. Len(ps) : pos[i] \in 1 .. Len(es)
  BY <1>1
<1>4. to \in [1 .. Len(ps) -> 1 .. Len(new \o es)]
  BY <1>2, <1>3
<1>5. \A i \in 1 .. Len(ps) : (new \o es)[to[i]] = ps[i]
  BY <1>1, <1>2, <1>3
<1>6. \A i, j \in 1 .. Len(ps) : i < j => to[i] < to[j]
  BY <1>1, <1>2, <1>3
<1>7. ASSUME NEW i \in 1 .. Len(ps), NEW k \in 1 .. Len(new \o es), k < to[i]
      PROVE  (new \o es)[k] # ps[i]
  <2>1. CASE k <= Len(new)
    <3>1. k \in 1 .. Len(new) /\ ps[i] \in Range(ps)
      BY <1>2, <2>1 DEF Range
    <3> QED
      BY <1>2, <2>1, <3>1
  <2>2. CASE k > Len(new)
    <3>1. k - Len(new) \in 1 .. Len(es) /\ k - Len(new) < pos[i]
      BY <1>2, <1>3, <1>7, <2>2
    <3> QED
      BY <1>1, <1>2, <2>2, <3>1
  <2> QED
    BY <1>2, <2>1, <2>2
<1> HIDE DEF to
<1> QED
  BY <1>4, <1>5, <1>6, <1>7 DEF Explored

LEMMA ExploredOn ==
  ASSUME NEW E, NEW es \in Seq(E), NEW ps \in Seq(E), es # <<>>,
         Explored(es, ps), Head(es) \notin Range(ps)
  PROVE  Explored(es, <<Head(es)>> \o ps)
<1>1. PICK pos \in [1 .. Len(ps) -> 1 .. Len(es)] :
        /\ \A i \in 1 .. Len(ps) : es[pos[i]] = ps[i]
        /\ \A i, j \in 1 .. Len(ps) : i < j => pos[i] < pos[j]
        /\ \A i \in 1 .. Len(ps), k \in 1 .. Len(es) : k < pos[i] => es[k] # ps[i]
  BY DEF Explored
<1> DEFINE on == <<Head(es)>> \o ps
           to == [i \in 1 .. Len(on) |-> IF i = 1 THEN 1 ELSE pos[i - 1]]
<1>2. /\ Len(es) \in Nat /\ Len(es) >= 1 /\ Len(ps) \in Nat /\ Len(on) = Len(ps) + 1 /\ Head(es) = es[1]
      /\ on[1] = es[1] /\ \A i \in 2 .. Len(on) : on[i] = ps[i - 1]
  OBVIOUS
<1>3. \A i \in 1 .. Len(ps) : pos[i] \in 1 .. Len(es) /\ pos[i] # 1
  <2> TAKE i \in 1 .. Len(ps)
  <2>1. ps[i] \in Range(ps)
    BY DEF Range
  <2> QED
    BY <1>1, <1>2, <2>1
<1> HIDE DEF on
<1>4. \A i \in 1 .. Len(on) : i = 1 \/ (i - 1 \in 1 .. Len(ps) /\ i \in 2 .. Len(on))
  BY <1>2
<1>5. to \in [1 .. Len(on) -> 1 .. Len(es)]
  BY <1>2, <1>3, <1>4
<1>6. \A i \in 1 .. Len(on) : es[to[i]] = on[i]
  BY <1>1, <1>2, <1>4
<1>7. ASSUME NEW i \in 1 .. Len(on), NEW j \in 1 .. Len(on), i < j PROVE to[i] < to[j]
  <2>1. j - 1 \in 1 .. Len(ps) /\ to[j] = pos[j - 1] /\ pos[j - 1] \in 1 .. Len(es) /\ pos[j - 1] # 1
    BY <1>2, <1>3, <1>7
  <2>2. CASE i = 1
    BY <1>2, <2>1, <2>2
  <2>3. CASE i # 1
    <3>1. i - 1 \in 1 .. Len(ps) /\ to[i] = pos[i - 1] /\ i - 1 < j - 1
      BY <1>2, <1>7, <2>3
    <3> QED
      BY <1>1, <2>1, <3>1
  <2> QED
    BY <2>2, <2>3
<1>8. ASSUME NEW i \in 1 .. Len(on), NEW k \in 1 .. Len(es), k < to[i] PROVE es[k] # on[i]
  <2>1. CASE i = 1
    BY <1>2, <1>8, <2>1
  <2>2. CASE i # 1
    <3>1. i - 1 \in 1 .. Len(ps) /\ to[i] = pos[i - 1] /\ on[i] = ps[i - 1]
      BY <1>2, <2>2
    <3> QED
      BY <1>1, <1>8, <3>1
  <2> QED
    BY <2>1, <2>2
<1> HIDE DEF to
<1>9. Explored(es, on)
  BY <1>5, <1>6, <1>7, <1>8 DEF Explored
<1> QED
  BY <1>9 DEF on

LEMMA ExploredOff ==
  ASSUME NEW E, NEW es \in Seq(E), NEW ps \in Seq(E), es # <<>>,
         Explored(es, ps), Head(es) \in Range(ps)
  PROVE  /\ ps # <<>> /\ Head(ps) = Head(es)
         /\ Explored(Tail(es), Tail(ps)) /\ Range(Tail(ps)) = Range(ps) \ {Head(es)}
<1>1. PICK pos \in [1 .. Len(ps) -> 1 .. Len(es)] :
        /\ \A i \in 1 .. Len(ps) : es[pos[i]] = ps[i]
        /\ \A i, j \in 1 .. Len(ps) : i < j => pos[i] < pos[j]
        /\ \A i \in 1 .. Len(ps), k \in 1 .. Len(es) : k < pos[i] => es[k] # ps[i]
  BY DEF Explored
<1>2. /\ Len(es) \in Nat /\ Len(es) >= 1 /\ Len(ps) \in Nat /\ Head(es) = es[1]
      /\ DOMAIN ps = 1 .. Len(ps)
  OBVIOUS
<1>3. PICK m \in 1 .. Len(ps) : ps[m] = es[1]
  BY <1>2 DEF Range
<1>4. \A i \in 1 .. Len(ps) : pos[i] \in 1 .. Len(es)
  BY <1>1
<1>5. pos[m] = 1
  BY <1>1, <1>2, <1>3, <1>4
<1>6. m = 1
  <2> SUFFICES ASSUME m # 1 PROVE FALSE
    OBVIOUS
  <2>1. 1 \in 1 .. Len(ps) /\ 1 < m
    BY <1>2, <1>3
  <2> QED
    BY <1>1, <1>3, <1>4, <1>5, <2>1
<1>7. /\ Len(ps) >= 1 /\ ps[1] = es[1] /\ pos[1] = 1
      /\ \A i \in 2 .. Len(ps) : pos[i] \in 2 .. Len(es) /\ ps[i] # es[1]
  <2>1. Len(ps) >= 1 /\ ps[1] = es[1] /\ pos[1] = 1
    BY <1>2, <1>3, <1>5, <1>6
  <2>2. ASSUME NEW i \in 2 .. Len(ps) PROVE pos[i] \in 2 .. Len(es) /\ ps[i] # es[1]
    <3>1. i \in 1 .. Len(ps) /\ 1 \in 1 .. Len(ps) /\ 1 < i
      BY <1>2, <2>1
    <3>2. pos[i] \in 1 .. Len(es) /\ pos[1] < pos[i] /\ 1 \in 1 .. Len(es)
      BY <1>1, <1>2, <1>4, <3>1
    <3> QED
      BY <1>1, <2>1, <3>1, <3>2
  <2> QED
    BY <2>1, <2>2
<1>8. /\ Tail(es) \in Seq(E) /\ Len(Tail(es)) = Len(es) - 1
      /\ \A k \in 1 .. Len(es) - 1 : Tail(es)[k] = es[k + 1]
      /\ Tail(ps) \in Seq(E) /\ Len(Tail(ps)) = Len(ps) - 1
      /\ \A k \in 1 .. Len(ps) - 1 : Tail(ps)[k] = ps[k + 1]
      /\ ps # <<>> /\ Head(ps) = ps[1]
  <2>1. ps # <<>>
    BY <1>2, <1>7
  <2> QED
    BY <2>1
<1> DEFINE to == [i \in 1 .. Len(Tail(ps)) |-> pos[i + 1] - 1]
<1>9. \A i \in 1 .. Len(Tail(ps)) : i + 1 \in 2 .. Len(ps) /\ i + 1 \in 1 .. Len(ps)
  BY <1>2, <1>8
<1>10. Explored(Tail(es), Tail(ps))
  <2>1. to \in [1 .. Len(Tail(ps)) -> 1 .. Len(Tail(es))]
    BY <1>2, <1>7, <1>8, <1>9
  <2>2. \A i \in 1 .. Len(Tail(ps)) : Tail(es)[to[i]] = Tail(ps)[i]
    BY <1>1, <1>2, <1>7, <1>8, <1>9
  <2>3. \A i, j \in 1 .. Len(Tail(ps)) : i < j => to[i] < to[j]
    BY <1>1, <1>2, <1>4, <1>8, <1>9
  <2>4. ASSUME NEW i \in 1 .. Len(Tail(ps)), NEW k \in 1 .. Len(Tail(es)), k < to[i]
        PROVE  Tail(es)[k] # Tail(ps)[i]
    <3>1. k + 1 \in 1 .. Len(es) /\ k + 1 < pos[i + 1] /\ i + 1 \in 1 .. Len(ps)
      BY <1>2, <1>7, <1>8, <1>9, <2>4
    <3>2. Tail(es)[k] = es[k + 1] /\ Tail(ps)[i] = ps[i + 1]
      BY <1>2, <1>8
    <3> QED
      BY <1>1, <3>1, <3>2
  <2> HIDE DEF to
  <2> QED
    BY <2>1, <2>2, <2>3, <2>4 DEF Explored
<1>11. Range(Tail(ps)) = Range(ps) \ {Head(es)}
  <2>1. DOMAIN Tail(ps) = 1 .. Len(ps) - 1
    BY <1>8
  <2>2. ASSUME NEW y \in Range(Tail(ps)) PROVE y \in Range(ps) \ {Head(es)}
    <3>1. PICK k \in 1 .. Len(ps) - 1 : y = Tail(ps)[k]
      BY <2>1 DEF Range
    <3>2. y = ps[k + 1] /\ k + 1 \in 2 .. Len(ps) /\ k + 1 \in 1 .. Len(ps)
      BY <1>2, <1>8, <3>1
    <3> QED
      BY <1>2, <1>7, <3>2 DEF Range
  <2>3. ASSUME NEW y \in Range(ps) \ {Head(es)} PROVE y \in Range(Tail(ps))
    <3>1. PICK k \in 1 .. Len(ps) : y = ps[k]
      BY <1>2 DEF Range
    <3>2. k # 1
      BY <1>2, <1>7, <3>1
    <3>3. k - 1 \in 1 .. Len(ps) - 1
      BY <1>2, <3>2
    <3>4. Tail(ps)[k - 1] = y
      BY <1>2, <1>8, <3>1, <3>3
    <3> QED
      BY <2>1, <3>3, <3>4 DEF Range
  <2> QED
    BY <2>2, <2>3
<1> QED
  BY <1>2, <1>7, <1>8, <1>10, <1>11

-----------------------------------------------------------------------------
(* A local context *)

Fields == {"node", "start", "end", "next", "path_function", "used", "matched",
           "vertex_stack", "edge_stack", "path_stack", "is_dirty"}

\* A context the search can go on with.
Searchable(l) ==
    /\ Fields \subseteq DOMAIN l /\ l.node \in DOMAIN Nodes
    /\ l.edge_stack \in Seq(Range(Edges)) /\ l.path_stack \in Seq(Range(Edges))
    /\ l.used = Range(l.path_stack) /\ Explored(l.edge_stack, l.path_stack)
    /\ l.vertex_stack \in Seq(Range(l.vertex_stack))
    /\ IF Args(l).dir = "none" THEN Len(l.vertex_stack) = Len(l.edge_stack) ELSE l.vertex_stack = <<>>

LEMMA SearchableAs ==
  ASSUME NEW l, Searchable(l), NEW m, Fields \subseteq DOMAIN m, m.node = l.node,
         m.edge_stack = l.edge_stack, m.path_stack = l.path_stack, m.used = l.used,
         m.vertex_stack = l.vertex_stack
  PROVE  Searchable(m)
BY DEF Searchable, Args

\* a vertex for each edge that is pushed
LEMMA Vertical ==
  ASSUME NEW vs, vs \in Seq(Range(vs)), NEW E, NEW new \in Seq(E), NEW v
  PROVE  LET ws == [i \in DOMAIN new |-> v] \o vs
         IN  ws \in Seq(Range(ws)) /\ Len(ws) = Len(new) + Len(vs)
<1> DEFINE up == [i \in DOMAIN new |-> v]
           S == Range(vs) \cup {v}
<1>1. Len(new) \in Nat /\ DOMAIN new = 1 .. Len(new)
  OBVIOUS
<1>2. up \in Seq(S) /\ Len(up) = Len(new)
  BY <1>1
<1>3. vs \in Seq(S)
  BY SeqMonotonic
<1> HIDE DEF up, S
<1>4. up \o vs \in Seq(S) /\ Len(up \o vs) = Len(new) + Len(vs)
  <2>1. \A s, t \in Seq(S) : s \o t \in Seq(S) /\ Len(s \o t) = Len(s) + Len(t)
    BY ConcatProperties
  <2> QED
    BY <1>2, <1>3, <2>1, Zenon
<1>5. up \o vs \in Seq(Range(up \o vs))
  BY <1>4, SeqOfRange
<1> QED
  BY <1>4, <1>5 DEF up

LEMMA AddKeeps ==
  ASSUME AgeVleConstants, NEW l, Searchable(l), NEW g, NEW v
  PROVE  /\ Searchable(add_valid_vertex_edges(l, g, v))
         /\ add_valid_vertex_edges(l, g, v).node = l.node
<1> DEFINE out == IF Args(l).dir \in {"right", "none"} THEN edges_out(g, v) ELSE {}
           in == IF Args(l).dir \in {"left", "none"} THEN edges_in(g, v) ELSE {}
           met == (out \cup in \cup edges_self(g, v)) \ l.used
           new == {e \in met : Matched(l, g, e)}
           p1 == InOrder(Edges, out \cap new)
           p2 == InOrder(Edges, in \cap new)
           p3 == InOrder(Edges, edges_self(g, v) \cap new)
           pushed == Reverse(p1 \o p2 \o p3)
           mm == [e \in Range(Edges) |-> IF e \in new THEN "yes" ELSE IF e \in met THEN "no" ELSE l.matched[e]]
           es == pushed \o l.edge_stack
           vs == IF Args(l).dir = "none" THEN [i \in DOMAIN pushed |-> v] \o l.vertex_stack ELSE l.vertex_stack
           m == add_valid_vertex_edges(l, g, v)
           E == Range(Edges)
           X == E \ l.used
<1>1. m = [l EXCEPT !.matched = mm, !.edge_stack = es, !.vertex_stack = vs]
  BY DEF add_valid_vertex_edges
<1>2. pushed \in Seq(X)
  <2>1. new \cap l.used = {}
    OBVIOUS
  <2>2. Edges \in Seq(Range(Edges))
    BY DEF AgeVleConstants
  <2> HIDE DEF out, in, new, met
  <2>3. /\ p1 \in Seq((out \cap new) \cap E) /\ p2 \in Seq((in \cap new) \cap E)
        /\ p3 \in Seq((edges_self(g, v) \cap new) \cap E)
    BY <2>2, InOrderSeq
  <2>4. p1 \in Seq(X) /\ p2 \in Seq(X) /\ p3 \in Seq(X)
    <3>1. /\ (out \cap new) \cap E \subseteq X /\ (in \cap new) \cap E \subseteq X
          /\ (edges_self(g, v) \cap new) \cap E \subseteq X
      BY <2>1
    <3> HIDE DEF p1, p2, p3, X, E
    <3> QED
      BY <2>3, <3>1, SeqMonotonic
  <2> HIDE DEF p1, p2, p3, X
  <2>5. p1 \o p2 \o p3 \in Seq(X)
    BY <2>4
  <2> QED
    BY <2>5, ReverseSeq
<1> HIDE DEF pushed, mm, met, new, m
<1>3. DOMAIN m = DOMAIN l
  BY <1>1
<1> HIDE DEF es, vs
<1>4. /\ m.node = l.node /\ m.edge_stack = es /\ m.vertex_stack = vs /\ m.path_stack = l.path_stack
      /\ m.used = l.used
  BY <1>1 DEF Searchable, Fields
<1>5. l.edge_stack \in Seq(E) /\ l.path_stack \in Seq(E) /\ l.used = Range(l.path_stack)
      /\ Explored(l.edge_stack, l.path_stack) /\ l.vertex_stack \in Seq(Range(l.vertex_stack))
      /\ IF Args(l).dir = "none" THEN Len(l.vertex_stack) = Len(l.edge_stack) ELSE l.vertex_stack = <<>>
  BY DEF Searchable
<1>6. pushed \in Seq(E) /\ es \in Seq(E) /\ Len(es) = Len(pushed) + Len(l.edge_stack)
  <2>1. pushed \in Seq(E)
    <3>1. X \subseteq E
      OBVIOUS
    <3> HIDE DEF X, E
    <3> QED
      BY <1>2, <3>1, SeqMonotonic
  <2> HIDE DEF E
  <2> QED
    BY <1>5, <2>1, ConcatProperties DEF es
<1>7. Explored(es, l.path_stack)
  <2>1. \A k \in 1 .. Len(pushed) : pushed[k] \notin Range(l.path_stack)
    <3>1. \A k \in 1 .. Len(pushed) : pushed[k] \in X
      <4> HIDE DEF X
      <4> QED
        BY <1>2, ElementOfSeq
    <3> QED
      BY <1>5, <3>1
  <2> HIDE DEF E
  <2> QED
    BY <1>5, <1>6, <2>1, ExploredPush DEF es
<1>8. vs \in Seq(Range(vs)) /\ IF Args(l).dir = "none" THEN Len(vs) = Len(es) ELSE vs = <<>>
  <2>1. CASE Args(l).dir = "none"
    <3>1. vs = [i \in DOMAIN pushed |-> v] \o l.vertex_stack
      BY <2>1 DEF vs
    <3>2. vs \in Seq(Range(vs)) /\ Len(vs) = Len(pushed) + Len(l.vertex_stack)
      BY <1>5, <1>6, <3>1, Vertical
    <3> QED
      BY <1>5, <1>6, <2>1, <3>2
  <2>2. CASE Args(l).dir # "none"
    BY <1>5, <2>2 DEF vs
  <2> QED
    BY <2>1, <2>2
<1> HIDE DEF E
<1>9. Searchable(m)
  BY <1>3, <1>4, <1>5, <1>6, <1>7, <1>8 DEF Searchable, Args, E
<1> QED
  BY <1>4, <1>9 DEF m

LEMMA LoadInitialKeeps ==
  ASSUME AgeVleConstants, NEW l, Searchable(l), NEW g
  PROVE  Searchable(load_initial_dfs_stacks(l, g)) /\ load_initial_dfs_stacks(l, g).node = l.node
BY AddKeeps DEF load_initial_dfs_stacks

LEMMA OnPathKeeps ==
  ASSUME NEW l, Searchable(l), l.edge_stack # <<>>, Head(l.edge_stack) \notin l.used
  PROVE  Searchable(OnPath(l)) /\ OnPath(l).node = l.node
<1> DEFINE e == Head(l.edge_stack)
           m == OnPath(l)
           E == Range(Edges)
           ps == <<e>> \o l.path_stack
<1>1. m = [l EXCEPT !.used = l.used \cup {e}, !.path_stack = ps]
  BY DEF OnPath, Push
<1>2. l.edge_stack \in Seq(E) /\ l.path_stack \in Seq(E) /\ l.used = Range(l.path_stack)
      /\ Explored(l.edge_stack, l.path_stack)
  BY DEF Searchable
<1> HIDE DEF m
<1>3. /\ DOMAIN m = DOMAIN l /\ m.node = l.node /\ m.edge_stack = l.edge_stack /\ m.path_stack = ps
      /\ m.used = l.used \cup {e} /\ m.vertex_stack = l.vertex_stack
  BY <1>1 DEF Searchable, Fields
<1> HIDE DEF E
<1>4. e \in E
  BY <1>2
<1>5. ps \in Seq(E) /\ Range(ps) = l.used \cup {e}
  <2>1. <<e>> \in Seq(E) /\ Range(<<e>>) = {e}
    BY <1>4 DEF Range
  <2> HIDE DEF e
  <2>2. ps \in Seq(E) /\ Range(ps) = Range(<<e>>) \cup Range(l.path_stack)
    <3>1. \A s, t \in Seq(E) : s \o t \in Seq(E) /\ Range(s \o t) = Range(s) \cup Range(t)
      BY ConcatProperties, RangeConcatenation
    <3> QED
      BY <1>2, <2>1, <3>1, Zenon
  <2> QED
    BY <1>2, <2>1, <2>2
<1>6. Explored(l.edge_stack, ps)
  BY <1>2, ExploredOn
<1> HIDE DEF e, ps
<1>7. Searchable(m)
  BY <1>3, <1>5, <1>6 DEF Searchable, Args, E
<1> QED
  BY <1>3, <1>7 DEF m

LEMMA BackUpKeeps ==
  ASSUME NEW l, Searchable(l), l.edge_stack # <<>>, Head(l.edge_stack) \in l.used
  PROVE  Searchable(BackUp(l)) /\ BackUp(l).node = l.node
<1> DEFINE e == Head(l.edge_stack)
           m == BackUp(l)
           E == Range(Edges)
           es == Tail(l.edge_stack)
           ps == Tail(l.path_stack)
           vs == IF Args(l).dir = "none" THEN Tail(l.vertex_stack) ELSE l.vertex_stack
<1>1. l.edge_stack \in Seq(E) /\ l.path_stack \in Seq(E) /\ l.used = Range(l.path_stack)
      /\ Explored(l.edge_stack, l.path_stack) /\ l.vertex_stack \in Seq(Range(l.vertex_stack))
      /\ IF Args(l).dir = "none" THEN Len(l.vertex_stack) = Len(l.edge_stack) ELSE l.vertex_stack = <<>>
  BY DEF Searchable
<1>2. /\ l.path_stack # <<>> /\ Head(l.path_stack) = e
      /\ Explored(es, ps) /\ Range(ps) = l.used \ {e}
  <2> HIDE DEF E
  <2> QED
    BY <1>1, ExploredOff
<1>3. m = [l EXCEPT !.path_stack = ps, !.used = l.used \ {e}, !.edge_stack = es, !.vertex_stack = vs]
  BY <1>2 DEF BackUp
<1> HIDE DEF m
<1>4. es \in Seq(E) /\ ps \in Seq(E) /\ Len(es) = Len(l.edge_stack) - 1 /\ Len(l.edge_stack) \in Nat \ {0}
  <2> HIDE DEF E
  <2> QED
    BY <1>1, <1>2
<1>5. vs \in Seq(Range(vs)) /\ IF Args(l).dir = "none" THEN Len(vs) = Len(es) ELSE vs = <<>>
  <2>1. CASE Args(l).dir = "none"
    <3>1. Len(l.vertex_stack) = Len(l.edge_stack) /\ l.vertex_stack # <<>>
      BY <1>1, <1>4, <2>1
    <3>2. vs \in Seq(Range(l.vertex_stack)) /\ Len(vs) = Len(l.vertex_stack) - 1
      <4>1. \A S : \A s \in Seq(S) : s # <<>> => Tail(s) \in Seq(S) /\ Len(Tail(s)) = Len(s) - 1
        OBVIOUS
      <4>2. vs = Tail(l.vertex_stack)
        BY <2>1
      <4> QED
        BY <1>1, <3>1, <4>1, <4>2, Zenon
    <3> QED
      BY <1>4, <2>1, <3>1, <3>2, SeqOfRange
  <2>2. CASE Args(l).dir # "none"
    BY <1>1, <2>2
  <2> QED
    BY <2>1, <2>2
<1> HIDE DEF e, es, ps, vs
<1>6. /\ DOMAIN m = DOMAIN l /\ m.node = l.node /\ m.edge_stack = es /\ m.path_stack = ps
      /\ m.used = l.used \ {e} /\ m.vertex_stack = vs
  BY <1>3 DEF Searchable, Fields
<1> HIDE DEF E
<1>7. Searchable(m)
  BY <1>2, <1>4, <1>5, <1>6 DEF Searchable, Args, E
<1> QED
  BY <1>6, <1>7 DEF m

LEMMA NewKeeps ==
  ASSUME AgeVleConstants, NEW n \in DOMAIN Nodes, NEW from, NEW to, NEW g
  PROVE  LET l == build_local_vle_context(n, from, to, g) IN Searchable(l) /\ l.node = n
<1> DEFINE l == NewLocal(n, from, to, g)
<1>1. /\ DOMAIN l = Fields /\ l.node = n /\ l.edge_stack = <<>> /\ l.path_stack = <<>>
      /\ l.used = {} /\ l.vertex_stack = <<>>
  BY DEF NewLocal, Fields
<1> HIDE DEF l
<1>2. Range(<<>>) = {} /\ <<>> \in Seq(Range(Edges)) /\ <<>> \in Seq({}) /\ Len(<<>>) = 0
  BY DEF Range
<1>3. Explored(<<>>, <<>>)
  BY <1>2, ExploredNone
<1>4. Searchable(l)
  BY <1>1, <1>2, <1>3 DEF Searchable
<1> QED
  BY <1>1, <1>4, LoadInitialKeeps DEF build_local_vle_context, l

LEMMA ReusedKeeps ==
  ASSUME AgeVleConstants, NEW l, Searchable(l), NEW from, NEW to
  PROVE  Searchable(ReusedLocal(l, from, to)) /\ ReusedLocal(l, from, to).node = l.node
<1> DEFINE m == [l EXCEPT !.start = IF from = None THEN Head(l.next) ELSE from,
                          !.next = IF from = None THEN Tail(@) ELSE @,
                          !.end = to, !.is_dirty = TRUE]
<1>1. /\ Fields \subseteq DOMAIN m /\ m.node = l.node /\ m.edge_stack = l.edge_stack
      /\ m.path_stack = l.path_stack /\ m.used = l.used /\ m.vertex_stack = l.vertex_stack
  BY DEF Searchable, Fields
<1> HIDE DEF m
<1>2. Searchable(m)
  BY <1>1, SearchableAs
<1> QED
  BY <1>1, <1>2, LoadInitialKeeps DEF ReusedLocal, m

-----------------------------------------------------------------------------
(* The cache of local contexts *)

CacheOk(c) ==
    /\ c \in Seq(Range(c)) /\ Len(c) <= MaxContexts + 1
    /\ \A i, j \in 1 .. Len(c) : c[i].node = c[j].node => i = j
    /\ \A i \in 1 .. Len(c) : ~c[i].is_dirty => Searchable(c[i]) /\ c[i].edge_stack = <<>>
\* room for the context of n, which it does not have
Room(c, n) == Len(c) <= MaxContexts /\ \A i \in 1 .. Len(c) : c[i].node # n

PartOf(o, c, n) ==
    \E f \in [1 .. Len(o) -> 1 .. Len(c)] :
        /\ \A i, j \in 1 .. Len(o) : f[i] = f[j] => i = j
        /\ \A i \in 1 .. Len(o) : o[i] = c[f[i]] /\ c[f[i]].node # n

LEMMA CachePart ==
  ASSUME NEW c, CacheOk(c), NEW X, NEW o, o \in Seq(X), Len(o) <= MaxContexts, NEW n, PartOf(o, c, n)
  PROVE  CacheOk(o) /\ Room(o, n)
<1> PICK f \in [1 .. Len(o) -> 1 .. Len(c)] :
        /\ \A i, j \in 1 .. Len(o) : f[i] = f[j] => i = j
        /\ \A i \in 1 .. Len(o) : o[i] = c[f[i]] /\ c[f[i]].node # n
  BY DEF PartOf
<1>1. o \in Seq(Range(o))
  BY SeqOfRange
<1>2. Len(o) <= MaxContexts + 1
  BY VleConstants, LenProperties
<1>3. \A i \in 1 .. Len(o) : f[i] \in 1 .. Len(c)
  OBVIOUS
<1>4. ASSUME NEW i \in 1 .. Len(o), NEW j \in 1 .. Len(o), o[i].node = o[j].node PROVE i = j
  <2>1. c[f[i]].node = c[f[j]].node
    BY <1>4
  <2>2. f[i] = f[j]
    BY <1>3, <2>1 DEF CacheOk
  <2> QED
    BY <2>2
<1>5. \A i \in 1 .. Len(o) : ~o[i].is_dirty => Searchable(o[i]) /\ o[i].edge_stack = <<>>
  <2> TAKE i \in 1 .. Len(o)
  <2>1. o[i] = c[f[i]] /\ f[i] \in 1 .. Len(c)
    BY <1>3
  <2>2. ~c[f[i]].is_dirty => Searchable(c[f[i]]) /\ c[f[i]].edge_stack = <<>>
    BY <2>1 DEF CacheOk
  <2> QED
    BY <2>1, <2>2
<1> QED
  BY <1>1, <1>2, <1>4, <1>5 DEF CacheOk, Room

LEMMA FirstOf ==
  ASSUME NEW S, NEW s \in Seq(S), NEW m \in Nat, m <= Len(s)
  PROVE  LET o == SubSeq(s, 1, m)
         IN  o \in Seq(S) /\ Len(o) = m /\ \A i \in 1 .. m : o[i] = s[i]
<1>1. Len(s) \in Nat /\ \A i \in 1 .. m : i \in 1 .. Len(s) /\ s[i] \in S
  BY LenProperties
<1>2. m - 1 + 1 = m /\ 1 \in Int /\ m \in Int /\ (IF 1 <= m THEN m - 1 + 1 ELSE 0) = m
  OBVIOUS
<1>3. /\ SubSeq(s, 1, m) \in Seq(S) /\ Len(SubSeq(s, 1, m)) = m
      /\ \A i \in 1 .. m : SubSeq(s, 1, m)[i] = s[1 + i - 1]
  BY <1>1, <1>2, SubSeqProperties
<1>4. \A i \in 1 .. m : 1 + i - 1 = i
  OBVIOUS
<1> QED
  BY <1>3, <1>4

LEMMA LastOf ==
  ASSUME NEW S, NEW s \in Seq(S), NEW k \in 1 .. Len(s)
  PROVE  LET o == SubSeq(s, k + 1, Len(s))
         IN  o \in Seq(S) /\ Len(o) = Len(s) - k /\ \A i \in 1 .. Len(s) - k : o[i] = s[k + i]
<1> DEFINE N == Len(s)
           o == SubSeq(s, k + 1, N)
<1>1. N \in Nat /\ k \in Nat /\ k <= N /\ k + 1 \in Int /\ N \in Int
  BY LenProperties
<1>2. \A i \in k + 1 .. N : s[i] \in S
  BY <1>1, LenProperties
<1>3. /\ o \in Seq(S) /\ Len(o) = (IF k + 1 <= N THEN N - (k + 1) + 1 ELSE 0)
      /\ \A i \in 1 .. N - (k + 1) + 1 : o[i] = s[k + 1 + i - 1]
  BY <1>1, <1>2, SubSeqProperties
<1>4. (IF k + 1 <= N THEN N - (k + 1) + 1 ELSE 0) = N - k /\ N - (k + 1) + 1 = N - k
  BY <1>1
<1>5. \A i \in 1 .. N - k : k + 1 + i - 1 = k + i
  BY <1>1
<1> QED
  BY <1>3, <1>4, <1>5

LEMMA Without ==
  ASSUME NEW S, NEW s \in Seq(S), NEW k \in 1 .. Len(s)
  PROVE  LET o == RemoveAt(s, k)
         IN  /\ o \in Seq(S) /\ Len(o) = Len(s) - 1
             /\ \A i \in 1 .. Len(s) - 1 : o[i] = IF i < k THEN s[i] ELSE s[i + 1]
<1> DEFINE N == Len(s)
           a == SubSeq(s, 1, k - 1)
           b == SubSeq(s, k + 1, N)
           o == RemoveAt(s, k)
<1>1. N \in Nat /\ k \in Nat /\ 1 <= k /\ k <= N /\ k - 1 \in Nat
  BY LenProperties
<1>2. a \in Seq(S) /\ Len(a) = k - 1 /\ \A i \in 1 .. k - 1 : a[i] = s[i]
  BY <1>1, FirstOf
<1>3. b \in Seq(S) /\ Len(b) = N - k /\ \A i \in 1 .. N - k : b[i] = s[k + i]
  BY LastOf
<1>4. o = a \o b
  BY DEF RemoveAt
<1> HIDE DEF a, b, o, N
<1>5. o \in Seq(S) /\ Len(o) = (k - 1) + (N - k)
      /\ \A i \in 1 .. (k - 1) + (N - k) : o[i] = IF i <= k - 1 THEN a[i] ELSE b[i - (k - 1)]
  BY <1>2, <1>3, <1>4, ConcatProperties
<1>6. (k - 1) + (N - k) = N - 1
  BY <1>1
<1>7. ASSUME NEW i \in 1 .. N - 1 PROVE o[i] = IF i < k THEN s[i] ELSE s[i + 1]
  <2>1. CASE i < k
    <3>1. i <= k - 1 /\ i \in 1 .. k - 1
      BY <1>1, <2>1
    <3> QED
      BY <1>2, <1>5, <1>6, <2>1, <3>1
  <2>2. CASE ~(i < k)
    <3>1. ~(i <= k - 1) /\ i - (k - 1) \in 1 .. N - k /\ k + (i - (k - 1)) = i + 1
      BY <1>1, <2>2
    <3>2. o[i] = b[i - (k - 1)]
      BY <1>5, <1>6, <3>1
    <3>3. b[i - (k - 1)] = s[k + (i - (k - 1))]
      BY <1>3, <3>1
    <3> QED
      BY <2>2, <3>1, <3>2, <3>3
  <2> QED
    BY <2>1, <2>2
<1> QED
  BY <1>5, <1>6, <1>7 DEF o, N

\* A lookup leaves the cache without a context of the node.
LEMMA OthersOk ==
  ASSUME NEW n, CacheOk(cache)
  PROVE  CacheOk(Others(n)) /\ Room(Others(n), n)
<1> DEFINE N == Len(cache)
           S == Range(cache)
           o == Others(n)
<1>1. cache \in Seq(S) /\ N \in Nat /\ DOMAIN cache = 1 .. N /\ N <= MaxContexts + 1 /\ MaxContexts \in Nat
  BY VleConstants, LenProperties DEF CacheOk
<1>2. CASE Found(n) = {}
  <2> DEFINE m == Min({N, MaxContexts})
  <2>1. m \in {N, MaxContexts} /\ m <= N /\ m <= MaxContexts
    <3>1. {N, MaxContexts} \in SUBSET Nat /\ {N, MaxContexts} # {}
      BY <1>1
    <3> QED
      BY <3>1, Least
  <2>2. m \in Nat
    BY <1>1, <2>1
  <2>3. o = SubSeq(cache, 1, m)
    BY <1>2 DEF Others
  <2> HIDE DEF m, S, o
  <2>4. o \in Seq(S) /\ Len(o) = m /\ \A i \in 1 .. m : o[i] = cache[i]
    BY <1>1, <2>1, <2>2, <2>3, FirstOf
  <2>5. \A i \in 1 .. m : i \in 1 .. N /\ i <= MaxContexts
    <3>1. N \in Nat /\ MaxContexts \in Nat /\ m \in Nat /\ m <= N /\ m <= MaxContexts
      BY <1>1, <2>1, <2>2
    <3> HIDE DEF N
    <3> QED
      BY <3>1
  <2>6. \A i \in 1 .. m : cache[i].node # n
    BY <1>1, <1>2, <2>5 DEF Found
  <2> DEFINE f == [i \in 1 .. Len(o) |-> i]
  <2>7. f \in [1 .. Len(o) -> 1 .. N] /\ \A i, j \in 1 .. Len(o) : f[i] = f[j] => i = j
    BY <2>4, <2>5
  <2>8. \A i \in 1 .. Len(o) : o[i] = cache[f[i]] /\ cache[f[i]].node # n
    BY <2>4, <2>6
  <2> HIDE DEF f
  <2>9. CacheOk(o) /\ Room(o, n)
    <3>1. PartOf(o, cache, n)
      BY <2>7, <2>8 DEF PartOf
    <3> QED
      BY <2>1, <2>4, <3>1, CachePart
  <2> QED
    BY <2>9 DEF o
<1>3. CASE Found(n) # {}
  <2> DEFINE k == Min(Found(n))
  <2>1. Found(n) \in SUBSET Nat
    BY <1>1 DEF Found
  <2>2. k \in Found(n)
    BY <1>3, <2>1, Least
  <2>3. k \in 1 .. N /\ k <= MaxContexts /\ cache[k].node = n
    BY <1>1, <2>2 DEF Found
  <2>4. o = RemoveAt(cache, k)
    BY <1>3 DEF Others
  <2> HIDE DEF k, S, o
  <2>5. o \in Seq(S) /\ Len(o) = N - 1 /\ \A i \in 1 .. N - 1 : o[i] = IF i < k THEN cache[i] ELSE cache[i + 1]
    BY <1>1, <2>3, <2>4, Without
  <2> DEFINE f == [i \in 1 .. Len(o) |-> IF i < k THEN i ELSE i + 1]
  <2>6. f \in [1 .. Len(o) -> 1 .. N]
    BY <1>1, <2>3, <2>5
  <2>7. \A i, j \in 1 .. Len(o) : f[i] = f[j] => i = j
    BY <1>1, <2>3, <2>5
  <2>8. \A i \in 1 .. Len(o) : f[i] # k /\ f[i] \in 1 .. N /\ o[i] = cache[f[i]]
    BY <1>1, <2>3, <2>5
  <2> HIDE DEF f
  <2>9. \A i \in 1 .. Len(o) : o[i] = cache[f[i]] /\ cache[f[i]].node # n
    BY <2>3, <2>8 DEF CacheOk
  <2>10. Len(o) <= MaxContexts
    BY <1>1, <2>5
  <2>11. CacheOk(o) /\ Room(o, n)
    <3>1. o \in Seq(S)
      BY <2>5
    <3>2. PartOf(o, cache, n)
      BY <2>6, <2>7, <2>9 DEF PartOf
    <3> QED
      BY <2>10, <3>1, <3>2, CachePart
  <2> QED
    BY <2>11 DEF o
<1> QED
  BY <1>2, <1>3

LEMMA CachedOk ==
  ASSUME CacheOk(cache), NEW l, Room(cache, l.node),
         ~l.is_dirty => Searchable(l) /\ l.edge_stack = <<>>
  PROVE  CacheOk(cache_VLE_local_context(l))
<1> DEFINE c == <<l>> \o cache
           S == Range(cache) \cup {l}
<1>1. Len(cache) \in Nat /\ Len(cache) <= MaxContexts /\ MaxContexts \in Nat
  BY VleConstants, LenProperties DEF CacheOk, Room
<1>2. cache \in Seq(S) /\ <<l>> \in Seq(S)
  BY SeqMonotonic DEF CacheOk
<1> HIDE DEF S
<1>3. /\ c \in Seq(S) /\ Len(c) = Len(cache) + 1 /\ c[1] = l
      /\ \A i \in 2 .. Len(cache) + 1 : c[i] = cache[i - 1]
  BY <1>1, <1>2
<1>4. c \in Seq(Range(c))
  BY <1>3, SeqOfRange
<1> HIDE DEF c
<1>5. \A i \in 1 .. Len(c) : i = 1 \/ (i \in 2 .. Len(cache) + 1 /\ i - 1 \in 1 .. Len(cache))
  BY <1>1, <1>3
<1>6. ASSUME NEW i \in 1 .. Len(c), NEW j \in 1 .. Len(c), c[i].node = c[j].node PROVE i = j
  <2>1. CASE i = 1 \/ j = 1
    BY <1>3, <1>5, <1>6, <2>1 DEF Room
  <2>2. CASE i # 1 /\ j # 1
    <3>1. i - 1 = j - 1
      BY <1>3, <1>5, <1>6, <2>2 DEF CacheOk
    <3> QED
      BY <1>1, <1>3, <3>1
  <2> QED
    BY <2>1, <2>2
<1>7. \A i \in 1 .. Len(c) : ~c[i].is_dirty => Searchable(c[i]) /\ c[i].edge_stack = <<>>
  <2> TAKE i \in 1 .. Len(c)
  <2>1. CASE i = 1
    BY <1>3, <2>1
  <2>2. CASE i # 1
    <3>1. i - 1 \in 1 .. Len(cache) /\ c[i] = cache[i - 1]
      BY <1>3, <1>5, <2>2
    <3>2. ~cache[i - 1].is_dirty => Searchable(cache[i - 1]) /\ cache[i - 1].edge_stack = <<>>
      BY <3>1 DEF CacheOk
    <3> QED
      BY <3>1, <3>2
  <2> QED
    BY <2>1, <2>2
<1>8. Len(c) <= MaxContexts + 1
  BY <1>1, <1>3
<1>9. CacheOk(c)
  BY <1>4, <1>6, <1>7, <1>8 DEF CacheOk
<1> QED
  BY <1>9 DEF cache_VLE_local_context, c

-----------------------------------------------------------------------------
(* What a search leaves in the cache *)

CacheInv ==
    /\ CallShape /\ CacheOk(cache)
    /\ Inside => Searchable(call.local) /\ Room(cache, call.local.node)
    /\ call.phase = "load" /\ call.op.what = "vle" =>
         call.op.node \in DOMAIN Nodes /\ Room(cache, call.op.node)

LEMMA CacheInit ==
  ASSUME Init
  PROVE  CacheInv
<1>1. cache = <<>> /\ call = Idle
  BY DEF Init
<1>2. <<>> \in Seq(Range(<<>>)) /\ Len(<<>>) = 0 /\ 0 <= MaxContexts + 1
  BY VleConstants
<1>3. CacheOk(<<>>)
  BY <1>2 DEF CacheOk
<1> QED
  BY <1>1, <1>3 DEF CacheInv, CallShape, Inside, Idle

\* A step that does not load or search.
LEMMA CacheQuiet ==
  ASSUME CacheOk(cache'), call'.phase \notin {"fetch", "search", "load"}
  PROVE  CacheInv'
BY DEF CacheInv, CallShape, Inside

\* A step of the search.
LEMMA CacheSearch ==
  ASSUME CacheInv, Inside, cache' = cache, NEW phase \in {"fetch", "search"}, NEW local,
         Searchable(local), local.node = call.local.node, NEW from, NEW graph, NEW seen, NEW rows,
         call' = [phase |-> phase, local |-> local, from |-> from, graph |-> graph, seen |-> seen, rows |-> rows]
  PROVE  CacheInv'
<1>1. call'.local = local /\ call'.phase = phase
  OBVIOUS
<1>2. Searchable(call'.local) /\ Room(cache', call'.local.node)
  BY <1>1 DEF CacheInv
<1>3. CacheOk(cache')
  BY DEF CacheInv
<1>4. CallShape'
  BY DEF CallShape, Inside
<1> QED
  BY <1>1, <1>2, <1>3, <1>4 DEF CacheInv

LEMMA CacheContinue ==
  ASSUME AgeVleConstants, NEW op, NEW g, NEW seen, Continue(op, g, seen), CacheOk(cache'),
         op.what = "vle" => op.node \in DOMAIN Nodes /\ Room(cache', op.node)
  PROVE  CacheInv'
<1>1. CASE call' = Idle
  BY <1>1, CacheQuiet DEF Idle
<1>2. CASE op.what = "vle" /\ call' = Begun(build_local_vle_context(op.node, op.from, op.to, g), op.from, g, seen)
  <2> DEFINE l == build_local_vle_context(op.node, op.from, op.to, g)
  <2>1. Searchable(l) /\ l.node = op.node
    BY <1>2, NewKeeps
  <2> HIDE DEF l
  <2>2. call' = Begun(l, op.from, g, seen)
    BY <1>2 DEF l
  <2>3. call'.local = l /\ CallShape' /\ call'.phase = "fetch"
    BY <2>2 DEF Begun, CallShape, Inside
  <2>4. Searchable(call'.local) /\ Room(cache', call'.local.node)
    BY <1>2, <2>1, <2>3
  <2> QED
    BY <2>3, <2>4 DEF CacheInv
<1> QED
  BY <1>1, <1>2 DEF Continue

LEMMA CacheManage ==
  ASSUME AgeVleConstants, NEW op, NEW valid \in BOOLEAN, manage_GRAPH_global_contexts(op, valid),
         CacheOk(cache'),
         op.what = "vle" => op.node \in DOMAIN Nodes /\ Room(cache', op.node)
  PROVE  CacheInv'
<1>1. CASE valid
  BY <1>1, CacheContinue DEF manage_GRAPH_global_contexts
<1>2. CASE ~valid
  <2>1. call' = [phase |-> "load", op |-> op, key |-> Snapshot, seen |-> Seen]
    BY <1>2 DEF manage_GRAPH_global_contexts
  <2>2. call'.op = op /\ call'.phase = "load" /\ CallShape'
    BY <2>1 DEF CallShape, Inside
  <2>3. call'.op.what = "vle" => call'.op.node \in DOMAIN Nodes /\ Room(cache', call'.op.node)
    BY <2>2
  <2> QED
    BY <2>2, <2>3 DEF CacheInv, Inside
<1> QED
  BY <1>1, <1>2

LEMMA CacheStart ==
  ASSUME AgeVleConstants, CacheInv, NEW n \in DOMAIN Nodes, NEW from, NEW to, Start(n, from, to)
  PROVE  CacheInv'
<1> DEFINE old == get_cached_VLE_local_context(n)
           op == [what |-> "vle", node |-> n, from |-> from, to |-> to]
<1>1. CacheOk(Others(n)) /\ Room(Others(n), n)
  BY OthersOk DEF CacheInv
<1>2. CASE manage_GRAPH_global_contexts(op, ~Loads) /\ cache' = Others(n)
  <2>1. (~Loads) \in BOOLEAN
    BY DEF Loads, is_ggctx_invalid
  <2>2. op.node = n
    OBVIOUS
  <2> HIDE DEF op
  <2> QED
    BY <1>1, <1>2, <2>1, <2>2, CacheManage
<1>3. CASE /\ old # {} /\ cache' = Others(n)
           /\ call' = Begun(ReusedLocal(CHOOSE l \in old : TRUE, from, to), from, context.graph, Seen)
  <2> DEFINE l == CHOOSE l \in old : TRUE
             r == ReusedLocal(l, from, to)
  <2>1. l \in old
    BY <1>3
  <2>2. PICK i \in Found(n) : l = cache[i] /\ ~cache[i].is_dirty
    BY <1>3, <2>1 DEF get_cached_VLE_local_context
  <2>3. i \in 1 .. Len(cache) /\ cache[i].node = n
    BY <2>2, LenProperties DEF Found, CacheInv, CacheOk
  <2>4. Searchable(cache[i])
    BY <2>2, <2>3 DEF CacheInv, CacheOk
  <2> HIDE DEF l
  <2>5. Searchable(r) /\ r.node = n
    BY <2>2, <2>3, <2>4, ReusedKeeps
  <2>6. call' = Begun(r, from, context.graph, Seen)
    BY <1>3 DEF l
  <2> HIDE DEF r
  <2>7. call'.local = r /\ CallShape' /\ call'.phase = "fetch"
    BY <2>6 DEF Begun, CallShape, Inside
  <2>8. Searchable(call'.local) /\ Room(cache', call'.local.node) /\ CacheOk(cache')
    BY <1>1, <1>3, <2>5, <2>7
  <2> QED
    BY <2>7, <2>8 DEF CacheInv
<1>4. CASE Crash
  <2>1. cache' = <<>> /\ call' = Idle
    BY <1>4 DEF Crash
  <2>2. <<>> \in Seq(Range(<<>>)) /\ Len(<<>>) = 0 /\ 0 <= MaxContexts + 1
    BY VleConstants
  <2>3. CacheOk(<<>>)
    BY <2>2 DEF CacheOk
  <2>4. CacheOk(cache') /\ call'.phase = "idle"
    BY <2>1, <2>3 DEF Idle
  <2> QED
    BY <2>4, CacheQuiet
<1> QED
  BY <1>2, <1>3, <1>4 DEF Start

\* A search that ends puts its context back.
LEMMA CacheEnds ==
  ASSUME CacheInv, Inside, NEW l, l.node = call.local.node,
         ~l.is_dirty => Searchable(l) /\ l.edge_stack = <<>>,
         cache' = cache_VLE_local_context(l), call'.phase \in {"idle", "done"}
  PROVE  CacheInv'
<1>1. CacheOk(cache') 
  BY CachedOk DEF CacheInv
<1> QED
  BY <1>1, CacheQuiet

LEMMA CacheUpdates ==
  ASSUME CacheInv, Inside, cache' = cache, NEW local, Searchable(local), local.node = call.local.node,
         \/ call' = [call EXCEPT !.phase = "search", !.local = local]
         \/ \E r : call' = [call EXCEPT !.phase = "fetch", !.local = local, !.rows = r]
  PROVE  CacheInv'
<1>1. PICK p, a, f, g, s, q : call = [phase |-> p, local |-> a, from |-> f, graph |-> g, seen |-> s, rows |-> q]
  BY DEF CacheInv, CallShape
<1>2. CASE call' = [call EXCEPT !.phase = "search", !.local = local]
  <2>1. call' = [phase |-> "search", local |-> local, from |-> f, graph |-> g, seen |-> s, rows |-> q]
    BY <1>1, <1>2
  <2> QED
    BY <2>1, CacheSearch
<1>3. CASE \E r : call' = [call EXCEPT !.phase = "fetch", !.local = local, !.rows = r]
  <2>1. PICK r : call' = [call EXCEPT !.phase = "fetch", !.local = local, !.rows = r]
    BY <1>3
  <2>2. call' = [phase |-> "fetch", local |-> local, from |-> f, graph |-> g, seen |-> s, rows |-> r]
    BY <1>1, <2>1
  <2> QED
    BY <2>2, CacheSearch
<1> QED
  BY <1>2, <1>3

LEMMA CacheSearches ==
  ASSUME AgeVleConstants, CacheInv, BackingUp \/ dfs_find_a_path \/ NextStart \/ NoneLeft
  PROVE  CacheInv'
<1> DEFINE l == call.local
<1>1. Inside /\ Searchable(l)
  BY DEF CacheInv, BackingUp, dfs_find_a_path, NextStart, NoneLeft
<1>2. CASE BackingUp
  <2>1. /\ l.edge_stack # <<>> /\ Head(l.edge_stack) \in l.used /\ cache' = cache
        /\ call' = [call EXCEPT !.phase = "search", !.local = BackUp(l)]
    BY <1>2 DEF BackingUp
  <2>2. Searchable(BackUp(l)) /\ BackUp(l).node = l.node
    BY <1>1, <2>1, BackUpKeeps
  <2> QED
    BY <1>1, <2>1, <2>2, CacheUpdates
<1>3. CASE dfs_find_a_path
  <2> DEFINE on == OnPath(l)
             v == get_next_vertex(l, Head(l.edge_stack))
             further == WithinUpper(l, Len(on.path_stack) + 1)
             more == IF further THEN add_valid_vertex_edges(on, call.graph, v) ELSE on
  <2>1. l.edge_stack # <<>> /\ Head(l.edge_stack) \notin l.used
    BY <1>3 DEF dfs_find_a_path
  <2>2. Searchable(on) /\ on.node = l.node
    BY <1>1, <2>1, OnPathKeeps
  <2>3. Searchable(more) /\ more.node = l.node
    <3> HIDE DEF on, v, further
    <3> QED
      BY <2>2, AddKeeps
  <2>4. \/ cache' = cache_VLE_local_context(Dirty(l)) /\ call' = Idle
        \/ /\ cache' = cache
           /\ \/ call' = [call EXCEPT !.phase = "search", !.local = more]
              \/ \E r : call' = [call EXCEPT !.phase = "fetch", !.local = more, !.rows = r]
    BY <1>3 DEF dfs_find_a_path
  <2> HIDE DEF more
  <2>5. CASE cache' = cache_VLE_local_context(Dirty(l)) /\ call' = Idle
    <3>1. Dirty(l).node = l.node /\ Dirty(l).is_dirty = TRUE /\ call'.phase = "idle"
      BY <2>5 DEF Dirty, Idle
    <3> QED
      BY <1>1, <2>5, <3>1, CacheEnds
  <2> QED
    BY <1>1, <2>3, <2>4, <2>5, CacheUpdates
<1>4. CASE NextStart
  <2> DEFINE next == [l EXCEPT !.start = Head(l.next), !.next = Tail(l.next)]
             loaded == load_initial_dfs_stacks(next, call.graph)
  <2>1. /\ Fields \subseteq DOMAIN next /\ next.node = l.node /\ next.edge_stack = l.edge_stack
        /\ next.path_stack = l.path_stack /\ next.used = l.used /\ next.vertex_stack = l.vertex_stack
    BY <1>1 DEF Searchable, Fields
  <2>2. \/ call' = [call EXCEPT !.phase = "search", !.local = loaded]
        \/ \E r : call' = [call EXCEPT !.phase = "fetch", !.local = loaded, !.rows = r]
    BY <1>4 DEF NextStart
  <2> HIDE DEF next
  <2>3. Searchable(next)
    BY <1>1, <2>1, SearchableAs
  <2>4. Searchable(loaded) /\ loaded.node = l.node
    BY <2>1, <2>3, LoadInitialKeeps
  <2>5. cache' = cache
    BY <1>4 DEF NextStart
  <2> HIDE DEF loaded
  <2> QED
    BY <1>1, <2>2, <2>4, <2>5, CacheUpdates
<1>5. CASE NoneLeft
  <2> DEFINE last == [l EXCEPT !.is_dirty = FALSE]
  <2>1. /\ Fields \subseteq DOMAIN last /\ last.node = l.node /\ last.edge_stack = l.edge_stack
        /\ last.path_stack = l.path_stack /\ last.used = l.used /\ last.vertex_stack = l.vertex_stack
    BY <1>1 DEF Searchable, Fields
  <2>2. l.edge_stack = <<>> /\ cache' = cache_VLE_local_context(last) /\ call' = [call EXCEPT !.phase = "done"]
    BY <1>5 DEF NoneLeft
  <2> HIDE DEF last
  <2>3. Searchable(last)
    BY <1>1, <2>1, SearchableAs
  <2>4. call'.phase = "done"
    <3>1. PICK p, a, f, g, s, q : call = [phase |-> p, local |-> a, from |-> f, graph |-> g, seen |-> s, rows |-> q]
      BY <1>1 DEF CacheInv, CallShape
    <3> QED
      BY <2>2, <3>1
  <2> QED
    BY <1>1, <2>1, <2>2, <2>3, <2>4, CacheEnds
<1> QED
  BY <1>2, <1>3, <1>4, <1>5

LEMMA CacheStep ==
  ASSUME AgeVleConstants, CacheInv, [Next]_vars
  PROVE  CacheInv'
<1>1. CASE call' = call /\ cache' = cache
  BY <1>1 DEF CacheInv, CallShape, Inside
<1>2. ASSUME NEW mine \in BOOLEAN, Assign(mine) PROVE CacheInv'
  BY <1>1, <1>2 DEF Assign
<1>3. ASSUME NEW x \in DOMAIN running, NEW c \in Changes, Write(x, c) PROVE CacheInv'
  BY <1>1, <1>3 DEF Write
<1>4. ASSUME NEW x \in DOMAIN running, NEW commits \in BOOLEAN, End(x, commits) PROVE CacheInv'
  BY <1>1, <1>4 DEF End
<1>5. ASSUME NEW n \in DOMAIN Nodes, NEW from, NEW to, Start(n, from, to) PROVE CacheInv'
  BY <1>5, CacheStart
<1>6. CASE load_GRAPH_global_hashtables
  <2>1. /\ call.phase = "load" /\ cache' = cache /\ Continue(call.op, call.seen, call.seen)
    BY <1>6 DEF load_GRAPH_global_hashtables
  <2>2. CacheOk(cache') /\ (call.op.what = "vle" => call.op.node \in DOMAIN Nodes /\ Room(cache', call.op.node))
    BY <2>1 DEF CacheInv
  <2> QED
    BY <2>1, <2>2, CacheContinue
<1>7. CASE CancelLoad \/ Hang \/ age_delete_global_graphs
  <2>1. cache' = cache /\ call'.phase \in {"idle", "hung"}
    BY <1>7 DEF CancelLoad, Hang, age_delete_global_graphs, Idle
  <2>2. CacheOk(cache')
    BY <2>1 DEF CacheInv
  <2> QED
    BY <2>1, <2>2, CacheQuiet
<1>8. CASE CancelFetch
  <2>1. /\ Inside /\ cache' = cache_VLE_local_context(Dirty(call.local)) /\ call'.phase = "idle"
    BY <1>8 DEF CancelFetch, Idle, Inside
  <2>2. Dirty(call.local).node = call.local.node /\ Dirty(call.local).is_dirty = TRUE
    BY DEF Dirty
  <2> QED
    BY <2>1, <2>2, CacheEnds
<1>9. CASE age_vertex_stats \/ age_graph_stats
  <2> DEFINE op == [what |-> "stats"]
  <2>1. cache' = cache /\ \E valid \in BOOLEAN : manage_GRAPH_global_contexts(op, valid)
    BY <1>9 DEF age_vertex_stats, age_graph_stats, Loads, is_ggctx_invalid
  <2>2. CacheOk(cache') /\ op.what # "vle"
    BY <2>1 DEF CacheInv
  <2> HIDE DEF op
  <2> QED
    BY <2>1, <2>2, CacheManage
<1>10. CASE BackingUp \/ dfs_find_a_path \/ NextStart \/ NoneLeft
  BY <1>10, CacheSearches
<1>11. CASE UNCHANGED vars
  BY <1>1, <1>11 DEF vars
<1> QED
  BY <1>2, <1>3, <1>4, <1>5, <1>6, <1>7, <1>8, <1>9, <1>10, <1>11 DEF Next

LEMMA CacheInvClean ==
  ASSUME CacheInv
  PROVE  CacheIsClean
<1>1. cache \in Seq(Range(cache)) /\ DOMAIN cache = 1 .. Len(cache)
  BY LenProperties DEF CacheInv, CacheOk
<1>2. ASSUME NEW l, Searchable(l), l.edge_stack = <<>>
      PROVE  l.used = {} /\ l.path_stack = <<>> /\ l.edge_stack = <<>> /\ l.vertex_stack = <<>>
  <2>1. l.path_stack = <<>>
    BY <1>2, ExploredAll DEF Searchable
  <2>2. l.used = {}
    BY <1>2, <2>1 DEF Searchable, Range
  <2>3. l.vertex_stack = <<>>
    <3>1. l.vertex_stack \in Seq(Range(l.vertex_stack)) /\ (Len(l.vertex_stack) = 0 \/ l.vertex_stack = <<>>)
      BY <1>2, EmptySeq DEF Searchable
    <3>2. \A S : \A s \in Seq(S) : Len(s) = 0 => s = <<>>
      OBVIOUS
    <3> QED
      BY <3>1, <3>2
  <2> QED
    BY <1>2, <2>1, <2>2, <2>3
<1>3. \A i \in 1 .. Len(cache) : ~cache[i].is_dirty => Searchable(cache[i]) /\ cache[i].edge_stack = <<>>
  BY DEF CacheInv, CacheOk
<1>4. /\ \A i, j \in 1 .. Len(cache) : cache[i].node = cache[j].node => i = j
      /\ Len(cache) <= MaxContexts + 1
  BY DEF CacheInv, CacheOk
<1> QED
  BY <1>1, <1>2, <1>3, <1>4 DEF CacheIsClean

(* Whatever is searched, and wherever a statement ends, the contexts in the *)
(* cache that are not dirty are clean, a node has one of them at most, and  *)
(* the cache is bounded (age_vle, get_cached_VLE_local_context): the path   *)
(* of a search always lies in its edge stack, in the order of the path and  *)
(* each edge where it is nearest to the top, so that what is backed up from *)
(* is the last edge of the path.                                            *)
THEOREM VleCacheClean == Spec => []CacheIsClean
<1>1. Init => CacheInv
  BY CacheInit
<1>2. CacheInv /\ [Next]_vars => CacheInv'
  BY AgeVleConstants, CacheStep
<1>3. CacheInv => CacheIsClean
  BY CacheInvClean
<1> QED
  BY <1>1, <1>2, <1>3, PTL DEF Spec

=============================================================================
