----------------------------- MODULE MCAgeWrite -----------------------------
(* Instances of AgeWrite for TLC: a path of three vertices, or its first edge, *)
(* and the statements that are sent to it.                                     *)
EXTENDS AgeWrite

CONSTANTS s1, s2

Symmetry == Permutations(Session)

MCProp == {"x", "y"}
MCValue == {"1", "2"}
MCName == {"a", "b", "c", "d", "r"}

E(id, ends, x) == [id |-> id, ends |-> ends, prop |-> [p \in MCProp |-> IF p = "x" THEN x ELSE None]]

OneEdge == {E(1, <<>>, "1"), E(2, <<>>, None), E(3, <<1, 2>>, None)}
TwoEdges == {E(1, <<>>, "1"), E(2, <<>>, None), E(3, <<>>, None),
             E(4, <<1, 2>>, None), E(5, <<2, 3>>, None)}

Q(source, clauses, returns) == [source |-> source, clauses |-> clauses, returns |-> returns]

\* MATCH (a)   MATCH (a)-[r]->(b)   UNWIND values AS i
Vertices == [kind |-> "vertices", names |-> {"a"}]
Edges == [kind |-> "edges"]
Unwind(values) == [kind |-> "unwind", values |-> values]
\* OPTIONAL MATCH (a {p: v}) with every (b)
Optional(p, v) == [kind |-> "optional", p |-> p, v |-> v]

N(var, props) == [var |-> var, new |-> TRUE, props |-> props]
V(var) == [var |-> var, new |-> FALSE, props |-> <<>>]
CREATE(paths) == [op |-> "create", paths |-> paths]
MERGE(path) == [op |-> "merge", path |-> path]
DELETE(names) == [op |-> "delete", names |-> names, detach |-> FALSE]
DETACH(names) == [op |-> "delete", names |-> names, detach |-> TRUE]
I(var, p, v) == [var |-> var, p |-> p, v |-> v]
SET(items) == [op |-> "set", items |-> items]

MCStatement == {
    Q(Vertices, <<DELETE(<<"a">>)>>, FALSE),
    Q(Vertices, <<DETACH(<<"a">>)>>, TRUE),
    Q(Edges, <<DELETE(<<"r", "b">>)>>, FALSE),
    Q(Edges, <<DETACH(<<"a">>), CREATE(<<<<V("b"), N("c", <<>>)>>>>)>>, FALSE),
    Q(Unwind(<<"2">>), <<CREATE(<<<<N("c", "x" :> "i"), N("d", <<>>)>>, <<V("c"), V("d")>>>>)>>, TRUE),
    Q(Unwind(<<"1">>), <<CREATE(<<<<N("a", "x" :> "i")>>>>), MERGE(<<N("c", "x" :> "1")>>)>>, FALSE),
    Q(Unwind(<<"2", "1", "2">>), <<MERGE(<<N("a", "x" :> "i")>>)>>, FALSE),
    Q(Edges, <<MERGE(<<V("b"), N("c", "x" :> "2")>>)>>, TRUE),
    Q(Edges, <<MERGE(<<V("a"), N("c", "x" :> "1")>>), DELETE(<<"c">>)>>, FALSE),
    Q(Edges, <<SET(<<I("a", "y", "1"), I("b", "y", "2"), I("a", "x", None)>>)>>, FALSE),
    Q(Edges, <<SET(<<I("b", "x", "1")>>), SET(<<I("b", "y", "1"), I("r", "x", "2")>>)>>, TRUE),
    Q(Vertices, <<DETACH(<<"a">>), SET(<<I("a", "x", "2")>>)>>, TRUE),
    Q(Optional("y", "1"), <<DELETE(<<"a">>), SET(<<I("b", "x", "2"), I("a", "x", "1")>>)>>, FALSE) }

ASSUME FirmStatements == \A st \in MCStatement : Firm(st)

\* Statements whose outcome is not what one expects.
OptionalSet == { Q(Optional("y", "1"), <<SET(<<I("a", "x", "2"), I("b", "x", "2")>>)>>, FALSE) }
SharedSet == { Q(Edges, <<SET(<<I("a", "y", "1"), I("b", "x", "2")>>)>>, TRUE) }
TwoCreates == { Q(Unwind(<<"1", "2", "1">>),
                  <<CREATE(<<<<N("a", <<>>)>>>>), CREATE(<<<<V("a"), N("b", <<>>)>>>>)>>, FALSE) }

\* A path, and two vertices for the second statement of StaleMerge: the first one
\* removes the path, and what the second one matches once its first row is done.
StaleGraph == OneEdge \cup {E(4, <<>>, "1"), E(5, <<>>, "2")}
StaleMerge == {
    Q(Edges, <<DELETE(<<"r", "b", "a">>)>>, FALSE),
    Q(Unwind(<<"1", "2">>),
      <<MERGE(<<N("a", "x" :> "1")>>), MERGE(<<V("a"), N("b", <<>>)>>),
        MERGE(<<N("c", "x" :> "2")>>), MERGE(<<N("d", "x" :> "2")>>), DETACH(<<"c">>)>>, FALSE) }
=============================================================================
