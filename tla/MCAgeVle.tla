------------------------------ MODULE MCAgeVle ------------------------------
(* Graphs and statements for AgeVle: a triangle, and edges there and back  *)
(* (parallel, to a search without direction) with a loop.                  *)
EXTENDS AgeVle

Lay(p, q, r) == ("e" :> p) @@ ("f" :> q) @@ ("g" :> r)
MCVertices == <<"a", "b", "c">>
MCEdges == <<"e", "f", "g">>
MCShapes == {Lay(<<"a", "b">>, <<"b", "c">>, <<"c", "a">>),
             Lay(<<"a", "b">>, <<"b", "a">>, <<"b", "b">>)}
MCFirst == Graph({"a", "b", "c", "e", "f"}, {"e", "f", "g"})
MCChanges == {<<"insert", "g">>, <<"delete", "e">>}
MCUpdates == {<<"set", "e">>}   \* a property is written
Node(c, d, l, u, from, to) ==
    [cache |-> c, dir |-> d, lidx |-> l, uidx |-> u, tagged |-> TRUE, start |-> from, end |-> to]
MCNodes == [right |-> Node(TRUE, "right", 1, None, {"a"}, {None}),
            both |-> Node(TRUE, "none", 0, 2, {"b"}, {"a"}),
            left |-> Node(TRUE, "left", 1, 2, {None}, {None}),
            sql |-> Node(FALSE, "none", 1, 2, {None}, {"b"})]
=============================================================================
