---------------------------- MODULE MCAgeCatalog ----------------------------
(* AgeCatalog for TLC.                                                     *)
EXTENDS AgeCatalog, TLC

CONSTANTS s1, s2
SessionSymmetry == Permutations({s1, s2})

\* a client that creates and renames graphs, adds vertex labels and inserts
RenameNext ==
    \E s \in Sessions :
       \/ Begin(s) \/ Commit(s)
       \/ \E n \in Names : create_graph(s, n)
       \/ \E n, m \in Names : rename_graph(s, n, m)
       \/ \E n \in Names, l \in Labels : create_label(s, n, l, "v")
       \/ \E n \in Names, l \in Labels : insert_vertex(s, n, l)
RenameSpec == Init /\ [][RenameNext]_vars

\* a client that goes on after a DROP EXTENSION in the backend it has
UnhookedNext ==
    \E s \in Sessions :
       \/ Begin(s) \/ Commit(s) \/ Abort(s) \/ drop_age_extension(s)
       \/ \E n \in Names : create_graph(s, n) \/ drop_graph(s, n, TRUE)
UnhookedSpec == Init /\ [][UnhookedNext]_vars
=============================================================================
