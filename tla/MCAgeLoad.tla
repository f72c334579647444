----------------------------- MODULE MCAgeLoad -----------------------------
(* Files for AgeLoad: a gap and a full batch, an id too large, an id twice. *)
EXTENDS AgeLoad, TLC

MCFiles == {<<2>>, <<4, 1, 3>>, <<7>>, <<1, 1>>}
MCEdgeFiles == {<<<<1, 2>>, <<2, 2>>, <<1, 7>>>>, <<<<1, 2>>, <<2, 1>>, <<5, 1>>>>}
SessionSymmetry == Permutations(Sessions)
=============================================================================
