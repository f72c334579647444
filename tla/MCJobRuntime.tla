---------------------------- MODULE MCJobRuntime ----------------------------
(* Instances of JobRuntime for TLC. *)
EXTENDS JobRuntime, TLC

CONSTANTS w1, w2, j1

Symmetry == Permutations(Workers)

\* Behaviours between two rounds of _job_sync_loop: processes recover and serve
\* requests, and no pass of the synchronisation thread starts.  They leave room
\* for two processes and two attempts.
RaceNext ==
    \/ \E w \in Workers : \/ Accept(w) \/ Handle(w) \/ Recover(w)
                          \/ bg[w].phase = "recover" /\ (Scan(w) \/ StartPass(w))
    \/ \E a \in Attempts : RayStart(a) \/ RayFinish(a)

RaceSpec == Init /\ [][RaceNext]_vars
=============================================================================
