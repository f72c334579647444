------------------------------ MODULE EventLog ------------------------------
(***************************************************************************)
(* What event_stream promises to its readers when one process publishes:   *)
(* an ordered log.  Events are enqueued, which takes from created[e] to    *)
(* visible[e], and may be appended under ever larger numbers.  An event    *)
(* may be missing from the log; it is never there twice, and never after   *)
(* an event whose enqueue began when its own was over.                     *)
(***************************************************************************)
EXTENDS Integers

CONSTANT Events

VARIABLES clock, created, visible, log

vars == <<clock, created, visible, log>>

Init ==
    /\ clock = 0
    /\ created = [e \in Events |-> 0]
    /\ visible = [e \in Events |-> 0]
    /\ log = {}

Begin(e) ==
    /\ created[e] = 0
    /\ clock' = clock + 1
    /\ created' = [created EXCEPT ![e] = clock + 1]
    /\ UNCHANGED <<visible, log>>

End(e) ==
    /\ created[e] > 0 /\ visible[e] = 0
    /\ clock' = clock + 1
    /\ visible' = [visible EXCEPT ![e] = clock + 1]
    /\ UNCHANGED <<created, log>>

\* The enqueue of e was over when that of f began.
Before(e, f) == visible[e] > 0 /\ visible[e] < created[f]

\* The new entry is found in the log it leads to: its number is any larger one.
Append ==
    /\ \E x \in log' :
          /\ log' = log \cup {x}
          /\ visible[x.ev] > 0
          /\ \A y \in log : y.at < x.at /\ y.ev # x.ev /\ ~Before(x.ev, y.ev)
    /\ UNCHANGED <<clock, created, visible>>

Next ==
    \/ \E e \in Events : Begin(e) \/ End(e)
    \/ Append

Spec == Init /\ [][Next]_vars
=============================================================================
