----------------------------- MODULE MCMonitors -----------------------------
(* Monitors with three monitors, batches of two and two callbacks. *)
EXTENDS Monitors, TLC

CONSTANTS m1, m2, m3, b1, b2, s1

MCDefinitions == {[enabled |-> TRUE, interval |-> 1, hook |-> TRUE]}

\* toggles, which leave next_run_at as it was read, and a new definition
MCPatches ==
    {[enabled |-> on, interval |-> None, hook |-> None, content |-> FALSE] : on \in BOOLEAN}
        \cup {[enabled |-> None, interval |-> None, hook |-> FALSE, content |-> FALSE]}
=============================================================================
