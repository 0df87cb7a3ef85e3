----------------------------- MODULE MCHooklet -----------------------------
(* Hooklet: the endpoints of one user *)
EXTENDS Hooklet

CONSTANTS u1, e1, e2, d1, h1, s1, s2
=============================================================================
