-------------------------- MODULE MCAdapterSessions --------------------------
(* AdapterSessions on a small instance.                                    *)
EXTENDS AdapterSessions

\* Three handles: one that was leaked, one in use, and the next.
CONSTANTS r1, r2, g1, g2, g3, m1, m2
=============================================================================
