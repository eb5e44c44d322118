--------------------------- MODULE MCAtomicGroup ---------------------------
(* Model-checking instances of the atomic group and burst dispatch.        *)
EXTENDS AtomicGroup, TLC

CONSTANTS c1, c2, c3, q1, q2, q3, g1, g2

=============================================================================
