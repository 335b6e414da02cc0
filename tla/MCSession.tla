------------------------------ MODULE MCSession ------------------------------
(* AdbSession on small instances: the objects are model values.             *)
EXTENDS AdbSession, TLC

CONSTANTS s1, s2

\* The objects are interchangeable.
ObjectSymmetry == Permutations({s1, s2})

=============================================================================
