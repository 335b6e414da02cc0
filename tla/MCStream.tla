------------------------------- MODULE MCStream -------------------------------
(* AdbStream on small instances: the handles are model values.              *)
EXTENDS AdbStreamInv, TLC

CONSTANTS h1, h2

\* The two handles are interchangeable.
HandleSymmetry == Permutations({h1, h2})

=============================================================================
