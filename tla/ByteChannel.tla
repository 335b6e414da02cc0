----------------------------- MODULE ByteChannel -----------------------------
(***************************************************************************)
(* What the layers above count on in one direction of a transport: bytes   *)
(* come out as they went in, none lost, repeated or made up, until the     *)
(* transport has reported a failure.  After that nothing is promised.      *)
(* Bytes are known by their number.                                        *)
(***************************************************************************)
EXTENDS Naturals, Sequences

VARIABLES
  in,       \* how many bytes went in
  out,      \* the bytes that came out
  failed    \* a failure was reported

Init == in = 0 /\ out = <<>> /\ failed = FALSE

Enter == in' > in /\ UNCHANGED <<out, failed>>

Leave ==
  /\ Len(out') > Len(out) /\ Len(out') <= in
  /\ out' = [i \in 1 .. Len(out') |-> i]
  /\ UNCHANGED <<in, failed>>

Fail == failed' = TRUE /\ UNCHANGED <<in, out>>

\* A failed transfer may have moved a beginning of its bytes.
FailHalfWay == failed' /\ out' = [i \in 1 .. Len(out') |-> i] /\ Len(out') <= in' /\ UNCHANGED in

AfterFailure == failed /\ failed'

Next == Enter \/ Leave \/ Fail \/ FailHalfWay \/ AfterFailure

Spec == Init /\ [][Next]_<<in, out, failed>>

=============================================================================
