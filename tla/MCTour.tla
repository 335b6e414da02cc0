------------------------------- MODULE MCTour -------------------------------
(* Threads for AdbTour. *)
EXTENDS AdbTour
CONSTANTS t1, t2
=============================================================================
