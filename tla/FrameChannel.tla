----------------------------- MODULE FrameChannel -----------------------------
(***************************************************************************)
(* What Session promises to the layers above it: the host gets the         *)
(* device's frames whole, each once and in the order in which they were    *)
(* sent, and none that fails a check; the device gets every frame of the   *)
(* host in order.  After a read that failed in the middle of a frame the   *)
(* host may miss frames.  Frames are known by their number.                *)
(***************************************************************************)
EXTENDS Naturals, Sequences

CONSTANTS
  DeviceFrames,   \* what the device may put on the wire
  SoundFrames,    \* those of them that pass the header and payload checks
  HostFrames      \* what the host may send

VARIABLES
  offered,     \* frames the device has put on the wire
  received,    \* numbers of the frames handed to the host's caller
  torn,        \* a read failed in the middle of a frame
  submitted,   \* frames the host's caller gave to send
  handled      \* numbers of the frames the device has taken as whole frames

Init ==
  offered = <<>> /\ received = <<>> /\ torn = FALSE /\ submitted = <<>> /\ handled = <<>>

Offer ==
  /\ \E f \in DeviceFrames : offered' = Append(offered, f)
  /\ UNCHANGED <<received, torn, submitted, handled>>

\* The next frame; after a torn read a later one, but never one that was passed
\* over before.
Deliver ==
  /\ \E n \in 1 .. Len(offered) :
       /\ offered[n] \in SoundFrames
       /\ \/ n = Len(received) + 1
          \/ torn /\ \A i \in 1 .. Len(received) : received[i] < n
       /\ received' = Append(received, n)
  /\ UNCHANGED <<offered, torn, submitted, handled>>

Tear == torn' = TRUE /\ UNCHANGED <<offered, received, submitted, handled>>

Submit ==
  /\ \E f \in HostFrames : submitted' = Append(submitted, f)
  /\ UNCHANGED <<offered, received, torn, handled>>

Handle ==
  /\ Len(handled) < Len(submitted)
  /\ handled' = Append(handled, Len(handled) + 1)
  /\ UNCHANGED <<offered, received, torn, submitted>>

Next == Offer \/ Deliver \/ Tear \/ Submit \/ Handle

Spec == Init /\ [][Next]_<<offered, received, torn, submitted, handled>>

=============================================================================
