------------------------------- MODULE AdbLink -------------------------------
(***************************************************************************)
(* The connection between host and device as Stream and adbd see it: whole *)
(* frames in two FIFO channels, and a link that may go down or be closed.  *)
(* How Session turns frames into bytes is another matter.                  *)
(***************************************************************************)
EXTENDS Naturals, Sequences

CONSTANTS
  MaxLocalId,   \* bound: local ids are handed out from 2 up to this one
  DelayedAck,   \* Connection::supports_delayed_ack()
  Faults        \* which of "timeout", "link", "stray" may happen

ASSUME LinkAssumption ==
  /\ MaxLocalId \in Nat
  /\ DelayedAck \in BOOLEAN
  /\ Faults \subseteq {"timeout", "link", "stray"}

LocalIds == 2 .. MaxLocalId

VARIABLES
  link,       \* "up", "down" (peer or cable gone), "closed" (Connection::close)
  toDevice,   \* frames on their way to the device
  toHost      \* frames on their way to the host

-----------------------------------------------------------------------------
\* A payload is the position `at' of its first byte in what its sender writes
\* on the stream, and its length.
Frame(cmd, arg0, arg1, at, len) ==
  [cmd |-> cmd, arg0 |-> arg0, arg1 |-> arg1, at |-> at, len |-> len]

make_empty_message(cmd, arg0, arg1) == Frame(cmd, arg0, arg1, 0, 0)

Frames == [cmd  : {"OPEN", "OKAY", "WRTE", "CLSE", "SYNC"},
           arg0 : Nat, arg1 : Nat, at : Nat, len : Nat]

\* Connection::send: on a dead or closed link it fails and the frame is lost.
Send(f) == toDevice' = IF link = "up" THEN Append(toDevice, f) ELSE toDevice

\* Connection::receive has a frame: what is left in the receive buffer of a dead
\* link can still be read, on a closed connection nothing can.
FrameReady == link # "closed" /\ toHost # <<>>

\* The ways Connection::receive reports an error.
ReceiveFails ==
  \/ "timeout" \in Faults /\ link = "up"
  \/ link = "down" /\ toHost = <<>>
  \/ link = "closed"

LinkDown ==
  /\ "link" \in Faults
  /\ link = "up"
  /\ link' = "down"
  /\ toDevice' = <<>>
  /\ \E k \in 0 .. Len(toHost) : toHost' = SubSeq(toHost, 1, k)

\* Connection::close; calling it twice is harmless.
ConnectionClose ==
  /\ "link" \in Faults
  /\ link' = "closed"
  /\ toDevice' = <<>>
  /\ toHost' = <<>>

LinkTypeOK ==
  /\ link \in {"up", "down", "closed"}
  /\ toDevice \in Seq(Frames)
  /\ toHost \in Seq(Frames)

=============================================================================
