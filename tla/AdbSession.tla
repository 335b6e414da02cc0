------------------------------ MODULE AdbSession ------------------------------
(***************************************************************************)
(* Session (src/session.cpp): frames over a transport that moves bytes.    *)
(* The transport may return fewer bytes than asked for, may fail in the    *)
(* middle of a header or a payload, and may write only part of what it was *)
(* given before it fails.  The session keeps no position of its own in the *)
(* byte stream: after a failed read it starts over with a header wherever  *)
(* the stream happens to stand.                                            *)
(*                                                                         *)
(* Data.  A byte is the number of the frame it belongs to and its place in *)
(* it: places 1 .. HeaderSize are the header, the rest the payload.  Bytes *)
(* that are not a header do not pass for one: their magic is wrong.        *)
(***************************************************************************)
EXTENDS Naturals, Sequences

CONSTANTS
  Objects,      \* the Session objects
  HeaderSize,   \* protocol::kMessageHeaderSize
  MaxData,      \* protocol::kMaxData
  MaxLen,       \* bound: data_length of a frame; above MaxData it is invalid
  MaxFrames,    \* bound: frames in each direction
  Faults        \* which of "read", "write", "corrupt" may happen

ASSUME SessionAssumption ==
  /\ HeaderSize \in Nat \ {0}
  /\ MaxData \in Nat /\ MaxLen \in Nat /\ MaxFrames \in Nat
  /\ Faults \subseteq {"read", "write", "corrupt"}

VARIABLES
  session,      \* per object: "none", "open", or "closed" (closed_)
  transport,    \* "open" or "closed"
  op,           \* the call in progress, or Idle
  wire,         \* bytes from the device the host has not read
  out,          \* bytes written by the host the device has not read
  offered,      \* the frames the device has sent
  received,     \* numbers of the frames receive has returned
  submitted,    \* the frames given to send
  handled,      \* numbers of the frames the device has taken from out, 0 for
                \* one whose payload is not its own
  dev,          \* the device's own reading of out
  torn,         \* history: a read failed after part of a frame was taken
  byCaller      \* history: the caller closed the session

hostVars   == <<session, transport, op>>
deviceVars == <<offered, dev, handled>>
vars == <<hostVars, wire, out, received, submitted, deviceVars, torn, byCaller>>

-----------------------------------------------------------------------------
\* A frame the device sends: its data_length, and whether its magic and its
\* checksum are right.
DeviceFrames == [len : 0 .. MaxLen, magic : BOOLEAN, check : BOOLEAN]

Sound(f) == f.magic /\ f.len <= MaxData /\ (f.len > 0 => f.check)

HostFrames == [len : 0 .. MaxData]

HeaderOf(n)     == [i \in 1 .. HeaderSize |-> [n |-> n, i |-> i]]
PayloadOf(n, k) == [i \in 1 .. k |-> [n |-> n, i |-> HeaderSize + i]]

Idle == [kind |-> "none", by |-> 0, phase |-> "header", n |-> 0, got |-> <<>>]

\* Mutant: read_exact asks for one byte too many.
WantedOneMore == IF op.phase = "header" THEN HeaderSize + 1 ELSE offered[op.n].len + 1

\* What read_exact was asked for.
Wanted == IF op.phase = "header" THEN HeaderSize ELSE offered[op.n].len

-----------------------------------------------------------------------------
(* Session objects.                                                         *)

\* Mutant: the moved-from session stays open.
MovedFromOpen == "open"

\* What a move leaves behind.
MovedFrom == "closed"

\* The move constructor, when b is "none", and the move assignment.  The
\* transport b borrowed is not closed.
Move(a, b) ==
  /\ op = Idle
  /\ a # b
  /\ session[a] # "none"
  /\ session' = [session EXCEPT ![b] = session[a], ![a] = MovedFrom]
  /\ UNCHANGED <<transport, op, wire, out, received, submitted, deviceVars, torn, byCaller>>

\* Session::close.
CloseSession(o) ==
  IF session[o] = "open"
  THEN /\ session' = [session EXCEPT ![o] = "closed"]
       /\ transport' = "closed"
  ELSE UNCHANGED <<session, transport>>

Close(o) ==
  /\ op = Idle
  /\ session[o] # "none"
  /\ CloseSession(o)
  /\ byCaller' = (byCaller \/ session[o] = "open")
  /\ UNCHANGED <<op, wire, out, received, submitted, deviceVars, torn>>

-----------------------------------------------------------------------------
(* Session::receive.                                                        *)

\* On a closed session receive is an error that changes nothing.
ReceiveCall(o) ==
  /\ op = Idle
  /\ session[o] = "open"
  /\ op' = [Idle EXCEPT !.kind = "receive", !.by = o]
  /\ UNCHANGED <<session, transport, wire, out, received, submitted, deviceVars, torn, byCaller>>

\* The header's own check.  Only the first byte matters here: the bytes read are
\* consecutive.
MagicMatches(got) == got[1].i = 1 /\ offered[got[1].n].magic

LengthValid(n) == offered[n].len <= MaxData

\* The checksum is compared only for a payload that is not empty.
ChecksumMatches(n) == offered[n].len > 0 => offered[n].check

\* The call ends.
Return == op' = Idle

\* receive returns frame n.
Deliver(n) == received' = Append(received, n) /\ Return

\* Mutant: the error is reported, the session stays open.
FramingErrorOnly == Return /\ UNCHANGED <<session, transport, received>>

FramingError == CloseSession(op.by) /\ Return /\ UNCHANGED received

\* Mutant: a short read is taken for a complete one.
CompleteAnyway(got) == TRUE

\* read_exact goes on until it has everything.
Complete(got) == Len(got) = Wanted

\* The whole header is there.
HeaderDecoded(got) ==
  LET n == got[1].n
  IN  IF ~(MagicMatches(got) /\ LengthValid(n))
      THEN FramingError
      ELSE /\ IF offered[n].len = 0
              THEN Deliver(n)
              ELSE /\ op' = [op EXCEPT !.phase = "payload", !.n = n, !.got = <<>>]
                   /\ UNCHANGED received
           /\ UNCHANGED <<session, transport>>

\* The whole payload is there.
PayloadRead ==
  IF ChecksumMatches(op.n)
  THEN Deliver(op.n) /\ UNCHANGED <<session, transport>>
  ELSE FramingError

\* The transport returns k bytes.
ReadSome(k) ==
  LET got == op.got \o SubSeq(wire, 1, k)
  IN  /\ op.kind = "receive"
      /\ k <= Len(wire)
      /\ Len(op.got) + k <= Wanted
      /\ IF ~Complete(got)
         THEN /\ op' = [op EXCEPT !.got = got]
              /\ UNCHANGED <<session, transport, received>>
         ELSE IF op.phase = "header" THEN HeaderDecoded(got) ELSE PayloadRead
      /\ wire' = SubSeq(wire, k + 1, Len(wire))
      /\ UNCHANGED <<out, submitted, deviceVars, torn, byCaller>>

\* The transport reports an error or the end of the stream.  What was read so
\* far is dropped and the session stays open.
ReadFails ==
  /\ "read" \in Faults
  /\ op.kind = "receive"
  /\ torn' = (torn \/ op.phase = "payload" \/ op.got # <<>>)
  /\ Return
  /\ UNCHANGED <<session, transport, wire, out, received, submitted, deviceVars, byCaller>>

-----------------------------------------------------------------------------
(* Session::send.                                                           *)

\* A header that disagrees with its payload is refused before anything is
\* written, and a closed session refuses everything.
SendCall(o, f) ==
  /\ op = Idle
  /\ session[o] = "open"
  /\ Len(submitted) < MaxFrames
  /\ submitted' = Append(submitted, f)
  /\ op' = [Idle EXCEPT !.kind = "send", !.by = o, !.n = Len(submitted) + 1]
  /\ UNCHANGED <<session, transport, wire, out, received, deviceVars, torn, byCaller>>

Size(n) == submitted[n].len

\* An empty payload is not written.
PayloadFollows(n) == Size(n) > 0

\* The bytes of the write in progress.
Chunk == IF op.phase = "header" THEN HeaderOf(op.n) ELSE PayloadOf(op.n, Size(op.n))

WriteDone ==
  /\ op.kind = "send"
  /\ out' = out \o Chunk
  /\ IF op.phase = "header" /\ PayloadFollows(op.n)
     THEN op' = [op EXCEPT !.phase = "payload"]
     ELSE Return
  /\ UNCHANGED <<session, transport, wire, received, submitted, deviceVars, torn, byCaller>>

\* The transport wrote k bytes and failed; the session stays open.
WriteFails(k) ==
  /\ "write" \in Faults
  /\ op.kind = "send"
  /\ k < Len(Chunk)
  /\ out' = out \o SubSeq(Chunk, 1, k)
  /\ Return
  /\ UNCHANGED <<session, transport, wire, received, submitted, deviceVars, torn, byCaller>>

-----------------------------------------------------------------------------
(* The other end of the wire (external).                                    *)

DeviceSends(f) ==
  /\ transport = "open"
  /\ Len(offered) < MaxFrames
  /\ Sound(f) \/ "corrupt" \in Faults
  /\ offered' = Append(offered, f)
  /\ wire' = wire \o HeaderOf(Len(offered) + 1) \o PayloadOf(Len(offered) + 1, f.len)
  /\ UNCHANGED <<hostVars, out, received, submitted, handled, dev, torn, byCaller>>

DeviceWanted == IF dev.phase = "header" THEN HeaderSize ELSE Size(dev.n)

\* The device reads the next header or payload; it drops the connection on a
\* header it cannot make sense of.
DeviceReads ==
  LET k == DeviceWanted
      n == out[1].n
  IN  /\ dev.phase # "lost"
      /\ k <= Len(out)
      /\ out' = SubSeq(out, k + 1, Len(out))
      /\ CASE dev.phase = "payload" ->
                /\ handled' = Append(handled, IF SubSeq(out, 1, k) = PayloadOf(dev.n, k)
                                              THEN dev.n ELSE 0)
                /\ dev' = [phase |-> "header", n |-> 0]
           [] dev.phase = "header" /\ out[1].i # 1 ->
                /\ dev' = [phase |-> "lost", n |-> 0]
                /\ UNCHANGED handled
           [] dev.phase = "header" /\ out[1].i = 1 /\ Size(n) > 0 ->
                /\ dev' = [phase |-> "payload", n |-> n]
                /\ UNCHANGED handled
           [] dev.phase = "header" /\ out[1].i = 1 /\ Size(n) = 0 ->
                /\ handled' = Append(handled, n)
                /\ UNCHANGED dev
      /\ UNCHANGED <<hostVars, wire, received, submitted, offered, torn, byCaller>>

-----------------------------------------------------------------------------
Init ==
  /\ \E o \in Objects : session = [x \in Objects |-> IF x = o THEN "open" ELSE "none"]
  /\ transport = "open"
  /\ op = Idle
  /\ wire = <<>>
  /\ out = <<>>
  /\ offered = <<>>
  /\ received = <<>>
  /\ submitted = <<>>
  /\ handled = <<>>
  /\ dev = [phase |-> "header", n |-> 0]
  /\ torn = FALSE
  /\ byCaller = FALSE

CallerStep ==
  \/ \E o \in Objects : ReceiveCall(o) \/ Close(o)
  \/ \E o \in Objects, f \in HostFrames : SendCall(o, f)
  \/ \E a, b \in Objects : Move(a, b)

\* A read returns at most a whole header or payload at once.
TransferStep ==
  \/ \E k \in 1 .. HeaderSize + MaxData : ReadSome(k)
  \/ WriteDone

FailureStep ==
  \/ ReadFails
  \/ \E k \in 0 .. HeaderSize + MaxData : WriteFails(k)

Next ==
  \/ CallerStep
  \/ TransferStep
  \/ FailureStep
  \/ \E f \in DeviceFrames : DeviceSends(f)
  \/ DeviceReads

Spec == Init /\ [][Next]_vars

\* The transport goes on moving the bytes that have arrived.
FairSpec == Spec /\ WF_vars(TransferStep)

-----------------------------------------------------------------------------
(* Properties.                                                              *)

\* Session is a frame channel: whatever the sizes in which the transport moves
\* the bytes and wherever a read fails, receive returns frames of the device,
\* whole and in order, and none that fails a check; it passes one over only after
\* a read failed in the middle of one, and a frame it rejects ends the session;
\* and the device gets every frame that was sent (Session::receive, send,
\* read_exact, framing_error).
Channel == INSTANCE FrameChannel WITH SoundFrames <- {f \in DeviceFrames : Sound(f)}

ChannelSpec == Channel!Spec

\* A session that is open has an open transport: closing an object that was moved
\* from does not pull the transport from under the object that has it now
\* (the moves, Session::close).
TransportHeld == \A o \in Objects : session[o] = "open" => transport = "open"

\* However sessions are moved, assigned over and closed, the transport has one owner:
\* at most one object is open, it has the open transport, and the call in progress is
\* its own (the moves, Session::close, framing_error).
OneHoldsTransport ==
  /\ \A a, b \in Objects : session[a] = "open" /\ session[b] = "open" => a = b
  /\ TransportHeld
  /\ op.kind # "none" => op.by \in Objects /\ session[op.by] = "open"

\* A session is closed on its own only for cause: a corrupt frame, or an earlier
\* read that failed in the middle of one.  Short reads are no cause
\* (read_exact, framing_error).
ClosedForCause ==
  transport = "closed" /\ ~byCaller =>
    torn \/ \E n \in 1 .. Len(offered) : ~Sound(offered[n])

\* A receive for which the device has sent a frame returns, unless an earlier
\* read failed in the middle of a frame: then the rest of that frame may be less
\* than the header it is taken for (Session::receive, read_exact).
ReceiveReturns ==
  (op.kind = "receive" /\ wire # <<>> /\ ~torn) ~> (op.kind # "receive")

=============================================================================
