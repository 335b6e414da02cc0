----------------------------- MODULE AdbStreamInv -----------------------------
(***************************************************************************)
(* The inductive invariants behind the safety properties of AdbStream,     *)
(* kept apart from their proofs so that TLC can check them as well.        *)
(***************************************************************************)
EXTENDS AdbStream

\* The object h owns a stream: its destructor will send the CLSE.
Live(h) == ~stream[h].closed

\* What an object owns was opened, and not closed from either side.
OwnsOpenStream ==
  \A h \in Handles : Live(h) =>
    /\ stream[h].local \in LocalIds
    /\ stream[h].local < next_local_id
    /\ fate[stream[h].local] = "open"
    /\ closes[stream[h].local] = 0
    /\ ~sawClose[stream[h].local]

\* A stream has one owner.
OneOwner ==
  \A g, h \in Handles :
    Live(g) /\ Live(h) /\ stream[g].local = stream[h].local => g = h

\* A call in progress has an object: open a free one for a stream that is being
\* opened, read and read_all a live one whose buffer is used up.
CallOwns ==
  /\ call.op = "open" =>
       /\ call.h \in Handles
       /\ stream[call.h] = NoStream
       /\ call.id \in LocalIds
       /\ call.id < next_local_id
       /\ fate[call.id] = "opening"
  /\ Reading =>
       /\ call.h \in Handles
       /\ Live(call.h)
       /\ stream[call.h].local = call.id
       /\ stream[call.h].buf.len = 0

\* What the history of an id says about its closing.
ClosingHistory ==
  \A l \in LocalIds :
    /\ fate[l] = "opening" => call.op = "open" /\ call.id = l
    /\ fate[l] \in {"none", "opening"} => closes[l] = 0
    /\ sawClose[l] => fate[l] = "open" /\ closes[l] = 0
    /\ l >= next_local_id => fate[l] = "none"
    /\ closes[l] <= 1

OwnerInv == OwnsOpenStream /\ OneOwner /\ CallOwns /\ ClosingHistory

-----------------------------------------------------------------------------
(* The frames on their way.                                                 *)

Is(f, cmd, l) == f.cmd = cmd /\ f.arg1 = l
From(f, cmd, l) == f.cmd = cmd /\ f.arg0 = l

\* The OKAY that answers the OPEN of l is among the first n frames.
Answered(l, n) == \E j \in 1 .. n : Is(toHost[j], "OKAY", l)

\* The device keeps its streams (rid and dstat).
Accepted(l) == dstat[l] \in {"open", "closed", "gone"}

\* A frame to the device: an OPEN it has not answered, or one of a stream it accepted.
DeviceFrame(f) ==
  /\ f.arg0 \in LocalIds
  /\ f.cmd = "OPEN" => dstat[f.arg0] = "none" /\ fate[f.arg0] \in {"opening", "failed"}
  /\ f.cmd \in {"WRTE", "OKAY"} => fate[f.arg0] = "open" /\ f.arg1 = rid[f.arg0]

SameOpen(f, g) == f.cmd = "OPEN" /\ g.cmd = "OPEN" /\ f.arg0 = g.arg0

ToDeviceSound ==
  /\ \A i \in 1 .. Len(toDevice) : DeviceFrame(toDevice[i])
  /\ \A i, j \in 1 .. Len(toDevice) : SameOpen(toDevice[i], toDevice[j]) => i = j

\* A frame to the host: of a stream the device accepted, or a refusal.
HostFrame(f) ==
  /\ f.arg1 \in LocalIds
  /\ Accepted(f.arg1) \/ (dstat[f.arg1] = "refused" /\ f.cmd = "CLSE")
  /\ f.cmd = "OKAY" => f.arg0 = rid[f.arg1]
  /\ f.cmd = "CLSE" => dstat[f.arg1] # "open"

ToHostSound == \A i \in 1 .. Len(toHost) : HostFrame(toHost[i])

\* What open reported is what the device did.
FateTrue ==
  \A l \in LocalIds :
    /\ fate[l] = "none" => dstat[l] = "none"
    /\ fate[l] = "open" => Accepted(l)
    /\ fate[l] = "refused" => dstat[l] = "refused"
    /\ sawClose[l] => dstat[l] \in {"closed", "gone"}
    /\ Accepted(l) => rid[l] # 0

\* The first frame that open meets for its stream is the device's answer.
AnswerFirst ==
  \A l \in LocalIds : fate[l] = "opening" /\ dstat[l] # "refused" =>
    /\ \A i \in 1 .. Len(toHost) : toHost[i].arg1 = l => Answered(l, i)
    /\ link = "up" /\ Accepted(l) => Answered(l, Len(toHost))

\* An object knows its stream under the id the device gave it.
RemoteKnown == \A h \in Handles : Live(h) => stream[h].remote = rid[stream[h].local]

WireInv == ToDeviceSound /\ ToHostSound /\ FateTrue /\ AnswerFirst /\ RemoteKnown

\* l has an owner.
Owned(l) == \E h \in Handles : Live(h) /\ stream[h].local = l

\* The CLSE for l is on its way, under the device's id for it.
BeingClosed(l) ==
  \E i \in 1 .. Len(toDevice) : From(toDevice[i], "CLSE", l) /\ toDevice[i].arg1 = rid[l]

\* Somebody closes a stream the device has open: its owner, or the CLSE on its way.
OrphanInv ==
  link = "up" =>
    \A l \in LocalIds :
      fate[l] = "open" /\ dstat[l] = "open" => Owned(l) \/ BeingClosed(l)

-----------------------------------------------------------------------------
(* Without delayed acknowledgements.                                        *)

\* The i-th frame for the host is the WRTE of l, the i-th for the device its OKAY.
WrteAt(l, i) == i \in 1 .. Len(toHost) /\ Is(toHost[i], "WRTE", l)
OkayAt(l, i) == i \in 1 .. Len(toDevice) /\ From(toDevice[i], "OKAY", l)

\* Of the right to send, the WRTE that used it and the OKAY that gives it back
\* there is one at most, and what has been taken says where it stands.
InFlight(l) ==
  /\ ~Accepted(l) => credit[l] = 0 /\ sent[l] = 0
  /\ fate[l] # "open" => taken[l] = 0
  /\ credit[l] \in {0, 1}
  /\ credit[l] = 1 => taken[l] = sent[l]
  /\ \A i \in 1 .. Len(toHost) : WrteAt(l, i) =>
       /\ credit[l] = 0 /\ toHost[i].at = taken[l] + 1 /\ taken[l] + toHost[i].len = sent[l]
       /\ \A j \in 1 .. Len(toHost) : WrteAt(l, j) => j = i
       /\ \A j \in 1 .. Len(toDevice) : ~OkayAt(l, j)
  /\ \A i \in 1 .. Len(toDevice) : OkayAt(l, i) =>
       /\ credit[l] = 0 /\ taken[l] = sent[l]
       /\ \A j \in 1 .. Len(toDevice) : OkayAt(l, j) => j = i

OneInFlight == \A l \in LocalIds : InFlight(l)

\* b is the bytes of l from the one after n on.
BytesFrom(b, l, n) == \A i \in 1 .. Len(b) : b[i] = <<l, n + i>>

CalledOn(l) == Reading /\ call.id = l

\* What was taken is what was handed out, then what a call has copied or an object
\* has buffered.
Kept(l) ==
  /\ fate[l] # "open" => delivered[l] = <<>>
  /\ ~lost[l] =>
       /\ BytesFrom(delivered[l], l, 0)
       /\ CalledOn(l) => /\ BytesFrom(call.out, l, Len(delivered[l]))
                         /\ taken[l] = Len(delivered[l]) + Len(call.out)
       /\ \A h \in Handles : Live(h) /\ stream[h].local = l /\ ~CalledOn(l) =>
            /\ stream[h].buf.len > 0 => stream[h].buf.src = l /\ stream[h].buf.at = Len(delivered[l]) + 1
            /\ taken[l] = Len(delivered[l]) + stream[h].buf.len

BytesKept == \A l \in LocalIds : Kept(l)

AckInv == ~DelayedAck => OneInFlight /\ BytesKept

-----------------------------------------------------------------------------
(* One Stream object, as shell, sync and app use it; also with delayed       *)
(* acknowledgements.                                                        *)

OneHandle == \A g, h \in Handles : g = h

\* What starts with the byte at and has its place before the i-th frame for the host
\* follows what was taken of l and the WRTEs of l before it, without a gap.
Follows(l, i, at) ==
  \/ at = taken[l] + 1 /\ \A j \in 1 .. i - 1 : ~WrteAt(l, j)
  \/ \E j \in 1 .. i - 1 :
       /\ WrteAt(l, j) /\ at = toHost[j].at + toHost[j].len
       /\ \A k \in j + 1 .. i - 1 : ~WrteAt(l, k)

\* The WRTEs of l follow each other, and its CLSE and whatever the device sends next
\* follow all of them.
Streamed(l) ==
  /\ \A i \in 1 .. Len(toHost) :
       /\ Is(toHost[i], "WRTE", l) => Follows(l, i, toHost[i].at)
       /\ Is(toHost[i], "CLSE", l) => Follows(l, i, sent[l] + 1)
  /\ link = "up" => Follows(l, Len(toHost) + 1, sent[l] + 1)

\* Somebody at the host waits for the frames of l, or will.
Awaited(l) == fate[l] = "opening" \/ Owned(l)

StreamedInv ==
  \A l \in LocalIds :
    /\ ~Accepted(l) => sent[l] = 0
    /\ fate[l] # "open" => taken[l] = 0
    /\ Awaited(l) => Streamed(l)

\* read_all has all output once the device has closed the stream.
FinishedInv ==
  AllDelivered /\ \A l \in LocalIds : finished[l] => sawClose[l]

OneInv == OneHandle => StreamedInv /\ BytesKept /\ FinishedInv

=============================================================================
