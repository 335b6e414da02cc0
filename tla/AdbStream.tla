------------------------------ MODULE AdbStream ------------------------------
(***************************************************************************)
(* Streams over one ADB connection: Stream (src/stream.cpp) with the id    *)
(* allocator of Connection (include/adbcpp/connection.hpp), talking to the *)
(* device's adbd (external) over two FIFO channels of whole frames.        *)
(*                                                                         *)
(* The library has no threads of its own and a Connection may not be used  *)
(* from two at once, so at most one call is in progress.  A call that      *)
(* waits for frames (open, read, read_all) is several steps: the device,   *)
(* the link and the timeouts of the transport interleave with them.        *)
(*                                                                         *)
(* Data.  The device's service writes bytes 1, 2, 3, ... on each stream;   *)
(* byte n of the stream with local id l is <<l, n>> wherever the host      *)
(* holds it, and a payload on the wire is the position `at' of its first   *)
(* byte and its length.  What the host writes is not looked at: a host     *)
(* WRTE has no content.                                                    *)
(***************************************************************************)
EXTENDS Adbd

CONSTANTS
  Handles,      \* the Stream objects the caller may hold
  NoHandle,     \* "no Stream object" in the description of a call
  MaxRead,      \* bound: bytes asked for by one read
  MaxWrites,    \* bound: WRTEs the host sends on one stream
  Window        \* kInitialDelayedAckBytes

ASSUME HostAssumption ==
  /\ NoHandle \notin Handles
  /\ MaxRead \in Nat /\ MaxWrites \in Nat /\ Window \in Nat

VARIABLES
  next_local_id,  \* Connection::next_local_id_
  stream,         \* the caller's Stream objects
  call,           \* the call in progress, or Idle
  fate,           \* history: what open has reported about l
  delivered,      \* history: bytes handed to the caller by calls that succeeded
  lost,           \* history: a failed call on l threw bytes away
  taken,          \* history: bytes the host has consumed from l's WRTEs
  sawClose,       \* history: receive_more met a CLSE for l
  finished,       \* history: read_all on l returned its output
  closes,         \* history: CLSEs the host tried to send for l
  wrote           \* history: WRTEs the host sent on l

hostVars == <<next_local_id, stream, call>>
dataVars == <<delivered, lost, taken, finished>>
histVars == <<fate, dataVars, sawClose, closes, wrote>>
vars     == <<hostVars, link, toDevice, toHost, devVars, histVars>>

-----------------------------------------------------------------------------
(* Stream objects and calls.                                                *)

\* incoming_ from incoming_offset_ on is the `len' bytes of stream `src'
\* that start at position `at'.
NoData == [src |-> 0, at |-> 0, len |-> 0]

\* Mutant: open keeps the id of the wrong side.
NewStreamOwnId(l, r) == [local |-> l, remote |-> l, closed |-> FALSE, buf |-> NoData]

NewStream(l, r) == [local |-> l, remote |-> r, closed |-> FALSE, buf |-> NoData]

\* A handle that holds no Stream object.
NoStream == [local |-> 0, remote |-> 0, closed |-> TRUE, buf |-> NoData]

Buffers == [src : {0} \cup LocalIds, at : Nat, len : Nat]
Streams == [local : {0} \cup LocalIds, remote : Nat, closed : BOOLEAN, buf : Buffers]

Bytes == ({0} \cup LocalIds) \X Nat

BytesOf(src, at, n) == [i \in 1 .. n |-> <<src, at + i - 1>>]

Idle == [op |-> "none", h |-> NoHandle, id |-> 0, want |-> 0, out |-> <<>>]

Calls == [op : {"none", "open", "read", "read_all"}, h : Handles \cup {NoHandle},
          id : {0} \cup LocalIds, want : Nat, out : Seq(Bytes)]

Least(m, n) == IF m < n THEN m ELSE n

-----------------------------------------------------------------------------
(* Closing, destroying and moving Stream objects.                           *)

\* Mutant: the CLSE is not sent.
CloseNever(h) == UNCHANGED <<toDevice, closes>>

\* The effect of Stream::close_now on the wire; the caller of it also marks
\* or overwrites the object.
close_now(h) ==
  IF stream[h].closed
  THEN UNCHANGED <<toDevice, closes>>
  ELSE /\ Send(make_empty_message("CLSE", stream[h].local, stream[h].remote))
       /\ closes' = [closes EXCEPT ![stream[h].local] = @ + 1]

\* ~Stream
Destroy(h) ==
  /\ call = Idle
  /\ stream[h] # NoStream
  /\ close_now(h)
  /\ stream' = [stream EXCEPT ![h] = NoStream]
  /\ UNCHANGED <<next_local_id, call, link, toHost, devVars,
                 fate, dataVars, sawClose, wrote>>

\* Mutant: the moved-from object is not marked closed.
MovedFromStillOpen(s) == [s EXCEPT !.buf = NoData]

\* What a move leaves behind: no buffer, and a destructor that stays silent.
MovedFrom(s) == [s EXCEPT !.closed = TRUE, !.buf = NoData]

\* Mutant: the move forgets the half-read WRTE.
TakeOverNoBuffer(a, b) ==
  stream' = [stream EXCEPT ![b] = [stream[a] EXCEPT !.buf = NoData],
                           ![a] = MovedFrom(stream[a])]

\* b becomes what a was.
TakeOver(a, b) ==
  stream' = [stream EXCEPT ![b] = stream[a], ![a] = MovedFrom(stream[a])]

\* Stream::Stream(Stream &&) into a fresh object.
MoveConstruct(a, b) ==
  /\ call = Idle
  /\ a # b
  /\ stream[a] # NoStream
  /\ stream[b] = NoStream
  /\ TakeOver(a, b)
  /\ UNCHANGED <<next_local_id, call, link, toDevice, toHost, devVars, histVars>>

\* Stream::operator=(Stream &&) over an object that still owns a stream.
MoveAssign(a, b) ==
  /\ call = Idle
  /\ a # b
  /\ stream[a] # NoStream
  /\ stream[b] # NoStream
  /\ close_now(b)
  /\ TakeOver(a, b)
  /\ UNCHANGED <<next_local_id, call, link, toHost, devVars,
                 fate, dataVars, sawClose, wrote>>

-----------------------------------------------------------------------------
(* Stream::open.                                                            *)

\* The Stream object of a failed open is destroyed on the way out; it is not
\* marked closed and has no remote id yet.
AbandonOpen(l) ==
  /\ Send(make_empty_message("CLSE", l, 0))
  /\ closes' = [closes EXCEPT ![l] = @ + 1]
  /\ call' = Idle

\* allocate_local_id and the OPEN.  When the send fails the object is destroyed
\* at once, and its CLSE is lost with the link.
OpenCall(h) ==
  LET l == next_local_id
  IN  /\ call = Idle
      /\ stream[h] = NoStream
      /\ l \in LocalIds
      /\ next_local_id' = l + 1
      /\ Send(make_empty_message("OPEN", l, IF DelayedAck THEN Window ELSE 0))
      /\ IF link = "up"
         THEN /\ call' = [Idle EXCEPT !.op = "open", !.h = h, !.id = l]
              /\ fate' = [fate EXCEPT ![l] = "opening"]
              /\ UNCHANGED closes
         ELSE /\ call' = Idle
              /\ fate' = [fate EXCEPT ![l] = "failed"]
              /\ closes' = [closes EXCEPT ![l] = @ + 1]
      /\ UNCHANGED <<stream, link, toHost, devVars,
                     dataVars, sawClose, wrote>>

\* Mutant: open takes the first frame for its answer (blocker 18).
OpenSkipsNothing(f) == FALSE

OpenSkips(f) == f.arg1 # call.id

\* A frame for another stream: open drops it and waits on.
OpenSkip ==
  /\ call.op = "open"
  /\ FrameReady
  /\ OpenSkips(Head(toHost))
  /\ toHost' = Tail(toHost)
  /\ UNCHANGED <<hostVars, link, toDevice, devVars, histVars>>

OpenAccepted ==
  /\ call.op = "open"
  /\ FrameReady
  /\ ~OpenSkips(Head(toHost))
  /\ Head(toHost).cmd = "OKAY"
  /\ toHost' = Tail(toHost)
  /\ stream' = [stream EXCEPT ![call.h] = NewStream(call.id, Head(toHost).arg0)]
  /\ fate' = [fate EXCEPT ![call.id] = "open"]
  /\ call' = Idle
  /\ UNCHANGED <<next_local_id, link, toDevice, devVars,
                 dataVars, sawClose, closes, wrote>>

OpenRefused ==
  /\ call.op = "open"
  /\ FrameReady
  /\ ~OpenSkips(Head(toHost))
  /\ Head(toHost).cmd # "OKAY"
  /\ toHost' = Tail(toHost)
  /\ fate' = [fate EXCEPT ![call.id] = "refused"]
  /\ AbandonOpen(call.id)
  /\ UNCHANGED <<next_local_id, stream, link, devVars,
                 dataVars, sawClose, wrote>>

OpenReceiveFails ==
  /\ call.op = "open"
  /\ ReceiveFails
  /\ fate' = [fate EXCEPT ![call.id] = "failed"]
  /\ AbandonOpen(call.id)
  /\ UNCHANGED <<next_local_id, stream, link, toHost, devVars,
                 dataVars, sawClose, wrote>>

-----------------------------------------------------------------------------
(* Stream::write.                                                           *)

\* The caller leaves alone what it moved from and what it was told is closed;
\* read and write themselves do not look at closed_.
Usable(h) == ~stream[h].closed

\* A WRTE that fits in max_data; a larger one is an error that changes nothing.
\* Nothing is awaited.
Write(h) ==
  LET l == stream[h].local
  IN  /\ call = Idle
      /\ Usable(h)
      /\ wrote[l] < MaxWrites
      /\ Send(make_empty_message("WRTE", l, stream[h].remote))
      /\ wrote' = [wrote EXCEPT ![l] = IF link = "up" THEN @ + 1 ELSE @]
      /\ UNCHANGED <<hostVars, link, toHost, devVars,
                     fate, dataVars, sawClose, closes>>

-----------------------------------------------------------------------------
(* Stream::read and Stream::read_all, both built on receive_more.           *)

\* read: copy what is buffered, up to what is still wanted.  TakeCount is the
\* std::min of the loop.
TakeCount(buf, want) == Least(buf.len, want)

\* Mutants: the offset is not advanced; it is advanced too far.
RemainingAgain(buf, n) == [buf EXCEPT !.len = @ - n]
RemainingShort(buf, n) == [buf EXCEPT !.at = @ + n + 1, !.len = @ - n - 1]

Remaining(buf, n) == [src |-> buf.src, at |-> buf.at + n, len |-> buf.len - n]

\* read(n): what the buffer holds is copied first, and the call waits for
\* frames only if that was not enough.
ReadCall(h, n) ==
  LET s == stream[h]
      k == TakeCount(s.buf, n)
      b == BytesOf(s.buf.src, s.buf.at, k)
  IN  /\ call = Idle
      /\ Usable(h)
      /\ stream' = [stream EXCEPT ![h].buf = Remaining(s.buf, k)]
      /\ IF k = n
         THEN /\ delivered' = [delivered EXCEPT ![s.local] = @ \o b]
              /\ UNCHANGED call
         ELSE /\ call' = [op |-> "read", h |-> h, id |-> s.local,
                          want |-> n - k, out |-> b]
              /\ UNCHANGED delivered
      /\ UNCHANGED <<next_local_id, link, toDevice, toHost, devVars,
                     fate, lost, taken, sawClose, finished, closes, wrote>>

\* Mutant: what an earlier read left in the buffer is not drained.
DrainedNothing(buf) == <<>>

Drained(buf) == BytesOf(buf.src, buf.at, buf.len)

\* read_all: a half-read WRTE is drained first, then frames are awaited until
\* the device closes.
ReadAllCall(h) ==
  LET s == stream[h]
  IN  /\ call = Idle
      /\ Usable(h)
      /\ stream' = [stream EXCEPT ![h].buf = NoData]
      /\ call' = [op |-> "read_all", h |-> h, id |-> s.local, want |-> 0,
                  out |-> Drained(s.buf)]
      /\ UNCHANGED <<next_local_id, link, toDevice, toHost, devVars, histVars>>

Reading == call.op \in {"read", "read_all"}

\* Mutant: data is taken whichever stream it is for.
ReadSkipsNothing(f) == FALSE

ReadSkips(f) == f.arg1 # stream[call.h].local

\* The call returns an error: what it had copied is of no use to the caller.
FailCall ==
  /\ call' = Idle
  /\ lost' = [lost EXCEPT ![call.id] = @ \/ call.out # <<>>]

\* A frame for another stream is dropped, and so is the OKAY of a write.
ReceiveSkip ==
  /\ Reading
  /\ FrameReady
  /\ ReadSkips(Head(toHost)) \/ Head(toHost).cmd = "OKAY"
  /\ toHost' = Tail(toHost)
  /\ UNCHANGED <<hostVars, link, toDevice, devVars, histVars>>

\* Mutant: a WRTE is not acknowledged.
AcknowledgeNever(s) == UNCHANGED toDevice

\* The OKAY for a WRTE; its payload is empty.
Acknowledge(s) == Send(make_empty_message("OKAY", s.local, s.remote))

\* A WRTE of this stream: it is buffered and acknowledged, then handed on.
ReceiveWrte ==
  LET f    == Head(toHost)
      s    == stream[call.h]
      full == [src |-> f.arg1, at |-> f.at, len |-> f.len]
      k    == IF call.op = "read" THEN TakeCount(full, call.want) ELSE f.len
      out  == call.out \o BytesOf(full.src, full.at, k)
  IN  /\ Reading
      /\ FrameReady
      /\ ~ReadSkips(f)
      /\ f.cmd = "WRTE"
      /\ toHost' = Tail(toHost)
      /\ Acknowledge(s)
      /\ taken' = [taken EXCEPT ![call.id] = @ + f.len]
      /\ \/ \* the OKAY went out
            /\ link = "up"
            /\ stream' = [stream EXCEPT ![call.h].buf =
                            IF call.op = "read" THEN Remaining(full, k) ELSE NoData]
            /\ IF call.op = "read" /\ k = call.want
               THEN /\ call' = Idle
                    /\ delivered' = [delivered EXCEPT ![call.id] = @ \o out]
               ELSE /\ call' = [call EXCEPT !.want = IF call.op = "read" THEN @ - k ELSE @,
                                            !.out = out]
                    /\ UNCHANGED delivered
            /\ UNCHANGED lost
         \/ \* it could not be sent: an error, and the payload stays buffered
            /\ link # "up"
            /\ stream' = [stream EXCEPT ![call.h].buf = full]
            /\ FailCall
            /\ UNCHANGED delivered
      /\ UNCHANGED <<next_local_id, link, devVars, fate, sawClose, finished, closes, wrote>>

\* The device closed the stream: read fails, read_all is complete.
ReceiveClse ==
  LET f == Head(toHost)
  IN  /\ Reading
      /\ FrameReady
      /\ ~ReadSkips(f)
      /\ f.cmd = "CLSE"
      /\ toHost' = Tail(toHost)
      /\ stream' = [stream EXCEPT ![call.h].closed = TRUE]
      /\ sawClose' = [sawClose EXCEPT ![call.id] = TRUE]
      /\ IF call.op = "read_all"
         THEN /\ call' = Idle
              /\ delivered' = [delivered EXCEPT ![call.id] = @ \o call.out]
              /\ finished' = [finished EXCEPT ![call.id] = TRUE]
              /\ UNCHANGED lost
         ELSE /\ FailCall
              /\ UNCHANGED <<delivered, finished>>
      /\ UNCHANGED <<next_local_id, link, toDevice, devVars, fate, taken, closes, wrote>>

\* Any other command is an error; the frame is gone, the stream stays open.
ReceiveUnexpected ==
  LET f == Head(toHost)
  IN  /\ Reading
      /\ FrameReady
      /\ ~ReadSkips(f)
      /\ f.cmd \notin {"WRTE", "OKAY", "CLSE"}
      /\ toHost' = Tail(toHost)
      /\ FailCall
      /\ UNCHANGED <<next_local_id, stream, link, toDevice, devVars,
                     fate, delivered, taken, sawClose, finished, closes, wrote>>

ReadReceiveFails ==
  /\ Reading
  /\ ReceiveFails
  /\ FailCall
  /\ UNCHANGED <<next_local_id, stream, link, toDevice, toHost, devVars,
                 fate, delivered, taken, sawClose, finished, closes, wrote>>

-----------------------------------------------------------------------------
Init ==
  /\ next_local_id = 2
  /\ stream = [h \in Handles |-> NoStream]
  /\ call = Idle
  /\ link = "up"
  /\ toDevice = <<>>
  /\ toHost = <<>>
  /\ DeviceInit
  /\ fate = [l \in LocalIds |-> "none"]
  /\ delivered = [l \in LocalIds |-> <<>>]
  /\ lost = [l \in LocalIds |-> FALSE]
  /\ taken = [l \in LocalIds |-> 0]
  /\ sawClose = [l \in LocalIds |-> FALSE]
  /\ finished = [l \in LocalIds |-> FALSE]
  /\ closes = [l \in LocalIds |-> 0]
  /\ wrote = [l \in LocalIds |-> 0]

\* What the caller decides to do.
CallerStep ==
  \/ \E h \in Handles : OpenCall(h) \/ Write(h) \/ ReadAllCall(h) \/ Destroy(h)
  \/ \E h \in Handles, n \in 1 .. MaxRead : ReadCall(h, n)
  \/ \E a, b \in Handles : MoveConstruct(a, b) \/ MoveAssign(a, b)

\* A call in progress handles the next frame.
ReceiveStep ==
  \/ OpenSkip \/ OpenAccepted \/ OpenRefused
  \/ ReceiveSkip \/ ReceiveWrte \/ ReceiveClse \/ ReceiveUnexpected

FailureStep == OpenReceiveFails \/ ReadReceiveFails

\* The two sides of the system; only a call in progress sees the failures.
HostStep == CallerStep \/ ReceiveStep \/ FailureStep

Quiet(Step) == Step /\ UNCHANGED <<hostVars, histVars>>

Next ==
  \/ HostStep
  \/ Quiet(DeviceStep)
  \/ Quiet(LinkDown /\ UNCHANGED devVars)
  \/ Quiet(call = Idle /\ ConnectionClose /\ UNCHANGED devVars)

Spec == Init /\ [][Next]_vars

\* A call in progress goes on handling frames; the device goes on handling
\* frames, and its services write while they may and then exit.  The caller
\* owes nothing, and neither do the faults.
Fairness ==
  /\ WF_vars(ReceiveStep)
  /\ WF_vars(Quiet(DeviceHandles))
  /\ \A l \in LocalIds : /\ WF_vars(Quiet(\E n \in 1 .. MaxChunk : DeviceWrite(l, n)))
                         /\ WF_vars(Quiet(ServiceDone(l)))

FairSpec == Spec /\ Fairness

-----------------------------------------------------------------------------
(* Properties.                                                              *)

\* Type invariant of the module.
TypeOK ==
  /\ next_local_id \in Nat /\ next_local_id >= 2
  /\ stream \in [Handles -> Streams]
  /\ call \in Calls
  /\ LinkTypeOK
  /\ DeviceTypeOK
  /\ fate \in [LocalIds -> {"none", "opening", "open", "refused", "failed"}]
  /\ delivered \in [LocalIds -> Seq(Bytes)]
  /\ lost \in [LocalIds -> BOOLEAN]
  /\ taken \in [LocalIds -> Nat]
  /\ sawClose \in [LocalIds -> BOOLEAN]
  /\ finished \in [LocalIds -> BOOLEAN]
  /\ closes \in [LocalIds -> Nat]
  /\ wrote \in [LocalIds -> Nat]

\* What the calls on one stream hand out is what the device's service wrote on
\* that stream, in order and without a gap or a repeat: the id check, the
\* half-read buffer of read, its drain in read_all and the moves lose nothing
\* (Stream::read, read_all, receive_more).
InOrder ==
  \A l \in LocalIds : ~lost[l] =>
    \A i \in 1 .. Len(delivered[l]) : delivered[l][i] = <<l, i>>

\* When read_all returns its output, nothing the device wrote on the stream is
\* missing: "Reads all output until the remote closes the stream"
\* (include/adbcpp/stream.hpp:74).
AllDelivered ==
  \A l \in LocalIds : finished[l] /\ ~lost[l] => Len(delivered[l]) = sent[l]

\* open reports a refusal, and a stream is taken for closed, only when the
\* device really refused or closed that very stream: frames left over from an
\* earlier stream are never mistaken for an answer (Stream::open, receive_more).
VerdictsTrue ==
  \A l \in LocalIds :
    /\ fate[l] = "refused" => dstat[l] = "refused"
    /\ sawClose[l] => dstat[l] \in {"closed", "gone"}

\* A stream is closed by the host at most once however often its object is
\* moved, assigned over or destroyed, and not at all after the device closed it
\* (Stream::close_now, the moves, receive_more's CLSE case).
OneClose ==
  \A l \in LocalIds : closes[l] <= 1 /\ (sawClose[l] => closes[l] = 0)

\* Without delayed acknowledgements the device regains the right to send only
\* when the host has taken everything sent so far: a WRTE is acknowledged once,
\* by the stream it is for, and one that was dropped is not (receive_more).
AckAfterTake ==
  ~DelayedAck => \A l \in LocalIds : credit[l] > 0 => taken[l] = sent[l]

\* A WRTE or an OKAY goes out only on a stream the device accepted, under the
\* id the device gave it (Stream::open, write, receive_more).
FramesAddressed ==
  \A i \in 1 .. Len(toDevice) :
    toDevice[i].cmd \in {"WRTE", "OKAY"} =>
      /\ fate[toDevice[i].arg0] = "open"
      /\ toDevice[i].arg1 = rid[toDevice[i].arg0]

\* Once every frame has been handled, a stream the device has open has an owner
\* at the host: no destruction, move or assignment leaves one
\* behind that nobody will ever close (Stream::~Stream, the moves, close_now).  The
\* exception is the stream of an open that failed ("failed"): open times out, gives
\* up with a CLSE to id 0 (stream.cpp:103), and a device whose OKAY was under way
\* keeps the stream.  Only there: an open that was refused leaves nothing, and an
\* open whose answer came has an object.
NoOrphan ==
  link = "up" /\ call = Idle /\ toDevice = <<>> =>
    \A l \in LocalIds : dstat[l] = "open" /\ fate[l] # "failed" =>
      \E h \in Handles : stream[h].local = l /\ ~stream[h].closed

\* Every call returns: open gets its answer, read its bytes or the device's
\* CLSE, read_all the end of the output (Stream::open, read, read_all).
CallReturns == (call # Idle) ~> (call = Idle)

=============================================================================
