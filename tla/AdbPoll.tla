------------------------------- MODULE AdbPoll -------------------------------
(***************************************************************************)
(* One thread that drives a USB device, a TCP device, or both at once with *)
(* the helper wait_readable (src/transport.cpp) as examples/poll/main.cpp  *)
(* does.  It opens what it needs, waits, reads and writes in any order,    *)
(* and closes.                                                             *)
(***************************************************************************)
EXTENDS AdbUsb, AdbTcp

CONSTANTS
  Rounds        \* bound: passes of the helper before its deadline

ASSUME PollAssumption == Rounds \in Nat \ {0}

VARIABLES
  poll          \* what the thread drives; of the helper: the transport asked next,
                \* the passes so far, the index it returned

vars == <<wireVars, usbVars, tcpVars, poll>>

\* The transports of the thread, in the order in which the helper gets them.
Transports == poll.list

\* The thread drives "usb", "tcp" or "both".
job == IF Len(Transports) = 1 THEN Transports[1] ELSE "both"

\* The helper named transport t.
Named(t) == poll.index # 0 /\ Transports[poll.index] = t

Idle == [poll EXCEPT !.at = 0, !.pass = 0, !.index = 0]

\* Everything is open.  Bound: where there was a choice between devices or
\* addresses, only open and close are looked at.
Open ==
  /\ job # "tcp" => usb.st = "ready"
  /\ job # "usb" => tcp.st = "ready"
  /\ Len(bus) = 1 /\ Len(addrs) = 1

-----------------------------------------------------------------------------
\* The helper begins its first pass.  Bound: it is not asked about USB alone.
PollCall ==
  /\ job # "usb" /\ Open /\ call = NoCall /\ poll.at = 0
  /\ poll' = [Idle EXCEPT !.at = 1, !.pass = 1]
  /\ answer' = "none"
  /\ UNCHANGED <<call, sent, inVars, outVars, saw, usbVars, tcpVars>>

Asking == poll.at \in 1 .. Len(Transports) /\ call = NoCall /\ answer = "none"

\* Each transport in turn is asked with a timeout of zero.
PollAsk ==
  /\ Asking
  /\ \/ Transports[poll.at] = "usb" /\ UsbWait(0, "poll") /\ UNCHANGED tcpVars
     \/ Transports[poll.at] = "tcp" /\ TcpWait(0, "poll") /\ UNCHANGED usbVars
  /\ UNCHANGED poll

\* The index of the transport that said yes.
ReturnIndex == [Idle EXCEPT !.index = poll.at]

\* Its answer: an error and a yes end the helper, after a no comes the next one.
PollAnswer ==
  /\ poll.at \in 1 .. Len(Transports) /\ call = NoCall /\ answer # "none"
  /\ poll' = IF answer = "error" THEN Idle
             ELSE IF answer = "yes" THEN ReturnIndex
             ELSE [poll EXCEPT !.at = @ + 1]
  /\ answer' = "none"
  /\ UNCHANGED <<call, sent, inVars, outVars, saw, usbVars, tcpVars>>

\* A pass without a yes: the deadline, or a short sleep and the next pass.
PollPass ==
  /\ poll.at > Len(Transports)
  /\ poll' = IF poll.pass < Rounds THEN [poll EXCEPT !.at = 1, !.pass = @ + 1] ELSE Idle
  /\ UNCHANGED <<wireVars, usbVars, tcpVars>>

-----------------------------------------------------------------------------
(* The caller.                                                              *)

Free == Open /\ poll.at = 0

\* The transport is read, of two the one the helper named.
CallerReads ==
  /\ Free
  /\ \E n \in 1 .. MaxRead :
       \/ (job = "usb" \/ Named("usb")) /\ UsbRead(n) /\ UNCHANGED tcpVars
       \/ (job = "tcp" \/ Named("tcp")) /\ TcpRead(n) /\ UNCHANGED usbVars
  /\ poll' = Idle

\* Bound: a transport is written before its device sends, or only read; the two
\* directions share nothing but the thread.
OneWay(t) == wrote[t] = 0

CallerWrites ==
  /\ Free /\ job # "both" /\ \A t \in Kinds : sent[t] = 0 /\ ~readFailed[t]
  /\ \E n \in 1 .. MaxBytes : \/ UsbWrite(n) /\ UNCHANGED tcpVars
                              \/ TcpWrite(n) /\ UNCHANGED usbVars
  /\ UNCHANGED poll

\* A wait of its own, with a timeout.
CallerWaits ==
  /\ Free /\ job # "both" /\ answer = "none"
  /\ \/ UsbWait(1, "caller") /\ UNCHANGED tcpVars
     \/ TcpWait(1, "caller") /\ UNCHANGED usbVars
  /\ poll' = Idle

\* It looks at the answer of a wait of its own.
CallerTakesAnswer ==
  /\ Free /\ answer # "none"
  /\ answer' = "none"
  /\ UNCHANGED <<call, sent, inVars, outVars, saw, usbVars, tcpVars, poll>>

\* USB first, then TCP, as long as nothing failed.
Opens ==
  \/ job # "tcp" /\ UsbOpens /\ UNCHANGED <<tcpVars, poll>>
  \/ (job = "tcp" \/ (job = "both" /\ usb.st = "ready")) /\ TcpOpens /\ UNCHANGED <<usbVars, poll>>

\* Once open has failed or the work is done both objects go.
Closes ==
  /\ poll.at = 0
  /\ \/ (job = "both" => tcp.st # "none" \/ usb.st = "destroy") /\ (UsbClose \/ UsbDestroy) /\ UNCHANGED <<tcpVars, poll>>
     \/ (TcpClose \/ TcpDestroy) /\ UNCHANGED <<usbVars, poll>>

Breaks ==
  \/ UsbBreaks /\ UNCHANGED <<tcpVars, poll>>
  \/ TcpBreaks /\ UNCHANGED <<usbVars, poll>>
  \/ job = "usb" /\ BusChanges /\ UNCHANGED <<tcpVars, poll>>

GoesOn ==
  \/ UsbGoesOn /\ UNCHANGED <<tcpVars, poll>>
  \/ TcpGoesOn /\ UNCHANGED <<usbVars, poll>>
  \/ PollAsk \/ PollAnswer \/ PollPass

DeviceStep ==
  /\ \E t \in Kinds : Open /\ OneWay(t) /\ (DeviceSends(t) \/ DeviceEnds(t))
  /\ UNCHANGED <<usbVars, tcpVars, poll>>

Lists == {<<"usb">>, <<"tcp">>, <<"usb", "tcp">>, <<"tcp", "usb">>}

\* Several devices, several addresses, writes and waits of the caller's own are
\* looked at with one transport at a time.
Init ==
  /\ WireInit /\ UsbInitially /\ TcpInitially
  /\ poll \in [list : Lists, at : {0}, pass : {0}, index : {0}]
  /\ Len(bus) > 1 => job = "usb"
  /\ Len(addrs) # 1 => job = "tcp"

Next ==
  \/ Opens \/ Closes
  \/ PollCall \/ CallerReads \/ CallerWrites \/ CallerWaits \/ CallerTakesAnswer
  \/ GoesOn \/ Breaks \/ DeviceStep

Spec == Init /\ [][Next]_vars

\* A call in progress goes on: a running thread, a timeout that expires.
FairSpec == Spec /\ WF_vars(GoesOn)

-----------------------------------------------------------------------------
(* Properties.                                                              *)

\* Type invariant of the module.
TypeOK ==
  /\ WireTypeOK
  /\ usb.incoming \in Seq(Nat) /\ usb.offset \in 0 .. Len(usb.incoming)
  /\ held \subseteq {"context", "list", "handle", "claim"}
  /\ tcp.at \in 0 .. Len(addrs) + 1 /\ fds \subseteq 1 .. Len(addrs)
  /\ poll \in [list : Lists, at : 0 .. Len(Transports) + 1, pass : 0 .. Rounds, index : 0 .. Len(Transports)]

\* The four directions as byte channels.  A failed recv takes no bytes with it,
\* so what TCP promises of its reads holds on after a failure.
UsbIn  == INSTANCE ByteChannel WITH in <- sent["usb"], out <- handed["usb"], failed <- readFailed["usb"]
TcpIn  == INSTANCE ByteChannel WITH in <- sent["tcp"], out <- handed["tcp"], failed <- FALSE
UsbOut == INSTANCE ByteChannel WITH in <- wrote["usb"], out <- reached["usb"], failed <- writeFailed["usb"]
TcpOut == INSTANCE ByteChannel WITH in <- wrote["tcp"], out <- reached["tcp"], failed <- writeFailed["tcp"]

\* What read hands out is what the device sent, in order and complete, until a
\* read or a wait has failed (UsbTransport::read, wait_readable and their buffer,
\* TcpTransport::read).
InSpec == UsbIn!Spec /\ TcpIn!Spec

\* The device gets what was written, without gaps or repetition, until a write has
\* failed (UsbTransport::write: never a second transfer after a short one;
\* TcpTransport::write: the rest after a short send), and a write that reports
\* success has reached the device to the last byte.
OutSpec ==
  /\ UsbOut!Spec /\ TcpOut!Spec
  /\ [](\A t \in Kinds : call = NoCall /\ ~writeFailed[t] => Len(reached[t]) = wrote[t])

\* What the next read can take without the device: USB has it in its own buffer,
\* TCP in the socket's.
Arrived(t) == IF t = "usb" THEN Buffered ELSE sent["tcp"] > taken["tcp"]

\* Bytes that wait_readable saw are there for the next read, which does not wait,
\* however long it takes until it is called; over TCP the read after a closed peer
\* was seen does not wait either, and the helper names a transport that said yes
\* (wait_readable of both transports and the helper of transport.cpp).  An empty
\* USB packet is left out: wait_readable takes it off the wire and says yes, and
\* the read it promised waits for the next packet, against what transport.hpp says.
ReadableIsRead ==
  /\ \A t \in Kinds : saw[t] = "bytes" => Arrived(t)
  /\ ~(In("usb", "read") /\ saw["usb"] = "bytes")
  /\ saw["tcp"] # "nothing" => ~Silent("tcp")
  /\ poll.index # 0 => saw[Transports[poll.index]] # "nothing"

\* All that was opened is given back when the object is gone, however far open
\* came; close gives the interface back at once, so that adb or another open can
\* have it; no address that did not answer keeps its socket (open, close, ~Impl).
NothingLeaks ==
  /\ usb.st = "gone" => held = {}
  /\ usb.st \in {"handle", "ready", "closed"} => "list" \notin held
  /\ fds \subseteq {tcp.socket}
  /\ usb.st = "closed" => held = {"context"}

\* A device that was picked by its serial is the one that is opened, though others
\* of its model are there and devices come and go in between (list, find_device).
OpensTheOnePicked == usb.st = "ready" /\ id.serial # "" => target.serial = aimed.serial

\* Reads and writes return, whatever the device does (the budget).
TransferReturns == call.op \in {"read", "write"} ~> call = NoCall

\* transport.hpp on the helper: it returns an index, or nothing when the timeout
\* has passed.
PollReturns == poll.at # 0 ~> poll.at = 0

=============================================================================
