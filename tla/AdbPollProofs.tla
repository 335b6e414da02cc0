----------------------------- MODULE AdbPollProofs -----------------------------
(***************************************************************************)
(* Proofs about AdbPoll: a USB and a TCP transport and the helper          *)
(* wait_readable, for any devices on the bus, any addresses, any size of   *)
(* the receive buffer, any timeouts and any choice of faults.              *)
(***************************************************************************)
EXTENDS AdbPoll, SequenceTheorems, NaturalsInduction, WellFoundedInduction, TLAPS

-----------------------------------------------------------------------------
(* The inductive invariant.                                                 *)

\* The first n bytes of a direction.
Upto(n) == [i \in 1 .. n |-> i]

Calls == [t : Kinds \cup {"none"}, op : {"none", "read", "write", "wait"}, n : Nat,
          waited : Nat, from : {"caller", "poll"}]

\* Type correctness of what both transports have: the wire.
WireOK ==
  /\ call \in Calls
  /\ sent \in [Kinds -> Nat] /\ taken \in [Kinds -> Nat] /\ \A t \in Kinds : taken[t] <= sent[t]
  /\ ended \in [Kinds -> BOOLEAN]
  /\ handed \in [Kinds -> Seq(Nat)] /\ readFailed \in [Kinds -> BOOLEAN]
  /\ wrote \in [Kinds -> Nat]
  /\ reached \in [Kinds -> Seq(Nat)] /\ writeFailed \in [Kinds -> BOOLEAN]
  /\ saw \in [Kinds -> {"bytes", "end", "nothing"}]
  /\ answer \in {"none", "yes", "no", "error"}

UsbStates == {"none", "init", "list", "matched", "handle", "ready", "closed", "destroy", "gone"}

TcpStates == {"none", "connect", "ready", "closed", "gone"}

\* Type correctness of the USB transport and its buffer, of the bus, of the TCP
\* transport and of the helper.
UsbOK ==
  /\ usb \in [st : UsbStates, incoming : Seq(Nat), offset : Nat]
  /\ usb.offset <= Len(usb.incoming)

BusOK ==
  /\ bus \in Seq(Devices)
  /\ held \subseteq {"context", "list", "handle", "claim"}

TcpOK ==
  /\ addrs \in Seq(STRING) /\ tcp \in [st : TcpStates, at : Nat, socket : Nat]
  /\ tcp.at <= Len(addrs) + 1 /\ fds \subseteq 1 .. Len(addrs)

HelperOK ==
  /\ poll \in [list : Lists, at : Nat, pass : Nat, index : Nat]
  /\ poll.at <= Len(Transports) + 1 /\ poll.pass <= Rounds /\ poll.index <= Len(Transports)

\* A call in progress is one of the two transports', and moves at least one byte.
CallOK ==
  /\ call.op = "none" => call = NoCall
  /\ call # NoCall => call.t \in Kinds /\ call.op # "none"
  /\ call.op \in {"read", "write"} => call.n > 0
  /\ call.op = "write" => call.n <= wrote[call.t]

\* What libusb has given out at each point of open, and the one socket.
Resources ==
  /\ usb.st \in {"none", "gone"} => held = {}
  /\ usb.st \in {"init", "closed"} => held = {"context"}
  /\ usb.st \in {"list", "matched"} => held = {"context", "list"}
  /\ usb.st = "handle" => held = {"context", "handle"}
  /\ usb.st = "ready" => held = {"context", "handle", "claim"}
  /\ usb.st = "destroy" => held \subseteq {"context", "handle"}
  /\ fds \subseteq {tcp.socket}
  /\ tcp.st # "ready" => fds = {}
  /\ tcp.st = "connect" => tcp.at > 0

\* The serial that was picked, and the device that was matched with it.
Picked ==
  /\ id.serial # "" => id.serial = aimed.serial
  /\ usb.st \in {"matched", "handle", "ready"} /\ id.serial # "" => target.serial = id.serial

\* A transfer into the USB buffer is going on.
Filling == call.t = "usb" /\ call.op \in {"read", "wait"}

\* What the last wait saw is still there.
UsbSaw == saw["usb"] = "bytes" => Buffered /\ ~Filling
TcpSaw == /\ saw["tcp"] = "bytes" => sent["tcp"] > taken["tcp"]
          /\ saw["tcp"] # "nothing" => ~Silent("tcp")

\* The helper's answer is that of the transport it has just asked.
Waits ==
  /\ call.op \in {"read", "wait"} => poll.index = 0
  /\ poll.index # 0 => poll.at = 0 /\ saw[Transports[poll.index]] # "nothing"
  /\ poll.at # 0 /\ call # NoCall =>
       call.op = "wait" /\ poll.at <= Len(Transports) /\ call.t = Transports[poll.at]
  /\ poll.at # 0 /\ answer # "none" => call = NoCall /\ poll.at <= Len(Transports)
  /\ poll.at # 0 /\ answer = "yes" => saw[Transports[poll.at]] # "nothing"

\* The buffer holds what was taken and not handed out, but not while it is filled.
UsbIntact ==
  ~readFailed["usb"] =>
    LET h == Len(handed["usb"]) IN
      /\ handed["usb"] = Upto(h)
      /\ Filling => h = taken["usb"]
      /\ ~Filling => /\ h + (Len(usb.incoming) - usb.offset) = taken["usb"]
                     /\ \A j \in usb.offset + 1 .. Len(usb.incoming) :
                          usb.incoming[j] = h + (j - usb.offset)

TcpIntact == handed["tcp"] = Upto(taken["tcp"])

\* What is still to be written of the call in progress.
Rest(t) == IF In(t, "write") THEN call.n ELSE 0

Written ==
  \A t \in Kinds : ~writeFailed[t] => reached[t] = Upto(wrote[t] - Rest(t))

PollInv ==
  /\ WireOK /\ UsbOK /\ BusOK /\ TcpOK /\ HelperOK
  /\ CallOK /\ Resources /\ Picked /\ Waits /\ UsbSaw /\ TcpSaw
  /\ UsbIntact /\ TcpIntact /\ Written

-----------------------------------------------------------------------------
(* Bytes.                                                                   *)

\* One sequence after another.
LEMMA Joined ==
  ASSUME NEW s \in Seq(Nat), NEW t \in Seq(Nat)
  PROVE  /\ s \o t \in Seq(Nat)
         /\ Len(s) \in Nat /\ Len(t) \in Nat
         /\ Len(s \o t) = Len(s) + Len(t)
         /\ \A j \in 1 .. Len(s) : (s \o t)[j] = s[j]
         /\ \A j \in Len(s) + 1 .. Len(s) + Len(t) : (s \o t)[j] = t[j - Len(s)]
BY ConcatProperties, LenProperties

\* The bytes of a transfer.
LEMMA BytesSeq ==
  ASSUME NEW a \in Nat, NEW k \in Nat
  PROVE  /\ Bytes(a, a + k) \in Seq(Nat) /\ Len(Bytes(a, a + k)) = k
         /\ \A i \in 1 .. k : Bytes(a, a + k)[i] = a + i
<1>1. (a + k) - a = k
  OBVIOUS
<1>2. Bytes(a, a + k) = [i \in 1 .. k |-> a + i]
  BY <1>1 DEF Bytes
<1>3. [i \in 1 .. k |-> a + i] \in [1 .. k -> Nat]
  OBVIOUS
<1>4. Bytes(a, a + k) \in Seq(Nat)
  BY <1>2, <1>3, SeqDef
<1>5. Len(Bytes(a, a + k)) = k
  BY <1>2, <1>3, <1>4, LenProperties
<1>. QED  BY <1>2, <1>4, <1>5

\* The first bytes of a direction.
LEMMA UptoSeq ==
  ASSUME NEW n \in Nat
  PROVE  /\ Upto(n) \in Seq(Nat) /\ Len(Upto(n)) = n
         /\ \A i \in 1 .. n : Upto(n)[i] = i
<1>1. Upto(n) \in [1 .. n -> Nat]
  BY DEF Upto
<1>2. Upto(n) \in Seq(Nat)
  BY <1>1, SeqDef
<1>3. Len(Upto(n)) = n
  BY <1>1, <1>2, LenProperties
<1>. QED  BY <1>2, <1>3 DEF Upto

\* The next bytes follow the first ones.
LEMMA UptoGrows ==
  ASSUME NEW n \in Nat, NEW k \in Nat, NEW b \in Seq(Nat), Len(b) = k,
         \A i \in 1 .. k : b[i] = n + i
  PROVE  Upto(n) \o b = Upto(n + k)
<1>. DEFINE u == Upto(n)  v == Upto(n + k)
<1>1. u \in Seq(Nat) /\ Len(u) = n /\ \A i \in 1 .. n : u[i] = i
  BY UptoSeq
<1>2. v \in Seq(Nat) /\ Len(v) = n + k /\ \A i \in 1 .. n + k : v[i] = i
  <2>1. n + k \in Nat
    OBVIOUS
  <2>. QED  BY <2>1, UptoSeq
<1>. HIDE DEF u, v
<1>3. /\ u \o b \in Seq(Nat) /\ Len(u \o b) = Len(u) + Len(b)
      /\ \A i \in 1 .. Len(u) : (u \o b)[i] = u[i]
      /\ \A i \in Len(u) + 1 .. Len(u) + Len(b) : (u \o b)[i] = b[i - Len(u)]
  BY <1>1, Joined
<1>l. Len(u) = n /\ Len(b) = k /\ Len(u \o b) = n + k
  BY <1>1, <1>3
<1>4. ASSUME NEW i \in 1 .. n + k PROVE (u \o b)[i] = v[i]
  <2>1. CASE i <= n
    <3>1. i \in 1 .. n
      BY <2>1
    <3>. QED  BY <1>1, <1>2, <1>3, <1>l, <3>1
  <2>2. CASE i > n
    <3>1. i \in n + 1 .. n + k /\ i - n \in 1 .. k /\ n + (i - n) = i
      BY <2>2
    <3>2. (u \o b)[i] = b[i - n]
      <4>1. \A j \in n + 1 .. n + k : (u \o b)[j] = b[j - n]
        BY <1>3, <1>l
      <4>. QED  BY <3>1, <4>1
    <3>3. b[i - n] = n + (i - n)
      BY <3>1
    <3>4. v[i] = i
      BY <1>2
    <3>. QED  BY <3>1, <3>2, <3>3, <3>4
  <2>3. i <= n \/ i > n
    OBVIOUS
  <2>. QED  BY <2>1, <2>2, <2>3, Zenon
<1>5. u \o b = v
  BY <1>2, <1>3, <1>4, <1>l, SeqEqual
<1>. QED  BY <1>5 DEF u, v

\* A piece of a sequence.
LEMMA Piece ==
  ASSUME NEW s \in Seq(Nat), NEW o \in Nat, NEW k \in Nat, o + k <= Len(s)
  PROVE  /\ SubSeq(s, o + 1, o + k) \in Seq(Nat) /\ Len(SubSeq(s, o + 1, o + k)) = k
         /\ \A j \in 1 .. k : SubSeq(s, o + 1, o + k)[j] = s[o + j]
<1>1. Len(s) \in Nat /\ \A j \in 1 .. Len(s) : s[j] \in Nat
  BY ElementOfSeq, LenProperties
<1>2. /\ o + 1 \in Int /\ o + k \in Int
      /\ \A i \in (o + 1) .. (o + k) : s[i] \in Nat
  BY <1>1
<1>3. SubSeq(s, o + 1, o + k) = [i \in 1 .. k |-> s[i + (o + 1) - 1]]
  <2>1. o + k - (o + 1) + 1 = k
    OBVIOUS
  <2>2. SubSeq(s, o + 1, o + k) = [i \in 1 .. o + k - (o + 1) + 1 |-> s[i + (o + 1) - 1]]
    BY <1>1, SubSeqProperties
  <2>. QED  BY <2>1, <2>2
<1>4. \A i \in 1 .. k : i + (o + 1) - 1 = o + i /\ o + i \in 1 .. Len(s)
  BY <1>1
<1>5. SubSeq(s, o + 1, o + k) \in [1 .. k -> Nat]
  BY <1>1, <1>3, <1>4
<1>6. SubSeq(s, o + 1, o + k) \in Seq(Nat)
  BY <1>5, SeqDef
<1>7. Len(SubSeq(s, o + 1, o + k)) = k
  BY <1>5, <1>6, LenProperties
<1>. QED  BY <1>3, <1>4, <1>6, <1>7

\* The buffer is given its full size for a transfer.
LEMMA ResizedSeq ==
  ASSUME usb.incoming \in Seq(Nat)
  PROVE  Resized \in Seq(Nat) /\ Len(Resized) >= Len(usb.incoming)
<1>. DEFINE n == BufferSize - Len(usb.incoming)
            z == [i \in 1 .. n |-> 0]
<1>1. Len(usb.incoming) \in Nat /\ n \in Int
  BY LenProperties, UsbAssumption
<1>. HIDE DEF n
<1>2. z \in Seq(Nat)
  <2>1. CASE n \in Nat
    <3>1. z \in [1 .. n -> Nat]
      OBVIOUS
    <3>. QED  BY <2>1, <3>1, SeqDef
  <2>2. CASE n \notin Nat
    <3>1. 1 .. n = 1 .. 0
      BY <1>1, <2>2
    <3>2. z \in [1 .. 0 -> Nat]
      BY <3>1
    <3>. QED  BY <3>2, SeqDef
  <2>. QED  BY <2>1, <2>2
<1>3. Resized = usb.incoming \o z
  BY DEF Resized, n
<1>. HIDE DEF z
<1>4. Len(z) \in Nat /\ usb.incoming \o z \in Seq(Nat) /\ Len(usb.incoming \o z) = Len(usb.incoming) + Len(z)
  BY <1>2, Joined
<1>. QED  BY <1>1, <1>3, <1>4

-----------------------------------------------------------------------------
(* The steps, by the part of the state they change.                         *)

\* Open, close and the bus: no bytes move.
UsbObject == UsbOpens \/ UsbClose \/ UsbDestroy \/ BusChanges
TcpObject == TcpOpens \/ TcpClose \/ TcpDestroy

\* The caller or the helper calls a transport.
UsbCalls ==
  \/ \E n \in 1 .. MaxRead : UsbRead(n)
  \/ \E n \in 1 .. MaxBytes : UsbWrite(n)
  \/ \E n \in 0 .. 1, from \in {"caller", "poll"} : UsbWait(n, from)
TcpCalls ==
  \/ \E n \in 1 .. MaxRead : TcpRead(n)
  \/ \E n \in 1 .. MaxBytes : TcpWrite(n)
  \/ \E n \in 0 .. 1, from \in {"caller", "poll"} : TcpWait(n, from)

\* An answer is looked at, or nothing but the helper goes on.
Looks ==
  /\ UNCHANGED <<call, sent, taken, ended, handed, readFailed, wrote, reached, writeFailed, saw>>
  /\ UNCHANGED <<usbVars, tcpVars>>
  /\ answer' \in {"none", answer}

\* Every step is one of these.
LEMMA WireSteps ==
  ASSUME [Next]_vars
  PROVE  \/ Looks
         \/ UsbObject /\ UNCHANGED tcpVars
         \/ TcpObject /\ UNCHANGED usbVars
         \/ (UsbCalls \/ UsbGoesOn \/ UsbBreaks) /\ UNCHANGED tcpVars
         \/ (TcpCalls \/ TcpGoesOn \/ TcpBreaks) /\ UNCHANGED usbVars
         \/ (\E t \in Kinds : DeviceSends(t) \/ DeviceEnds(t)) /\ UNCHANGED <<usbVars, tcpVars>>
<1>1. CASE UNCHANGED vars
  BY <1>1 DEF vars, wireVars, inVars, outVars, waitVars, Looks
<1>2. CASE Opens \/ Closes \/ Breaks
  BY <1>2 DEF Opens, Closes, Breaks, UsbObject, TcpObject
<1>3. CASE PollCall \/ PollAnswer \/ PollPass \/ CallerTakesAnswer
  BY <1>3 DEF PollCall, PollAnswer, PollPass, CallerTakesAnswer, wireVars, inVars, outVars, waitVars, Looks
<1>4. CASE PollAsk
  BY <1>4 DEF PollAsk, UsbCalls, TcpCalls
<1>5. CASE CallerReads
  BY <1>5 DEF CallerReads, UsbCalls, TcpCalls
<1>6. CASE CallerWrites
  BY <1>6 DEF CallerWrites, UsbCalls, TcpCalls
<1>7. CASE CallerWaits
  BY <1>7 DEF CallerWaits, UsbCalls, TcpCalls
<1>8. CASE UsbGoesOn /\ UNCHANGED tcpVars
  BY <1>8
<1>9. CASE TcpGoesOn /\ UNCHANGED usbVars
  BY <1>9
<1>10. CASE DeviceStep
  BY <1>10 DEF DeviceStep
<1>. QED
  BY <1>1, <1>2, <1>3, <1>4, <1>5, <1>6, <1>7, <1>8, <1>9, <1>10 DEF Next, GoesOn

\* Open and close leave the wire and the buffer alone.
LEMMA ObjectsLeaveWire ==
  ASSUME UsbOK, UsbObject \/ (TcpObject /\ UNCHANGED usbVars)
  PROVE  /\ UNCHANGED <<call, sent, taken, ended, handed, readFailed, wrote, reached, writeFailed, saw, answer>>
         /\ usb' = [usb EXCEPT !.st = usb'.st]
<1>1. CASE UsbObject
  <2>1. UNCHANGED <<call, sent, taken, ended, handed, readFailed, wrote, reached, writeFailed, saw, answer>>
    BY <1>1 DEF UsbObject, UsbOpens, UsbList, UsbInit, UsbGetList, UsbMatch, UsbOpenDevice, UsbClaim,
                UsbClose, UsbDestroy, BusChanges, wireVars, inVars, outVars, waitVars
  <2>2. usb' = usb \/ \E st : usb' = [usb EXCEPT !.st = st]
    BY <1>1 DEF UsbObject, UsbOpens, UsbList, UsbInit, UsbGetList, UsbMatch, UsbOpenDevice, UsbClaim,
                UsbClose, UsbDestroy, BusChanges, UsbAt
  <2>. QED  BY <2>1, <2>2 DEF UsbOK
<1>2. CASE TcpObject /\ UNCHANGED usbVars
  BY <1>2 DEF TcpObject, TcpOpens, TcpResolve, TcpConnect, TcpOpenFails, TcpClose, TcpDestroy,
              wireVars, inVars, outVars, waitVars, usbVars, UsbOK
<1>. QED  BY <1>1, <1>2

-----------------------------------------------------------------------------
(* Types.                                                                   *)

\* No call, and the call that begins.
LEMMA NoCallOK == NoCall \in Calls /\ NoCall.op = "none" /\ NoCall.t = "none" /\ NoCall.n = 0
BY DEF NoCall, Calls

LEMMA BeginOK ==
  ASSUME NEW t \in Kinds, NEW op \in {"read", "write", "wait"}, NEW n \in Nat,
         NEW from \in {"caller", "poll"}, Begin(t, op, n, from)
  PROVE  /\ call' \in Calls /\ call' # NoCall
         /\ call'.t = t /\ call'.op = op /\ call'.n = n
<1>1. call' = [t |-> t, op |-> op, n |-> n, waited |-> 0, from |-> from]
  BY DEF Begin
<1>2. call' \in Calls /\ call'.t = t /\ call'.op = op /\ call'.n = n
  BY <1>1 DEF Calls
<1>. QED  BY <1>2, NoCallOK

\* What HandOut does.
LEMMA HandOutOK ==
  ASSUME WireOK, UsbOK, NEW buf \in Seq(Nat), NEW o \in Nat, o <= Len(buf), NEW n \in Nat,
         HandOut(buf, o, n)
  PROVE  LET k == Least(n, Len(buf) - o) IN
           /\ k \in Nat /\ o + k <= Len(buf)
           /\ handed' \in [Kinds -> Seq(Nat)]
           /\ handed'["usb"] = handed["usb"] \o SubSeq(buf, o + 1, o + k)
           /\ handed'["tcp"] = handed["tcp"]
           /\ Len(handed'["usb"]) = Len(handed["usb"]) + k
           /\ UsbOK' /\ usb'.st = usb.st /\ usb'.incoming = buf /\ usb'.offset = o + k
<1>. DEFINE k == Least(n, Len(buf) - o)
<1>1. Len(buf) \in Nat
  BY LenProperties
<1>2. k \in Nat /\ o + k <= Len(buf)
  BY <1>1 DEF Least
<1>3. /\ handed' = [handed EXCEPT !["usb"] = @ \o SubSeq(buf, o + 1, o + k)]
      /\ usb' = [usb EXCEPT !.incoming = buf, !.offset = o + k]
  BY DEF HandOut
<1>. HIDE DEF k
<1>4. handed \in [Kinds -> Seq(Nat)] /\ handed["usb"] \in Seq(Nat) /\ "usb" \in Kinds /\ "tcp" \in Kinds
  BY DEF WireOK, Kinds
<1>. DEFINE p == SubSeq(buf, o + 1, o + k)
<1>5. p \in Seq(Nat) /\ Len(p) = k
  BY <1>2, Piece
<1>. HIDE DEF p
<1>6. handed["usb"] \o p \in Seq(Nat) /\ Len(handed["usb"] \o p) = Len(handed["usb"]) + k
  BY <1>4, <1>5, Joined
<1>7. /\ handed' \in [Kinds -> Seq(Nat)] /\ handed'["usb"] = handed["usb"] \o p
      /\ handed'["tcp"] = handed["tcp"]
  BY <1>3, <1>4, <1>6 DEF p
<1>8. UsbOK' /\ usb'.st = usb.st /\ usb'.incoming = buf /\ usb'.offset = o + k
  <2>1. o + k \in Nat
    BY <1>2
  <2>. QED  BY <1>2, <1>3, <2>1 DEF UsbOK
<1>. QED  BY <1>2, <1>6, <1>7, <1>8 DEF k, p

\* What a transfer does to the count of bytes taken.
LEMMA TransferOK ==
  ASSUME WireOK, NEW k \in 1 .. BufferSize, Transfer(k)
  PROVE  /\ taken' \in [Kinds -> Nat] /\ \A t \in Kinds : taken'[t] <= sent[t]
         /\ taken'["usb"] = taken["usb"] + k /\ taken'["tcp"] = taken["tcp"]
         /\ Packet(k) \in Seq(Nat) /\ Len(Packet(k)) = k
         /\ \A i \in 1 .. k : Packet(k)[i] = taken["usb"] + i
<1>1. /\ taken \in [Kinds -> Nat] /\ sent \in [Kinds -> Nat] /\ \A t \in Kinds : taken[t] <= sent[t]
      /\ taken["usb"] \in Nat /\ sent["usb"] \in Nat /\ "usb" \in Kinds /\ "tcp" \in Kinds
      /\ \A t \in Kinds : taken[t] \in Nat /\ sent[t] \in Nat
  BY DEF WireOK, Kinds
<1>2. k \in Nat /\ BufferSize \in Nat
  BY UsbAssumption
<1>3. taken["usb"] + k <= sent["usb"] /\ taken' = [taken EXCEPT !["usb"] = taken["usb"] + k]
  BY <1>1, <1>2 DEF Transfer, Least
<1>4. /\ Packet(k) \in Seq(Nat) /\ Len(Packet(k)) = k
      /\ \A i \in 1 .. k : Packet(k)[i] = taken["usb"] + i
  BY <1>1, <1>2, BytesSeq DEF Packet
<1>5. taken["usb"] + k \in Nat
  BY <1>1, <1>2
<1>6. taken' \in [Kinds -> Nat] /\ taken'["usb"] = taken["usb"] + k /\ taken'["tcp"] = taken["tcp"]
  BY <1>1, <1>3, <1>5
<1>7. \A t \in Kinds : taken'[t] <= sent[t]
  BY <1>1, <1>3, <1>6 DEF Kinds
<1>. QED  BY <1>4, <1>6, <1>7

\* The types that a step of a call on the USB transport keeps.
UsbTypes == WireOK /\ UsbOK /\ CallOK

LEMMA UsbCallsTypes ==
  ASSUME UsbTypes, UsbCalls
  PROVE  UsbTypes' /\ usb'.st = usb.st /\ UNCHANGED <<busVars, held>>
<1>. USE WireAssumption
<1>t. WireOK /\ UsbOK /\ CallOK
  BY DEF UsbTypes
<1>u. "usb" \in Kinds
  BY DEF Kinds
<1>r. Resized \in Seq(Nat) /\ Len(Resized) >= Len(usb.incoming) /\ Len(Resized) \in Nat /\ Len(usb.incoming) \in Nat
      /\ usb.incoming \in Seq(Nat) /\ usb.offset \in Nat /\ usb.offset <= Len(usb.incoming)
  BY <1>t, ResizedSeq, LenProperties DEF UsbOK
<1>s. ASSUME usb' = [usb EXCEPT !.incoming = Resized]
      PROVE  UsbOK' /\ usb'.st = usb.st
  <2>1. usb.offset <= Len(Resized)
    BY <1>r
  <2>. QED  BY <1>s, <1>r, <1>t, <2>1 DEF UsbOK
<1>1. ASSUME NEW n \in 1 .. MaxRead, UsbRead(n)
      PROVE  UsbTypes' /\ usb'.st = usb.st /\ UNCHANGED <<busVars, held>>
  <2>1. UNCHANGED <<sent, taken, ended, readFailed, wrote, reached, writeFailed, busVars, held>>
    BY <1>1 DEF UsbRead, outVars
  <2>2. CASE Buffered
    <3>1. HandOut(usb.incoming, usb.offset, n) /\ Forget("usb") /\ call' = call
      BY <1>1, <2>2 DEF UsbRead
    <3>2. handed' \in [Kinds -> Seq(Nat)] /\ UsbOK' /\ usb'.st = usb.st
      BY <1>r, <1>t, <3>1, HandOutOK
    <3>3. WireOK'
      BY <1>t, <2>1, <3>1, <3>2 DEF WireOK, Forget
    <3>. QED  BY <1>t, <2>1, <3>1, <3>2, <3>3 DEF UsbTypes, CallOK
  <2>3. CASE ~Buffered
    <3>1. /\ usb' = [usb EXCEPT !.incoming = Resized] /\ Begin("usb", "read", n, "caller")
          /\ UNCHANGED <<handed, saw, answer>>
      BY <1>1, <2>3 DEF UsbRead, waitVars
    <3>2. call' \in Calls /\ call' # NoCall /\ call'.t = "usb" /\ call'.op = "read" /\ call'.n = n
      BY <1>u, <3>1, BeginOK
    <3>3. WireOK'
      BY <1>t, <2>1, <3>1, <3>2 DEF WireOK
    <3>4. CallOK'
      BY <1>u, <3>2 DEF CallOK
    <3>. QED  BY <1>s, <2>1, <3>1, <3>3, <3>4 DEF UsbTypes
  <2>. QED  BY <2>2, <2>3
<1>2. ASSUME NEW n \in 1 .. MaxBytes, UsbWrite(n)
      PROVE  UsbTypes' /\ usb'.st = usb.st /\ UNCHANGED <<busVars, held>>
  <2>1. /\ wrote' = [wrote EXCEPT !["usb"] = @ + n] /\ Begin("usb", "write", n, "caller")
        /\ UNCHANGED <<sent, taken, ended, handed, readFailed, reached, writeFailed, saw, answer, busVars, usb, held>>
    BY <1>2 DEF UsbWrite, inVars, waitVars, usbVars
  <2>2. call' \in Calls /\ call' # NoCall /\ call'.t = "usb" /\ call'.op = "write" /\ call'.n = n /\ n \in Nat
    BY <1>u, <2>1, BeginOK
  <2>3. WireOK'
    <3>1. wrote \in [Kinds -> Nat] /\ wrote["usb"] + n \in Nat
      BY <1>t, <1>u, <2>2 DEF WireOK
    <3>2. wrote' \in [Kinds -> Nat]
      BY <2>1, <3>1
    <3>. QED  BY <1>t, <2>1, <2>2, <3>2 DEF WireOK
  <2>4. CallOK'
    <3>1. wrote["usb"] \in Nat /\ wrote'["usb"] = wrote["usb"] + n
      BY <1>t, <1>u, <2>1 DEF WireOK
    <3>2. n <= wrote'["usb"]
      BY <2>2, <3>1
    <3>. QED  BY <1>u, <2>2, <3>2 DEF CallOK
  <2>. QED  BY <1>t, <2>1, <2>3, <2>4 DEF UsbTypes, UsbOK
<1>3. ASSUME NEW n \in 0 .. 1, NEW from \in {"caller", "poll"}, UsbWait(n, from)
      PROVE  UsbTypes' /\ usb'.st = usb.st /\ UNCHANGED <<busVars, held>>
  <2>1. UNCHANGED <<sent, taken, ended, handed, readFailed, wrote, reached, writeFailed, busVars, held>>
    BY <1>3 DEF UsbWait, inVars, outVars
  <2>2. CASE Buffered
    <3>1. Answers("usb", "yes", "bytes") /\ UNCHANGED <<call, usb>>
      BY <1>3, <2>2 DEF UsbWait
    <3>2. WireOK'
      BY <1>t, <2>1, <3>1 DEF WireOK, Answers
    <3>. QED  BY <1>t, <2>1, <3>1, <3>2 DEF UsbTypes, CallOK, UsbOK
  <2>3. CASE ~Buffered
    <3>1. /\ usb' = [usb EXCEPT !.incoming = Resized] /\ Begin("usb", "wait", n, from)
          /\ UNCHANGED <<saw, answer>>
      BY <1>3, <2>3 DEF UsbWait, waitVars
    <3>2. call' \in Calls /\ call' # NoCall /\ call'.t = "usb" /\ call'.op = "wait" /\ call'.n = n
      BY <1>u, <3>1, BeginOK
    <3>3. WireOK'
      BY <1>t, <2>1, <3>1, <3>2 DEF WireOK
    <3>4. CallOK'
      BY <1>u, <3>2 DEF CallOK
    <3>. QED  BY <1>s, <2>1, <3>1, <3>3, <3>4 DEF UsbTypes
  <2>. QED  BY <2>2, <2>3
<1>. QED  BY <1>1, <1>2, <1>3 DEF UsbCalls

\* A further attempt keeps the call.
LEMMA AgainOK ==
  ASSUME WireOK, CallOK, call # NoCall, Again, wrote' = wrote
  PROVE  /\ call' \in Calls /\ CallOK'
         /\ call'.t = call.t /\ call'.op = call.op /\ call'.n = call.n /\ call' # NoCall
<1>. USE WireAssumption
<1>1. call \in Calls /\ call' = [call EXCEPT !.waited = @ + Timeout]
  BY DEF WireOK, Again
<1>2. call.waited + Timeout \in Nat
  BY <1>1 DEF Calls
<1>3. call' \in Calls /\ call'.t = call.t /\ call'.op = call.op /\ call'.n = call.n
  BY <1>1, <1>2 DEF Calls
<1>4. call' # NoCall /\ call.op # "none"
  BY <1>3, NoCallOK DEF CallOK
<1>. QED  BY <1>3, <1>4 DEF CallOK

\* The end of a call.
LEMMA NoCallKeepsCallOK == call' = NoCall => CallOK'
BY NoCallOK DEF CallOK

LEMMA UsbGoesOnTypes ==
  ASSUME UsbTypes, UsbGoesOn \/ UsbBreaks
  PROVE  UsbTypes' /\ usb'.st = usb.st /\ UNCHANGED <<busVars, held>>
<1>. USE WireAssumption
<1>. DEFINE G == UsbTypes' /\ usb'.st = usb.st /\ UNCHANGED <<busVars, held>>
<1>t. WireOK /\ UsbOK /\ CallOK
  BY DEF UsbTypes
<1>u. "usb" \in Kinds /\ "tcp" \in Kinds
  BY DEF Kinds
<1>c. call \in Calls /\ call.n \in Nat
  BY <1>t DEF WireOK, Calls
<1>r. /\ usb.incoming \in Seq(Nat) /\ Len(usb.incoming) \in Nat
      /\ usb.offset \in Nat /\ usb.offset <= Len(usb.incoming)
  BY <1>t, LenProperties DEF UsbOK
<1>n. call' = NoCall => call' \in Calls /\ CallOK'
  BY NoCallOK, NoCallKeepsCallOK
<1>e. ASSUME usb' = [usb EXCEPT !.incoming = <<>>, !.offset = 0]
      PROVE  UsbOK' /\ usb'.st = usb.st
  <2>1. <<>> \in Seq(Nat) /\ Len(<<>>) = 0
    OBVIOUS
  <2>2. usb' = [st |-> usb.st, incoming |-> <<>>, offset |-> 0] /\ usb.st \in UsbStates
    BY <1>e, <1>t DEF UsbOK
  <2>3. usb' \in [st : UsbStates, incoming : Seq(Nat), offset : Nat]
    BY <2>1, <2>2
  <2>4. usb'.offset = 0 /\ usb'.incoming = <<>> /\ usb'.st = usb.st
    BY <2>2
  <2>5. usb'.offset <= Len(usb'.incoming)
    BY <2>1, <2>4
  <2>. QED  BY <2>3, <2>4, <2>5 DEF UsbOK
<1>1. CASE UsbReadMoves
  <2>1. PICK k \in 1 .. BufferSize : Transfer(k) /\ HandOut(Packet(k), 0, call.n)
    BY <1>1 DEF UsbReadMoves
  <2>2. /\ call' = NoCall /\ Forget("usb")
        /\ UNCHANGED <<sent, ended, readFailed, wrote, reached, writeFailed, busVars, held>>
    BY <1>1 DEF UsbReadMoves, outVars
  <2>3. /\ taken' \in [Kinds -> Nat] /\ \A t \in Kinds : taken'[t] <= sent[t]
        /\ Packet(k) \in Seq(Nat) /\ 0 <= Len(Packet(k))
    BY <1>t, <2>1, TransferOK
  <2>4. handed' \in [Kinds -> Seq(Nat)] /\ UsbOK' /\ usb'.st = usb.st
    BY <1>c, <1>t, <2>1, <2>3, HandOutOK
  <2>5. WireOK'
    BY <1>n, <1>t, <2>2, <2>3, <2>4 DEF WireOK, Forget
  <2>. QED  BY <1>n, <2>2, <2>4, <2>5 DEF UsbTypes
<1>2. CASE UsbReadEmpty
  <2>1. /\ ended' = [ended EXCEPT !["usb"] = FALSE] /\ usb' = [usb EXCEPT !.incoming = <<>>, !.offset = 0]
        /\ call' = NoCall /\ Forget("usb")
        /\ UNCHANGED <<sent, taken, handed, readFailed, wrote, reached, writeFailed, busVars, held>>
    BY <1>2 DEF UsbReadEmpty, EmptyPacket, outVars
  <2>2. WireOK'
    BY <1>n, <1>t, <2>1 DEF WireOK, Forget
  <2>. QED  BY <1>n, <1>e, <2>1, <2>2 DEF UsbTypes
<1>3. CASE UsbReadTimesOut
  <2>1. /\ readFailed' = [readFailed EXCEPT !["usb"] = TRUE] /\ call' = NoCall /\ Forget("usb")
        /\ UNCHANGED <<sent, ended, taken, usb, handed, wrote, reached, writeFailed, busVars, held>>
    BY <1>3 DEF UsbReadTimesOut, UsbReadFails, outVars
  <2>2. WireOK'
    BY <1>n, <1>t, <2>1 DEF WireOK, Forget
  <2>. QED  BY <1>n, <1>t, <2>1, <2>2 DEF UsbTypes, UsbOK
<1>4. CASE bulk_transfer_again
  <2>1. /\ Again /\ call.t = "usb"
        /\ UNCHANGED <<sent, taken, ended, handed, readFailed, wrote, reached, writeFailed, saw, answer, busVars, usb, held>>
    BY <1>4 DEF bulk_transfer_again, inVars, outVars, waitVars, usbVars
  <2>2. call' \in Calls /\ CallOK'
    BY <1>t, <2>1, NoCallOK, AgainOK
  <2>3. WireOK'
    BY <1>t, <2>1, <2>2 DEF WireOK
  <2>. QED  BY <1>t, <2>1, <2>2, <2>3 DEF UsbTypes, UsbOK
<1>5. CASE UsbWriteFails
  <2>1. /\ writeFailed' = [writeFailed EXCEPT !["usb"] = TRUE] /\ call' = NoCall
        /\ UNCHANGED <<sent, taken, ended, handed, readFailed, wrote, reached, saw, answer, busVars, usb, held>>
    BY <1>5 DEF UsbWriteFails, inVars, waitVars, usbVars
  <2>2. WireOK'
    BY <1>n, <1>t, <2>1 DEF WireOK
  <2>. QED  BY <1>n, <1>t, <2>1, <2>2 DEF UsbTypes, UsbOK
<1>6. ASSUME NEW k \in 1 .. MaxBytes, UsbWriteMoves(k) PROVE G
  <2>. DEFINE b == Bytes(wrote["usb"] - call.n, wrote["usb"] - call.n + k)
              w == wrote["usb"] - call.n
  <2>1. /\ k <= call.n /\ reached' = [reached EXCEPT !["usb"] = @ \o b] /\ call' = NoCall
        /\ writeFailed' = [writeFailed EXCEPT !["usb"] = @ \/ WriteIsShort(k)]
        /\ UNCHANGED <<sent, taken, ended, handed, readFailed, wrote, saw, answer, busVars, usb, held>>
    BY <1>6 DEF UsbWriteMoves, inVars, waitVars, usbVars
  <2>2. w \in Nat /\ call.n <= wrote["usb"] /\ wrote["usb"] \in Nat
    BY <1>6, <1>c, <1>t, <1>u, SMTT(30) DEF UsbWriteMoves, In, CallOK, WireOK
  <2>3. b \in Seq(Nat)
    <3>1. b = Bytes(w, w + k) /\ k \in Nat
      OBVIOUS
    <3>. HIDE DEF w, b
    <3>. QED  BY <2>2, <3>1, BytesSeq
  <2>. HIDE DEF b
  <2>4. reached["usb"] \o b \in Seq(Nat)
    BY <1>t, <1>u, <2>3, Joined DEF WireOK
  <2>5. WireOK'
    <3>1. reached' \in [Kinds -> Seq(Nat)]
      BY <1>t, <1>u, <2>1, <2>4 DEF WireOK
    <3>2. writeFailed' \in [Kinds -> BOOLEAN]
      BY <1>t, <1>u, <2>1 DEF WireOK, WriteIsShort
    <3>. QED  BY <1>n, <1>t, <2>1, <3>1, <3>2 DEF WireOK
  <2>. QED  BY <1>n, <1>t, <2>1, <2>5 DEF UsbTypes, UsbOK
<1>7. CASE UsbWaitMoves
  <2>1. PICK k \in 1 .. BufferSize :
          Transfer(k) /\ usb' = [usb EXCEPT !.incoming = Packet(k), !.offset = 0]
    BY <1>7 DEF UsbWaitMoves
  <2>2. /\ Answers("usb", "yes", "bytes") /\ call' = NoCall
        /\ UNCHANGED <<sent, ended, handed, readFailed, wrote, reached, writeFailed, busVars, held>>
    BY <1>7 DEF UsbWaitMoves, outVars
  <2>3. /\ taken' \in [Kinds -> Nat] /\ \A t \in Kinds : taken'[t] <= sent[t]
        /\ Packet(k) \in Seq(Nat) /\ 0 <= Len(Packet(k))
    BY <1>t, <2>1, TransferOK
  <2>4. UsbOK' /\ usb'.st = usb.st
    BY <1>t, <2>1, <2>3 DEF UsbOK
  <2>5. WireOK'
    BY <1>n, <1>t, <2>2, <2>3 DEF WireOK, Answers
  <2>. QED  BY <1>n, <2>2, <2>4, <2>5 DEF UsbTypes
<1>8. CASE UsbWaitEmpty
  <2>1. /\ ended' = [ended EXCEPT !["usb"] = FALSE] /\ usb' = [usb EXCEPT !.incoming = <<>>, !.offset = 0]
        /\ call' = NoCall /\ Answers("usb", "yes", "end")
        /\ UNCHANGED <<sent, taken, handed, readFailed, wrote, reached, writeFailed, busVars, held>>
    BY <1>8 DEF UsbWaitEmpty, EmptyPacket, outVars
  <2>2. WireOK'
    BY <1>n, <1>t, <2>1 DEF WireOK, Answers
  <2>. QED  BY <1>n, <1>e, <2>1, <2>2 DEF UsbTypes
<1>9. CASE UsbWaitTimesOut \/ UsbWaitBreaks
  <2>1. /\ usb' = [usb EXCEPT !.incoming = <<>>, !.offset = 0] /\ call' = NoCall
        /\ Answers("usb", "error", "nothing")
        /\ UNCHANGED <<sent, ended, handed, wrote, reached, writeFailed, busVars, held>>
        /\ readFailed' = readFailed \/ readFailed' = [readFailed EXCEPT !["usb"] = TRUE]
    BY <1>9 DEF UsbWaitTimesOut, UsbWaitBreaks, UsbWaitFails, ClearBuffer, outVars
  <2>2. taken' = taken \/ \E k \in 1 .. BufferSize : Transfer(k)
    BY <1>9 DEF UsbWaitTimesOut, UsbWaitBreaks
  <2>3. taken' \in [Kinds -> Nat] /\ \A t \in Kinds : taken'[t] <= sent[t]
    BY <1>t, <2>2, TransferOK DEF WireOK
  <2>4. WireOK'
    BY <1>n, <1>t, <2>1, <2>3 DEF WireOK, Answers
  <2>. QED  BY <1>n, <1>e, <2>1, <2>4 DEF UsbTypes
<1>10. CASE UsbReadBreaks
  <2>1. /\ readFailed' = [readFailed EXCEPT !["usb"] = TRUE] /\ call' = NoCall /\ Forget("usb")
        /\ UNCHANGED <<sent, ended, handed, wrote, reached, writeFailed, busVars, held>>
    BY <1>10 DEF UsbReadBreaks, UsbReadFails, outVars
  <2>2. /\ taken' \in [Kinds -> Nat] /\ \A t \in Kinds : taken'[t] <= sent[t]
        /\ UsbOK' /\ usb'.st = usb.st
    <3>1. CASE UNCHANGED <<taken, usb>>
      BY <1>t, <3>1 DEF WireOK, UsbOK
    <3>2. ASSUME NEW k \in 1 .. BufferSize, Transfer(k),
                 usb' = [usb EXCEPT !.incoming = Packet(k) \o SubSeq(@, k + 1, Len(@))]
          PROVE  /\ taken' \in [Kinds -> Nat] /\ \A t \in Kinds : taken'[t] <= sent[t]
                 /\ UsbOK' /\ usb'.st = usb.st
      <4>. DEFINE q == SubSeq(usb.incoming, k + 1, Len(usb.incoming))
      <4>1. /\ taken' \in [Kinds -> Nat] /\ \A t \in Kinds : taken'[t] <= sent[t]
            /\ Packet(k) \in Seq(Nat) /\ Len(Packet(k)) = k
        BY <1>t, <3>2, TransferOK
      <4>2. q \in Seq(Nat) /\ k + Len(q) >= Len(usb.incoming) /\ Len(q) \in Nat
        <5>1. \A i \in k + 1 .. Len(usb.incoming) : usb.incoming[i] \in Nat
          BY <1>r, ElementOfSeq
        <5>2. q \in Seq(Nat) /\ Len(q) = IF k + 1 <= Len(usb.incoming) THEN Len(usb.incoming) - (k + 1) + 1 ELSE 0
          BY <1>r, <5>1, SubSeqProperties
        <5>. QED  BY <1>r, <5>2
      <4>. HIDE DEF q
      <4>3. Packet(k) \o q \in Seq(Nat) /\ Len(Packet(k) \o q) = k + Len(q)
        BY <4>1, <4>2, Joined
      <4>4. usb.offset <= Len(Packet(k) \o q)
        BY <1>r, <4>2, <4>3
      <4>5. usb' = [usb EXCEPT !.incoming = Packet(k) \o q]
        BY <3>2 DEF q
      <4>6. UsbOK' /\ usb'.st = usb.st
        BY <1>t, <4>3, <4>4, <4>5 DEF UsbOK
      <4>. QED  BY <4>1, <4>6
    <3>. QED  BY <1>10, <3>1, <3>2 DEF UsbReadBreaks
  <2>3. WireOK'
    BY <1>n, <1>t, <2>1, <2>2 DEF WireOK, Forget
  <2>. QED  BY <1>n, <2>1, <2>2, <2>3 DEF UsbTypes
<1>. QED
  BY <1>1, <1>2, <1>3, <1>4, <1>5, <1>6, <1>7, <1>8, <1>9, <1>10
     DEF UsbGoesOn, UsbBreaks, UsbWriteTimesOut, UsbWriteBreaks

\* The same for a step of a call on the TCP transport, which leaves USB alone.
LEMMA TcpTypes ==
  ASSUME WireOK, CallOK, TcpCalls \/ TcpGoesOn \/ TcpBreaks
  PROVE  WireOK' /\ CallOK' /\ UNCHANGED tcpVars
<1>. USE WireAssumption
<1>. DEFINE G == WireOK' /\ CallOK' /\ UNCHANGED tcpVars
<1>u. "usb" \in Kinds /\ "tcp" \in Kinds
  BY DEF Kinds
<1>c. call \in Calls /\ call.n \in Nat
  BY DEF WireOK, Calls
<1>n. call' = NoCall => call' \in Calls /\ CallOK'
  BY NoCallOK, NoCallKeepsCallOK
<1>1. ASSUME NEW n \in 1 .. MaxRead, TcpRead(n) PROVE G
  <2>1. /\ Begin("tcp", "read", n, "caller")
        /\ UNCHANGED <<sent, taken, ended, handed, readFailed, wrote, reached, writeFailed, saw, answer, tcpVars>>
    BY <1>1 DEF TcpRead, inVars, outVars, waitVars
  <2>2. call' \in Calls /\ call' # NoCall /\ call'.t = "tcp" /\ call'.op = "read" /\ call'.n = n
    BY <1>u, <2>1, BeginOK
  <2>3. WireOK'
    BY <2>1, <2>2 DEF WireOK
  <2>4. CallOK'
    BY <1>u, <2>2 DEF CallOK
  <2>. QED  BY <2>1, <2>3, <2>4
<1>2. ASSUME NEW n \in 1 .. MaxBytes, TcpWrite(n) PROVE G
  <2>1. /\ wrote' = [wrote EXCEPT !["tcp"] = @ + n] /\ Begin("tcp", "write", n, "caller")
        /\ UNCHANGED <<sent, taken, ended, handed, readFailed, reached, writeFailed, saw, answer, tcpVars>>
    BY <1>2 DEF TcpWrite, inVars, waitVars
  <2>2. call' \in Calls /\ call' # NoCall /\ call'.t = "tcp" /\ call'.op = "write" /\ call'.n = n /\ n \in Nat
    BY <1>u, <2>1, BeginOK
  <2>3. wrote \in [Kinds -> Nat] /\ wrote["tcp"] \in Nat /\ wrote["tcp"] + n \in Nat
    BY <1>u, <2>2 DEF WireOK
  <2>4. wrote' \in [Kinds -> Nat] /\ wrote'["tcp"] = wrote["tcp"] + n
    BY <1>u, <2>1, <2>3
  <2>5. WireOK'
    BY <2>1, <2>2, <2>4 DEF WireOK
  <2>6. n <= wrote'["tcp"]
    BY <2>2, <2>3, <2>4
  <2>7. CallOK'
    BY <1>u, <2>2, <2>6 DEF CallOK
  <2>. QED  BY <2>1, <2>5, <2>7
<1>3. ASSUME NEW n \in 0 .. 1, NEW from \in {"caller", "poll"}, TcpWait(n, from) PROVE G
  <2>1. /\ Begin("tcp", "wait", n, from)
        /\ UNCHANGED <<sent, taken, ended, handed, readFailed, wrote, reached, writeFailed, saw, answer, tcpVars>>
    BY <1>3 DEF TcpWait, inVars, outVars, waitVars
  <2>2. call' \in Calls /\ call' # NoCall /\ call'.t = "tcp" /\ call'.op = "wait" /\ call'.n = n
    BY <1>u, <2>1, BeginOK
  <2>3. WireOK'
    BY <2>1, <2>2 DEF WireOK
  <2>4. CallOK'
    BY <1>u, <2>2 DEF CallOK
  <2>. QED  BY <2>1, <2>3, <2>4
<1>4. CASE TcpReadMoves
  <2>1. PICK k \in 1 .. Least(call.n, sent["tcp"] - taken["tcp"]) :
          /\ taken' = [taken EXCEPT !["tcp"] = @ + k]
          /\ handed' = [handed EXCEPT !["tcp"] = @ \o Bytes(taken["tcp"], taken["tcp"] + k)]
    BY <1>4 DEF TcpReadMoves
  <2>2. /\ call' = NoCall /\ Forget("tcp")
        /\ UNCHANGED <<sent, ended, readFailed, wrote, reached, writeFailed, tcpVars>>
    BY <1>4 DEF TcpReadMoves, outVars
  <2>3. /\ taken \in [Kinds -> Nat] /\ taken["tcp"] \in Nat /\ sent["tcp"] \in Nat /\ taken["tcp"] <= sent["tcp"]
        /\ \A t \in Kinds : taken[t] <= sent[t]
    BY <1>u DEF WireOK
  <2>4. k \in Nat /\ taken["tcp"] + k <= sent["tcp"] /\ taken["tcp"] + k \in Nat
    BY <1>c, <2>3 DEF Least
  <2>5. taken' \in [Kinds -> Nat] /\ \A t \in Kinds : taken'[t] <= sent[t]
    BY <1>u, <2>1, <2>3, <2>4
  <2>6. handed' \in [Kinds -> Seq(Nat)]
    <3>1. Bytes(taken["tcp"], taken["tcp"] + k) \in Seq(Nat)
      BY <2>3, <2>4, BytesSeq
    <3>2. handed["tcp"] \o Bytes(taken["tcp"], taken["tcp"] + k) \in Seq(Nat)
      BY <1>u, <3>1, Joined DEF WireOK
    <3>. QED  BY <1>u, <2>1, <3>2 DEF WireOK
  <2>7. WireOK'
    BY <1>n, <2>2, <2>5, <2>6 DEF WireOK, Forget
  <2>. QED  BY <1>n, <2>2, <2>7
<1>5. CASE TcpReadEnds
  <2>1. /\ call' = NoCall /\ Forget("tcp")
        /\ UNCHANGED <<sent, taken, ended, handed, readFailed, wrote, reached, writeFailed, tcpVars>>
    BY <1>5 DEF TcpReadEnds, inVars, outVars
  <2>2. WireOK'
    BY <1>n, <2>1 DEF WireOK, Forget
  <2>. QED  BY <1>n, <2>1, <2>2
<1>6. CASE TcpReadFails
  <2>1. /\ readFailed' = [readFailed EXCEPT !["tcp"] = TRUE] /\ call' = NoCall /\ Forget("tcp")
        /\ UNCHANGED <<sent, taken, ended, handed, wrote, reached, writeFailed, tcpVars>>
    BY <1>6 DEF TcpReadFails, outVars
  <2>2. WireOK'
    BY <1>n, <2>1 DEF WireOK, Forget
  <2>. QED  BY <1>n, <2>1, <2>2
<1>7. CASE TcpTriesAgain
  <2>1. /\ Again /\ call.t = "tcp"
        /\ UNCHANGED <<sent, taken, ended, handed, readFailed, wrote, reached, writeFailed, saw, answer, tcpVars>>
    BY <1>7 DEF TcpTriesAgain, inVars, outVars, waitVars
  <2>2. call' \in Calls /\ CallOK'
    BY <2>1, NoCallOK, AgainOK
  <2>3. WireOK'
    BY <2>1, <2>2 DEF WireOK
  <2>. QED  BY <2>1, <2>2, <2>3
<1>8. CASE TcpWriteFails
  <2>1. /\ writeFailed' = [writeFailed EXCEPT !["tcp"] = TRUE] /\ call' = NoCall
        /\ UNCHANGED <<sent, taken, ended, handed, readFailed, wrote, reached, saw, answer, tcpVars>>
    BY <1>8 DEF TcpWriteFails, inVars, waitVars
  <2>2. WireOK'
    BY <1>n, <2>1 DEF WireOK
  <2>. QED  BY <1>n, <2>1, <2>2
<1>9. ASSUME NEW k \in 1 .. MaxBytes, TcpWriteMoves(k) PROVE G
  <2>. DEFINE w == wrote["tcp"] - call.n
              b == Bytes(w, w + k)
  <2>1. /\ In("tcp", "write") /\ k <= call.n /\ Advance(k)
        /\ reached' = [reached EXCEPT !["tcp"] = @ \o b]
        /\ UNCHANGED <<sent, taken, ended, handed, readFailed, wrote, writeFailed, saw, answer, tcpVars>>
    BY <1>9 DEF TcpWriteMoves, inVars, waitVars
  <2>2. /\ w \in Nat /\ call.n <= wrote["tcp"] /\ wrote["tcp"] \in Nat /\ k \in Nat \ {0}
        /\ call.t = "tcp" /\ call.op = "write"
    BY <2>1, <1>c, <1>u, SMTT(30) DEF In, CallOK, WireOK
  <2>3. b \in Seq(Nat)
    <3>. HIDE DEF w
    <3>. QED  BY <2>2, BytesSeq
  <2>. HIDE DEF b
  <2>4. reached["tcp"] \o b \in Seq(Nat)
    BY <1>u, <2>3, Joined DEF WireOK
  <2>5. reached' \in [Kinds -> Seq(Nat)]
    BY <1>u, <2>1, <2>4 DEF WireOK
  <2>6. call' \in Calls /\ CallOK'
    <3>1. CASE k = call.n
      BY <1>n, <2>1, <3>1 DEF Advance
    <3>2. CASE k # call.n
      <4>1. call' = [call EXCEPT !.n = call.n - k] /\ call.n - k \in Nat \ {0} /\ call.n - k <= wrote["tcp"]
        BY <1>c, <2>1, <2>2, <3>2, SMTT(30) DEF Advance
      <4>2. call' \in Calls /\ call'.t = "tcp" /\ call'.op = "write" /\ call'.n = call.n - k
        BY <1>c, <2>2, <4>1 DEF Calls
      <4>. QED  BY <1>u, <2>1, <4>1, <4>2 DEF CallOK
    <3>. QED  BY <3>1, <3>2
  <2>7. WireOK'
    BY <2>1, <2>5, <2>6 DEF WireOK
  <2>. QED  BY <2>1, <2>6, <2>7
<1>10. CASE TcpWaitReady \/ TcpWaitNo \/ TcpWaitBreaks
  <2>1. PICK a \in {"yes", "no", "error"}, what \in {"bytes", "end", "nothing"} :
             Answers("tcp", a, what)
    BY <1>10 DEF TcpWaitReady, TcpWaitNo, TcpWaitBreaks, TcpWaitReturns
  <2>2. /\ call' = NoCall
        /\ UNCHANGED <<sent, taken, ended, handed, readFailed, wrote, reached, writeFailed, tcpVars>>
    BY <1>10 DEF TcpWaitReady, TcpWaitNo, TcpWaitBreaks, TcpWaitReturns, inVars, outVars
  <2>3. WireOK'
    BY <1>n, <2>1, <2>2 DEF WireOK, Answers
  <2>. QED  BY <1>n, <2>2, <2>3
<1>. QED
  BY <1>1, <1>2, <1>3, <1>4, <1>5, <1>6, <1>7, <1>8, <1>9, <1>10
     DEF TcpCalls, TcpGoesOn, TcpBreaks, TcpReadTimesOut, TcpReadBreaks, TcpWriteTimesOut, TcpWriteBreaks

\* What the devices do.
LEMMA DevicesTypes ==
  ASSUME WireOK, CallOK, NEW t \in Kinds, DeviceSends(t) \/ DeviceEnds(t)
  PROVE  /\ WireOK' /\ CallOK'
         /\ UNCHANGED <<call, taken, handed, readFailed, wrote, reached, writeFailed, saw, answer>>
         /\ sent' = sent \/ sent' = [sent EXCEPT ![t] = @ + 1]
<1>1. /\ UNCHANGED <<call, taken, handed, readFailed, wrote, reached, writeFailed, saw, answer>>
      /\ sent' = sent \/ sent' = [sent EXCEPT ![t] = @ + 1]
      /\ ended' = ended \/ ended' = [ended EXCEPT ![t] = TRUE]
  BY DEF DeviceSends, DeviceEnds, inVars, outVars, waitVars
<1>2. sent \in [Kinds -> Nat] /\ taken \in [Kinds -> Nat] /\ \A x \in Kinds : taken[x] <= sent[x]
  BY DEF WireOK
<1>3. sent' \in [Kinds -> Nat] /\ \A x \in Kinds : taken[x] <= sent'[x]
  <2>1. sent[t] + 1 \in Nat /\ taken[t] <= sent[t] + 1
    BY <1>2
  <2>. QED  BY <1>1, <1>2, <2>1
<1>4. WireOK'
  BY <1>1, <1>3 DEF WireOK
<1>. QED  BY <1>1, <1>4 DEF CallOK

-----------------------------------------------------------------------------
(* Open and close.                                                          *)

\* A set of numbers has a least one.
LEMMA LeastOf ==
  ASSUME NEW T, T \subseteq Nat, T # {}
  PROVE  \E x \in T : \A y \in T : x <= y
<1>. DEFINE R == OpToRel(<, Nat)
<1>1. IsWellFoundedOn(R, Nat)
  BY NatLessThanWellFounded
<1>2. \A x, y \in Nat : x < y => <<x, y>> \in R
  BY DEF OpToRel
<1>. HIDE DEF R
<1>3. PICK x \in T : \A y \in T : ~(<<y, x>> \in R)
  BY <1>1, WFMin
<1>4. \A y \in T : x \in Nat /\ y \in Nat /\ ~(y < x)
  BY <1>2, <1>3
<1>5. \A y \in T : x <= y
  BY <1>4
<1>. QED  BY <1>3, <1>5

\* find_device returns a device that matches.
LEMMA FindDevice ==
  ASSUME BusOK, find_device(id) # 0
  PROVE  find_device(id) \in 1 .. Len(bus) /\ matches(bus[find_device(id)], id)
<1>. DEFINE found == {k \in 1 .. Len(bus) : matches(bus[k], id)}
<1>1. Len(bus) \in Nat
  BY LenProperties DEF BusOK
<1>2. found # {} /\ found \subseteq Nat
  BY <1>1 DEF find_device
<1>3. find_device(id) = CHOOSE k \in found : \A j \in found : k <= j
  BY <1>2 DEF find_device
<1>. HIDE DEF found
<1>4. \E k \in found : \A j \in found : k <= j
  BY <1>2, LeastOf
<1>5. find_device(id) \in found
  BY <1>3, <1>4
<1>. QED  BY <1>5 DEF found

\* The state of the USB transport moves, its buffer does not.
LEMMA UsbAtOK ==
  ASSUME UsbOK, NEW st \in UsbStates, UsbAt(st)
  PROVE  UsbOK' /\ usb'.st = st
<1>1. usb' = [st |-> st, incoming |-> usb.incoming, offset |-> usb.offset]
  BY DEF UsbOK, UsbAt
<1>2. usb.incoming \in Seq(Nat) /\ usb.offset \in Nat /\ usb.offset <= Len(usb.incoming)
  BY DEF UsbOK
<1>3. usb' \in [st : UsbStates, incoming : Seq(Nat), offset : Nat]
  BY <1>1, <1>2
<1>4. usb'.incoming = usb.incoming /\ usb'.offset = usb.offset /\ usb'.st = st
  BY <1>1
<1>. QED  BY <1>2, <1>3, <1>4 DEF UsbOK

\* The bus changes while nothing is open.
LEMMA BusChangesOK ==
  ASSUME BusOK, BusChanges
  PROVE  bus' \in Seq(Devices)
<1>1. bus \in Seq(Devices) /\ Len(bus) \in Nat
  BY LenProperties DEF BusOK
<1>2. PICK k \in 1 .. Len(bus) :
        \/ bus' = SubSeq(bus, 1, k - 1) \o SubSeq(bus, k + 1, Len(bus))
        \/ bus[k].busy /\ bus' = [bus EXCEPT ![k].busy = FALSE]
  BY DEF BusChanges
<1>3. \A i \in 1 .. Len(bus) : bus[i] \in Devices
  BY <1>1, ElementOfSeq
<1>4. CASE bus' = SubSeq(bus, 1, k - 1) \o SubSeq(bus, k + 1, Len(bus))
  <2>1. \A i \in 1 .. k - 1 : bus[i] \in Devices
    BY <1>1, <1>3
  <2>2. \A i \in k + 1 .. Len(bus) : bus[i] \in Devices
    BY <1>1, <1>3
  <2>3. SubSeq(bus, 1, k - 1) \in Seq(Devices)
    BY <1>1, <2>1, SubSeqProperties
  <2>4. SubSeq(bus, k + 1, Len(bus)) \in Seq(Devices)
    BY <1>1, <2>2, SubSeqProperties
  <2>. QED  BY <1>4, <2>3, <2>4, ConcatProperties
<1>5. CASE bus' = [bus EXCEPT ![k].busy = FALSE]
  <2>1. [bus[k] EXCEPT !.busy = FALSE] \in Devices
    BY <1>3 DEF Devices
  <2>2. bus' = [bus EXCEPT ![k] = [bus[k] EXCEPT !.busy = FALSE]]
    BY <1>5
  <2>3. bus \in [1 .. Len(bus) -> Devices]
    BY <1>1, LenProperties
  <2>4. bus' \in [1 .. Len(bus) -> Devices]
    BY <2>1, <2>2, <2>3
  <2>. QED  BY <1>1, <2>4, SeqDef
<1>. QED  BY <1>2, <1>4, <1>5

\* Open and close of the USB transport: what libusb gave out is known at each point,
\* and the device that is matched is the one that was picked.
LEMMA UsbObjectKeeps ==
  ASSUME UsbOK, BusOK, Resources, Picked, UsbObject, UNCHANGED tcpVars
  PROVE  UsbOK' /\ BusOK' /\ Resources' /\ Picked'
<1>. DEFINE G == UsbOK' /\ BusOK' /\ Resources' /\ Picked'
<1>0. UNCHANGED <<addrs, tcp, fds>>
  BY DEF tcpVars
<1>u. usb.st \in UsbStates
  BY DEF UsbOK
<1>1. CASE UsbList
  <2>1. PICK k \in 1 .. Len(bus) :
          /\ aimed' = bus[k]
          /\ \E m \in {bus[k].model} \cup (IF device_serial(bus[k]) = "" THEN {} ELSE {"any"}) :
               id' = [model |-> m, serial |-> device_serial(bus[k])]
    BY <1>1 DEF UsbList
  <2>2. usb.st = "none" /\ UNCHANGED <<bus, usb, target, held>>
    BY <1>1 DEF UsbList
  <2>4. PICK m \in {bus[k].model, "any"} : id' = [model |-> m, serial |-> device_serial(bus[k])]
    BY <2>1
  <2>5. id'.serial = device_serial(bus[k]) /\ device_serial(bus[k]) \in {"", bus[k].serial}
    BY <2>4 DEF device_serial
  <2>6. BusOK'
    BY <2>2 DEF BusOK
  <2>7. Picked'
    BY <2>1, <2>2, <2>5 DEF Picked
  <2>8. Resources' /\ UsbOK'
    BY <1>0, <2>2 DEF Resources, UsbOK
  <2>. QED  BY <2>6, <2>7, <2>8
<1>2. CASE BusChanges
  <2>1. usb.st = "none" /\ UNCHANGED <<id, aimed, usb, target, held>>
    BY <1>2 DEF BusChanges
  <2>2. bus' \in Seq(Devices)
    BY <1>2, BusChangesOK
  <2>. QED  BY <1>0, <2>1, <2>2 DEF BusOK, Picked, Resources, UsbOK
<1>3. ASSUME NEW st \in UsbStates, UsbAt(st), UNCHANGED busVars,
             held' \subseteq {"context", "list", "handle", "claim"},
             st \in {"none", "gone"} => held' = {},
             st \in {"init", "closed"} => held' = {"context"},
             st \in {"list", "matched"} => held' = {"context", "list"},
             st = "handle" => held' = {"context", "handle"},
             st = "ready" => held' = {"context", "handle", "claim"},
             st = "destroy" => held' \subseteq {"context", "handle"},
             st \in {"matched", "handle", "ready"} => usb.st \in {"matched", "handle", "ready"}
      PROVE  G
  <2>1. UsbOK' /\ usb'.st = st
    BY <1>3, UsbAtOK
  <2>2. BusOK'
    BY <1>3 DEF BusOK, busVars
  <2>3. Resources'
    BY <1>0, <1>3, <2>1 DEF Resources
  <2>4. Picked'
    BY <1>3, <2>1 DEF Picked, busVars
  <2>. QED  BY <2>1, <2>2, <2>3, <2>4
<1>. USE DEF Resources, BusOK, UsbStates
<1>4. CASE UsbInit
  <2>1. \/ held' = {"context"} /\ UsbAt("init")
        \/ UsbAt("destroy") /\ held' = {}
    BY <1>4 DEF UsbInit
  <2>2. UNCHANGED busVars
    BY <1>4 DEF UsbInit
  <2>3. CASE held' = {"context"} /\ UsbAt("init")
    BY <1>3, <2>2, <2>3
  <2>4. CASE UsbAt("destroy") /\ held' = {}
    BY <1>3, <2>2, <2>4
  <2>. QED  BY <2>1, <2>3, <2>4
<1>5. CASE UsbGetList
  <2>1. \/ held' = {"context", "list"} /\ UsbAt("list")
        \/ UsbAt("destroy") /\ held' = {"context"}
    BY <1>5 DEF UsbGetList
  <2>2. UNCHANGED busVars
    BY <1>5 DEF UsbGetList
  <2>3. CASE held' = {"context", "list"} /\ UsbAt("list")
    BY <1>3, <2>2, <2>3
  <2>4. CASE UsbAt("destroy") /\ held' = {"context"}
    BY <1>3, <2>2, <2>4
  <2>. QED  BY <2>1, <2>3, <2>4
<1>6. CASE UsbMatch
  <2>. DEFINE k == find_device(id)
  <2>1. usb.st = "list" /\ held = {"context", "list"} /\ UNCHANGED <<bus, id, aimed>>
    BY <1>6 DEF UsbMatch
  <2>2. CASE k # 0 /\ find_adb_interface(bus[k])
    <3>1. target' = bus[k] /\ UsbAt("matched") /\ held' = held
      BY <1>6, <2>2 DEF UsbMatch
    <3>2. k \in 1 .. Len(bus) /\ matches(bus[k], id)
      BY <2>2, FindDevice
    <3>4. id.serial # "" => bus[k].serial = id.serial
      BY <3>2 DEF matches, device_serial
    <3>5. UsbOK' /\ usb'.st = "matched"
      BY <3>1, UsbAtOK
    <3>6. BusOK'
      BY <2>1, <3>1
    <3>7. Resources'
      BY <1>0, <2>1, <3>1, <3>5
    <3>8. Picked'
      BY <2>1, <3>1, <3>4 DEF Picked
    <3>. QED  BY <3>5, <3>6, <3>7, <3>8
  <2>3. CASE ~(k # 0 /\ find_adb_interface(bus[k]))
    <3>1. held' = held \ {"list"} /\ UsbAt("destroy") /\ target' = target
      BY <1>6, <2>3 DEF UsbMatch
    <3>2. held' = {"context"} /\ UNCHANGED busVars
      BY <2>1, <3>1 DEF busVars
    <3>. QED  BY <1>3, <3>1, <3>2
  <2>. QED  BY <2>2, <2>3
<1>7. CASE UsbOpenDevice
  <2>1. \/ held' = {"context", "handle"} /\ UsbAt("handle")
        \/ held' = {"context"} /\ UsbAt("destroy")
    BY <1>7 DEF UsbOpenDevice
  <2>2. UNCHANGED busVars /\ usb.st = "matched"
    BY <1>7 DEF UsbOpenDevice
  <2>3. CASE held' = {"context", "handle"} /\ UsbAt("handle")
    BY <1>3, <2>2, <2>3
  <2>4. CASE held' = {"context"} /\ UsbAt("destroy")
    BY <1>3, <2>2, <2>4
  <2>. QED  BY <2>1, <2>3, <2>4
<1>8. CASE UsbClaim
  <2>1. \/ held' = {"context", "handle", "claim"} /\ UsbAt("ready")
        \/ held' = {"context", "handle"} /\ UsbAt("destroy")
    BY <1>8 DEF UsbClaim
  <2>2. UNCHANGED busVars /\ usb.st = "handle"
    BY <1>8 DEF UsbClaim
  <2>3. CASE held' = {"context", "handle", "claim"} /\ UsbAt("ready")
    BY <1>3, <2>2, <2>3
  <2>4. CASE held' = {"context", "handle"} /\ UsbAt("destroy")
    BY <1>3, <2>2, <2>4
  <2>. QED  BY <2>1, <2>3, <2>4
<1>9. CASE UsbClose
  <2>1. held' = held \ {"claim", "handle"} /\ UsbAt("closed") /\ UNCHANGED busVars
    BY <1>9 DEF UsbClose
  <2>2. held' = {"context"}
    BY <1>9, <2>1 DEF UsbClose
  <2>. QED  BY <1>3, <2>1, <2>2
<1>10. CASE UsbDestroy
  <2>1. held' = held \ {"claim", "handle", "context"} /\ UsbAt("gone") /\ UNCHANGED busVars
    BY <1>10 DEF UsbDestroy
  <2>2. "list" \notin held
    BY <1>10 DEF UsbDestroy
  <2>3. held' = {}
    BY <2>1, <2>2
  <2>. QED  BY <1>3, <2>1, <2>3
<1>. QED
  BY <1>1, <1>2, <1>4, <1>5, <1>6, <1>7, <1>8, <1>9, <1>10 DEF UsbObject, UsbOpens

\* Open and close of the TCP transport: at most one socket is open, the one of the
\* connection.
LEMMA TcpObjectKeeps ==
  ASSUME TcpOK, Resources, TcpObject, UNCHANGED usbVars
  PROVE  TcpOK' /\ Resources'
<1>0. UNCHANGED <<usb, held>> /\ addrs' = addrs
  BY DEF usbVars, TcpObject, TcpOpens, TcpResolve, TcpConnect, TcpOpenFails, TcpClose, TcpDestroy
<1>t. /\ addrs \in Seq(STRING) /\ Len(addrs) \in Nat /\ tcp \in [st : TcpStates, at : Nat, socket : Nat]
      /\ tcp.at <= Len(addrs) + 1 /\ fds \subseteq 1 .. Len(addrs)
  BY LenProperties DEF TcpOK
<1>1. ASSUME NEW st \in TcpStates, NEW at \in Nat, at <= Len(addrs) + 1, NEW socket \in Nat,
             tcp' = [st |-> st, at |-> at, socket |-> socket],
             fds' \subseteq 1 .. Len(addrs), fds' \subseteq {socket}, st # "ready" => fds' = {},
             st = "connect" => at > 0
      PROVE  TcpOK' /\ Resources'
  <2>1. tcp' \in [st : TcpStates, at : Nat, socket : Nat] /\ tcp'.at = at /\ tcp'.st = st /\ tcp'.socket = socket
    BY <1>1
  <2>2. TcpOK'
    BY <1>0, <1>1, <1>t, <2>1 DEF TcpOK
  <2>3. Resources'
    BY <1>0, <1>1, <2>1 DEF Resources
  <2>. QED  BY <2>2, <2>3
<1>2. tcp = [st |-> tcp.st, at |-> tcp.at, socket |-> tcp.socket] /\ tcp.at \in Nat /\ tcp.socket \in Nat
  BY <1>t
<1>. USE DEF TcpStates
<1>3. CASE TcpResolve
  <2>1. fds' = {}
    BY <1>3 DEF TcpResolve, Resources
  <2>2. CASE tcp' = [tcp EXCEPT !.st = "connect", !.at = 1]
    <3>1. tcp' = [st |-> "connect", at |-> 1, socket |-> tcp.socket]
      BY <1>2, <2>2
    <3>2. 1 <= Len(addrs) + 1
      BY <1>t
    <3>. QED  BY <1>1, <1>2, <2>1, <3>1, <3>2
  <2>3. CASE tcp' = [tcp EXCEPT !.st = "gone"]
    <3>1. tcp' = [st |-> "gone", at |-> tcp.at, socket |-> tcp.socket]
      BY <1>2, <2>3
    <3>. QED  BY <1>1, <1>2, <1>t, <2>1, <3>1
  <2>. QED  BY <1>3, <2>2, <2>3 DEF TcpResolve
<1>4. CASE TcpConnect
  <2>1. tcp.at <= Len(addrs) /\ tcp.st = "connect" /\ fds = {}
    BY <1>4 DEF TcpConnect, Resources
  <2>2. CASE addrs[tcp.at] # "nosocket" /\ connect_with_timeout(addrs[tcp.at])
    <3>1. tcp' = [tcp EXCEPT !.st = "ready", !.socket = tcp.at] /\ fds' = {tcp.at}
      BY <1>4, <2>1, <2>2 DEF TcpConnect
    <3>2. tcp' = [st |-> "ready", at |-> tcp.at, socket |-> tcp.at]
      BY <1>2, <3>1
    <3>3. tcp.at \in 1 .. Len(addrs)
      BY <1>2, <1>4, <1>t, <2>1 DEF TcpConnect, Resources
    <3>. QED  BY <1>1, <1>2, <1>t, <2>1, <3>1, <3>2, <3>3
  <2>3. CASE ~(addrs[tcp.at] # "nosocket" /\ connect_with_timeout(addrs[tcp.at]))
    <3>1. tcp' = [tcp EXCEPT !.at = tcp.at + 1] /\ fds' = fds
      BY <1>4, <2>3 DEF TcpConnect, NextAddress
    <3>2. tcp' = [st |-> tcp.st, at |-> tcp.at + 1, socket |-> tcp.socket]
      BY <1>2, <3>1
    <3>3. tcp.at + 1 \in Nat /\ tcp.at + 1 <= Len(addrs) + 1
      BY <1>2, <1>t, <2>1
    <3>4. tcp.at + 1 > 0
      BY <1>2
    <3>. QED  BY <1>1, <1>2, <2>1, <3>1, <3>2, <3>3, <3>4
  <2>. QED  BY <2>2, <2>3
<1>5. CASE TcpOpenFails
  <2>1. tcp' = [tcp EXCEPT !.st = "gone"] /\ fds' = {}
    BY <1>5 DEF TcpOpenFails, Resources
  <2>2. tcp' = [st |-> "gone", at |-> tcp.at, socket |-> tcp.socket]
    BY <1>2, <2>1
  <2>. QED  BY <1>1, <1>2, <1>t, <2>1, <2>2
<1>6. ASSUME NEW st \in {"closed", "gone"}, CloseSocket(st) PROVE TcpOK' /\ Resources'
  <2>1. fds' = {}
    BY <1>6 DEF CloseSocket, Resources
  <2>2. tcp' = [st |-> st, at |-> tcp.at, socket |-> 0]
    BY <1>2, <1>6 DEF CloseSocket, NoSocket
  <2>. QED  BY <1>1, <1>2, <1>t, <2>1, <2>2
<1>. QED  BY <1>3, <1>4, <1>5, <1>6 DEF TcpObject, TcpOpens, TcpClose, TcpDestroy

-----------------------------------------------------------------------------
(* The steps as one direction of a transport sees them.                     *)

\* Nothing of what is written changes, nor what is left to write of the call.
QuietOut ==
  /\ UNCHANGED <<wrote, reached, writeFailed>>
  /\ \/ call.op # "write" /\ call'.op # "write"
     \/ call'.t = call.t /\ call'.op = call.op /\ call'.n = call.n

\* What a step may do to the bytes that are written.
LEMMA OutSteps ==
  ASSUME WireOK, UsbOK, CallOK, [Next]_vars
  PROVE  \/ QuietOut
         \/ \E n \in 1 .. MaxBytes : UsbWrite(n) \/ TcpWrite(n)
         \/ UsbWriteFails \/ TcpWriteFails
         \/ \E k \in 1 .. MaxBytes : UsbWriteMoves(k) \/ TcpWriteMoves(k)
<1>n. NoCall.op = "none"
  BY NoCallOK
<1>1. CASE Looks
  BY <1>1 DEF Looks, QuietOut
<1>2. CASE UsbObject \/ (TcpObject /\ UNCHANGED usbVars)
  BY <1>2, ObjectsLeaveWire DEF QuietOut
<1>3. ASSUME NEW n \in 1 .. MaxRead, UsbRead(n) \/ TcpRead(n) PROVE QuietOut
  <2>1. UNCHANGED <<wrote, reached, writeFailed>> /\ call = NoCall
    BY <1>3 DEF UsbRead, TcpRead, outVars, UsbReady, TcpReady
  <2>2. call' = NoCall \/ call'.op = "read"
    BY <1>3, <2>1 DEF UsbRead, TcpRead, Begin
  <2>. QED  BY <1>n, <2>1, <2>2 DEF QuietOut
<1>4. ASSUME NEW n, NEW from, UsbWait(n, from) \/ TcpWait(n, from) PROVE QuietOut
  <2>1. UNCHANGED <<wrote, reached, writeFailed>> /\ call = NoCall
    BY <1>4 DEF UsbWait, TcpWait, outVars, UsbReady, TcpReady
  <2>2. call' = NoCall \/ call'.op = "wait"
    BY <1>4, <2>1 DEF UsbWait, TcpWait, Begin
  <2>. QED  BY <1>n, <2>1, <2>2 DEF QuietOut
<1>5. CASE bulk_transfer_again \/ TcpTriesAgain
  <2>1. Again /\ UNCHANGED <<wrote, reached, writeFailed>> /\ call # NoCall
    BY <1>5, NoCallOK DEF bulk_transfer_again, TcpTriesAgain, outVars
  <2>. QED  BY <2>1, AgainOK DEF QuietOut
<1>6. CASE UsbReadMoves \/ UsbReadEmpty \/ UsbReadFails \/ UsbWaitMoves \/ UsbWaitEmpty \/ UsbWaitFails
  BY <1>6, <1>n DEF UsbReadMoves, UsbReadEmpty, UsbReadFails, UsbWaitMoves, UsbWaitEmpty, UsbWaitFails,
                    In, outVars, QuietOut
<1>7. CASE TcpReadMoves \/ TcpReadEnds \/ TcpReadFails \/ TcpWaitReady \/ TcpWaitNo \/ TcpWaitBreaks
  BY <1>7, <1>n DEF TcpReadMoves, TcpReadEnds, TcpReadFails, TcpWaitReady, TcpWaitNo, TcpWaitBreaks,
                    TcpWaitReturns, In, outVars, QuietOut
<1>8. ASSUME NEW t \in Kinds, DeviceSends(t) \/ DeviceEnds(t) PROVE QuietOut
  BY <1>8 DEF DeviceSends, DeviceEnds, outVars, QuietOut
<1>9. CASE UsbCalls
  BY <1>3, <1>4, <1>9 DEF UsbCalls
<1>10. CASE TcpCalls
  BY <1>3, <1>4, <1>10 DEF TcpCalls
<1>11. CASE UsbGoesOn \/ UsbBreaks
  BY <1>5, <1>6, <1>11 DEF UsbGoesOn, UsbBreaks, UsbReadTimesOut, UsbWriteTimesOut, UsbWaitTimesOut,
                           UsbReadBreaks, UsbWriteBreaks, UsbWaitBreaks
<1>12. CASE TcpGoesOn \/ TcpBreaks
  BY <1>5, <1>7, <1>12 DEF TcpGoesOn, TcpBreaks, TcpReadTimesOut, TcpWriteTimesOut, TcpReadBreaks, TcpWriteBreaks
<1>. QED  BY <1>1, <1>2, <1>8, <1>9, <1>10, <1>11, <1>12, WireSteps

\* What a step may do to the bytes that come in over TCP.
QuietTcpIn ==
  /\ sent'["tcp"] = sent["tcp"] /\ taken'["tcp"] = taken["tcp"] /\ handed'["tcp"] = handed["tcp"]
  /\ ended["tcp"] => ended'["tcp"]
  /\ \/ saw'["tcp"] \in {saw["tcp"], "nothing"}
     \/ ~Silent("tcp") /\ (saw'["tcp"] = "bytes" => sent["tcp"] > taken["tcp"])

LEMMA TcpInSteps ==
  ASSUME WireOK, UsbOK, [Next]_vars
  PROVE  QuietTcpIn \/ DeviceSends("tcp") \/ TcpReadMoves
<1>u. "usb" \in Kinds /\ "tcp" \in Kinds /\ \A t \in Kinds : t \in {"usb", "tcp"}
  BY DEF Kinds
<1>w. /\ taken \in [Kinds -> Nat] /\ handed \in [Kinds -> Seq(Nat)] /\ sent \in [Kinds -> Nat]
      /\ saw \in [Kinds -> {"bytes", "end", "nothing"}] /\ ended \in [Kinds -> BOOLEAN]
  BY DEF WireOK
<1>e. ASSUME EmptyPacket PROVE ended'["tcp"] = ended["tcp"]
  BY <1>e, <1>u, <1>w DEF EmptyPacket
<1>a. ASSUME NEW a, NEW what, Forget("usb") \/ Answers("usb", a, what) PROVE saw'["tcp"] = saw["tcp"]
  BY <1>a, <1>u, <1>w DEF Forget, Answers
<1>1. CASE Looks
  BY <1>1 DEF Looks, QuietTcpIn
<1>2. CASE UsbObject \/ (TcpObject /\ UNCHANGED usbVars)
  BY <1>2, ObjectsLeaveWire DEF QuietTcpIn
<1>h. ASSUME NEW buf, NEW o, NEW n, HandOut(buf, o, n) PROVE handed'["tcp"] = handed["tcp"]
  BY <1>h, <1>u, <1>w DEF HandOut
<1>k. ASSUME NEW k, Transfer(k) PROVE taken'["tcp"] = taken["tcp"]
  BY <1>k, <1>u, <1>w DEF Transfer
<1>3. CASE UsbCalls
  BY <1>3, <1>a, <1>h DEF UsbCalls, UsbRead, UsbWrite, UsbWait, inVars, waitVars, QuietTcpIn
<1>4. CASE UsbGoesOn \/ UsbBreaks
  <2>1. CASE UsbReadMoves \/ UsbReadEmpty \/ UsbReadTimesOut \/ bulk_transfer_again
    BY <1>a, <1>e, <1>h, <1>k, <2>1 DEF UsbReadMoves, UsbReadEmpty, UsbReadTimesOut, UsbReadFails, bulk_transfer_again,
                                  inVars, waitVars, QuietTcpIn
  <2>2. CASE UsbWriteFails \/ \E k \in 1 .. MaxBytes : UsbWriteMoves(k)
    BY <2>2 DEF UsbWriteFails, UsbWriteMoves, inVars, waitVars, QuietTcpIn
  <2>3. CASE UsbWaitMoves \/ UsbWaitEmpty \/ UsbWaitTimesOut
    BY <1>a, <1>e, <1>k, <2>3 DEF UsbWaitMoves, UsbWaitEmpty, UsbWaitTimesOut, UsbWaitFails, QuietTcpIn
  <2>4. CASE UsbReadBreaks \/ UsbWaitBreaks
    BY <1>a, <1>k, <2>4 DEF UsbReadBreaks, UsbReadFails, UsbWaitBreaks, UsbWaitFails, QuietTcpIn
  <2>. QED  BY <1>4, <2>1, <2>2, <2>3, <2>4 DEF UsbGoesOn, UsbBreaks, UsbWriteTimesOut, UsbWriteBreaks
<1>5. CASE TcpCalls
  BY <1>5 DEF TcpCalls, TcpRead, TcpWrite, TcpWait, inVars, waitVars, QuietTcpIn
<1>6. CASE TcpGoesOn \/ TcpBreaks
  <2>1. CASE TcpReadEnds \/ TcpReadFails
    BY <1>u, <1>w, <2>1 DEF TcpReadEnds, TcpReadFails, Forget, inVars, QuietTcpIn
  <2>2. CASE TcpTriesAgain \/ TcpWriteFails \/ \E k \in 1 .. MaxBytes : TcpWriteMoves(k)
    BY <2>2 DEF TcpTriesAgain, TcpWriteFails, TcpWriteMoves, inVars, waitVars, QuietTcpIn
  <2>3. CASE TcpWaitNo \/ TcpWaitBreaks
    BY <1>u, <1>w, <2>3 DEF TcpWaitNo, TcpWaitBreaks, TcpWaitReturns, Answers, inVars, QuietTcpIn
  <2>4. CASE TcpWaitReady
    <3>1. UNCHANGED <<sent, taken, ended, handed>> /\ ~Silent("tcp")
      BY <2>4 DEF TcpWaitReady, inVars
    <3>2. saw'["tcp"] = IF sent["tcp"] > taken["tcp"] THEN "bytes" ELSE "end"
      BY <1>u, <1>w, <2>4 DEF TcpWaitReady, Answers
    <3>. QED  BY <3>1, <3>2 DEF QuietTcpIn
  <2>. QED
    BY <1>6, <2>1, <2>2, <2>3, <2>4
       DEF TcpGoesOn, TcpBreaks, TcpReadTimesOut, TcpWriteTimesOut, TcpReadBreaks, TcpWriteBreaks
<1>7. ASSUME NEW t \in Kinds, DeviceSends(t) \/ DeviceEnds(t) PROVE QuietTcpIn \/ DeviceSends("tcp")
  BY <1>7, <1>u, <1>w DEF DeviceSends, DeviceEnds, inVars, waitVars, QuietTcpIn
<1>. QED  BY <1>1, <1>2, <1>3, <1>4, <1>5, <1>6, <1>7, WireSteps

\* The direction from the USB device and the receive buffer stay as they are.
QuietUsbIn ==
  /\ sent'["usb"] = sent["usb"] /\ taken'["usb"] = taken["usb"] /\ handed'["usb"] = handed["usb"]
  /\ readFailed'["usb"] = readFailed["usb"]
  /\ usb'.incoming = usb.incoming /\ usb'.offset = usb.offset
  /\ Filling' <=> Filling
  /\ saw'["usb"] = saw["usb"] \/ (Buffered /\ ~Filling)

\* A read of what is in the buffer, and the start of a transfer into it.
UsbHandsOut ==
  /\ UsbReady /\ Buffered /\ \E n \in 1 .. MaxRead : HandOut(usb.incoming, usb.offset, n)
  /\ saw'["usb"] = "nothing"
  /\ UNCHANGED <<call, taken, readFailed>>

UsbStartsFilling == UsbReady /\ ~Buffered /\ Filling' /\ UNCHANGED <<taken, handed, readFailed, saw>>

\* An empty packet.
UsbEmpty ==
  /\ Filling /\ EmptyPacket /\ call' = NoCall /\ saw'["usb"] # "bytes"
  /\ UNCHANGED <<taken, handed, readFailed>>

\* What a step may do to the bytes that come in over USB.
LEMMA UsbInSteps ==
  ASSUME WireOK, UsbOK, CallOK, [Next]_vars
  PROVE  \/ QuietUsbIn
         \/ DeviceSends("usb") /\ UNCHANGED usbVars
         \/ (UsbHandsOut \/ UsbStartsFilling \/ UsbEmpty) /\ sent' = sent
         \/ UsbReadMoves \/ UsbWaitMoves \/ UsbWaitTimesOut
         \/ readFailed'["usb"] = TRUE /\ saw'["usb"] = "nothing" /\ UNCHANGED <<sent, handed>>
<1>u. "usb" \in Kinds /\ "tcp" \in Kinds /\ \A t \in Kinds : t \in {"usb", "tcp"}
  BY DEF Kinds
<1>w. /\ taken \in [Kinds -> Nat] /\ handed \in [Kinds -> Seq(Nat)] /\ sent \in [Kinds -> Nat]
      /\ readFailed \in [Kinds -> BOOLEAN] /\ saw \in [Kinds -> {"bytes", "end", "nothing"}]
  BY DEF WireOK
<1>n. NoCall.op = "none" /\ NoCall.t = "none"
  BY NoCallOK
<1>f. Forget("usb") => saw'["usb"] = "nothing"
  BY <1>u, <1>w DEF Forget
<1>a. \A a, what : Answers("usb", a, what) => saw'["usb"] = what
  BY <1>u, <1>w DEF Answers
<1>1. CASE Looks
  BY <1>1 DEF Looks, QuietUsbIn, usbVars, Filling
<1>2. CASE UsbObject \/ (TcpObject /\ UNCHANGED usbVars)
  <2>1. /\ UNCHANGED <<call, sent, taken, handed, readFailed, saw>>
        /\ usb' = [usb EXCEPT !.st = usb'.st]
    BY <1>2, ObjectsLeaveWire
  <2>2. usb'.incoming = usb.incoming /\ usb'.offset = usb.offset
    BY <2>1 DEF UsbOK
  <2>. QED  BY <2>1, <2>2 DEF QuietUsbIn, Filling
<1>3. ASSUME NEW n \in 1 .. MaxRead, UsbRead(n)
      PROVE  (UsbHandsOut \/ UsbStartsFilling) /\ sent' = sent
  <2>1. CASE Buffered
    BY <1>3, <1>f, <2>1 DEF UsbRead, UsbHandsOut
  <2>2. CASE ~Buffered
    <3>1. UsbReady /\ Begin("usb", "read", n, "caller") /\ UNCHANGED <<sent, taken, handed, readFailed, saw>>
      BY <1>3, <2>2 DEF UsbRead, waitVars
    <3>. QED  BY <2>2, <3>1 DEF Begin, UsbStartsFilling, Filling
  <2>. QED  BY <2>1, <2>2
<1>4. ASSUME NEW n \in 0 .. 1, NEW from \in {"caller", "poll"}, UsbWait(n, from)
      PROVE  QuietUsbIn \/ (UsbStartsFilling /\ sent' = sent)
  <2>1. CASE Buffered
    BY <1>4, <1>n, <2>1 DEF UsbWait, UsbReady, QuietUsbIn, inVars, Filling
  <2>2. CASE ~Buffered
    <3>1. UsbReady /\ Begin("usb", "wait", n, from) /\ UNCHANGED <<sent, taken, handed, readFailed, saw>>
      BY <1>4, <2>2 DEF UsbWait, inVars, waitVars
    <3>. QED  BY <2>2, <3>1 DEF Begin, UsbStartsFilling, Filling
  <2>. QED  BY <2>1, <2>2
<1>5. ASSUME NEW n \in 1 .. MaxBytes, UsbWrite(n) PROVE QuietUsbIn
  BY <1>5, <1>n DEF UsbWrite, UsbReady, Begin, QuietUsbIn, inVars, waitVars, usbVars, Filling
<1>6. CASE UsbCalls
  BY <1>3, <1>4, <1>5, <1>6 DEF UsbCalls
<1>7. CASE UsbGoesOn \/ UsbBreaks
  <2>1. CASE bulk_transfer_again
    <3>1. Again /\ call # NoCall /\ UNCHANGED <<sent, taken, handed, readFailed, usb, wrote, saw>>
      BY <2>1, <1>n DEF bulk_transfer_again, inVars, outVars, waitVars, usbVars
    <3>2. call'.t = call.t /\ call'.op = call.op
      BY <3>1, AgainOK
    <3>. QED  BY <3>1, <3>2 DEF QuietUsbIn, Filling
  <2>2. CASE UsbWriteFails \/ \E k \in 1 .. MaxBytes : UsbWriteMoves(k)
    BY <1>n, <2>2 DEF UsbWriteFails, UsbWriteMoves, In, inVars, waitVars, usbVars, QuietUsbIn, Filling
  <2>3. CASE UsbReadEmpty \/ UsbWaitEmpty
    BY <1>a, <1>f, <2>3 DEF UsbReadEmpty, UsbWaitEmpty, In, UsbEmpty, Filling
  <2>4. CASE UsbReadTimesOut \/ UsbReadBreaks \/ UsbWaitBreaks
    BY <1>a, <1>f, <1>u, <1>w, <2>4 DEF UsbReadTimesOut, UsbReadBreaks, UsbReadFails, UsbWaitBreaks, UsbWaitFails
  <2>. QED  BY <1>7, <2>1, <2>2, <2>3, <2>4 DEF UsbGoesOn, UsbBreaks, UsbWriteTimesOut, UsbWriteBreaks
<1>8. CASE (TcpCalls \/ TcpGoesOn \/ TcpBreaks) /\ UNCHANGED usbVars
  <2>1. sent' = sent /\ usb' = usb
    BY <1>8 DEF TcpCalls, TcpRead, TcpWrite, TcpWait, TcpGoesOn, TcpBreaks, TcpReadMoves, TcpReadEnds, TcpReadTimesOut, TcpReadFails,
                TcpTriesAgain, TcpWriteTimesOut, TcpWriteFails, TcpWriteMoves, TcpWaitReady, TcpWaitNo,
                TcpWaitReturns, TcpReadBreaks, TcpWriteBreaks, TcpWaitBreaks, usbVars
  <2>2. /\ taken'["usb"] = taken["usb"] /\ handed'["usb"] = handed["usb"]
        /\ readFailed'["usb"] = readFailed["usb"] /\ saw'["usb"] = saw["usb"]
    BY <1>8, <1>u, <1>w, ZenonT(30)
       DEF TcpCalls, TcpRead, TcpWrite, TcpWait, TcpGoesOn, TcpBreaks, TcpReadMoves, TcpReadEnds, TcpReadTimesOut, TcpReadFails,
           TcpTriesAgain, TcpWriteTimesOut, TcpWriteFails, TcpWriteMoves, TcpWaitReady, TcpWaitNo,
           TcpWaitReturns, TcpReadBreaks, TcpWriteBreaks, TcpWaitBreaks, inVars, waitVars, Forget, Answers
  <2>3. ~Filling /\ ~Filling'
    <3>1. CASE TcpCalls
      BY <1>n, <3>1 DEF TcpCalls, TcpRead, TcpWrite, TcpWait, TcpReady, Begin, Filling
    <3>2. CASE TcpTriesAgain
      <4>1. Again /\ call # NoCall /\ call.t = "tcp" /\ wrote' = wrote
        BY <3>2, <1>n DEF TcpTriesAgain, outVars
      <4>2. call'.t = call.t
        BY <4>1, AgainOK
      <4>. QED  BY <4>1, <4>2 DEF Filling
    <3>3. ASSUME NEW k \in 1 .. MaxBytes, TcpWriteMoves(k) PROVE ~Filling /\ ~Filling'
      BY <1>n, <3>3 DEF TcpWriteMoves, In, Advance, Filling, WireOK, Calls
    <3>4. CASE call' = NoCall /\ (In("tcp", "read") \/ In("tcp", "write") \/ In("tcp", "wait"))
      BY <1>n, <3>4 DEF In, Filling
    <3>. QED
      BY <1>8, <3>1, <3>2, <3>3, <3>4
         DEF TcpGoesOn, TcpBreaks, TcpReadMoves, TcpReadEnds, TcpReadTimesOut, TcpReadFails, TcpWriteTimesOut,
             TcpWriteFails, TcpWaitReady, TcpWaitNo, TcpWaitReturns, TcpReadBreaks, TcpWriteBreaks, TcpWaitBreaks
  <2>. QED  BY <2>1, <2>2, <2>3 DEF QuietUsbIn
<1>9. ASSUME NEW t \in Kinds, DeviceSends(t) \/ DeviceEnds(t), UNCHANGED usbVars
      PROVE  QuietUsbIn \/ (DeviceSends("usb") /\ UNCHANGED usbVars)
  BY <1>9, <1>u, <1>w DEF DeviceSends, DeviceEnds, inVars, waitVars, usbVars, QuietUsbIn, Filling
<1>. QED  BY <1>1, <1>2, <1>6, <1>7, <1>8, <1>9, WireSteps

-----------------------------------------------------------------------------
(* The bytes of each direction.                                             *)

\* What is written and not yet left to write has reached the device.
LEMMA WrittenStep ==
  ASSUME WireOK, UsbOK, CallOK, Written, [Next]_vars
  PROVE  Written'
<1>. USE WireAssumption
<1>u. "usb" \in Kinds /\ "tcp" \in Kinds /\ \A t \in Kinds : t \in {"usb", "tcp"}
  BY DEF Kinds
<1>w. /\ wrote \in [Kinds -> Nat] /\ reached \in [Kinds -> Seq(Nat)] /\ writeFailed \in [Kinds -> BOOLEAN]
      /\ call.n \in Nat /\ call \in Calls
  BY DEF WireOK, Calls
<1>n. NoCall.op = "none" /\ NoCall.t = "none"
  BY NoCallOK
<1>1. CASE QuietOut
  <2>1. \A t \in Kinds : Rest(t)' = Rest(t)
    BY <1>1 DEF QuietOut, Rest, In
  <2>. QED  BY <1>1, <2>1 DEF QuietOut, Written
<1>2. ASSUME NEW x \in Kinds, NEW n \in 1 .. MaxBytes, call = NoCall, n > 0,
             wrote' = [wrote EXCEPT ![x] = @ + n], Begin(x, "write", n, "caller"),
             UNCHANGED <<reached, writeFailed>>
      PROVE  Written'
  <2>1. n \in Nat /\ call'.t = x /\ call'.op = "write" /\ call'.n = n
    BY <1>2 DEF Begin
  <2>2. ASSUME NEW t \in Kinds PROVE wrote'[t] - Rest(t)' = wrote[t] - Rest(t)
    <3>1. Rest(t) = 0 /\ wrote[t] \in Nat
      BY <1>2, <1>n, <1>w DEF Rest, In
    <3>2. CASE t = x
      <4>1. wrote'[t] = wrote[t] + n /\ Rest(t)' = n
        BY <1>2, <1>w, <2>1, <3>2 DEF Rest, In
      <4>. QED  BY <2>1, <3>1, <4>1
    <3>3. CASE t # x
      <4>1. wrote'[t] = wrote[t] /\ Rest(t)' = 0
        BY <1>2, <1>w, <2>1, <3>3 DEF Rest, In
      <4>. QED  BY <3>1, <4>1
    <3>. QED  BY <3>2, <3>3
  <2>. QED  BY <1>2, <2>2 DEF Written
<1>3. ASSUME NEW x \in Kinds, In(x, "write"), call' = NoCall, UNCHANGED <<wrote, reached>>,
             writeFailed' = [writeFailed EXCEPT ![x] = TRUE]
      PROVE  Written'
  <2>1. writeFailed'[x] = TRUE
    BY <1>3, <1>w
  <2>2. \A t \in Kinds \ {x} : Rest(t)' = Rest(t) /\ writeFailed'[t] = writeFailed[t]
    BY <1>3, <1>n, <1>w DEF Rest, In
  <2>. QED  BY <1>3, <2>1, <2>2 DEF Written
<1>4. ASSUME NEW x \in Kinds, NEW k \in 1 .. MaxBytes, In(x, "write"), k <= call.n,
             reached' = [reached EXCEPT ![x] = @ \o Bytes(wrote[x] - call.n, wrote[x] - call.n + k)],
             wrote' = wrote, writeFailed'[x] \/ Rest(x)' = call.n - k,
             \A t \in Kinds \ {x} : Rest(t)' = 0,
             \A t \in Kinds : writeFailed[t] => writeFailed'[t]
      PROVE  Written'
  <2>. DEFINE w == wrote[x] - call.n
              b == Bytes(w, w + k)
  <2>1. w \in Nat /\ k \in Nat /\ call.n <= wrote[x] /\ wrote[x] \in Nat
    BY <1>4, <1>w DEF In, CallOK
  <2>2. b \in Seq(Nat) /\ Len(b) = k /\ \A i \in 1 .. k : b[i] = w + i
    <3>. HIDE DEF w
    <3>. QED  BY <2>1, BytesSeq
  <2>3. Rest(x) = call.n /\ \A t \in Kinds \ {x} : Rest(t) = 0
    BY <1>4 DEF Rest, In
  <2>4. reached'[x] = reached[x] \o b /\ \A t \in Kinds \ {x} : reached'[t] = reached[t]
    BY <1>4, <1>w
  <2>5. ~writeFailed'[x] => reached'[x] = Upto(wrote'[x] - Rest(x)')
    <3>1. SUFFICES ASSUME ~writeFailed'[x] PROVE reached'[x] = Upto(wrote'[x] - Rest(x)')
      OBVIOUS
    <3>2. reached[x] = Upto(w)
      BY <1>4, <2>3, <3>1 DEF Written
    <3>3. wrote'[x] - Rest(x)' = w + k
      BY <1>4, <1>w, <2>1, <3>1
    <3>. HIDE DEF w, b
    <3>4. Upto(w) \o b = Upto(w + k)
      BY <2>1, <2>2, UptoGrows
    <3>. QED  BY <2>4, <3>2, <3>3, <3>4
  <2>6. \A t \in Kinds \ {x} : ~writeFailed'[t] => reached'[t] = Upto(wrote'[t] - Rest(t)')
    BY <1>4, <2>3, <2>4 DEF Written
  <2>. QED  BY <2>5, <2>6 DEF Written
<1>5. ASSUME NEW n \in 1 .. MaxBytes, UsbWrite(n) \/ TcpWrite(n) PROVE Written'
  <2>1. CASE UsbWrite(n)
    BY <1>2, <1>u, <2>1 DEF UsbWrite, UsbReady
  <2>2. CASE TcpWrite(n)
    BY <1>2, <1>u, <2>2 DEF TcpWrite, TcpReady
  <2>. QED  BY <1>5, <2>1, <2>2
<1>6. CASE UsbWriteFails
  BY <1>3, <1>6, <1>u DEF UsbWriteFails
<1>7. CASE TcpWriteFails
  BY <1>3, <1>7, <1>u DEF TcpWriteFails
<1>8. ASSUME NEW k \in 1 .. MaxBytes, UsbWriteMoves(k) PROVE Written'
  <2>1. /\ In("usb", "write") /\ k <= call.n /\ wrote' = wrote /\ call' = NoCall
        /\ reached' = [reached EXCEPT !["usb"] = @ \o Bytes(wrote["usb"] - call.n, wrote["usb"] - call.n + k)]
        /\ writeFailed' = [writeFailed EXCEPT !["usb"] = @ \/ WriteIsShort(k)]
    BY <1>8 DEF UsbWriteMoves
  <2>2. \A t \in Kinds : Rest(t)' = 0
    BY <1>n, <2>1 DEF Rest, In
  <2>3. writeFailed'["usb"] = (writeFailed["usb"] \/ WriteIsShort(k)) /\ writeFailed'["tcp"] = writeFailed["tcp"]
    BY <1>u, <1>w, <2>1
  <2>4. writeFailed'["usb"] \/ Rest("usb")' = call.n - k
    <3>1. CASE k < call.n
      BY <2>3, <3>1 DEF WriteIsShort
    <3>2. CASE ~(k < call.n)
      <4>1. call.n - k = 0
        BY <1>w, <2>1, <3>2
      <4>. QED  BY <1>u, <2>2, <4>1
    <3>. QED  BY <3>1, <3>2
  <2>5. \A t \in Kinds : writeFailed[t] => writeFailed'[t]
    BY <1>u, <2>3
  <2>. QED  BY <1>4, <1>u, <2>1, <2>2, <2>4, <2>5
<1>9. ASSUME NEW k \in 1 .. MaxBytes, TcpWriteMoves(k) PROVE Written'
  <2>1. /\ In("tcp", "write") /\ k <= call.n /\ wrote' = wrote /\ Advance(k) /\ writeFailed' = writeFailed
        /\ reached' = [reached EXCEPT !["tcp"] = @ \o Bytes(wrote["tcp"] - call.n, wrote["tcp"] - call.n + k)]
    BY <1>9 DEF TcpWriteMoves
  <2>2. Rest("tcp")' = call.n - k /\ \A t \in Kinds \ {"tcp"} : Rest(t)' = 0
    <3>1. CASE k = call.n
      <4>1. call.n - k = 0 /\ call' = NoCall
        BY <1>w, <2>1, <3>1 DEF Advance
      <4>. QED  BY <1>n, <4>1 DEF Rest, In
    <3>2. CASE k # call.n
      <4>1. call'.t = "tcp" /\ call'.op = "write" /\ call'.n = call.n - k
        BY <1>w, <2>1, <3>2 DEF Advance, Calls, In
      <4>. QED  BY <4>1 DEF Rest, In
    <3>. QED  BY <3>1, <3>2
  <2>. QED  BY <1>4, <1>u, <2>1, <2>2
<1>. QED  BY <1>1, <1>5, <1>6, <1>7, <1>8, <1>9, OutSteps

\* What was taken from the socket was handed out.
LEMMA TcpIntactStep ==
  ASSUME WireOK, UsbOK, TcpIntact, [Next]_vars
  PROVE  TcpIntact'
<1>u. "usb" \in Kinds /\ "tcp" \in Kinds
  BY DEF Kinds
<1>w. /\ taken \in [Kinds -> Nat] /\ handed \in [Kinds -> Seq(Nat)] /\ sent \in [Kinds -> Nat] /\ call.n \in Nat
      /\ taken["tcp"] \in Nat /\ sent["tcp"] \in Nat
  BY <1>u DEF WireOK, Calls
<1>1. CASE QuietTcpIn \/ DeviceSends("tcp")
  BY <1>1 DEF QuietTcpIn, DeviceSends, inVars, TcpIntact
<1>2. CASE TcpReadMoves
  <2>. DEFINE a == taken["tcp"]
  <2>1. PICK k \in 1 .. Least(call.n, sent["tcp"] - taken["tcp"]) :
          /\ taken' = [taken EXCEPT !["tcp"] = @ + k]
          /\ handed' = [handed EXCEPT !["tcp"] = @ \o Bytes(taken["tcp"], taken["tcp"] + k)]
    BY <1>2 DEF TcpReadMoves
  <2>2. k \in Nat
    BY <1>w DEF Least
  <2>3. taken'["tcp"] = a + k /\ handed'["tcp"] = handed["tcp"] \o Bytes(a, a + k)
    BY <1>u, <1>w, <2>1
  <2>4. a \in Nat
    BY <1>w
  <2>5. /\ Bytes(a, a + k) \in Seq(Nat) /\ Len(Bytes(a, a + k)) = k
        /\ \A i \in 1 .. k : Bytes(a, a + k)[i] = a + i
    BY <2>2, <2>4, BytesSeq
  <2>6. Upto(a) \o Bytes(a, a + k) = Upto(a + k)
    BY <2>2, <2>4, <2>5, UptoGrows
  <2>. QED  BY <2>3, <2>6 DEF TcpIntact
<1>. QED  BY <1>1, <1>2, TcpInSteps

\* Bytes that follow what was handed out may be handed out next.
LEMMA HandOutIntact ==
  ASSUME WireOK, UsbOK, NEW buf \in Seq(Nat), NEW o \in Nat, o <= Len(buf), NEW n \in Nat,
         HandOut(buf, o, n), NEW h \in Nat, handed["usb"] = Upto(h),
         \A j \in o + 1 .. Len(buf) : buf[j] = h + (j - o)
  PROVE  /\ handed'["usb"] = Upto(Len(handed'["usb"]))
         /\ Len(handed'["usb"]) + (Len(usb'.incoming) - usb'.offset) = h + (Len(buf) - o)
         /\ \A j \in usb'.offset + 1 .. Len(usb'.incoming) :
              usb'.incoming[j] = Len(handed'["usb"]) + (j - usb'.offset)
<1>. DEFINE k == Least(n, Len(buf) - o)
<1>1. /\ k \in Nat /\ o + k <= Len(buf)
      /\ handed'["usb"] = handed["usb"] \o SubSeq(buf, o + 1, o + k)
      /\ usb'.incoming = buf /\ usb'.offset = o + k
  BY HandOutOK, ZenonT(30)
<1>. HIDE DEF k
<1>. DEFINE b == SubSeq(buf, o + 1, o + k)
<1>2. Len(buf) \in Nat
  BY LenProperties
<1>3. b \in Seq(Nat) /\ Len(b) = k /\ \A j \in 1 .. k : b[j] = buf[o + j]
  BY <1>1, Piece
<1>4. \A j \in 1 .. k : b[j] = h + j
  <2>1. \A j \in 1 .. k : o + j \in o + 1 .. Len(buf) /\ h + ((o + j) - o) = h + j
    BY <1>1, <1>2
  <2>. HIDE DEF b
  <2>. QED  BY <1>3, <2>1
<1>. HIDE DEF b
<1>5. Upto(h) \o b = Upto(h + k)
  BY <1>1, <1>3, <1>4, UptoGrows
<1>6. handed'["usb"] = Upto(h + k)
  BY <1>1, <1>5 DEF b
<1>7. Len(handed'["usb"]) = h + k
  <2>1. h + k \in Nat
    BY <1>1
  <2>. QED  BY <1>6, <2>1, UptoSeq
<1>8. h + k + (Len(buf) - (o + k)) = h + (Len(buf) - o)
  BY <1>1, <1>2
<1>9. \A j \in o + k + 1 .. Len(buf) : buf[j] = (h + k) + (j - (o + k))
  <2>1. \A j \in o + k + 1 .. Len(buf) : j \in o + 1 .. Len(buf) /\ h + (j - o) = (h + k) + (j - (o + k))
    BY <1>1, <1>2
  <2>. QED  BY <2>1
<1>. QED  BY <1>1, <1>6, <1>7, <1>8, <1>9

\* The buffer holds the bytes that come next.
LEMMA UsbIntactStep ==
  ASSUME WireOK, UsbOK, CallOK, UsbIntact, [Next]_vars
  PROVE  UsbIntact'
<1>. USE UsbAssumption
<1>. DEFINE h == Len(handed["usb"])
<1>u. "usb" \in Kinds
  BY DEF Kinds
<1>w. /\ taken \in [Kinds -> Nat] /\ taken["usb"] \in Nat /\ handed["usb"] \in Seq(Nat)
      /\ h \in Nat /\ call.n \in Nat
  BY <1>u, LenProperties DEF WireOK, Calls
<1>r. /\ usb.incoming \in Seq(Nat) /\ Len(usb.incoming) \in Nat
      /\ usb.offset \in Nat /\ usb.offset <= Len(usb.incoming)
  BY LenProperties DEF UsbOK
<1>n. NoCall.op = "none" /\ NoCall.t = "none"
  BY NoCallOK
<1>i. ASSUME ~readFailed["usb"]
      PROVE  /\ handed["usb"] = Upto(h)
             /\ Filling => h = taken["usb"]
             /\ ~Filling => /\ h + (Len(usb.incoming) - usb.offset) = taken["usb"]
                            /\ \A j \in usb.offset + 1 .. Len(usb.incoming) :
                                 usb.incoming[j] = h + (j - usb.offset)
  BY <1>i DEF UsbIntact
<1>1. CASE QuietUsbIn \/ (DeviceSends("usb") /\ UNCHANGED usbVars)
  <2>1. /\ taken'["usb"] = taken["usb"] /\ handed'["usb"] = handed["usb"]
        /\ readFailed'["usb"] = readFailed["usb"]
        /\ usb'.incoming = usb.incoming /\ usb'.offset = usb.offset
        /\ Filling' <=> Filling
    BY <1>1 DEF QuietUsbIn, DeviceSends, inVars, usbVars, Filling
  <2>. QED  BY <2>1 DEF UsbIntact
<1>2. CASE UsbHandsOut
  <2>1. PICK n \in 1 .. MaxRead : HandOut(usb.incoming, usb.offset, n)
    BY <1>2 DEF UsbHandsOut
  <2>2. ~Filling /\ ~Filling' /\ taken' = taken /\ readFailed' = readFailed
    BY <1>2, <1>n DEF UsbHandsOut, UsbReady, Filling
  <2>3. SUFFICES ASSUME ~readFailed["usb"] PROVE UsbIntact'
    BY <2>2 DEF UsbIntact
  <2>4. /\ h + (Len(usb.incoming) - usb.offset) = taken["usb"] /\ handed["usb"] = Upto(h)
        /\ \A j \in usb.offset + 1 .. Len(usb.incoming) : usb.incoming[j] = h + (j - usb.offset)
    BY <1>i, <2>2, <2>3
  <2>. HIDE DEF h
  <2>n. n \in Nat
    OBVIOUS
  <2>5. /\ handed'["usb"] = Upto(Len(handed'["usb"]))
        /\ Len(handed'["usb"]) + (Len(usb'.incoming) - usb'.offset) = h + (Len(usb.incoming) - usb.offset)
        /\ \A j \in usb'.offset + 1 .. Len(usb'.incoming) :
             usb'.incoming[j] = Len(handed'["usb"]) + (j - usb'.offset)
    BY <1>r, <1>w, <2>1, <2>4, <2>n, HandOutIntact, ZenonT(30)
  <2>. QED  BY <2>2, <2>4, <2>5 DEF UsbIntact
<1>3. CASE UsbStartsFilling
  <2>1. ~Filling /\ Filling' /\ ~Buffered /\ UNCHANGED <<taken, handed, readFailed>>
    BY <1>3, <1>n DEF UsbStartsFilling, UsbReady, Filling
  <2>2. usb.offset = Len(usb.incoming)
    BY <1>r, <2>1 DEF Buffered
  <2>3. ~readFailed["usb"] => h = taken["usb"]
    <3>1. ~readFailed["usb"] => h + (Len(usb.incoming) - usb.offset) = taken["usb"]
      BY <1>i, <2>1
    <3>2. Len(usb.incoming) - usb.offset = 0
      BY <1>r, <2>2
    <3>3. h + 0 = h
      BY <1>w
    <3>. HIDE DEF h
    <3>. QED  BY <3>1, <3>2, <3>3
  <2>. QED  BY <1>i, <2>1, <2>3 DEF UsbIntact
<1>4. ASSUME Filling, ~Filling', usb'.incoming = <<>>, usb'.offset = 0, UNCHANGED <<taken, handed, readFailed>>
      PROVE  UsbIntact'
  <2>1. ~readFailed["usb"] => h = taken["usb"] /\ handed["usb"] = Upto(h)
    BY <1>4, <1>i
  <2>2. Len(usb'.incoming) = 0 /\ h + (0 - 0) = h /\ 0 + 1 .. 0 = {}
    BY <1>4, <1>w
  <2>. QED  BY <1>4, <2>1, <2>2 DEF UsbIntact
<1>5. CASE UsbEmpty
  <2>1. /\ Filling /\ ~Filling' /\ UNCHANGED <<taken, handed, readFailed>>
        /\ usb' = [usb EXCEPT !.incoming = <<>>, !.offset = 0]
    BY <1>5, <1>n DEF UsbEmpty, EmptyPacket, Filling
  <2>2. usb'.incoming = <<>> /\ usb'.offset = 0
    BY <2>1 DEF UsbOK
  <2>. QED  BY <1>4, <2>1, <2>2
<1>6. CASE UsbWaitTimesOut
  <2>1. /\ Filling /\ ~Filling' /\ UNCHANGED <<taken, handed, readFailed>>
        /\ usb' = [usb EXCEPT !.incoming = <<>>, !.offset = 0]
    BY <1>6, <1>n DEF UsbWaitTimesOut, UsbWaitFails, ClearBuffer, In, Filling
  <2>2. usb'.incoming = <<>> /\ usb'.offset = 0
    BY <2>1 DEF UsbOK
  <2>. QED  BY <1>4, <2>1, <2>2
<1>t. ASSUME NEW k \in 1 .. BufferSize, Transfer(k), Filling, ~readFailed["usb"]
      PROVE  /\ taken'["usb"] = h + k /\ h = taken["usb"] /\ handed["usb"] = Upto(h)
             /\ Packet(k) \in Seq(Nat) /\ Len(Packet(k)) = k /\ k \in Nat
             /\ \A j \in 0 + 1 .. k : Packet(k)[j] = h + (j - 0)
  <2>1. h = taken["usb"] /\ handed["usb"] = Upto(h)
    BY <1>i, <1>t
  <2>2. /\ taken'["usb"] = taken["usb"] + k
        /\ Packet(k) \in Seq(Nat) /\ Len(Packet(k)) = k
        /\ \A i \in 1 .. k : Packet(k)[i] = taken["usb"] + i
    BY <1>t, TransferOK
  <2>3. \A j \in 0 + 1 .. k : Packet(k)[j] = h + (j - 0)
    <3>1. \A j \in 0 + 1 .. k : j \in 1 .. k /\ j - 0 = j
      OBVIOUS
    <3>. HIDE DEF h
    <3>. QED  BY <2>1, <2>2, <3>1
  <2>. QED  BY <2>1, <2>2, <2>3
<1>7. CASE UsbReadMoves
  <2>1. PICK k \in 1 .. BufferSize : Transfer(k) /\ HandOut(Packet(k), 0, call.n)
    BY <1>7 DEF UsbReadMoves
  <2>2. Filling /\ ~Filling' /\ readFailed' = readFailed
    BY <1>7, <1>n DEF UsbReadMoves, In, Filling
  <2>3. SUFFICES ASSUME ~readFailed["usb"] PROVE UsbIntact'
    BY <2>2 DEF UsbIntact
  <2>4. /\ taken'["usb"] = h + k /\ h = taken["usb"] /\ handed["usb"] = Upto(h)
        /\ Packet(k) \in Seq(Nat) /\ Len(Packet(k)) = k /\ k \in Nat
        /\ \A j \in 0 + 1 .. Len(Packet(k)) : Packet(k)[j] = h + (j - 0)
    <3>1. /\ taken'["usb"] = h + k /\ h = taken["usb"] /\ handed["usb"] = Upto(h)
          /\ Packet(k) \in Seq(Nat) /\ Len(Packet(k)) = k /\ k \in Nat
          /\ \A j \in 0 + 1 .. k : Packet(k)[j] = h + (j - 0)
      BY <1>t, <2>1, <2>2, <2>3
    <3>. QED  BY <3>1
  <2>5. 0 <= Len(Packet(k)) /\ 0 \in Nat
    BY <2>4
  <2>. HIDE DEF h
  <2>c. call.n \in Nat
    BY <1>w
  <2>6. /\ handed'["usb"] = Upto(Len(handed'["usb"]))
        /\ Len(handed'["usb"]) + (Len(usb'.incoming) - usb'.offset) = h + (Len(Packet(k)) - 0)
        /\ \A j \in usb'.offset + 1 .. Len(usb'.incoming) :
             usb'.incoming[j] = Len(handed'["usb"]) + (j - usb'.offset)
    BY <1>w, <2>1, <2>4, <2>5, <2>c, HandOutIntact
  <2>7. h + (Len(Packet(k)) - 0) = taken'["usb"]
    BY <1>w, <2>4
  <2>. QED  BY <2>2, <2>6, <2>7 DEF UsbIntact
<1>8. CASE UsbWaitMoves
  <2>1. PICK k \in 1 .. BufferSize : Transfer(k) /\ usb' = [usb EXCEPT !.incoming = Packet(k), !.offset = 0]
    BY <1>8 DEF UsbWaitMoves
  <2>2. Filling /\ ~Filling' /\ readFailed' = readFailed /\ handed' = handed
    BY <1>8, <1>n DEF UsbWaitMoves, In, Filling
  <2>3. SUFFICES ASSUME ~readFailed["usb"] PROVE UsbIntact'
    BY <2>2 DEF UsbIntact
  <2>4. /\ taken'["usb"] = h + k /\ handed["usb"] = Upto(h)
        /\ Packet(k) \in Seq(Nat) /\ Len(Packet(k)) = k /\ k \in Nat
        /\ \A j \in 0 + 1 .. k : Packet(k)[j] = h + (j - 0)
    BY <1>t, <2>1, <2>2, <2>3
  <2>5. usb'.incoming = Packet(k) /\ usb'.offset = 0
    BY <2>1 DEF UsbOK
  <2>6. h + (k - 0) = h + k
    BY <1>w, <2>4
  <2>. QED  BY <2>2, <2>4, <2>5, <2>6 DEF UsbIntact
<1>9. CASE readFailed'["usb"] = TRUE
  BY <1>9 DEF UsbIntact
<1>. QED  BY <1>1, <1>2, <1>3, <1>5, <1>6, <1>7, <1>8, <1>9, UsbInSteps

-----------------------------------------------------------------------------
(* Waits and the helper.                                                    *)

\* What a wait on the USB transport saw is in the buffer until it is read.
LEMMA UsbSawStep ==
  ASSUME WireOK, UsbOK, CallOK, UsbSaw, [Next]_vars
  PROVE  UsbSaw'
<1>. USE UsbAssumption
<1>u. "usb" \in Kinds /\ saw \in [Kinds -> {"bytes", "end", "nothing"}]
  BY DEF Kinds, WireOK
<1>n. NoCall.op = "none" /\ NoCall.t = "none"
  BY NoCallOK
<1>1. CASE QuietUsbIn
  BY <1>1 DEF QuietUsbIn, UsbSaw, Buffered
<1>2. CASE DeviceSends("usb") /\ UNCHANGED usbVars
  BY <1>2 DEF DeviceSends, waitVars, usbVars, UsbSaw, Buffered, Filling
<1>3. CASE UsbHandsOut \/ UsbStartsFilling \/ UsbEmpty
  BY <1>3 DEF UsbHandsOut, UsbStartsFilling, UsbEmpty, UsbSaw
<1>4. CASE UsbReadMoves
  BY <1>4, <1>u DEF UsbReadMoves, Forget, UsbSaw
<1>5. CASE UsbWaitMoves
  <2>1. PICK k \in 1 .. BufferSize : Transfer(k) /\ usb' = [usb EXCEPT !.incoming = Packet(k), !.offset = 0]
    BY <1>5 DEF UsbWaitMoves
  <2>2. Len(Packet(k)) = k /\ 0 < k
    BY <2>1, TransferOK
  <2>3. usb'.incoming = Packet(k) /\ usb'.offset = 0
    BY <2>1 DEF UsbOK
  <2>4. ~Filling'
    BY <1>5, <1>n DEF UsbWaitMoves, Filling
  <2>. QED  BY <2>2, <2>3, <2>4 DEF UsbSaw, Buffered
<1>6. CASE UsbWaitTimesOut
  BY <1>6, <1>u DEF UsbWaitTimesOut, UsbWaitFails, Answers, UsbSaw
<1>7. CASE saw'["usb"] = "nothing"
  BY <1>7 DEF UsbSaw
<1>. QED  BY <1>1, <1>2, <1>3, <1>4, <1>5, <1>6, <1>7, UsbInSteps

\* What a wait on the TCP transport saw stays in the socket until it is read.
LEMMA TcpSawStep ==
  ASSUME WireOK, UsbOK, TcpSaw, [Next]_vars
  PROVE  TcpSaw'
<1>u. /\ "tcp" \in Kinds /\ saw \in [Kinds -> {"bytes", "end", "nothing"}]
      /\ sent \in [Kinds -> Nat] /\ taken["tcp"] \in Nat /\ sent["tcp"] \in Nat /\ taken["tcp"] <= sent["tcp"]
  BY DEF Kinds, WireOK
<1>1. CASE QuietTcpIn
  BY <1>1 DEF QuietTcpIn, TcpSaw, Silent
<1>2. CASE DeviceSends("tcp")
  <2>1. sent'["tcp"] = sent["tcp"] + 1 /\ taken' = taken
    BY <1>2, <1>u DEF DeviceSends, inVars
  <2>2. sent'["tcp"] > taken'["tcp"]
    BY <1>u, <2>1
  <2>3. sent'["tcp"] # taken'["tcp"]
    BY <1>u, <2>1
  <2>. QED  BY <2>2, <2>3 DEF TcpSaw, Silent
<1>3. CASE TcpReadMoves
  BY <1>3, <1>u DEF TcpReadMoves, Forget, TcpSaw
<1>. QED  BY <1>1, <1>2, <1>3, TcpInSteps

\* What goes on inside a call: it continues, or a read, a write or a wait ends.
CallGoesOn ==
  /\ call # NoCall
  /\ \/ call'.t = call.t /\ call'.op = call.op /\ call' # NoCall /\ UNCHANGED <<saw, answer>>
     \/ call.op = "read" /\ call' = NoCall /\ Forget(call.t)
     \/ call.op = "write" /\ call' = NoCall /\ UNCHANGED <<saw, answer>>
     \/ /\ call.op = "wait" /\ call' = NoCall
        /\ \E a \in {"yes", "no", "error"}, what \in {"bytes", "end", "nothing"} :
             Answers(call.t, a, what) /\ (a = "yes" => what # "nothing")

LEMMA CallSteps ==
  ASSUME WireOK, CallOK, UsbGoesOn \/ UsbBreaks \/ TcpGoesOn \/ TcpBreaks
  PROVE  CallGoesOn
<1>n. NoCall.op = "none" /\ NoCall.t = "none"
  BY NoCallOK
<1>c. call \in Calls /\ call.n \in Nat
  BY DEF WireOK, Calls
<1>1. CASE bulk_transfer_again \/ TcpTriesAgain
  <2>1. Again /\ UNCHANGED <<wrote, saw, answer>> /\ call # NoCall
    BY <1>1, <1>n DEF bulk_transfer_again, TcpTriesAgain, outVars, waitVars
  <2>. QED  BY <2>1, AgainOK DEF CallGoesOn
<1>2. CASE UsbReadMoves \/ UsbReadEmpty \/ UsbReadFails
  BY <1>2, <1>n DEF UsbReadMoves, UsbReadEmpty, UsbReadFails, In, CallGoesOn
<1>3. CASE TcpReadMoves \/ TcpReadEnds \/ TcpReadFails
  BY <1>3, <1>n DEF TcpReadMoves, TcpReadEnds, TcpReadFails, In, CallGoesOn
<1>4. CASE UsbWriteFails \/ TcpWriteFails
  BY <1>4, <1>n DEF UsbWriteFails, TcpWriteFails, In, waitVars, CallGoesOn
<1>5. ASSUME NEW k \in 1 .. MaxBytes, UsbWriteMoves(k) PROVE CallGoesOn
  BY <1>5, <1>n DEF UsbWriteMoves, In, waitVars, CallGoesOn
<1>6. ASSUME NEW k \in 1 .. MaxBytes, TcpWriteMoves(k) PROVE CallGoesOn
  <2>1. call.t = "tcp" /\ call.op = "write" /\ UNCHANGED <<saw, answer>> /\ Advance(k)
    BY <1>6 DEF TcpWriteMoves, In, waitVars
  <2>2. call' = NoCall \/ (call'.t = call.t /\ call'.op = call.op)
    BY <1>c, <2>1 DEF Advance, Calls
  <2>. QED  BY <1>n, <2>1, <2>2 DEF CallGoesOn
<1>7. CASE UsbWaitMoves \/ UsbWaitEmpty \/ UsbWaitFails
  <2>1. call.t = "usb" /\ call.op = "wait" /\ call' = NoCall
    BY <1>7 DEF UsbWaitMoves, UsbWaitEmpty, UsbWaitFails, In
  <2>2. Answers("usb", "yes", "bytes") \/ Answers("usb", "yes", "end") \/ Answers("usb", "error", "nothing")
    BY <1>7 DEF UsbWaitMoves, UsbWaitEmpty, UsbWaitFails
  <2>. QED  BY <1>n, <2>1, <2>2 DEF CallGoesOn
<1>8. CASE TcpWaitReady \/ TcpWaitNo \/ TcpWaitBreaks
  <2>1. call.t = "tcp" /\ call.op = "wait" /\ call' = NoCall
    BY <1>8 DEF TcpWaitReady, TcpWaitNo, TcpWaitBreaks, TcpWaitReturns, In
  <2>2. \/ Answers("tcp", "yes", "bytes") \/ Answers("tcp", "yes", "end")
        \/ Answers("tcp", "no", "nothing") \/ Answers("tcp", "error", "nothing")
    BY <1>8 DEF TcpWaitReady, TcpWaitNo, TcpWaitBreaks, TcpWaitReturns
  <2>. QED  BY <1>n, <2>1, <2>2 DEF CallGoesOn
<1>. QED
  BY <1>1, <1>2, <1>3, <1>4, <1>5, <1>6, <1>7, <1>8
     DEF UsbGoesOn, UsbBreaks, UsbReadTimesOut, UsbWriteTimesOut, UsbWaitTimesOut, UsbReadBreaks,
         UsbWriteBreaks, UsbWaitBreaks, TcpGoesOn, TcpBreaks, TcpReadTimesOut, TcpWriteTimesOut,
         TcpReadBreaks, TcpWriteBreaks

\* The helper's record, field by field.
LEMMA HelperFields ==
  ASSUME HelperOK
  PROVE  /\ poll = [list |-> poll.list, at |-> poll.at, pass |-> poll.pass, index |-> poll.index]
         /\ poll.list \in Lists /\ poll.at \in Nat /\ poll.pass \in Nat /\ poll.index \in Nat
         /\ poll.at <= Len(poll.list) + 1 /\ poll.pass <= Rounds /\ poll.index <= Len(poll.list)
         /\ Len(poll.list) \in Nat \ {0}
<1>1. /\ poll = [list |-> poll.list, at |-> poll.at, pass |-> poll.pass, index |-> poll.index]
      /\ poll.list \in Lists /\ poll.at \in Nat /\ poll.pass \in Nat /\ poll.index \in Nat
      /\ poll.at <= Len(poll.list) + 1 /\ poll.pass <= Rounds /\ poll.index <= Len(poll.list)
  BY DEF HelperOK, Transports
<1>2. Len(poll.list) \in Nat \ {0}
  BY <1>1, SMTT(30) DEF Lists
<1>. QED  BY <1>1, <1>2

LEMMA HelperMoves ==
  ASSUME HelperOK, NEW at \in Nat, NEW pass \in Nat, NEW index \in Nat,
         at <= Len(poll.list) + 1, pass <= Rounds, index <= Len(poll.list),
         poll' = [list |-> poll.list, at |-> at, pass |-> pass, index |-> index]
  PROVE  HelperOK' /\ poll'.list = poll.list /\ poll'.at = at /\ poll'.index = index
<1>1. poll'.list = poll.list /\ poll'.at = at /\ poll'.pass = pass /\ poll'.index = index
  OBVIOUS
<1>2. poll' \in [list : Lists, at : Nat, pass : Nat, index : Nat]
  BY HelperFields
<1>. QED  BY <1>1, <1>2 DEF HelperOK, Transports

\* The helper asks its transports in turn, and names the one that said yes.
LEMMA WaitsStep ==
  ASSUME WireOK, UsbOK, CallOK, HelperOK, Waits, [Next]_vars
  PROVE  HelperOK' /\ Waits'
<1>. USE PollAssumption
<1>n. NoCall.op = "none" /\ NoCall.t = "none"
  BY NoCallOK
<1>p. /\ poll = [list |-> poll.list, at |-> poll.at, pass |-> poll.pass, index |-> poll.index]
      /\ poll.list \in Lists /\ poll.at \in Nat /\ poll.pass \in Nat /\ poll.index \in Nat
      /\ poll.at <= Len(poll.list) + 1 /\ poll.pass <= Rounds /\ poll.index <= Len(poll.list)
      /\ Len(poll.list) \in Nat \ {0}
  BY HelperFields
<1>s. saw \in [Kinds -> {"bytes", "end", "nothing"}] /\ answer \in {"none", "yes", "no", "error"}
  BY DEF WireOK
<1>i. Idle = [list |-> poll.list, at |-> 0, pass |-> 0, index |-> 0]
  <2>1. Idle \in [list : Lists, at : Nat, pass : Nat, index : Nat]
    BY DEF Idle, HelperOK
  <2>2. Idle.list = poll.list /\ Idle.at = 0 /\ Idle.pass = 0 /\ Idle.index = 0
    BY DEF Idle, HelperOK
  <2>. QED  BY <2>1, <2>2
<1>d. ASSUME poll' = Idle PROVE HelperOK' /\ Waits'
  <2>1. HelperOK' /\ poll'.list = poll.list /\ poll'.at = 0 /\ poll'.index = 0
    BY <1>d, <1>i, <1>p, HelperMoves
  <2>. QED  BY <2>1 DEF Waits
<1>1. CASE UNCHANGED <<call, saw, answer, poll>>
  BY <1>1 DEF HelperOK, Waits, Transports
<1>2. CASE PollCall
  <2>1. poll' = [list |-> poll.list, at |-> 1, pass |-> 1, index |-> 0]
    BY <1>2, <1>i DEF PollCall
  <2>2. call' = NoCall /\ answer' = "none"
    BY <1>2 DEF PollCall
  <2>3. 1 <= Len(poll.list) + 1 /\ 1 <= Rounds /\ 0 <= Len(poll.list)
    BY <1>p
  <2>4. HelperOK' /\ poll'.index = 0
    BY <2>1, <2>3, HelperMoves
  <2>. QED  BY <1>n, <2>2, <2>4 DEF Waits
<1>3. CASE CallerReads \/ CallerWaits
  BY <1>3, <1>d DEF CallerReads, CallerWaits
<1>4. CASE CallerWrites
  <2>1. poll.at = 0 /\ poll' = poll
    BY <1>4 DEF CallerWrites, Free
  <2>2. UNCHANGED <<saw, answer>> /\ call'.op = "write"
    BY <1>4 DEF CallerWrites, UsbWrite, TcpWrite, Begin, waitVars
  <2>. QED  BY <2>1, <2>2 DEF HelperOK, Waits, Transports
<1>5. CASE CallerTakesAnswer
  BY <1>5 DEF CallerTakesAnswer, Free, HelperOK, Waits, Transports
<1>6. CASE PollAsk
  <2>1. /\ poll.at \in 1 .. Len(poll.list) /\ call = NoCall /\ answer = "none" /\ poll' = poll
        /\ \/ Transports[poll.at] = "usb" /\ UsbWait(0, "poll")
           \/ Transports[poll.at] = "tcp" /\ TcpWait(0, "poll")
    BY <1>6 DEF PollAsk, Asking, Transports
  <2>2. poll.index = 0 /\ poll.at # 0 /\ poll.at <= Len(poll.list)
    BY <1>p, <2>1 DEF Waits
  <2>3. \/ call' = NoCall /\ saw'[Transports[poll.at]] = "bytes"
        \/ call'.t = Transports[poll.at] /\ call'.op = "wait" /\ answer' = "none"
    <3>1. CASE Transports[poll.at] = "usb" /\ UsbWait(0, "poll") /\ Buffered
      <4>1. Answers("usb", "yes", "bytes") /\ call' = NoCall
        BY <2>1, <3>1 DEF UsbWait
      <4>. QED  BY <1>s, <3>1, <4>1 DEF Answers, Kinds
    <3>2. CASE Transports[poll.at] = "usb" /\ UsbWait(0, "poll") /\ ~Buffered
      BY <2>1, <3>2 DEF UsbWait, Begin, waitVars
    <3>3. CASE Transports[poll.at] = "tcp" /\ TcpWait(0, "poll")
      BY <2>1, <3>3 DEF TcpWait, Begin, waitVars
    <3>. QED  BY <2>1, <3>1, <3>2, <3>3
  <2>4. HelperOK' /\ Transports' = Transports /\ poll'.at = poll.at /\ poll'.index = 0
    BY <2>1, <2>2 DEF HelperOK, Transports
  <2>5. poll.at <= Len(Transports)
    BY <2>2 DEF Transports
  <2>. QED  BY <1>n, <2>2, <2>3, <2>4, <2>5 DEF Waits
<1>7. CASE PollAnswer
  <2>1. /\ poll.at \in 1 .. Len(poll.list) /\ call = NoCall /\ UNCHANGED <<call, saw>> /\ answer' = "none"
        /\ poll' = IF answer = "error" THEN Idle
                   ELSE IF answer = "yes" THEN ReturnIndex ELSE [poll EXCEPT !.at = @ + 1]
    BY <1>7 DEF PollAnswer, Transports
  <2>2. poll.index = 0 /\ poll.at # 0 /\ poll.at <= Len(poll.list) /\ 0 <= Rounds
    BY <1>p, <2>1 DEF Waits
  <2>3. CASE answer = "error"
    BY <1>d, <2>1, <2>3
  <2>4. CASE answer = "yes"
    <3>1. poll' = [list |-> poll.list, at |-> 0, pass |-> 0, index |-> poll.at]
      BY <1>i, <2>1, <2>4 DEF ReturnIndex
    <3>2. 0 <= Len(poll.list) + 1
      BY <1>p
    <3>3. HelperOK' /\ poll'.list = poll.list /\ poll'.at = 0 /\ poll'.index = poll.at
      BY <1>p, <2>2, <3>1, <3>2, HelperMoves
    <3>4. saw[poll.list[poll.at]] # "nothing"
      BY <2>2, <2>4 DEF Waits, Transports
    <3>. QED  BY <1>n, <2>1, <3>3, <3>4 DEF Waits, Transports
  <2>5. CASE answer # "error" /\ answer # "yes"
    <3>1. poll' = [list |-> poll.list, at |-> poll.at + 1, pass |-> poll.pass, index |-> 0]
      BY <1>p, <2>1, <2>2, <2>5
    <3>2. poll.at + 1 \in Nat /\ poll.at + 1 <= Len(poll.list) + 1 /\ 0 <= Len(poll.list)
      BY <1>p, <2>2
    <3>3. HelperOK' /\ poll'.index = 0
      BY <1>p, <3>1, <3>2, HelperMoves
    <3>. QED  BY <1>n, <2>1, <3>3 DEF Waits
  <2>. QED  BY <2>3, <2>4, <2>5
<1>8. CASE PollPass
  <2>1. /\ poll.at > Len(poll.list) /\ UNCHANGED <<call, answer>>
        /\ poll' = IF poll.pass < Rounds THEN [poll EXCEPT !.at = 1, !.pass = @ + 1] ELSE Idle
    BY <1>8 DEF PollPass, Transports, wireVars, waitVars
  <2>2. poll.at # 0 /\ ~(poll.at <= Len(poll.list))
    BY <1>p, <2>1
  <2>3. poll.index = 0 /\ call = NoCall /\ answer = "none"
    BY <2>2 DEF Waits, Transports
  <2>4. CASE poll.pass < Rounds
    <3>1. poll' = [list |-> poll.list, at |-> 1, pass |-> poll.pass + 1, index |-> 0]
      BY <1>p, <2>1, <2>3, <2>4
    <3>2. poll.pass + 1 \in Nat /\ poll.pass + 1 <= Rounds /\ 1 <= Len(poll.list) + 1 /\ 0 <= Len(poll.list)
      BY <1>p, <2>4
    <3>3. HelperOK' /\ poll'.index = 0
      BY <3>1, <3>2, HelperMoves
    <3>. QED  BY <1>n, <2>1, <2>3, <3>3 DEF Waits
  <2>5. CASE ~(poll.pass < Rounds)
    BY <1>d, <2>1, <2>5
  <2>. QED  BY <2>4, <2>5
<1>9. CASE (UsbGoesOn \/ UsbBreaks \/ TcpGoesOn \/ TcpBreaks) /\ poll' = poll
  <2>1. CallGoesOn
    BY <1>9, CallSteps
  <2>2. call # NoCall /\ call.t \in Kinds /\ HelperOK' /\ Transports' = Transports /\ poll' = poll
    BY <1>9, <2>1 DEF CallGoesOn, CallOK, HelperOK, Transports
  <2>3. CASE call'.t = call.t /\ call'.op = call.op /\ call' # NoCall /\ UNCHANGED <<saw, answer>>
    BY <2>2, <2>3 DEF Waits
  <2>4. CASE call.op = "read" /\ call' = NoCall /\ Forget(call.t)
    BY <1>n, <2>2, <2>4 DEF Waits
  <2>5. CASE call.op = "write" /\ call' = NoCall /\ UNCHANGED <<saw, answer>>
    BY <1>n, <2>2, <2>5 DEF Waits
  <2>6. CASE call.op = "wait" /\ call' = NoCall
    <3>1. PICK a \in {"yes", "no", "error"}, what \in {"bytes", "end", "nothing"} :
            Answers(call.t, a, what) /\ (a = "yes" => what # "nothing")
      BY <2>1, <2>6 DEF CallGoesOn
    <3>2. saw'[call.t] = what /\ answer' = a
      BY <1>s, <2>2, <3>1 DEF Answers
    <3>3. poll.index = 0 /\ (poll.at # 0 => poll.at <= Len(Transports) /\ call.t = Transports[poll.at])
      BY <2>2, <2>6 DEF Waits
    <3>. QED  BY <1>n, <2>2, <2>6, <3>1, <3>2, <3>3 DEF Waits
  <2>. QED  BY <2>1, <2>3, <2>4, <2>5, <2>6 DEF CallGoesOn
<1>10. CASE UNCHANGED vars
  BY <1>1, <1>10 DEF vars, wireVars, waitVars
<1>11. CASE Opens \/ Closes \/ DeviceStep \/ (BusChanges /\ poll' = poll)
  <2>1. poll' = poll
    BY <1>11 DEF Opens, Closes, DeviceStep
  <2>2. CASE UsbObject \/ (TcpObject /\ UNCHANGED usbVars)
    BY <1>1, <2>1, <2>2, ObjectsLeaveWire
  <2>3. CASE \E t \in Kinds : DeviceSends(t) \/ DeviceEnds(t)
    BY <1>1, <2>1, <2>3 DEF DeviceSends, DeviceEnds, waitVars
  <2>. QED  BY <1>11, <2>2, <2>3 DEF Opens, Closes, DeviceStep, UsbObject, TcpObject
<1>. QED
  BY <1>2, <1>3, <1>4, <1>5, <1>6, <1>7, <1>8, <1>9, <1>10, <1>11 DEF Next, GoesOn, Breaks

-----------------------------------------------------------------------------
(* The invariant.                                                           *)

LEMMA PollInit == Init => PollInv
<1>. SUFFICES ASSUME Init PROVE PollInv
  OBVIOUS
<1>. USE UsbAssumption, TcpAssumption, PollAssumption
<1>k. "usb" \in Kinds /\ "tcp" \in Kinds
  BY DEF Kinds
<1>n. NoCall.op = "none" /\ NoCall.t = "none" /\ NoCall \in Calls
  BY NoCallOK
<1>e. <<>> \in Seq(Nat) /\ Len(<<>>) = 0
  OBVIOUS
<1>w. /\ call = NoCall /\ answer = "none"
      /\ sent = [t \in Kinds |-> 0] /\ taken = sent /\ wrote = sent
      /\ handed = [t \in Kinds |-> <<>>] /\ reached = handed
      /\ ended = [t \in Kinds |-> FALSE] /\ readFailed = ended /\ writeFailed = ended
      /\ saw = [t \in Kinds |-> "nothing"]
  BY DEF Init, WireInit
<1>1. WireOK
  <2>1. sent \in [Kinds -> Nat] /\ \A t \in Kinds : taken[t] <= sent[t]
    BY <1>w
  <2>2. handed \in [Kinds -> Seq(Nat)]
    BY <1>e, <1>w
  <2>3. ended \in [Kinds -> BOOLEAN] /\ saw \in [Kinds -> {"bytes", "end", "nothing"}]
    BY <1>w
  <2>. QED  BY <1>n, <1>w, <2>1, <2>2, <2>3 DEF WireOK
<1>2. usb = [st |-> "none", incoming |-> <<>>, offset |-> 0]
  BY DEF Init, UsbInitially
<1>3. UsbOK
  <2>1. usb \in [st : UsbStates, incoming : Seq(Nat), offset : Nat]
    BY <1>2, <1>e DEF UsbStates
  <2>2. usb.incoming = <<>> /\ usb.offset = 0
    BY <1>2
  <2>. QED  BY <1>e, <2>1, <2>2 DEF UsbOK
<1>4. BusOK
  BY DEF Init, UsbInitially, BusOK
<1>5. TcpOK
  <2>1. addrs \in Seq(STRING) /\ Len(addrs) \in Nat /\ fds = {}
    BY LenProperties DEF Init, TcpInitially
  <2>2. tcp = [st |-> "none", at |-> 0, socket |-> 0]
    BY DEF Init, TcpInitially, NoSocket
  <2>3. tcp \in [st : TcpStates, at : Nat, socket : Nat] /\ tcp.at = 0
    BY <2>2 DEF TcpStates
  <2>. QED  BY <2>1, <2>3 DEF TcpOK
<1>6. HelperOK
  <2>1. /\ poll \in [list : Lists, at : Nat, pass : Nat, index : Nat]
        /\ poll.at = 0 /\ poll.pass = 0 /\ poll.index = 0
    BY DEF Init
  <2>2. Len(poll.list) \in Nat
    BY <2>1 DEF Lists
  <2>. QED  BY <2>1, <2>2 DEF HelperOK, Transports
<1>7. CallOK
  BY <1>n, <1>w DEF CallOK
<1>8. Resources
  <2>1. usb.st = "none"
    BY <1>2
  <2>2. held = {} /\ fds = {} /\ tcp = [st |-> "none", at |-> 0, socket |-> 0]
    BY DEF Init, UsbInitially, TcpInitially, NoSocket
  <2>3. tcp.st = "none"
    BY <2>2
  <2>. QED  BY <2>1, <2>2, <2>3 DEF Resources
<1>9. Picked
  <2>1. id.serial = ""
    BY DEF Init, UsbInitially
  <2>. QED  BY <2>1 DEF Picked
<1>10. Waits /\ UsbSaw /\ TcpSaw
  <2>1. poll.at = 0 /\ poll.index = 0 /\ saw["usb"] = "nothing" /\ saw["tcp"] = "nothing"
    BY <1>k, <1>w DEF Init
  <2>. QED  BY <1>n, <1>w, <2>1 DEF Waits, UsbSaw, TcpSaw
<1>u. Upto(0) = <<>>
  <2>1. Upto(0) \in Seq(Nat) /\ Len(Upto(0)) = 0
    BY UptoSeq
  <2>. QED  BY <2>1, EmptySeq
<1>11. UsbIntact
  <2>1. usb.incoming = <<>> /\ usb.offset = 0 /\ handed["usb"] = <<>> /\ taken["usb"] = 0 /\ ~Filling
    BY <1>2, <1>k, <1>n, <1>w DEF Filling
  <2>2. 0 + (0 - 0) = 0 /\ 0 + 1 .. 0 = {}
    OBVIOUS
  <2>. QED  BY <1>e, <1>u, <2>1, <2>2 DEF UsbIntact
<1>12. TcpIntact
  BY <1>k, <1>u, <1>w DEF TcpIntact
<1>13. Written
  <2>1. \A t \in Kinds : reached[t] = <<>> /\ wrote[t] = 0
    BY <1>w
  <2>2. \A t \in Kinds : Rest(t) = 0
    BY <1>n, <1>w DEF Rest, In
  <2>3. 0 - 0 = 0
    OBVIOUS
  <2>. QED  BY <1>u, <2>1, <2>2, <2>3 DEF Written
<1>. QED
  BY <1>1, <1>3, <1>4, <1>5, <1>6, <1>7, <1>8, <1>9, <1>10, <1>11, <1>12, <1>13 DEF PollInv

\* Every step keeps the types, and what was opened.
LEMMA ObjectStep ==
  ASSUME WireOK, UsbOK, BusOK, TcpOK, CallOK, Resources, Picked, [Next]_vars
  PROVE  WireOK' /\ UsbOK' /\ BusOK' /\ TcpOK' /\ CallOK' /\ Resources' /\ Picked'
<1>. DEFINE G == WireOK' /\ UsbOK' /\ BusOK' /\ TcpOK' /\ CallOK' /\ Resources' /\ Picked'
<1>b. ASSUME UNCHANGED <<busVars, held, tcpVars>>, usb'.st = usb.st
      PROVE  BusOK' /\ TcpOK' /\ Resources' /\ Picked'
  BY <1>b DEF busVars, tcpVars, BusOK, TcpOK, Resources, Picked
<1>t. ASSUME UNCHANGED <<call, sent, taken, ended, handed, readFailed, wrote, reached, writeFailed, saw>>,
             answer' \in {"none", answer}
      PROVE  WireOK' /\ CallOK'
  BY <1>t DEF WireOK, CallOK
<1>1. CASE Looks
  <2>1. UNCHANGED <<busVars, held, tcpVars>> /\ usb' = usb
    BY <1>1 DEF Looks, usbVars
  <2>. QED  BY <1>1, <1>b, <1>t, <2>1 DEF Looks, UsbOK
<1>2. CASE UsbObject /\ UNCHANGED tcpVars
  <2>1. UsbOK' /\ BusOK' /\ Resources' /\ Picked'
    BY <1>2, UsbObjectKeeps
  <2>2. WireOK' /\ CallOK'
    BY <1>2, <1>t, ObjectsLeaveWire
  <2>3. TcpOK'
    BY <1>2 DEF TcpOK, tcpVars
  <2>. QED  BY <2>1, <2>2, <2>3
<1>3. CASE TcpObject /\ UNCHANGED usbVars
  <2>1. TcpOK' /\ Resources'
    BY <1>3, TcpObjectKeeps
  <2>2. WireOK' /\ CallOK'
    BY <1>3, <1>t, ObjectsLeaveWire
  <2>3. UsbOK' /\ BusOK' /\ Picked'
    BY <1>3 DEF UsbOK, BusOK, Picked, usbVars, busVars
  <2>. QED  BY <2>1, <2>2, <2>3
<1>4. CASE (UsbCalls \/ UsbGoesOn \/ UsbBreaks) /\ UNCHANGED tcpVars
  <2>1. UsbTypes' /\ usb'.st = usb.st /\ UNCHANGED <<busVars, held>>
    BY <1>4, UsbCallsTypes, UsbGoesOnTypes DEF UsbTypes
  <2>. QED  BY <1>4, <1>b, <2>1 DEF UsbTypes
<1>5. CASE (TcpCalls \/ TcpGoesOn \/ TcpBreaks) /\ UNCHANGED usbVars
  <2>1. WireOK' /\ CallOK' /\ UNCHANGED tcpVars
    BY <1>5, TcpTypes
  <2>. QED  BY <1>5, <1>b, <2>1 DEF UsbOK, usbVars
<1>6. CASE (\E t \in Kinds : DeviceSends(t) \/ DeviceEnds(t)) /\ UNCHANGED <<usbVars, tcpVars>>
  <2>1. WireOK' /\ CallOK'
    BY <1>6, DevicesTypes
  <2>. QED  BY <1>6, <1>b, <2>1 DEF UsbOK, usbVars
<1>. QED  BY <1>1, <1>2, <1>3, <1>4, <1>5, <1>6, WireSteps

LEMMA PollStep == PollInv /\ [Next]_vars => PollInv'
<1>. SUFFICES ASSUME PollInv, [Next]_vars PROVE PollInv'
  OBVIOUS
<1>. USE DEF PollInv
<1>1. WireOK' /\ UsbOK' /\ BusOK' /\ TcpOK' /\ CallOK' /\ Resources' /\ Picked'
  BY ObjectStep
<1>2. HelperOK' /\ Waits'
  BY WaitsStep
<1>3. UsbSaw' /\ TcpSaw'
  BY UsbSawStep, TcpSawStep
<1>4. UsbIntact' /\ TcpIntact' /\ Written'
  BY UsbIntactStep, TcpIntactStep, WrittenStep
<1>. QED  BY <1>1, <1>2, <1>3, <1>4

\* The transports and the helper keep the invariant: what libusb and the system gave
\* out, what is in the receive buffer and what a wait has seen agree with each other
\* at every moment (UsbTransport, TcpTransport, wait_readable).
THEOREM PollInvariance == Spec => []PollInv
BY PollInit, PollStep, PTL DEF Spec

-----------------------------------------------------------------------------
(* What follows from it.                                                    *)

\* The states of the transports and of the helper have their types.
THEOREM PollTypeCorrect == Spec => []TypeOK
<1>1. PollInv => TypeOK
  <2>. SUFFICES ASSUME PollInv PROVE TypeOK
    OBVIOUS
  <2>1. WireTypeOK
    <3>1. \A t \in Kinds : taken[t] \in 0 .. sent[t]
      BY DEF PollInv, WireOK
    <3>. QED  BY <3>1 DEF PollInv, WireOK, WireTypeOK, Calls
  <2>2. usb.incoming \in Seq(Nat) /\ usb.offset \in 0 .. Len(usb.incoming)
    <3>1. usb.incoming \in Seq(Nat) /\ usb.offset \in Nat /\ usb.offset <= Len(usb.incoming)
      BY DEF PollInv, UsbOK
    <3>2. Len(usb.incoming) \in Nat
      BY <3>1, LenProperties
    <3>. QED  BY <3>1, <3>2
  <2>3. tcp.at \in 0 .. Len(addrs) + 1 /\ fds \subseteq 1 .. Len(addrs)
    <3>1. tcp.at \in Nat /\ tcp.at <= Len(addrs) + 1 /\ fds \subseteq 1 .. Len(addrs) /\ Len(addrs) \in Nat
      BY LenProperties DEF PollInv, TcpOK
    <3>. QED  BY <3>1
  <2>4. poll \in [list : Lists, at : 0 .. Len(Transports) + 1, pass : 0 .. Rounds, index : 0 .. Len(Transports)]
    <3>1. /\ poll = [list |-> poll.list, at |-> poll.at, pass |-> poll.pass, index |-> poll.index]
          /\ poll.list \in Lists /\ poll.at \in Nat /\ poll.pass \in Nat /\ poll.index \in Nat
          /\ poll.at <= Len(poll.list) + 1 /\ poll.pass <= Rounds /\ poll.index <= Len(poll.list)
          /\ Len(poll.list) \in Nat
      BY HelperFields DEF PollInv
    <3>2. poll.at \in 0 .. Len(poll.list) + 1 /\ poll.pass \in 0 .. Rounds /\ poll.index \in 0 .. Len(poll.list)
      BY <3>1, PollAssumption
    <3>. QED  BY <3>1, <3>2 DEF Transports
  <2>. QED  BY <2>1, <2>2, <2>3, <2>4 DEF TypeOK, PollInv, BusOK
<1>. QED  BY <1>1, PollInvariance, PTL

\* All that open took is given back, however far it came: the context, the device
\* list, the handle and the claim of libusb, and the socket of every address
\* (UsbTransport::open, close and ~Impl, TcpTransport::open, close and ~Impl).
THEOREM NothingIsLeaked == Spec => []NothingLeaks
<1>1. PollInv => NothingLeaks
  BY DEF PollInv, Resources, NothingLeaks
<1>. QED  BY <1>1, PollInvariance, PTL

\* For any devices on the bus, and while they come and go: the device that was picked
\* by its serial is the one that is opened (list, find_device, open).
THEOREM PickedIsOpened == Spec => []OpensTheOnePicked
<1>1. PollInv => OpensTheOnePicked
  BY DEF PollInv, Picked, OpensTheOnePicked
<1>. QED  BY <1>1, PollInvariance, PTL

\* Bytes that a wait saw are there for the next read, which does not wait for the
\* device; the read of a TCP peer that was seen to close does not wait either, and
\* the helper names a transport that said yes, for any size of the buffer and of the
\* reads.  What follows an empty USB packet is not part of it (wait_readable, read).
THEOREM SeenIsRead == Spec => []ReadableIsRead
<1>1. PollInv => ReadableIsRead
  <2>. SUFFICES ASSUME PollInv PROVE ReadableIsRead
    OBVIOUS
  <2>1. \A t \in Kinds : saw[t] = "bytes" => Arrived(t)
    BY DEF PollInv, UsbSaw, TcpSaw, Arrived, Kinds
  <2>2. ~(In("usb", "read") /\ saw["usb"] = "bytes")
    BY DEF PollInv, UsbSaw, Filling, In
  <2>3. saw["tcp"] # "nothing" => ~Silent("tcp")
    BY DEF PollInv, TcpSaw
  <2>4. poll.index # 0 => saw[Transports[poll.index]] # "nothing"
    BY DEF PollInv, Waits
  <2>. QED  BY <2>1, <2>2, <2>3, <2>4 DEF ReadableIsRead
<1>. QED  BY <1>1, PollInvariance, PTL

-----------------------------------------------------------------------------
(* The four directions are byte channels.                                   *)

\* A read that hands out something of the USB device's.
LEMMA UsbLeaves ==
  ASSUME PollInv, PollInv', sent' = sent, readFailed' = readFailed,
         Len(handed'["usb"]) > Len(handed["usb"])
  PROVE  UsbIn!Next
<1>1. CASE readFailed["usb"]
  BY <1>1 DEF UsbIn!Next, UsbIn!AfterFailure
<1>2. CASE ~readFailed["usb"]
  <2>. DEFINE h == Len(handed'["usb"])
  <2>1. handed'["usb"] = Upto(h) /\ (~Filling' => h + (Len(usb'.incoming) - usb'.offset) = taken'["usb"])
        /\ (Filling' => h = taken'["usb"])
    BY <1>2 DEF PollInv, UsbIntact
  <2>2. /\ Len(usb'.incoming) \in Nat /\ usb'.offset \in Nat /\ usb'.offset <= Len(usb'.incoming)
        /\ h \in Nat /\ taken'["usb"] \in Nat /\ sent'["usb"] \in Nat /\ taken'["usb"] <= sent'["usb"]
    BY LenProperties DEF PollInv, UsbOK, WireOK, Kinds
  <2>. HIDE DEF h
  <2>3. h <= sent["usb"]
    BY <2>1, <2>2
  <2>. QED  BY <1>2, <2>1, <2>3 DEF UsbIn!Next, UsbIn!Leave, Upto, h
<1>. QED  BY <1>1, <1>2

LEMMA HandOutGrows ==
  ASSUME WireOK, UsbOK, NEW buf \in Seq(Nat), NEW o \in Nat, o < Len(buf), NEW n \in Nat, n > 0,
         HandOut(buf, o, n)
  PROVE  Len(handed'["usb"]) > Len(handed["usb"])
<1>1. Len(buf) \in Nat /\ Len(handed["usb"]) \in Nat
  BY LenProperties DEF WireOK, Kinds
<1>2. o <= Len(buf)
  BY <1>1
<1>. DEFINE k == Least(n, Len(buf) - o)
<1>4. k \in Nat /\ Len(handed'["usb"]) = Len(handed["usb"]) + k
  BY <1>2, HandOutOK
<1>5. k > 0
  BY <1>1 DEF Least
<1>. HIDE DEF k
<1>. QED  BY <1>1, <1>4, <1>5

LEMMA UsbInStep ==
  ASSUME PollInv, PollInv', [Next]_vars
  PROVE  [UsbIn!Next]_<<sent["usb"], handed["usb"], readFailed["usb"]>>
<1>. USE UsbAssumption
<1>. DEFINE G == [UsbIn!Next]_<<sent["usb"], handed["usb"], readFailed["usb"]>>
<1>u. /\ "usb" \in Kinds /\ sent \in [Kinds -> Nat] /\ sent["usb"] \in Nat /\ call.n \in Nat
      /\ handed \in [Kinds -> Seq(Nat)] /\ readFailed \in [Kinds -> BOOLEAN]
  BY DEF PollInv, WireOK, Kinds, Calls
<1>1. CASE QuietUsbIn
  BY <1>1 DEF QuietUsbIn
<1>2. CASE DeviceSends("usb")
  <2>1. sent'["usb"] = sent["usb"] + 1 /\ UNCHANGED <<handed, readFailed>>
    BY <1>2, <1>u DEF DeviceSends, inVars
  <2>2. sent'["usb"] > sent["usb"]
    BY <1>u, <2>1
  <2>. QED  BY <2>1, <2>2 DEF UsbIn!Next, UsbIn!Enter
<1>3. CASE UsbHandsOut /\ sent' = sent
  <2>1. PICK n \in 1 .. MaxRead : HandOut(usb.incoming, usb.offset, n)
    BY <1>3 DEF UsbHandsOut
  <2>2. /\ usb.incoming \in Seq(Nat) /\ usb.offset \in Nat /\ usb.offset < Len(usb.incoming)
        /\ n \in Nat /\ n > 0 /\ WireOK /\ UsbOK
    BY <1>3 DEF PollInv, UsbOK, UsbHandsOut, Buffered
  <2>3. Len(handed'["usb"]) > Len(handed["usb"])
    BY <2>1, <2>2, HandOutGrows
  <2>. QED  BY <1>3, <2>3, UsbLeaves DEF UsbHandsOut
<1>4. CASE (UsbStartsFilling \/ UsbEmpty) /\ sent' = sent
  BY <1>4 DEF UsbStartsFilling, UsbEmpty
<1>5. CASE UsbReadMoves
  <2>1. PICK k \in 1 .. BufferSize : Transfer(k) /\ HandOut(Packet(k), 0, call.n)
    BY <1>5 DEF UsbReadMoves
  <2>2. Packet(k) \in Seq(Nat) /\ Len(Packet(k)) = k /\ WireOK /\ UsbOK
    BY <2>1, TransferOK DEF PollInv
  <2>3. 0 < Len(Packet(k)) /\ call.n > 0
    BY <1>5, <2>2 DEF UsbReadMoves, In, PollInv, CallOK
  <2>4. Len(handed'["usb"]) > Len(handed["usb"])
    BY <1>u, <2>1, <2>2, <2>3, HandOutGrows
  <2>. QED  BY <1>5, <2>4, UsbLeaves DEF UsbReadMoves
<1>6. CASE UsbWaitMoves \/ UsbWaitTimesOut
  BY <1>6 DEF UsbWaitMoves, UsbWaitTimesOut, UsbWaitFails
<1>7. CASE readFailed'["usb"] = TRUE /\ UNCHANGED <<sent, handed>>
  BY <1>7 DEF UsbIn!Next, UsbIn!Fail
<1>. QED  BY <1>1, <1>2, <1>3, <1>4, <1>5, <1>6, <1>7, UsbInSteps DEF PollInv

LEMMA TcpInStep ==
  ASSUME PollInv, PollInv', [Next]_vars
  PROVE  [TcpIn!Next]_<<sent["tcp"], handed["tcp"], FALSE>>
<1>u. /\ "tcp" \in Kinds /\ sent \in [Kinds -> Nat] /\ sent["tcp"] \in Nat /\ call.n \in Nat
      /\ taken \in [Kinds -> Nat] /\ taken["tcp"] \in Nat
  BY DEF PollInv, WireOK, Kinds, Calls
<1>1. CASE QuietTcpIn
  BY <1>1 DEF QuietTcpIn
<1>2. CASE DeviceSends("tcp")
  <2>1. sent'["tcp"] = sent["tcp"] + 1 /\ handed' = handed
    BY <1>2, <1>u DEF DeviceSends, inVars
  <2>2. sent'["tcp"] > sent["tcp"]
    BY <1>u, <2>1
  <2>. QED  BY <2>1, <2>2 DEF TcpIn!Next, TcpIn!Enter
<1>3. CASE TcpReadMoves
  <2>1. PICK k \in 1 .. Least(call.n, sent["tcp"] - taken["tcp"]) : taken' = [taken EXCEPT !["tcp"] = @ + k]
    BY <1>3 DEF TcpReadMoves
  <2>2. k \in Nat /\ k > 0 /\ taken["tcp"] + k \in Nat
    BY <1>u DEF Least
  <2>3. taken'["tcp"] = taken["tcp"] + k /\ sent' = sent
    BY <1>3, <1>u, <2>1 DEF TcpReadMoves
  <2>4. handed["tcp"] = Upto(taken["tcp"]) /\ handed'["tcp"] = Upto(taken'["tcp"]) /\ taken'["tcp"] <= sent["tcp"]
    BY <1>u, <2>3 DEF PollInv, TcpIntact, WireOK
  <2>5. Len(handed["tcp"]) = taken["tcp"] /\ Len(handed'["tcp"]) = taken["tcp"] + k
    BY <1>u, <2>2, <2>3, <2>4, UptoSeq
  <2>6. Len(handed'["tcp"]) > Len(handed["tcp"]) /\ Len(handed'["tcp"]) <= sent["tcp"]
    BY <1>u, <2>2, <2>3, <2>4, <2>5
  <2>7. handed'["tcp"] = [i \in 1 .. Len(handed'["tcp"]) |-> i]
    BY <2>3, <2>4, <2>5 DEF Upto
  <2>. QED  BY <2>3, <2>6, <2>7 DEF TcpIn!Next, TcpIn!Leave
<1>. QED  BY <1>1, <1>2, <1>3, TcpInSteps DEF PollInv

\* What read hands out is what the device sent, in order and complete, for any sizes
\* of buffer, packets and reads, and whatever is found by a wait in between
\* (UsbTransport::read and wait_readable, TcpTransport::read).
THEOREM ReadsAreChannels == Spec => InSpec
<1>1. Init => UsbIn!Init /\ TcpIn!Init
  BY DEF Init, WireInit, Kinds, UsbIn!Init, TcpIn!Init
<1>2. PollInv /\ PollInv' /\ [Next]_vars =>
        /\ [UsbIn!Next]_<<sent["usb"], handed["usb"], readFailed["usb"]>>
        /\ [TcpIn!Next]_<<sent["tcp"], handed["tcp"], FALSE>>
  BY UsbInStep, TcpInStep
<1>. QED  BY <1>1, <1>2, PollInvariance, PTL DEF Spec, InSpec, UsbIn!Spec, TcpIn!Spec

\* The bytes of a write that reach the device follow the ones before.
LEMMA WriteExtends ==
  ASSUME PollInv, NEW x \in Kinds, NEW k \in 1 .. MaxBytes, In(x, "write"), k <= call.n,
         reached' = [reached EXCEPT ![x] = @ \o Bytes(wrote[x] - call.n, wrote[x] - call.n + k)],
         ~writeFailed[x]
  PROVE  /\ reached'[x] = [i \in 1 .. Len(reached'[x]) |-> i]
         /\ Len(reached'[x]) > Len(reached[x]) /\ Len(reached'[x]) <= wrote[x]
<1>. USE WireAssumption
<1>. DEFINE w == wrote[x] - call.n
            b == Bytes(w, w + k)
<1>1. /\ wrote[x] \in Nat /\ call.n \in Nat /\ call.n <= wrote[x] /\ k \in Nat /\ k > 0
      /\ reached \in [Kinds -> Seq(Nat)]
  BY DEF PollInv, WireOK, Calls, In, CallOK
<1>2. w \in Nat /\ w + k \in Nat /\ w + k <= wrote[x]
  BY <1>1
<1>3. reached[x] = Upto(w)
  BY DEF PollInv, Written, Rest
<1>4. reached'[x] = reached[x] \o b
  BY <1>1
<1>. HIDE DEF w
<1>5. b \in Seq(Nat) /\ Len(b) = k /\ \A i \in 1 .. k : b[i] = w + i
  BY <1>1, <1>2, BytesSeq
<1>. HIDE DEF b
<1>6. Upto(w) \o b = Upto(w + k)
  BY <1>1, <1>2, <1>5, UptoGrows
<1>7. reached'[x] = Upto(w + k) /\ Len(reached'[x]) = w + k /\ Len(reached[x]) = w
  BY <1>2, <1>3, <1>4, <1>6, UptoSeq
<1>8. Len(reached'[x]) > Len(reached[x]) /\ Len(reached'[x]) <= wrote[x]
  <2>1. w + k > w
    BY <1>1, <1>2
  <2>. QED  BY <1>2, <1>7, <2>1
<1>9. reached'[x] = [i \in 1 .. Len(reached'[x]) |-> i]
  BY <1>7 DEF Upto
<1>. QED  BY <1>8, <1>9

LEMMA UsbOutStep ==
  ASSUME PollInv, [Next]_vars
  PROVE  [UsbOut!Next]_<<wrote["usb"], reached["usb"], writeFailed["usb"]>>
<1>. USE WireAssumption
<1>u. /\ "usb" \in Kinds /\ wrote \in [Kinds -> Nat] /\ wrote["usb"] \in Nat /\ call.n \in Nat
      /\ reached \in [Kinds -> Seq(Nat)] /\ writeFailed \in [Kinds -> BOOLEAN]
  BY DEF PollInv, WireOK, Kinds, Calls
<1>1. CASE QuietOut
  BY <1>1 DEF QuietOut
<1>2. ASSUME NEW n \in 1 .. MaxBytes, UsbWrite(n) PROVE UsbOut!Next
  <2>1. n \in Nat /\ n > 0 /\ wrote'["usb"] = wrote["usb"] + n /\ UNCHANGED <<reached, writeFailed>>
    BY <1>2, <1>u DEF UsbWrite
  <2>2. wrote'["usb"] > wrote["usb"]
    BY <1>u, <2>1
  <2>. QED  BY <2>1, <2>2 DEF UsbOut!Next, UsbOut!Enter
<1>3. CASE TcpWriteFails \/ (\E n \in 1 .. MaxBytes : TcpWrite(n)) \/ \E k \in 1 .. MaxBytes : TcpWriteMoves(k)
  BY <1>3, <1>u DEF TcpWriteFails, TcpWrite, TcpWriteMoves
<1>4. CASE UsbWriteFails
  BY <1>4, <1>u DEF UsbWriteFails, UsbOut!Next, UsbOut!Fail
<1>5. ASSUME NEW k \in 1 .. MaxBytes, UsbWriteMoves(k) PROVE UsbOut!Next
  <2>1. /\ In("usb", "write") /\ k <= call.n /\ wrote' = wrote
        /\ reached' = [reached EXCEPT !["usb"] = @ \o Bytes(wrote["usb"] - call.n, wrote["usb"] - call.n + k)]
        /\ writeFailed'["usb"] = (writeFailed["usb"] \/ WriteIsShort(k))
    BY <1>5, <1>u DEF UsbWriteMoves
  <2>2. CASE writeFailed["usb"]
    BY <2>1, <2>2 DEF UsbOut!Next, UsbOut!AfterFailure
  <2>3. CASE ~writeFailed["usb"]
    <3>1. /\ reached'["usb"] = [i \in 1 .. Len(reached'["usb"]) |-> i]
          /\ Len(reached'["usb"]) > Len(reached["usb"]) /\ Len(reached'["usb"]) <= wrote["usb"]
      BY <1>u, <2>1, <2>3, WriteExtends
    <3>2. CASE WriteIsShort(k)
      BY <2>1, <3>1, <3>2 DEF UsbOut!Next, UsbOut!FailHalfWay
    <3>3. CASE ~WriteIsShort(k)
      <4>1. writeFailed'["usb"] = writeFailed["usb"]
        BY <1>u, <2>1, <2>3, <3>3
      <4>. QED  BY <2>1, <3>1, <4>1 DEF UsbOut!Next, UsbOut!Leave
    <3>. QED  BY <3>2, <3>3
  <2>. QED  BY <2>2, <2>3
<1>. QED  BY <1>1, <1>2, <1>3, <1>4, <1>5, OutSteps DEF PollInv

LEMMA TcpOutStep ==
  ASSUME PollInv, [Next]_vars
  PROVE  [TcpOut!Next]_<<wrote["tcp"], reached["tcp"], writeFailed["tcp"]>>
<1>. USE WireAssumption
<1>u. /\ "tcp" \in Kinds /\ wrote \in [Kinds -> Nat] /\ wrote["tcp"] \in Nat /\ call.n \in Nat
      /\ reached \in [Kinds -> Seq(Nat)] /\ writeFailed \in [Kinds -> BOOLEAN]
  BY DEF PollInv, WireOK, Kinds, Calls
<1>1. CASE QuietOut
  BY <1>1 DEF QuietOut
<1>2. ASSUME NEW n \in 1 .. MaxBytes, TcpWrite(n) PROVE TcpOut!Next
  <2>1. n \in Nat /\ n > 0 /\ wrote'["tcp"] = wrote["tcp"] + n /\ UNCHANGED <<reached, writeFailed>>
    BY <1>2, <1>u DEF TcpWrite
  <2>2. wrote'["tcp"] > wrote["tcp"]
    BY <1>u, <2>1
  <2>. QED  BY <2>1, <2>2 DEF TcpOut!Next, TcpOut!Enter
<1>3. CASE UsbWriteFails \/ (\E n \in 1 .. MaxBytes : UsbWrite(n)) \/ \E k \in 1 .. MaxBytes : UsbWriteMoves(k)
  BY <1>3, <1>u DEF UsbWriteFails, UsbWrite, UsbWriteMoves
<1>4. CASE TcpWriteFails
  BY <1>4, <1>u DEF TcpWriteFails, TcpOut!Next, TcpOut!Fail
<1>5. ASSUME NEW k \in 1 .. MaxBytes, TcpWriteMoves(k) PROVE TcpOut!Next
  <2>1. /\ In("tcp", "write") /\ k <= call.n /\ wrote' = wrote /\ writeFailed' = writeFailed
        /\ reached' = [reached EXCEPT !["tcp"] = @ \o Bytes(wrote["tcp"] - call.n, wrote["tcp"] - call.n + k)]
    BY <1>5 DEF TcpWriteMoves
  <2>2. CASE writeFailed["tcp"]
    BY <2>1, <2>2 DEF TcpOut!Next, TcpOut!AfterFailure
  <2>3. CASE ~writeFailed["tcp"]
    <3>1. /\ reached'["tcp"] = [i \in 1 .. Len(reached'["tcp"]) |-> i]
          /\ Len(reached'["tcp"]) > Len(reached["tcp"]) /\ Len(reached'["tcp"]) <= wrote["tcp"]
      BY <1>u, <2>1, <2>3, WriteExtends
    <3>. QED  BY <2>1, <3>1 DEF TcpOut!Next, TcpOut!Leave
  <2>. QED  BY <2>2, <2>3
<1>. QED  BY <1>1, <1>2, <1>3, <1>4, <1>5, OutSteps DEF PollInv

\* The device gets what was written, without gaps or repetition, until a write has
\* failed, and a write that reports success has reached it to the last byte, for any
\* sizes and however often a send or a transfer is short or times out
\* (UsbTransport::write, TcpTransport::write).
THEOREM WritesAreChannels == Spec => OutSpec
<1>. DEFINE AllReached == \A t \in Kinds : call = NoCall /\ ~writeFailed[t] => Len(reached[t]) = wrote[t]
<1>1. Init => UsbOut!Init /\ TcpOut!Init
  BY DEF Init, WireInit, Kinds, UsbOut!Init, TcpOut!Init
<1>2. PollInv /\ [Next]_vars =>
        /\ [UsbOut!Next]_<<wrote["usb"], reached["usb"], writeFailed["usb"]>>
        /\ [TcpOut!Next]_<<wrote["tcp"], reached["tcp"], writeFailed["tcp"]>>
  BY UsbOutStep, TcpOutStep
<1>3. PollInv => AllReached
  <2>. SUFFICES ASSUME PollInv, NEW t \in Kinds, call = NoCall, ~writeFailed[t]
                PROVE  Len(reached[t]) = wrote[t]
    OBVIOUS
  <2>1. wrote[t] \in Nat /\ Rest(t) = 0
    BY NoCallOK DEF PollInv, WireOK, Rest, In
  <2>2. reached[t] = Upto(wrote[t])
    <3>1. wrote[t] - 0 = wrote[t]
      BY <2>1
    <3>. QED  BY <2>1, <3>1 DEF PollInv, Written
  <2>. QED  BY <2>1, <2>2, UptoSeq
<1>. HIDE DEF AllReached
<1>4. Spec => UsbOut!Spec /\ TcpOut!Spec /\ []AllReached
  BY <1>1, <1>2, <1>3, PollInvariance, PTL DEF Spec, UsbOut!Spec, TcpOut!Spec
<1>. QED  BY <1>4 DEF OutSpec, AllReached

=============================================================================
