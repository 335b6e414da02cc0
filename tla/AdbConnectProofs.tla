--------------------------- MODULE AdbConnectProofs ---------------------------
(***************************************************************************)
(* Proofs about AdbConnect: the handshake and connect_with_retry, for any  *)
(* number of attempts, calls and tokens and for any choice of faults.      *)
(***************************************************************************)
EXTENDS AdbConnect, SequenceTheorems, TLAPS

-----------------------------------------------------------------------------
(* The inductive invariant.                                                 *)

Frames == [cmd : {"CNXN", "AUTH", "OTHER"},
           type : {"plain", "delayed_ack", "token", "signature", "key", "none"},
           val : Nat]

Connections == [open : BOOLEAN, delayed : BOOLEAN, requested : BOOLEAN]

DeviceViews == [state : {"offline", "challenged", "prompt", "online"},
                delayed : BOOLEAN, token : Nat,
                unknown : BOOLEAN, prompted : BOOLEAN]

\* Type correctness of connect_with_retry, of connect and of the device.
ConnectTypeOK ==
  /\ opts \in [signer : BOOLEAN, key : BOOLEAN, advertise : BOOLEAN]
  /\ device \in [secure : BOOLEAN, delayed : BOOLEAN]
  /\ pc \in {"idle", "loop", "opening", "connect", "hello", "signed", "offered"}
  /\ attempt \in Nat /\ calls \in Nat
  /\ transport \in {"none", "open", "closed"}
  /\ toDevice \in Seq(Frames) /\ toHost \in Seq(Frames)
  /\ conn \in Connections
  /\ result \in {"none", "connected", "failed"}
  /\ knows \in BOOLEAN /\ knew \in BOOLEAN
  /\ dev \in DeviceViews
  /\ hit \in SUBSET Nat

\* The transport is open while connect runs and as long as the connection it
\* returned is, and at no other time.
TransportInUse == transport = "open" <=> pc = "connect" \/ Receiving \/ Established

\* connect starts on a transport nothing was sent on.
FreshStart ==
  pc = "connect" => /\ toDevice = <<>> /\ toHost = <<>>
                    /\ dev = Offline /\ conn = NewConnection

\* The frame connect has sent and the device has not taken.
Asked ==
  LET f == toDevice[1]
  IN  \/ pc = "hello" /\ f.cmd = "CNXN" /\ dev = Offline
         /\ (f.type = "delayed_ack" <=> opts.advertise)
      \/ pc = "signed" /\ f.cmd = "AUTH" /\ f.type = "signature" /\ f.val = dev.token
         /\ dev.state = "challenged"
      \/ pc = "offered" /\ f.cmd = "AUTH" /\ f.type = "key"
         /\ dev.state = "challenged" /\ (opts.signer => dev.unknown)

Unanswered == \A i \in 1 .. Len(toHost) : toHost[i].cmd = "OTHER"

\* Question and answer alternate: connect has sent at most one frame the device
\* has not taken, and the device at most one answer connect has not taken.
Alternation ==
  Receiving =>
    /\ Len(toDevice) <= 1
    /\ toDevice # <<>> => Asked /\ Unanswered
    /\ dev.state = "prompt" => pc = "offered" /\ toDevice = <<>> /\ Unanswered
    /\ \A i, j \in 1 .. Len(toHost) :
         toHost[i].cmd # "OTHER" /\ toHost[j].cmd # "OTHER" => i = j

\* What an answer says is still so when connect takes it.
AnswersTrue ==
  Receiving =>
    \A i \in 1 .. Len(toHost) :
      /\ toHost[i].cmd = "CNXN" => /\ dev.state = "online"
                                   /\ toHost[i].type = "delayed_ack" <=> device.delayed
      /\ toHost[i].cmd = "AUTH" => /\ dev.state = "challenged"
                                   /\ toHost[i].val = dev.token

\* What each side knows of the other while connect receives.
ViewsAgree ==
  Receiving =>
    /\ conn.open
    /\ conn.requested <=> pc = "offered"
    /\ dev.state # "offline" => (dev.delayed <=> device.delayed /\ opts.advertise)
    /\ pc # "offered" => ~dev.prompted
    /\ pc = "offered" /\ toDevice = <<>> => dev.prompted
    /\ pc = "signed" /\ toDevice = <<>> /\ dev.state = "challenged" => dev.unknown

\* A connection that was handed out.
HandedOut ==
  Established => /\ dev.state = "online" /\ toDevice = <<>>
                 /\ conn.delayed <=> dev.delayed
                 /\ conn.requested <=> dev.prompted

\* The device lets the host in without asking its user.
Easy == ~device.secure \/ (knew /\ opts.signer)

\* Such a device never makes connect offer the key.
EasyHandshake ==
  Easy /\ Receiving =>
    /\ pc # "offered"
    /\ ~device.secure => pc = "hello"
    /\ pc = "signed" \/ ~device.secure =>
         \A i \in 1 .. Len(toHost) : toHost[i].cmd # "AUTH"

\* The attempts that are over, and what ended them.
AttemptsCounted ==
  /\ knew => knows
  /\ pc # "idle" => result = "none" /\ attempt <= Attempts
  /\ pc \notin {"idle", "loop"} => attempt < Attempts
  /\ pc # "idle" /\ Easy => hit = 0 .. attempt - 1
  /\ result = "failed" /\ Easy => hit = 0 .. Attempts - 1

ConnectInv ==
  /\ ConnectTypeOK
  /\ TransportInUse
  /\ FreshStart
  /\ Alternation
  /\ AnswersTrue
  /\ ViewsAgree
  /\ HandedOut
  /\ PromptOnlyForUnknownKey
  /\ EasyHandshake
  /\ AttemptsCounted

-----------------------------------------------------------------------------
(* Facts the steps have in common.                                          *)

\* Appending a frame: the old frames stay where they are, the new one is last.
LEMMA AppendFrame ==
  ASSUME NEW s \in Seq(Frames), NEW f \in Frames
  PROVE  /\ Append(s, f) \in Seq(Frames)
         /\ Len(Append(s, f)) = Len(s) + 1
         /\ \A i \in 1 .. Len(s) : Append(s, f)[i] = s[i]
         /\ Append(s, f)[Len(s) + 1] = f
OBVIOUS

\* Taking the first frame: every other one moves up by one place.
LEMMA TakeFrame ==
  ASSUME NEW s \in Seq(Frames), s # <<>>
  PROVE  /\ Len(s) \in Nat /\ Len(s) >= 1
         /\ Head(s) = s[1] /\ s[1] \in Frames
         /\ Tail(s) \in Seq(Frames)
         /\ Len(Tail(s)) = Len(s) - 1
         /\ \A i \in 1 .. Len(Tail(s)) : Tail(s)[i] = s[i + 1]
<1>1. Len(s) \in Nat /\ Len(s) >= 1
  BY EmptySeq, LenProperties
<1>. QED  BY <1>1, HeadTailProperties, ElementOfSeq

\* What a frame the code or the device builds is.
LEMMA FrameType ==
  ASSUME NEW cmd \in {"CNXN", "AUTH", "OTHER"},
         NEW type \in {"plain", "delayed_ack", "token", "signature", "key", "none"},
         NEW val \in Nat
  PROVE  /\ Frame(cmd, type, val) \in Frames
         /\ Frame(cmd, type, val).cmd = cmd
         /\ Frame(cmd, type, val).type = type
         /\ Frame(cmd, type, val).val = val
BY DEF Frame, Frames

\* The fresh values of a Connection and of the device's view.
LEMMA FreshValues ==
  /\ NewConnection \in Connections /\ NewConnection.open
  /\ ~NewConnection.requested
  /\ NoConnection \in Connections /\ ~NoConnection.open
  /\ Offline \in DeviceViews /\ ~Offline.prompted /\ Offline.state = "offline"
BY DEF NewConnection, NoConnection, Connections, Offline, DeviceViews

LEMMA ConnectInit == Init => ConnectInv
<1>. SUFFICES ASSUME Init PROVE ConnectInv
  OBVIOUS
<1>0. conn \in Connections /\ dev \in DeviceViews
  BY FreshValues, Zenon DEF Init
<1>a. /\ pc \in {"idle", "loop", "opening", "connect", "hello", "signed", "offered"}
      /\ attempt \in Nat /\ calls \in Nat /\ hit \in SUBSET Nat
      /\ transport \in {"none", "open", "closed"}
      /\ toDevice \in Seq(Frames) /\ toHost \in Seq(Frames)
  BY DEF Init
<1>b. /\ opts \in [signer : BOOLEAN, key : BOOLEAN, advertise : BOOLEAN]
      /\ device \in [secure : BOOLEAN, delayed : BOOLEAN]
      /\ result \in {"none", "connected", "failed"} /\ knows \in BOOLEAN /\ knew \in BOOLEAN
  BY DEF Init
<1>1. ConnectTypeOK
  BY <1>0, <1>a, <1>b DEF ConnectTypeOK
<1>2. pc = "idle" /\ ~conn.open /\ ~dev.prompted /\ ~knew /\ result = "none" /\ transport = "none"
  BY DEF Init, NoConnection, NewConnection, Offline
<1>. QED  BY <1>1, <1>2 DEF ConnectInv, TransportInUse, FreshStart, Alternation, AnswersTrue,
            ViewsAgree, HandedOut, PromptOnlyForUnknownKey, EasyHandshake, AttemptsCounted,
            Receiving, Established

-----------------------------------------------------------------------------
(* connect_with_retry, the loop, and close.                                 *)

LEMMA LoopKeepsInv ==
  ASSUME ConnectInv, Call \/ NextAttempt \/ GiveUp \/ OpenFails \/ OpenSucceeds \/ Close
  PROVE  ConnectInv'
<1>. USE ConnectAssumption
<1>t. ConnectTypeOK
  BY DEF ConnectInv
<1>1. CASE Call
  <2>1. ConnectTypeOK'
    BY <1>1, <1>t DEF Call, ConnectTypeOK, devVars
  <2>2. pc' = "loop" /\ pc = "idle" /\ ~conn.open /\ UNCHANGED <<transport, conn, dev, opts, knows>>
    BY <1>1 DEF Call, devVars
  <2>3. TransportInUse'
    BY <2>2 DEF ConnectInv, TransportInUse, Receiving, Established
  <2>4. (FreshStart /\ Alternation /\ AnswersTrue /\ ViewsAgree /\ HandedOut /\ EasyHandshake)'
    BY <2>2 DEF FreshStart, Alternation, AnswersTrue, ViewsAgree, HandedOut, EasyHandshake,
                Receiving, Established
  <2>5. AttemptsCounted'
    BY <1>1, <1>t DEF Call, AttemptsCounted, ConnectTypeOK, devVars
  <2>6. PromptOnlyForUnknownKey'
    BY <2>2 DEF ConnectInv, PromptOnlyForUnknownKey
  <2>. QED  BY <2>1, <2>3, <2>4, <2>5, <2>6 DEF ConnectInv
<1>2. CASE NextAttempt
  <2>1. ConnectTypeOK'
    BY <1>2, <1>t DEF NextAttempt, ConnectTypeOK, devVars
  <2>2. pc' = "opening" /\ pc = "loop" /\ UNCHANGED <<transport, conn, dev, opts, knows, knew, hit, attempt, result, device>>
    BY <1>2 DEF NextAttempt, devVars
  <2>3. TransportInUse'
    BY <2>2 DEF ConnectInv, TransportInUse, Receiving, Established
  <2>4. (FreshStart /\ Alternation /\ AnswersTrue /\ ViewsAgree /\ HandedOut /\ EasyHandshake)'
    BY <2>2 DEF FreshStart, Alternation, AnswersTrue, ViewsAgree, HandedOut, EasyHandshake,
                Receiving, Established
  <2>5. AttemptsCounted'
    BY <1>2, <1>t, <2>2 DEF ConnectInv, NextAttempt, MoreAttempts, AttemptsCounted, Easy
  <2>6. PromptOnlyForUnknownKey'
    BY <2>2 DEF ConnectInv, PromptOnlyForUnknownKey
  <2>. QED  BY <2>1, <2>3, <2>4, <2>5, <2>6 DEF ConnectInv
<1>3. CASE GiveUp
  <2>1. ConnectTypeOK'
    BY <1>3, <1>t, ZenonT(30) DEF GiveUp, ConnectTypeOK, devVars, NoConnection, NewConnection, Connections
  <2>2. /\ pc' = "idle" /\ pc = "loop" /\ ~conn'.open /\ result' = "failed" /\ ~(attempt < Attempts)
        /\ UNCHANGED <<transport, dev, opts, knows, knew, hit, attempt, device>>
    BY <1>3 DEF GiveUp, devVars, NoConnection, NewConnection, MoreAttempts
  <2>3. TransportInUse'
    BY <2>2 DEF ConnectInv, TransportInUse, Receiving, Established
  <2>4. (FreshStart /\ Alternation /\ AnswersTrue /\ ViewsAgree /\ HandedOut /\ EasyHandshake)'
    BY <2>2 DEF FreshStart, Alternation, AnswersTrue, ViewsAgree, HandedOut, EasyHandshake,
                Receiving, Established
  <2>5. attempt = Attempts
    BY <1>t, <2>2 DEF ConnectInv, AttemptsCounted, ConnectTypeOK
  <2>6. AttemptsCounted'
    BY <2>2, <2>5 DEF ConnectInv, AttemptsCounted, Easy
  <2>7. PromptOnlyForUnknownKey'
    BY <2>2 DEF ConnectInv, PromptOnlyForUnknownKey
  <2>. QED  BY <2>1, <2>3, <2>4, <2>6, <2>7 DEF ConnectInv
<1>4. CASE OpenFails
  <2>1. ConnectTypeOK'
    BY <1>4, <1>t DEF OpenFails, Fault, AttemptFailed, ConnectTypeOK, devVars
  <2>2. /\ pc' = "loop" /\ pc = "opening" /\ attempt' = attempt + 1 /\ hit' = hit \cup {attempt}
        /\ UNCHANGED <<transport, conn, dev, opts, knows, knew, result, device>>
    BY <1>4 DEF OpenFails, Fault, AttemptFailed, devVars
  <2>3. TransportInUse'
    BY <2>2 DEF ConnectInv, TransportInUse, Receiving, Established
  <2>4. (FreshStart /\ Alternation /\ AnswersTrue /\ ViewsAgree /\ HandedOut /\ EasyHandshake)'
    BY <2>2 DEF FreshStart, Alternation, AnswersTrue, ViewsAgree, HandedOut, EasyHandshake,
                Receiving, Established
  <2>5. AttemptsCounted'
    BY <1>t, <2>2 DEF ConnectInv, AttemptsCounted, Easy, ConnectTypeOK
  <2>6. PromptOnlyForUnknownKey'
    BY <2>2 DEF ConnectInv, PromptOnlyForUnknownKey
  <2>. QED  BY <2>1, <2>3, <2>4, <2>5, <2>6 DEF ConnectInv
<1>5. CASE OpenSucceeds
  <2>1. ConnectTypeOK'
    BY <1>5, <1>t DEF OpenSucceeds, ConnectTypeOK, NewConnection, Connections, Offline, DeviceViews
  <2>2. /\ pc' = "connect" /\ pc = "opening" /\ transport' = "open" /\ dev' = Offline
        /\ conn' = NewConnection /\ toDevice' = <<>> /\ toHost' = <<>>
        /\ UNCHANGED <<opts, knows, knew, result, device, attempt, hit>>
    BY <1>5 DEF OpenSucceeds
  <2>3. (TransportInUse /\ FreshStart)'
    BY <2>2 DEF TransportInUse, FreshStart, NewConnection, Offline
  <2>4. (Alternation /\ AnswersTrue /\ ViewsAgree /\ HandedOut /\ EasyHandshake)'
    BY <2>2 DEF Alternation, AnswersTrue, ViewsAgree, HandedOut, EasyHandshake,
                Receiving, Established
  <2>5. AttemptsCounted'
    BY <2>2 DEF ConnectInv, AttemptsCounted, Easy
  <2>6. PromptOnlyForUnknownKey'
    BY <2>2 DEF PromptOnlyForUnknownKey, Offline
  <2>. QED  BY <2>1, <2>3, <2>4, <2>5, <2>6 DEF ConnectInv
<1>6. CASE Close
  <2>1. ConnectTypeOK'
    BY <1>6, <1>t, ZenonT(30) DEF Close, ConnectTypeOK, devVars, Connections
  <2>2. /\ pc' = "idle" /\ pc = "idle" /\ transport' = "closed" /\ ~conn'.open
        /\ UNCHANGED <<dev, opts, knows, knew, result, device, attempt, hit>>
    BY <1>6, <1>t DEF Close, devVars, ConnectTypeOK, Connections
  <2>3. TransportInUse'
    BY <2>2 DEF TransportInUse, Receiving, Established
  <2>4. (FreshStart /\ Alternation /\ AnswersTrue /\ ViewsAgree /\ HandedOut /\ EasyHandshake)'
    BY <2>2 DEF FreshStart, Alternation, AnswersTrue, ViewsAgree, HandedOut, EasyHandshake,
                Receiving, Established
  <2>5. AttemptsCounted'
    BY <2>2 DEF ConnectInv, AttemptsCounted, Easy
  <2>6. PromptOnlyForUnknownKey'
    BY <2>2 DEF ConnectInv, PromptOnlyForUnknownKey
  <2>. QED  BY <2>1, <2>3, <2>4, <2>5, <2>6 DEF ConnectInv
<1>. QED  BY <1>1, <1>2, <1>3, <1>4, <1>5, <1>6

-----------------------------------------------------------------------------
(* Connection::connect.                                                     *)

\* An attempt that fails leaves no handshake behind, and costs one attempt; that a
\* fault is the cause is left to the caller of the lemma.
LEMMA FailedAttemptKeepsInv ==
  ASSUME ConnectInv, pc = "connect" \/ Receiving, ConnectFails,
         toHost' \in Seq(Frames),
         hit' = hit \/ hit' = hit \cup {attempt},
         Easy => hit' = hit \cup {attempt}
  PROVE  ConnectInv'
<1>. USE ConnectAssumption
<1>t. ConnectTypeOK
  BY DEF ConnectInv
<1>1. /\ pc' = "loop" /\ transport' = "none" /\ attempt' = attempt + 1 /\ ~conn'.open
      /\ UNCHANGED <<opts, device, dev, knows, knew, result>>
  BY FreshValues DEF ConnectFails, TransportReset, AttemptFailed, devVars
<1>2. ConnectTypeOK'
  <2>1. conn' \in Connections
    BY FreshValues, Zenon DEF ConnectFails
  <2>2. hit' \in SUBSET Nat
    BY <1>t DEF ConnectTypeOK
  <2>3. calls' = calls /\ toDevice' = toDevice
    BY DEF ConnectFails
  <2>. QED  BY <1>t, <1>1, <2>1, <2>2, <2>3 DEF ConnectFails, ConnectTypeOK
<1>3. TransportInUse'
  BY <1>1 DEF TransportInUse, Receiving, Established
<1>4. (FreshStart /\ Alternation /\ AnswersTrue /\ ViewsAgree /\ HandedOut /\ EasyHandshake)'
  BY <1>1 DEF FreshStart, Alternation, AnswersTrue, ViewsAgree, HandedOut, EasyHandshake,
              Receiving, Established
<1>5. AttemptsCounted'
  <2>1. attempt \in Nat /\ attempt < Attempts /\ result = "none"
    BY <1>t DEF ConnectInv, AttemptsCounted, ConnectTypeOK, Receiving
  <2>2. Easy' <=> Easy
    BY <1>1 DEF Easy
  <2>3. Easy => hit' = 0 .. attempt' - 1
    <3>. SUFFICES ASSUME Easy PROVE hit' = 0 .. attempt' - 1
      OBVIOUS
    <3>1. hit = 0 .. attempt - 1 /\ hit' = hit \cup {attempt}
      BY DEF ConnectInv, AttemptsCounted, Receiving
    <3>. QED  BY <3>1, <2>1, <1>1
  <2>. QED  BY <1>1, <2>1, <2>2, <2>3 DEF ConnectInv, AttemptsCounted
<1>6. PromptOnlyForUnknownKey'
  BY <1>1 DEF ConnectInv, PromptOnlyForUnknownKey
<1>. QED  BY <1>2, <1>3, <1>4, <1>5, <1>6 DEF ConnectInv

\* connect receives a frame: it was the first on the way.
LEMMA ReceivedFrame ==
  ASSUME ConnectTypeOK, NEW cmd, Received(cmd)
  PROVE  /\ Len(toHost) \in Nat /\ Len(toHost) >= 1
         /\ Head(toHost) = toHost[1] /\ toHost[1] \in Frames /\ toHost[1].cmd = cmd
         /\ toHost' \in Seq(Frames)
         /\ Len(toHost') = Len(toHost) - 1
         /\ \A i \in 1 .. Len(toHost') : toHost'[i] = toHost[i + 1]
BY TakeFrame DEF Received, ConnectTypeOK

LEMMA FailuresKeepInv ==
  ASSUME ConnectInv, ReceiveUnexpected \/ SendFails \/ ReceiveFails
  PROVE  ConnectInv'
<1>t. ConnectTypeOK
  BY DEF ConnectInv
<1>1. CASE pc = "offered" /\ Received("AUTH") /\ ConnectFails /\ UNCHANGED hit
  <2>1. Receiving /\ ~Easy
    BY <1>1 DEF ConnectInv, EasyHandshake, Receiving
  <2>. QED  BY <1>1, <1>t, <2>1, ReceivedFrame, FailedAttemptKeepsInv
<1>2. CASE Received("OTHER") /\ ConnectFails /\ hit' = hit \cup {attempt}
  <2>1. Receiving
    BY <1>2 DEF Received
  <2>. QED  BY <1>2, <1>t, <2>1, ReceivedFrame, FailedAttemptKeepsInv
<1>3. CASE SendFails
  <2>1. /\ pc = "connect" \/ Receiving
        /\ hit' = hit \cup {attempt}
        /\ ConnectFails /\ toHost' \in Seq(Frames)
    BY <1>3, <1>t DEF SendFails, Fault, Receiving, ConnectTypeOK
  <2>. QED  BY <1>3, <2>1, FailedAttemptKeepsInv DEF SendFails, Fault
<1>4. CASE ReceiveFails
  BY <1>4, <1>t, FailedAttemptKeepsInv DEF ReceiveFails, Fault, ConnectTypeOK
<1>. QED  BY <1>1, <1>2, <1>3, <1>4 DEF ReceiveUnexpected

LEMMA SendCnxnKeepsInv ==
  ASSUME ConnectInv, SendCnxn
  PROVE  ConnectInv'
<1>. USE ConnectAssumption
<1>t. ConnectTypeOK
  BY DEF ConnectInv
<1>1. /\ pc = "connect" /\ pc' = "hello" /\ toDevice' = Append(toDevice, Cnxn)
      /\ UNCHANGED <<opts, device, dev, knows, knew, result, attempt, hit, calls, transport,
                     conn, toHost>>
  BY DEF SendCnxn, SendThen, devVars
<1>2. toDevice = <<>> /\ toHost = <<>> /\ dev = Offline /\ conn = NewConnection
  BY <1>1 DEF ConnectInv, FreshStart
<1>3. /\ Cnxn \in Frames /\ Cnxn.cmd = "CNXN"
      /\ Cnxn.type = "delayed_ack" <=> opts.advertise
  <2>. DEFINE type == IF opts.advertise THEN "delayed_ack" ELSE "plain"
  <2>1. type \in {"plain", "delayed_ack"} /\ (type = "delayed_ack" <=> opts.advertise)
    OBVIOUS
  <2>2. Cnxn = Frame("CNXN", type, 0)
    BY DEF Cnxn
  <2>. QED  BY <2>1, <2>2, FrameType
<1>4. toDevice' \in Seq(Frames) /\ Len(toDevice') = 1 /\ toDevice'[1] = Cnxn
  BY <1>1, <1>2, <1>3, <1>t, AppendFrame DEF ConnectTypeOK
<1>5. ConnectTypeOK'
  BY <1>t, <1>1, <1>4 DEF ConnectTypeOK
<1>6. (TransportInUse /\ FreshStart /\ HandedOut)'
  BY <1>1 DEF ConnectInv, TransportInUse, FreshStart, HandedOut, Receiving, Established
<1>7. Len(toHost') = 0
  BY <1>1, <1>2
<1>8. Asked'
  BY <1>1, <1>2, <1>3, <1>4 DEF Asked
<1>9. (Alternation /\ AnswersTrue /\ EasyHandshake)'
  BY <1>1, <1>2, <1>4, <1>7, <1>8, FreshValues
     DEF Alternation, AnswersTrue, EasyHandshake, Receiving, Unanswered
<1>10. ViewsAgree'
  BY <1>1, <1>2, FreshValues DEF ViewsAgree, Receiving
<1>11. (AttemptsCounted /\ PromptOnlyForUnknownKey)'
  BY <1>1 DEF ConnectInv, AttemptsCounted, PromptOnlyForUnknownKey, Easy
<1>. QED  BY <1>5, <1>6, <1>9, <1>10, <1>11 DEF ConnectInv

\* connect takes an AUTH: it is the only answer, the device waits for the reply.
LEMMA TokenTaken ==
  ASSUME ConnectInv, Received("AUTH")
  PROVE  /\ Receiving /\ toDevice = <<>> /\ dev.state = "challenged"
         /\ Head(toHost) = toHost[1] /\ toHost[1].val = dev.token
         /\ toHost' \in Seq(Frames)
         /\ \A i \in 1 .. Len(toHost') : toHost'[i].cmd = "OTHER"
<1>t. ConnectTypeOK
  BY DEF ConnectInv
<1>1. Receiving
  BY DEF Received
<1>2. /\ Len(toHost) \in Nat /\ Len(toHost) >= 1
      /\ Head(toHost) = toHost[1] /\ toHost[1] \in Frames /\ toHost[1].cmd = "AUTH"
      /\ toHost' \in Seq(Frames)
      /\ Len(toHost') = Len(toHost) - 1
      /\ \A i \in 1 .. Len(toHost') : toHost'[i] = toHost[i + 1]
  BY <1>t, ReceivedFrame
<1>3. 1 \in 1 .. Len(toHost)
  BY <1>2
<1>4. toDevice = <<>>
  BY <1>1, <1>2, <1>3 DEF ConnectInv, Alternation, Unanswered
<1>5. dev.state = "challenged" /\ toHost[1].val = dev.token
  BY <1>1, <1>2, <1>3 DEF ConnectInv, AnswersTrue
<1>6. ASSUME NEW i \in 1 .. Len(toHost') PROVE toHost'[i].cmd = "OTHER"
  <2>1. i + 1 \in 1 .. Len(toHost) /\ i + 1 # 1 /\ toHost'[i] = toHost[i + 1]
    BY <1>2
  <2>. QED  BY <1>1, <1>2, <1>3, <2>1 DEF ConnectInv, Alternation
<1>. QED  BY <1>1, <1>2, <1>4, <1>5, <1>6

LEMMA ReceiveTokenKeepsInv ==
  ASSUME ConnectInv, ReceiveToken
  PROVE  ConnectInv'
<1>t. ConnectTypeOK
  BY DEF ConnectInv
<1>. DEFINE f == make_auth("signature", Signature(Head(toHost).val))
<1>1. /\ pc = "hello" /\ opts.signer /\ pc' = "signed" /\ toDevice' = Append(toDevice, f)
      /\ Received("AUTH")
      /\ UNCHANGED <<opts, device, dev, knows, knew, result, attempt, hit, calls, transport, conn>>
  BY DEF ReceiveToken, Signs, SendThen, devVars
<1>2. /\ Receiving /\ toDevice = <<>> /\ dev.state = "challenged"
      /\ Head(toHost) = toHost[1] /\ toHost[1].val = dev.token
      /\ toHost' \in Seq(Frames)
      /\ \A i \in 1 .. Len(toHost') : toHost'[i].cmd = "OTHER"
  BY <1>1, TokenTaken
<1>3. dev.token \in Nat
  BY <1>t DEF ConnectTypeOK, DeviceViews
<1>4. f \in Frames /\ f.cmd = "AUTH" /\ f.type = "signature" /\ f.val = dev.token
  BY <1>2, <1>3, FrameType DEF make_auth, Signature
<1>. HIDE DEF f
<1>5. toDevice' \in Seq(Frames) /\ Len(toDevice') = 1 /\ toDevice'[1] = f
  BY <1>1, <1>2, <1>4, <1>t, AppendFrame DEF ConnectTypeOK
<1>6. ConnectTypeOK'
  BY <1>t, <1>1, <1>2, <1>5 DEF ConnectTypeOK
<1>7. (TransportInUse /\ FreshStart /\ HandedOut)'
  BY <1>1, <1>2 DEF ConnectInv, TransportInUse, FreshStart, HandedOut, Receiving, Established
<1>8. Asked'
  BY <1>1, <1>2, <1>4, <1>5 DEF Asked
<1>9. (Alternation /\ AnswersTrue)'
  BY <1>1, <1>2, <1>5, <1>8 DEF Alternation, AnswersTrue, Receiving, Unanswered
<1>10. ViewsAgree'
  BY <1>1, <1>2, <1>5 DEF ConnectInv, ViewsAgree, Receiving
<1>11. EasyHandshake'
  <2>1. 1 \in 1 .. Len(toHost) /\ toHost[1].cmd = "AUTH"
    BY <1>1, <1>t, ReceivedFrame
  <2>2. Easy => device.secure
    BY <1>2, <2>1 DEF ConnectInv, EasyHandshake
  <2>. QED  BY <1>1, <1>2, <2>2 DEF EasyHandshake, Easy, Receiving
<1>12. (AttemptsCounted /\ PromptOnlyForUnknownKey)'
  BY <1>1 DEF ConnectInv, AttemptsCounted, PromptOnlyForUnknownKey, Easy
<1>. QED  BY <1>6, <1>7, <1>9, <1>10, <1>11, <1>12 DEF ConnectInv

LEMMA ReceiveRejectionKeepsInv ==
  ASSUME ConnectInv, ReceiveRejection
  PROVE  ConnectInv'
<1>t. ConnectTypeOK
  BY DEF ConnectInv
<1>1. ~Signs /\ pc # "offered" /\ Received("AUTH")
  BY DEF ReceiveRejection
<1>2. /\ Receiving /\ toDevice = <<>> /\ dev.state = "challenged"
      /\ toHost' \in Seq(Frames)
      /\ \A i \in 1 .. Len(toHost') : toHost'[i].cmd = "OTHER"
  BY <1>1, TokenTaken
<1>3. ~Easy
  <2>1. 1 \in 1 .. Len(toHost) /\ toHost[1].cmd = "AUTH"
    BY <1>1, <1>t, ReceivedFrame
  <2>. QED  BY <1>1, <1>2, <2>1 DEF ConnectInv, EasyHandshake, Signs, Receiving, Easy
<1>4. CASE ~opts.key
  <2>1. ConnectFails /\ hit' = hit
    BY <1>4 DEF ReceiveRejection
  <2>. QED  BY <1>2, <1>3, <2>1, FailedAttemptKeepsInv
<1>5. CASE opts.key
  <2>. DEFINE f == make_auth("key", 0)
  <2>1. /\ pc' = "offered" /\ toDevice' = Append(toDevice, f) /\ conn' = Requested(conn)
        /\ UNCHANGED <<opts, device, dev, knows, knew, result, attempt, hit, calls, transport>>
    BY <1>5 DEF ReceiveRejection, SendThen, devVars
  <2>2. conn' \in Connections /\ conn'.requested /\ conn'.open = conn.open
    BY <2>1, <1>t DEF Requested, ConnectTypeOK, Connections
  <2>3. f \in Frames /\ f.cmd = "AUTH" /\ f.type = "key"
    BY FrameType DEF make_auth
  <2>. HIDE DEF f
  <2>4. toDevice' \in Seq(Frames) /\ Len(toDevice') = 1 /\ toDevice'[1] = f
    BY <1>2, <2>1, <2>3, <1>t, AppendFrame DEF ConnectTypeOK
  <2>5. ConnectTypeOK'
    BY <1>t, <1>2, <2>1, <2>2, <2>4 DEF ConnectTypeOK
  <2>6. (TransportInUse /\ FreshStart /\ HandedOut)'
    BY <1>2, <2>1 DEF ConnectInv, TransportInUse, FreshStart, HandedOut, Receiving, Established
  <2>7. opts.signer => dev.unknown
    BY <1>1, <1>2 DEF ConnectInv, ViewsAgree, Signs, Receiving
  <2>8. Asked'
    BY <1>2, <2>1, <2>3, <2>4, <2>7 DEF Asked
  <2>9. (Alternation /\ AnswersTrue)'
    BY <1>2, <2>1, <2>4, <2>8 DEF Alternation, AnswersTrue, Receiving, Unanswered
  <2>10. ViewsAgree'
    BY <1>2, <2>1, <2>2, <2>4 DEF ConnectInv, ViewsAgree, Receiving
  <2>11. EasyHandshake'
    BY <1>3, <2>1 DEF EasyHandshake, Easy
  <2>12. (AttemptsCounted /\ PromptOnlyForUnknownKey)'
    BY <1>2, <2>1 DEF ConnectInv, AttemptsCounted, PromptOnlyForUnknownKey, Easy, Receiving
  <2>. QED  BY <2>5, <2>6, <2>9, <2>10, <2>11, <2>12 DEF ConnectInv
<1>. QED  BY <1>4, <1>5

LEMMA ReceiveCnxnKeepsInv ==
  ASSUME ConnectInv, ReceiveCnxn
  PROVE  ConnectInv'
<1>t. ConnectTypeOK
  BY DEF ConnectInv
<1>1. Received("CNXN") /\ Receiving
  BY DEF ReceiveCnxn, Received
<1>2. /\ 1 \in 1 .. Len(toHost) /\ Head(toHost) = toHost[1] /\ toHost[1].cmd = "CNXN"
      /\ toHost' \in Seq(Frames)
  BY <1>1, <1>t, ReceivedFrame
<1>3. /\ pc' = "idle" /\ result' = "connected"
      /\ conn' = [conn EXCEPT !.delayed = Negotiated(toHost[1])]
      /\ UNCHANGED <<opts, device, dev, knows, knew, attempt, hit, calls, transport, toDevice>>
  BY <1>2 DEF ReceiveCnxn, Connected, devVars
<1>4. dev.state = "online" /\ (toHost[1].type = "delayed_ack" <=> device.delayed)
  BY <1>1, <1>2 DEF ConnectInv, AnswersTrue
<1>5. toDevice = <<>>
  BY <1>1, <1>2 DEF ConnectInv, Alternation, Unanswered
<1>6. Negotiated(toHost[1]) \in BOOLEAN /\ (Negotiated(toHost[1]) <=> dev.delayed)
  BY <1>1, <1>4, <1>t DEF ConnectInv, ViewsAgree, Negotiated, features_delayed_ack, ConnectTypeOK
<1>7. /\ conn' \in Connections /\ (conn'.delayed <=> dev.delayed)
      /\ conn'.requested = conn.requested /\ conn'.open = conn.open
  BY <1>3, <1>6, <1>t DEF ConnectTypeOK, Connections
<1>8. ConnectTypeOK'
  BY <1>t, <1>2, <1>3, <1>7 DEF ConnectTypeOK
<1>9. conn.open /\ (conn.requested <=> dev.prompted)
  BY <1>1, <1>5 DEF ConnectInv, ViewsAgree
<1>10. (TransportInUse /\ HandedOut)'
  BY <1>1, <1>3, <1>4, <1>5, <1>7, <1>9 DEF ConnectInv, TransportInUse, HandedOut, Established
<1>11. (FreshStart /\ Alternation /\ AnswersTrue /\ ViewsAgree /\ EasyHandshake)'
  BY <1>3 DEF FreshStart, Alternation, AnswersTrue, ViewsAgree, EasyHandshake, Receiving
<1>12. (AttemptsCounted /\ PromptOnlyForUnknownKey)'
  BY <1>3 DEF ConnectInv, AttemptsCounted, PromptOnlyForUnknownKey, Easy
<1>. QED  BY <1>8, <1>10, <1>11, <1>12 DEF ConnectInv

-----------------------------------------------------------------------------
(* The device.                                                              *)

\* The device takes a frame: connect is waiting for the answer, and the frame is
\* the only one.
LEMMA DeviceTakes ==
  ASSUME ConnectInv, NEW cmd, DeviceGets(cmd)
  PROVE  /\ Receiving /\ Asked /\ Unanswered /\ toDevice' = <<>>
         /\ Head(toDevice) = toDevice[1] /\ toDevice[1].cmd = cmd
<1>t. ConnectTypeOK
  BY DEF ConnectInv
<1>1. transport = "open" /\ toDevice # <<>> /\ Head(toDevice).cmd = cmd /\ toDevice' = Tail(toDevice)
  BY DEF DeviceGets
<1>2. Receiving
  BY <1>1 DEF ConnectInv, TransportInUse, FreshStart, HandedOut
<1>3. Asked /\ Unanswered /\ Len(toDevice) <= 1
  BY <1>1, <1>2 DEF ConnectInv, Alternation
<1>4. /\ Head(toDevice) = toDevice[1] /\ Len(toDevice) \in Nat /\ Len(toDevice) >= 1
      /\ Tail(toDevice) \in Seq(Frames) /\ Len(Tail(toDevice)) = Len(toDevice) - 1
  BY <1>1, <1>t, TakeFrame DEF ConnectTypeOK
<1>5. Tail(toDevice) = <<>>
  BY <1>3, <1>4, EmptySeq
<1>. QED  BY <1>1, <1>2, <1>3, <1>4, <1>5

\* The device answers a question nobody has answered: with one answer, which says
\* what is so.  This is what Accept, Challenge and DeviceGetsKey have in common.
LEMMA AnswerKeepsInv ==
  ASSUME ConnectInv, Receiving, Unanswered, toDevice' = <<>>,
         UNCHANGED <<hostVars, device>>,
         knows' \in BOOLEAN, knows => knows',
         dev' \in DeviceViews, NEW f \in Frames,
         toHost' = Append(toHost, f),
         \/ f.cmd = "CNXN" /\ dev'.state = "online" /\ (f.type = "delayed_ack" <=> device.delayed)
         \/ f.cmd = "AUTH" /\ dev'.state = "challenged" /\ f.val = dev'.token
            /\ (pc = "signed" => dev'.unknown)
            /\ (Easy => device.secure /\ pc = "hello"),
         dev'.delayed <=> device.delayed /\ opts.advertise,
         dev'.prompted <=> pc = "offered",
         dev'.prompted /\ opts.signer => dev'.unknown
  PROVE  ConnectInv'
<1>t. ConnectTypeOK
  BY DEF ConnectInv
<1>1. UNCHANGED <<opts, pc, attempt, calls, transport, conn, result, hit, knew, device>>
  BY DEF hostVars
<1>2. /\ toHost' \in Seq(Frames) /\ Len(toHost) \in Nat /\ Len(toHost') = Len(toHost) + 1
      /\ \A i \in 1 .. Len(toHost) : toHost'[i] = toHost[i]
      /\ toHost'[Len(toHost) + 1] = f
  BY <1>t, AppendFrame DEF ConnectTypeOK
<1>3. \A i \in 1 .. Len(toHost') : i = Len(toHost) + 1 \/ toHost'[i].cmd = "OTHER"
  BY <1>2 DEF Unanswered
<1>4. ConnectTypeOK'
  BY <1>t, <1>1, <1>2 DEF ConnectTypeOK
<1>5. (TransportInUse /\ FreshStart /\ HandedOut)'
  BY <1>1 DEF ConnectInv, TransportInUse, FreshStart, HandedOut, Receiving, Established
<1>6. Alternation'
  BY <1>3 DEF Alternation
<1>7. AnswersTrue'
  BY <1>1, <1>2, <1>3 DEF AnswersTrue
<1>8. ViewsAgree'
  BY <1>1 DEF ConnectInv, ViewsAgree, Receiving
<1>9. EasyHandshake'
  BY <1>1, <1>2, <1>3 DEF ConnectInv, EasyHandshake, Receiving, Easy
<1>10. (AttemptsCounted /\ PromptOnlyForUnknownKey)'
  BY <1>1 DEF ConnectInv, AttemptsCounted, PromptOnlyForUnknownKey, Easy
<1>. QED  BY <1>4, <1>5, <1>6, <1>7, <1>8, <1>9, <1>10 DEF ConnectInv

\* The device lets the host in: with its banner.
LEMMA AcceptKeepsInv ==
  ASSUME ConnectInv, Receiving, Unanswered, toDevice' = <<>>,
         UNCHANGED <<hostVars, device>>, knows' \in BOOLEAN, knows => knows',
         NEW d \in DeviceViews, Accept(d),
         d.delayed <=> device.delayed /\ opts.advertise,
         d.prompted <=> pc = "offered",
         d.prompted /\ opts.signer => d.unknown
  PROVE  ConnectInv'
<1>1. Banner \in Frames /\ Banner.cmd = "CNXN" /\ (Banner.type = "delayed_ack" <=> device.delayed)
  <2>. DEFINE type == IF device.delayed THEN "delayed_ack" ELSE "plain"
  <2>1. type \in {"plain", "delayed_ack"} /\ (type = "delayed_ack" <=> device.delayed)
    OBVIOUS
  <2>2. Banner = Frame("CNXN", type, 0)
    BY DEF Banner
  <2>. QED  BY <2>1, <2>2, FrameType
<1>2. dev' = [d EXCEPT !.state = "online"] /\ toHost' = Append(toHost, Banner)
  BY DEF Accept, Reply
<1>3. /\ dev' \in DeviceViews /\ dev'.state = "online" /\ dev'.delayed = d.delayed
      /\ dev'.prompted = d.prompted /\ dev'.unknown = d.unknown
  BY <1>2 DEF DeviceViews
<1>. QED  BY <1>1, <1>2, <1>3, AnswerKeepsInv

\* The device challenges the host: with a token that is its latest.
LEMMA ChallengeKeepsInv ==
  ASSUME ConnectInv, Receiving, Unanswered, toDevice' = <<>>,
         UNCHANGED <<hostVars, device, knows>>,
         NEW d \in DeviceViews, Challenge(d),
         pc = "signed" => d.unknown,
         Easy => device.secure /\ pc = "hello",
         d.delayed <=> device.delayed /\ opts.advertise,
         d.prompted <=> pc = "offered",
         d.prompted /\ opts.signer => d.unknown
  PROVE  ConnectInv'
<1>. DEFINE f == make_auth("token", d.token + 1)
<1>1. dev' = [d EXCEPT !.state = "challenged", !.token = @ + 1] /\ toHost' = Append(toHost, f)
  BY DEF Challenge, Reply
<1>2. d.token + 1 \in Nat
  BY DEF DeviceViews
<1>3. f \in Frames /\ f.cmd = "AUTH" /\ f.val = d.token + 1
  BY <1>2, FrameType DEF make_auth
<1>4. /\ dev' \in DeviceViews /\ dev'.state = "challenged" /\ dev'.delayed = d.delayed
      /\ dev'.prompted = d.prompted /\ dev'.unknown = d.unknown /\ dev'.token = d.token + 1
  BY <1>1, <1>2 DEF DeviceViews
<1>5. knows' \in BOOLEAN /\ knows' = knows
  BY DEF ConnectInv, ConnectTypeOK
<1>. QED  BY <1>1, <1>3, <1>4, <1>5, AnswerKeepsInv

LEMMA DeviceGetsCnxnKeepsInv ==
  ASSUME ConnectInv, DeviceGetsCnxn
  PROVE  ConnectInv'
<1>t. ConnectTypeOK
  BY DEF ConnectInv
<1>. DEFINE d == [Offline EXCEPT !.delayed = device.delayed /\ Head(toDevice).type = "delayed_ack"]
<1>1. DeviceGets("CNXN") /\ UNCHANGED <<hostVars, device, knows>>
  BY DEF DeviceGetsCnxn, DeviceGets
<1>2. /\ Receiving /\ Asked /\ Unanswered /\ toDevice' = <<>>
      /\ Head(toDevice) = toDevice[1] /\ toDevice[1].cmd = "CNXN"
  BY <1>1, DeviceTakes
<1>3. pc = "hello" /\ (toDevice[1].type = "delayed_ack" <=> opts.advertise)
  BY <1>2 DEF Asked
<1>4. /\ d \in DeviceViews /\ ~d.prompted
      /\ d.delayed <=> device.delayed /\ opts.advertise
  BY <1>2, <1>3, <1>t DEF Offline, DeviceViews, ConnectTypeOK
<1>5. (device.secure /\ Challenge(d)) \/ Accept(d)
  BY DEF DeviceGetsCnxn
<1>6. knows \in BOOLEAN
  BY <1>t DEF ConnectTypeOK
<1>. HIDE DEF d
<1>7. CASE device.secure /\ Challenge(d)
  BY <1>1, <1>2, <1>3, <1>4, <1>7, ChallengeKeepsInv
<1>8. CASE Accept(d)
  BY <1>1, <1>2, <1>3, <1>4, <1>6, <1>8, AcceptKeepsInv
<1>. QED  BY <1>5, <1>7, <1>8

LEMMA DeviceGetsSignatureKeepsInv ==
  ASSUME ConnectInv, DeviceGetsSignature
  PROVE  ConnectInv'
<1>t. ConnectTypeOK
  BY DEF ConnectInv
<1>1. DeviceGets("AUTH") /\ Head(toDevice).type = "signature" /\ UNCHANGED <<hostVars, device, knows>>
  BY DEF DeviceGetsSignature, DeviceGets
<1>2. /\ Receiving /\ Asked /\ Unanswered /\ toDevice' = <<>>
      /\ Head(toDevice) = toDevice[1] /\ toDevice[1].cmd = "AUTH"
  BY <1>1, DeviceTakes
<1>3. pc = "signed" /\ toDevice[1].val = dev.token /\ dev.state = "challenged"
  BY <1>1, <1>2 DEF Asked
<1>4. (dev.delayed <=> device.delayed /\ opts.advertise) /\ ~dev.prompted
  BY <1>2, <1>3 DEF ConnectInv, ViewsAgree
<1>5. dev \in DeviceViews /\ knows \in BOOLEAN
  BY <1>t DEF ConnectTypeOK
<1>6. CASE knows
  <2>1. Accept(dev)
    BY <1>2, <1>3, <1>6 DEF DeviceGetsSignature
  <2>. QED  BY <1>1, <1>2, <1>3, <1>4, <1>5, <2>1, AcceptKeepsInv
<1>7. CASE ~knows
  <2>. DEFINE d == [dev EXCEPT !.unknown = TRUE]
  <2>1. Challenge(d)
    BY <1>2, <1>3, <1>7 DEF DeviceGetsSignature
  <2>2. d \in DeviceViews /\ d.unknown /\ d.delayed = dev.delayed /\ d.prompted = dev.prompted
    BY <1>5 DEF DeviceViews
  <2>3. ~Easy
    BY <1>2, <1>3, <1>7 DEF ConnectInv, EasyHandshake, AttemptsCounted, Easy
  <2>. HIDE DEF d
  <2>. QED  BY <1>1, <1>2, <1>3, <1>4, <2>1, <2>2, <2>3, ChallengeKeepsInv
<1>. QED  BY <1>6, <1>7

LEMMA DeviceGetsKeyKeepsInv ==
  ASSUME ConnectInv, DeviceGetsKey
  PROVE  ConnectInv'
<1>t. ConnectTypeOK
  BY DEF ConnectInv
<1>1. /\ DeviceGets("AUTH") /\ Head(toDevice).type = "key"
      /\ dev' = [dev EXCEPT !.state = "prompt", !.prompted = TRUE]
      /\ UNCHANGED <<opts, pc, attempt, calls, transport, conn, result, hit, knew, device, knows, toHost>>
  BY DEF DeviceGetsKey, DeviceGets, hostVars
<1>2. /\ Receiving /\ Asked /\ Unanswered /\ toDevice' = <<>>
      /\ Head(toDevice) = toDevice[1] /\ toDevice[1].cmd = "AUTH"
  BY <1>1, DeviceTakes
<1>3. pc = "offered" /\ dev.state = "challenged" /\ (opts.signer => dev.unknown)
  BY <1>1, <1>2 DEF Asked
<1>4. /\ dev' \in DeviceViews /\ dev'.state = "prompt" /\ dev'.prompted
      /\ dev'.unknown = dev.unknown /\ dev'.delayed = dev.delayed
  BY <1>1, <1>t DEF ConnectTypeOK, DeviceViews
<1>5. ConnectTypeOK'
  BY <1>t, <1>1, <1>2, <1>4 DEF ConnectTypeOK
<1>6. (TransportInUse /\ FreshStart /\ HandedOut)'
  BY <1>1, <1>2 DEF ConnectInv, TransportInUse, FreshStart, HandedOut, Receiving, Established
<1>7. (Alternation /\ AnswersTrue)'
  BY <1>1, <1>2, <1>3 DEF ConnectInv, Alternation, AnswersTrue, Receiving, Unanswered
<1>8. ViewsAgree'
  BY <1>1, <1>2, <1>3, <1>4 DEF ConnectInv, ViewsAgree, Receiving
<1>9. (EasyHandshake /\ AttemptsCounted)'
  BY <1>1 DEF ConnectInv, EasyHandshake, AttemptsCounted, Receiving, Easy
<1>10. PromptOnlyForUnknownKey'
  BY <1>1, <1>3, <1>4 DEF PromptOnlyForUnknownKey
<1>. QED  BY <1>5, <1>6, <1>7, <1>8, <1>9, <1>10 DEF ConnectInv

LEMMA DeviceChallengesAgainKeepsInv ==
  ASSUME ConnectInv, DeviceChallengesAgain
  PROVE  ConnectInv'
<1>t. ConnectTypeOK
  BY DEF ConnectInv
<1>1. /\ dev.state = "prompt" /\ transport = "open" /\ Challenge(dev)
      /\ UNCHANGED <<hostVars, toDevice, device, knows>>
  BY DEF DeviceChallengesAgain
<1>2. Receiving
  BY <1>1, FreshValues DEF ConnectInv, TransportInUse, FreshStart, HandedOut
<1>3. pc = "offered" /\ toDevice = <<>> /\ Unanswered
  BY <1>1, <1>2 DEF ConnectInv, Alternation
<1>4. (dev.delayed <=> device.delayed /\ opts.advertise) /\ dev.prompted /\ dev \in DeviceViews
  BY <1>1, <1>2, <1>3, <1>t DEF ConnectInv, ViewsAgree, ConnectTypeOK
<1>5. ~Easy
  BY <1>2, <1>3 DEF ConnectInv, EasyHandshake
<1>6. opts.signer => dev.unknown
  BY <1>4 DEF ConnectInv, PromptOnlyForUnknownKey
<1>. QED  BY <1>1, <1>2, <1>3, <1>4, <1>5, <1>6, ChallengeKeepsInv

LEMMA UserApprovesKeepsInv ==
  ASSUME ConnectInv, UserApproves
  PROVE  ConnectInv'
<1>t. ConnectTypeOK
  BY DEF ConnectInv
<1>1. dev.state = "prompt" /\ knows' = TRUE /\ UNCHANGED <<hostVars, toDevice, device>>
  BY DEF UserApproves
<1>2. CASE transport = "open"
  <2>1. Accept(dev)
    BY <1>2 DEF UserApproves
  <2>2. Receiving
    BY <1>1, <1>2, FreshValues DEF ConnectInv, TransportInUse, FreshStart, HandedOut
  <2>3. pc = "offered" /\ toDevice = <<>> /\ Unanswered
    BY <1>1, <2>2 DEF ConnectInv, Alternation
  <2>4. (dev.delayed <=> device.delayed /\ opts.advertise) /\ dev.prompted /\ dev \in DeviceViews
    BY <1>1, <2>2, <2>3, <1>t DEF ConnectInv, ViewsAgree, ConnectTypeOK
  <2>5. opts.signer => dev.unknown
    BY <2>4 DEF ConnectInv, PromptOnlyForUnknownKey
  <2>. QED  BY <1>1, <2>1, <2>2, <2>3, <2>4, <2>5, AcceptKeepsInv
<1>3. CASE transport # "open"
  <2>1. dev' = Offline /\ toHost' = toHost
    BY <1>3 DEF UserApproves
  <2>2. dev' \in DeviceViews /\ ~dev'.prompted
    BY <2>1, FreshValues
  <2>3. UNCHANGED <<opts, pc, attempt, calls, transport, conn, result, hit, knew, device, toDevice, toHost>>
    BY <1>1, <2>1 DEF hostVars
  <2>4. ConnectTypeOK'
    BY <1>t, <1>1, <2>2, <2>3 DEF ConnectTypeOK
  <2>5. pc # "connect" /\ ~Receiving /\ ~Established
    BY <1>3 DEF ConnectInv, TransportInUse
  <2>6. (TransportInUse /\ FreshStart /\ Alternation /\ AnswersTrue /\ ViewsAgree /\ HandedOut /\ EasyHandshake)'
    BY <1>3, <2>3, <2>5 DEF TransportInUse, FreshStart, Alternation, AnswersTrue, ViewsAgree,
                            HandedOut, EasyHandshake, Receiving, Established
  <2>7. (AttemptsCounted /\ PromptOnlyForUnknownKey)'
    BY <1>1, <2>2, <2>3 DEF ConnectInv, AttemptsCounted, PromptOnlyForUnknownKey, Easy
  <2>. QED  BY <2>4, <2>6, <2>7 DEF ConnectInv
<1>. QED  BY <1>2, <1>3

LEMMA DeviceStrayKeepsInv ==
  ASSUME ConnectInv, DeviceStray
  PROVE  ConnectInv'
<1>t. ConnectTypeOK
  BY DEF ConnectInv
<1>. DEFINE f == Frame("OTHER", "none", 0)
<1>1. /\ Receiving /\ toHost' = Append(toHost, f)
      /\ UNCHANGED <<opts, pc, attempt, calls, transport, conn, result, hit, knew, device, knows,
                     dev, toDevice>>
  BY DEF DeviceStray, Reply, hostVars, devVars
<1>2. f \in Frames /\ f.cmd = "OTHER"
  BY FrameType
<1>. HIDE DEF f
<1>3. /\ toHost' \in Seq(Frames) /\ Len(toHost) \in Nat /\ Len(toHost') = Len(toHost) + 1
      /\ \A i \in 1 .. Len(toHost) : toHost'[i] = toHost[i]
      /\ toHost'[Len(toHost) + 1] = f
  BY <1>t, <1>1, <1>2, AppendFrame DEF ConnectTypeOK
<1>4. \A i \in 1 .. Len(toHost') :
        toHost'[i].cmd = "OTHER" \/ (i \in 1 .. Len(toHost) /\ toHost'[i] = toHost[i])
  BY <1>2, <1>3
<1>5. ConnectTypeOK'
  BY <1>t, <1>1, <1>3 DEF ConnectTypeOK
<1>6. (TransportInUse /\ FreshStart /\ HandedOut)'
  BY <1>1 DEF ConnectInv, TransportInUse, FreshStart, HandedOut, Receiving, Established
<1>7. Unanswered => Unanswered'
  BY <1>4 DEF Unanswered
<1>8. Asked' <=> Asked
  BY <1>1 DEF Asked
<1>9. Alternation'
  BY <1>1, <1>4, <1>7, <1>8 DEF ConnectInv, Alternation, Receiving
<1>10. AnswersTrue'
  BY <1>1, <1>4 DEF ConnectInv, AnswersTrue, Receiving
<1>11. ViewsAgree'
  BY <1>1 DEF ConnectInv, ViewsAgree, Receiving
<1>12. EasyHandshake'
  BY <1>1, <1>4 DEF ConnectInv, EasyHandshake, Receiving, Easy
<1>13. (AttemptsCounted /\ PromptOnlyForUnknownKey)'
  BY <1>1 DEF ConnectInv, AttemptsCounted, PromptOnlyForUnknownKey, Easy
<1>. QED  BY <1>5, <1>6, <1>9, <1>10, <1>11, <1>12, <1>13 DEF ConnectInv

-----------------------------------------------------------------------------
(* The theorems.                                                            *)

LEMMA ConnectStep == ConnectInv /\ [Next]_vars => ConnectInv'
<1>. SUFFICES ASSUME ConnectInv, [Next]_vars PROVE ConnectInv'
  OBVIOUS
<1>1. CASE Call \/ Close
  BY <1>1, LoopKeepsInv
<1>2. CASE HostStep
  BY <1>2, LoopKeepsInv, SendCnxnKeepsInv, ReceiveTokenKeepsInv, ReceiveRejectionKeepsInv,
     ReceiveCnxnKeepsInv, FailuresKeepInv DEF HostStep
<1>3. CASE DeviceStep
  BY <1>3, DeviceGetsCnxnKeepsInv, DeviceGetsSignatureKeepsInv, DeviceGetsKeyKeepsInv,
     UserApprovesKeepsInv, DeviceChallengesAgainKeepsInv, DeviceStrayKeepsInv DEF DeviceStep
<1>4. CASE UNCHANGED vars
  BY <1>4 DEF vars, hostVars, devVars, ConnectInv, ConnectTypeOK, TransportInUse, FreshStart,
       Alternation, AnswersTrue, ViewsAgree, HandedOut, PromptOnlyForUnknownKey, EasyHandshake,
       AttemptsCounted, Asked, Unanswered, Receiving, Established, Easy
<1>. QED  BY <1>1, <1>2, <1>3, <1>4 DEF Next

\* The invariant of the handshake: question and answer alternate between connect and
\* the device, and every attempt that is over is counted (Connection::connect,
\* connect_with_retry).
THEOREM ConnectInvariance == Spec => []ConnectInv
BY ConnectInit, ConnectStep, PTL DEF Spec

\* A connection that is handed out is one the device has let in, over the transport
\* in the caller's optional, and both sides agree on delayed acknowledgements
\* (Connection::connect, connect_with_retry).
THEOREM HandshakeAgrees == Spec => []HandshakeAgreed
<1>1. ConnectInv => HandshakeAgreed
  BY DEF ConnectInv, ConnectTypeOK, Connections, DeviceViews, HandedOut, TransportInUse,
         HandshakeAgreed
<1>. QED  BY <1>1, ConnectInvariance, PTL

\* requested_authorization() is what the device's user saw (Connection::connect).
THEOREM AuthorizationIsReported == Spec => []AuthorizationReported
<1>1. ConnectInv => AuthorizationReported
  BY DEF ConnectInv, ConnectTypeOK, Connections, DeviceViews, HandedOut, AuthorizationReported
<1>. QED  BY <1>1, ConnectInvariance, PTL

\* The user of the device is asked only when the device did not know the key, however
\* often the handshake is repeated (Connection::connect).
THEOREM PromptsOnlyForUnknownKey == Spec => []PromptOnlyForUnknownKey
<1>1. ConnectInv => PromptOnlyForUnknownKey
  BY DEF ConnectInv
<1>. QED  BY <1>1, ConnectInvariance, PTL

\* No transport holds the device when the next one is opened (connect_with_retry,
\* Connection::close).
THEOREM DeviceIsFree == Spec => []DeviceFree
<1>1. ConnectInv => DeviceFree
  BY DEF ConnectInv, TransportInUse, DeviceFree, Receiving, Established
<1>. QED  BY <1>1, ConnectInvariance, PTL

\* When the device will let the host in without asking its user, connect_with_retry
\* fails only if each of its attempts met a fault, for any number of attempts
\* (connect_with_retry).
THEOREM FailsOnlyForCause == Spec => []FailsForCause
<1>1. ConnectInv => FailsForCause
  BY DEF ConnectInv, AttemptsCounted, Easy, FailsForCause
<1>. QED  BY <1>1, ConnectInvariance, PTL

=============================================================================
