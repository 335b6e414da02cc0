------------------------------ MODULE AdbConnect ------------------------------
(***************************************************************************)
(* The handshake, Connection::connect (src/connection.cpp), and the loop   *)
(* around it, connect_with_retry (include/adbcpp/connection.hpp), against  *)
(* the authentication of adbd (external).                                  *)
(*                                                                         *)
(* Every attempt has a new transport, whose channels start empty.  A call  *)
(* of connect_with_retry is several steps: the device, the user in front   *)
(* of it and the faults of the transport come in between.  The caller      *)
(* reconnects as documented: it closes the connection and calls again.     *)
(*                                                                         *)
(* Data.  A token is a number, a signature the token that was signed.  Of  *)
(* the banners only `delayed_ack' is kept.                                 *)
(***************************************************************************)
EXTENDS Naturals, Sequences

CONSTANTS
  Attempts,     \* the parameter attempts of connect_with_retry
  MaxCalls,     \* bound: calls of connect_with_retry
  MaxTokens,    \* bound: tokens the device makes up on one transport
  Faults        \* which of "open", "read", "write", "sign", "stray" may happen

ASSUME ConnectAssumption ==
  /\ Attempts \in Nat /\ MaxCalls \in Nat /\ MaxTokens \in Nat
  /\ Faults \subseteq {"open", "read", "write", "sign", "stray"}

VARIABLES
  opts,         \* the arguments: signer and public_key given?, advertise_delayed_ack
  device,       \* the device: wants authentication?, has delayed_ack?
  pc,           \* where connect_with_retry is, or "idle"
  attempt,      \* its loop counter
  calls,        \* calls so far
  transport,    \* the caller's optional<TransportT>: "none", "open", "closed"
  toDevice,     \* frames on the transport, to the device
  toHost,       \* and to the host
  conn,         \* the caller's Connection, and the one connect works on
  result,       \* what the last call returned
  knows,        \* the device has the host's key
  dev,          \* the device's view of the transport
  hit,          \* history: the attempts of the call that met a fault
  knew          \* history: the device had the key when the call began

hostVars == <<opts, pc, attempt, calls, transport, conn, result, hit, knew>>
devVars  == <<device, knows, dev>>
vars     == <<hostVars, toDevice, toHost, devVars>>

-----------------------------------------------------------------------------
\* A fresh Connection: the default member values.
NewConnection == [open |-> TRUE, delayed |-> FALSE, requested |-> FALSE]

NoConnection == [NewConnection EXCEPT !.open = FALSE]

Offline == [state |-> "offline", delayed |-> FALSE, token |-> 0,
            unknown |-> FALSE, prompted |-> FALSE]

Frame(cmd, type, val) == [cmd |-> cmd, type |-> type, val |-> val]

\* connect's CNXN; delayed_ack is in the banner when the caller asks for it.
Cnxn == Frame("CNXN", IF opts.advertise THEN "delayed_ack" ELSE "plain", 0)

make_auth(type, val) == Frame("AUTH", type, val)

\* Mutant: the token is not signed as it came.
SignatureOther(t) == t + 1

\* The signature of token t (Key::sign signs it as it is).
Signature(t) == t

-----------------------------------------------------------------------------
(* connect_with_retry: the loop.                                            *)

\* The call.  What the caller had before is closed.
Call ==
  /\ pc = "idle"
  /\ ~conn.open
  /\ calls < MaxCalls
  /\ calls' = calls + 1
  /\ attempt' = 0
  /\ hit' = {}
  /\ knew' = knows
  /\ pc' = "loop"
  /\ result' = "none"
  /\ UNCHANGED <<opts, transport, conn, toDevice, toHost, devVars>>

\* Mutant: the last attempt is not made.
MoreAttemptsShort == attempt + 1 < Attempts

MoreAttempts == attempt < Attempts

\* The condition of the loop, and the sleep before a later attempt.
NextAttempt ==
  /\ pc = "loop"
  /\ MoreAttempts
  /\ pc' = "opening"
  /\ UNCHANGED <<opts, attempt, calls, transport, conn, result, hit, knew,
                 toDevice, toHost, devVars>>

GiveUp ==
  /\ pc = "loop"
  /\ ~MoreAttempts
  /\ pc' = "idle"
  /\ conn' = NoConnection
  /\ result' = "failed"
  /\ UNCHANGED <<opts, attempt, calls, transport, hit, knew,
                 toDevice, toHost, devVars>>

\* Mutant: an attempt that failed is not counted.
AttemptFailedAgain == pc' = "loop" /\ UNCHANGED attempt

AttemptFailed == pc' = "loop" /\ attempt' = attempt + 1

\* A fault hits the attempt.
Fault(kind) == kind \in Faults /\ hit' = hit \cup {attempt}

OpenFails ==
  /\ pc = "opening"
  /\ Fault("open")
  /\ AttemptFailed
  /\ UNCHANGED <<opts, calls, transport, conn, result, knew, toDevice, toHost, devVars>>

\* The transport is opened and emplaced, which destroys the one it replaces.
OpenSucceeds ==
  /\ pc = "opening"
  /\ transport' = "open"
  /\ conn' = NewConnection
  /\ pc' = "connect"
  /\ toDevice' = <<>>
  /\ toHost' = <<>>
  /\ dev' = Offline
  /\ UNCHANGED <<opts, attempt, calls, result, hit, knew, device, knows>>

-----------------------------------------------------------------------------
(* Connection::connect.                                                     *)

\* Mutant: the transport of a failed attempt is kept.
TransportKept == UNCHANGED transport

TransportReset == transport' = "none"

\* connect returns an error: its Connection is gone and the transport is reset.
ConnectFails ==
  /\ TransportReset
  /\ conn' = NoConnection
  /\ AttemptFailed
  /\ UNCHANGED <<opts, calls, result, knew, toDevice, devVars>>

\* Connection::send succeeds, and connect goes on to receive at `next'.
SendThen(f, next) ==
  /\ toDevice' = Append(toDevice, f)
  /\ pc' = next
  /\ UNCHANGED <<opts, attempt, calls, transport, result, hit, knew, devVars>>

SendCnxn ==
  /\ pc = "connect"
  /\ SendThen(Cnxn, "hello")
  /\ UNCHANGED <<conn, toHost>>

Receiving == pc \in {"hello", "signed", "offered"}

\* Connection::receive returns a frame.
Received(cmd) ==
  /\ Receiving
  /\ toHost # <<>>
  /\ Head(toHost).cmd = cmd
  /\ toHost' = Tail(toHost)

\* The token is signed when there is a signer, once.
Signs == pc = "hello" /\ opts.signer

ReceiveToken ==
  /\ Signs
  /\ Received("AUTH")
  /\ SendThen(make_auth("signature", Signature(Head(toHost).val)), "signed")
  /\ UNCHANGED conn

\* Mutant: requested_authorization_ is not set.
RequestedNot(c) == c

Requested(c) == [c EXCEPT !.requested = TRUE]

\* The device asks for (another) signature: offer the public key, once.
ReceiveRejection ==
  /\ ~Signs /\ pc # "offered"
  /\ Received("AUTH")
  /\ IF opts.key
     THEN /\ conn' = Requested(conn)
          /\ SendThen(make_auth("key", 0), "offered")
     ELSE ConnectFails /\ UNCHANGED hit

\* delayed_ack is in the feature list of the device's banner.
features_delayed_ack(f) == f.type = "delayed_ack"

\* Mutant: delayed acknowledgements as the device's banner has them.
NegotiatedByDevice(f) == features_delayed_ack(f)

\* delayed_ack is on when both sides advertised it.
Negotiated(f) == opts.advertise /\ features_delayed_ack(f)

\* The handshake is done and connect_with_retry returns the connection.
Connected(f) ==
  /\ conn' = [conn EXCEPT !.delayed = Negotiated(f)]
  /\ pc' = "idle"
  /\ result' = "connected"
  /\ UNCHANGED <<opts, attempt, calls, transport, hit, knew, toDevice, devVars>>

\* The handshake ends with a CNXN, or with an error.
ReceiveCnxn ==
  /\ Received("CNXN")
  /\ Connected(Head(toHost))

ReceiveUnexpected ==
  \/ \* the key is offered once
     /\ pc = "offered"
     /\ Received("AUTH")
     /\ ConnectFails
     /\ UNCHANGED hit
  \/ \* a stray frame, the fault of the device
     /\ Received("OTHER")
     /\ ConnectFails
     /\ hit' = hit \cup {attempt}

\* A send, the signer or a receive fails.  A receive fails at the latest when
\* the budget of the transport is used up.
SendFails ==
  /\ \/ pc = "connect"
     \/ /\ pc \in {"hello", "signed"} /\ (Signs \/ opts.key)
        /\ toHost # <<>> /\ Head(toHost).cmd = "AUTH"
  /\ Fault("write") \/ (Signs /\ Fault("sign"))
  /\ ConnectFails
  /\ UNCHANGED toHost

ReceiveFails ==
  /\ Receiving
  /\ Fault("read")
  /\ ConnectFails
  /\ UNCHANGED toHost

-----------------------------------------------------------------------------
\* Connection::close.
Close ==
  /\ pc = "idle"
  /\ conn.open
  /\ conn' = [conn EXCEPT !.open = FALSE]
  /\ transport' = "closed"
  /\ UNCHANGED <<opts, pc, attempt, calls, result, hit, knew,
                 toDevice, toHost, devVars>>

-----------------------------------------------------------------------------
(* The device (external).                                                   *)

Reply(f) == toHost' = Append(toHost, f)

Banner == Frame("CNXN", IF device.delayed THEN "delayed_ack" ELSE "plain", 0)

\* A fresh token, which makes every earlier one worthless.
Challenge(d) ==
  /\ d.token < MaxTokens
  /\ dev' = [d EXCEPT !.state = "challenged", !.token = @ + 1]
  /\ Reply(make_auth("token", d.token + 1))

Accept(d) ==
  /\ dev' = [d EXCEPT !.state = "online"]
  /\ Reply(Banner)

DeviceGets(cmd) ==
  /\ transport = "open"
  /\ toDevice # <<>>
  /\ Head(toDevice).cmd = cmd
  /\ toDevice' = Tail(toDevice)
  /\ UNCHANGED <<hostVars, device>>

\* The device takes the features it will use from the host's banner.
DeviceGetsCnxn ==
  LET d == [Offline EXCEPT !.delayed = device.delayed /\ Head(toDevice).type = "delayed_ack"]
  IN  /\ DeviceGets("CNXN")
      /\ IF device.secure THEN Challenge(d) ELSE Accept(d)
      /\ UNCHANGED knows

DeviceGetsSignature ==
  LET valid == Head(toDevice).val = dev.token
  IN  /\ DeviceGets("AUTH")
      /\ Head(toDevice).type = "signature"
      /\ IF valid /\ knows
         THEN Accept(dev)
         ELSE Challenge([dev EXCEPT !.unknown = valid])
      /\ UNCHANGED knows

\* The public key opens the prompt.
DeviceGetsKey ==
  /\ DeviceGets("AUTH")
  /\ Head(toDevice).type = "key"
  /\ dev' = [dev EXCEPT !.state = "prompt", !.prompted = TRUE]
  /\ UNCHANGED <<knows, toHost>>

\* The user allows the host, or asks for another challenge by refusing it.
UserApproves ==
  /\ dev.state = "prompt"
  /\ knows' = TRUE
  /\ IF transport = "open" THEN Accept(dev)
     ELSE dev' = Offline /\ UNCHANGED toHost
  /\ UNCHANGED <<hostVars, toDevice, device>>

DeviceChallengesAgain ==
  /\ dev.state = "prompt"
  /\ transport = "open"
  /\ Challenge(dev)
  /\ UNCHANGED <<hostVars, toDevice, device, knows>>

\* A frame that has no place in a handshake; one at a time.
DeviceStray ==
  /\ dev.state = "challenged"
  /\ Receiving
  /\ \A i \in 1 .. Len(toHost) : toHost[i].cmd # "OTHER"
  /\ "stray" \in Faults
  /\ Reply(Frame("OTHER", "none", 0))
  /\ UNCHANGED <<hostVars, toDevice, devVars>>

-----------------------------------------------------------------------------
Init ==
  /\ opts \in [signer : BOOLEAN, key : BOOLEAN, advertise : BOOLEAN]
  /\ device \in [secure : BOOLEAN, delayed : BOOLEAN]
  /\ knows \in BOOLEAN
  /\ pc = "idle"
  /\ attempt = 0
  /\ calls = 0
  /\ transport = "none"
  /\ toDevice = <<>>
  /\ toHost = <<>>
  /\ conn = NoConnection
  /\ result = "none"
  /\ dev = Offline
  /\ hit = {}
  /\ knew = FALSE

\* connect_with_retry at work.
HostStep ==
  \/ NextAttempt \/ GiveUp
  \/ OpenSucceeds \/ OpenFails
  \/ SendCnxn \/ ReceiveToken \/ ReceiveRejection
  \/ ReceiveCnxn \/ ReceiveUnexpected
  \/ SendFails \/ ReceiveFails

DeviceStep ==
  \/ DeviceGetsCnxn \/ DeviceGetsSignature \/ DeviceGetsKey
  \/ UserApproves \/ DeviceChallengesAgain \/ DeviceStray

Next == Call \/ Close \/ HostStep \/ DeviceStep

Spec == Init /\ [][Next]_vars

\* The thread inside connect_with_retry goes on; the reads of the transports
\* have timeouts.  Device, user and caller owe nothing.
FairSpec == Spec /\ WF_vars(HostStep)

-----------------------------------------------------------------------------
(* Properties.                                                              *)

Established == pc = "idle" /\ conn.open

\* A connection that is handed out is one the device has let in, over the
\* transport that is in the caller's optional, and both sides agree on delayed
\* acknowledgements: OPEN's window means the same to both (Connection::connect,
\* connect_with_retry).
HandshakeAgreed ==
  Established =>
    /\ dev.state = "online"
    /\ transport = "open"
    /\ conn.delayed = dev.delayed

\* requested_authorization() is the device's own story: the user of the device
\* was asked on this connection (Connection::connect).
AuthorizationReported == Established => conn.requested = dev.prompted

\* The user is asked only when the device did not know the key: the signature
\* over the device's latest token comes first, however often the handshake is
\* repeated (Connection::connect).
PromptOnlyForUnknownKey == dev.prompted /\ opts.signer => dev.unknown

\* The transport of an earlier attempt or connection does not hold the device
\* when the next one is opened: a USB interface can be claimed once
\* (connect_with_retry, Connection::close).
DeviceFree == pc = "opening" => transport # "open"

\* Each fault costs one attempt and nothing else: when the device will let the
\* host in without asking its user, connect_with_retry fails only if every attempt
\* met a fault (Connection::connect, connect_with_retry).
FailsForCause ==
  result = "failed" /\ (~device.secure \/ (knew /\ opts.signer)) => hit = 0 .. Attempts - 1

\* "the wait is bounded by `attempts' and the total stays finite"
\* (include/adbcpp/connection.hpp:240): connect_with_retry returns, whatever the
\* device and its user do or do not do.
ConnectReturns == (pc # "idle") ~> (pc = "idle")

=============================================================================
