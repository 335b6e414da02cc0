------------------------------- MODULE AdbTcp -------------------------------
(***************************************************************************)
(* TcpTransport (src/tcp/tcp_transport.cpp) over the sockets of the system *)
(* (external).  Open tries the addresses of the endpoint in order; `fds'   *)
(* are the sockets it has created and not closed, by address.              *)
(***************************************************************************)
EXTENDS AdbWire

CONSTANTS
  Endpoints     \* the sequences of addresses an endpoint may resolve to

ASSUME TcpAssumption == Endpoints \subseteq Seq(STRING)

VARIABLES
  addrs,        \* how a connection to each address would go
  tcp,          \* where open stands, the address it is at, the socket
  fds           \* open sockets

tcpVars == <<addrs, tcp, fds>>

NoSocket == 0

-----------------------------------------------------------------------------
(* Open and close.                                                          *)

\* getaddrinfo, or a malformed endpoint: nothing is open yet.
TcpResolve ==
  /\ tcp.st = "none"
  /\ \/ tcp' = [tcp EXCEPT !.st = "connect", !.at = 1]
     \/ "open" \in Faults /\ tcp' = [tcp EXCEPT !.st = "gone"]
  /\ UNCHANGED <<wireVars, addrs, fds>>

\* connect_with_timeout: connected at once or within the timeout of select; else
\* refused, timed out or failed later (SO_ERROR).
connect_with_timeout(a) == a \in {"now", "soon"}

\* The socket of an address that did not connect is closed.
NextAddress(a) == tcp' = [tcp EXCEPT !.at = @ + 1] /\ UNCHANGED fds

\* One turn of the loop: no socket, no connection, or this is the one.
TcpConnect ==
  /\ tcp.st = "connect" /\ tcp.at <= Len(addrs)
  /\ IF addrs[tcp.at] # "nosocket" /\ connect_with_timeout(addrs[tcp.at])
     THEN /\ tcp' = [tcp EXCEPT !.st = "ready", !.socket = tcp.at]
          /\ fds' = fds \cup {tcp.at}
     ELSE NextAddress(tcp.at)
  /\ UNCHANGED <<wireVars, addrs>>

TcpOpenFails ==
  /\ tcp.st = "connect" /\ tcp.at > Len(addrs)
  /\ tcp' = [tcp EXCEPT !.st = "gone"]
  /\ UNCHANGED <<wireVars, addrs, fds>>

CloseSocket(st) ==
  /\ fds' = fds \ {tcp.socket}
  /\ tcp' = [tcp EXCEPT !.st = st, !.socket = NoSocket]

TcpClose ==
  /\ tcp.st = "ready" /\ call = NoCall
  /\ CloseSocket("closed")
  /\ UNCHANGED <<wireVars, addrs>>

\* ~Impl
TcpDestroy ==
  /\ tcp.st \in {"ready", "closed"} /\ call = NoCall
  /\ CloseSocket("gone")
  /\ UNCHANGED <<wireVars, addrs>>

-----------------------------------------------------------------------------
(* Transfers.  recv and send give up after the socket's timeout.            *)

TcpReady == tcp.st = "ready" /\ call = NoCall

TcpRead(n) ==
  /\ TcpReady /\ n > 0 /\ Len(handed["tcp"]) < MaxHanded
  /\ Begin("tcp", "read", n, "caller")
  /\ UNCHANGED <<sent, inVars, outVars, waitVars, tcpVars>>

TcpReadMoves ==
  /\ In("tcp", "read")
  /\ \E k \in 1 .. Least(call.n, sent["tcp"] - taken["tcp"]) :
       /\ taken' = [taken EXCEPT !["tcp"] = @ + k]
       /\ handed' = [handed EXCEPT !["tcp"] = @ \o Bytes(taken["tcp"], taken["tcp"] + k)]
  /\ call' = NoCall /\ Forget("tcp")
  /\ UNCHANGED <<sent, ended, readFailed, outVars, tcpVars>>

\* recv returns 0 when the peer has closed and all is read.
TcpReadEnds ==
  /\ In("tcp", "read") /\ ended["tcp"] /\ sent["tcp"] = taken["tcp"]
  /\ call' = NoCall /\ Forget("tcp")
  /\ UNCHANGED <<sent, inVars, outVars, tcpVars>>

TcpReadFails ==
  /\ In("tcp", "read")
  /\ readFailed' = [readFailed EXCEPT !["tcp"] = TRUE]
  /\ call' = NoCall /\ Forget("tcp")
  /\ UNCHANGED <<sent, taken, ended, handed, outVars, tcpVars>>

\* The budget is spent, or recv failed for another reason than its timeout.
TcpReadTimesOut == TcpReadFails /\ AttemptTimesOut /\ ~TriesAgain

TcpReadBreaks == TcpReadFails /\ "error" \in Faults

\* recv or send timed out before the deadline.
TcpTriesAgain ==
  /\ call.t = "tcp" /\ call.op \in {"read", "write"}
  /\ (call.op = "read" => AttemptTimesOut) /\ Timeout > 0 /\ TriesAgain /\ Again
  /\ UNCHANGED <<sent, inVars, outVars, waitVars, tcpVars>>

TcpWrite(n) ==
  /\ TcpReady /\ n > 0 /\ wrote["tcp"] + n <= MaxBytes
  /\ wrote' = [wrote EXCEPT !["tcp"] = @ + n]
  /\ Begin("tcp", "write", n, "caller")
  /\ UNCHANGED <<sent, inVars, reached, writeFailed, waitVars, tcpVars>>

\* send moved k bytes: total advances, and the rest is sent in the next turn.
Advance(k) == call' = IF k = call.n THEN NoCall ELSE [call EXCEPT !.n = @ - k]

TcpWriteMoves(k) ==
  /\ In("tcp", "write") /\ k <= call.n
  /\ reached' = [reached EXCEPT !["tcp"] = @ \o Bytes(wrote["tcp"] - call.n, wrote["tcp"] - call.n + k)]
  /\ Advance(k)
  /\ UNCHANGED <<sent, inVars, wrote, writeFailed, waitVars, tcpVars>>

TcpWriteFails ==
  /\ In("tcp", "write")
  /\ writeFailed' = [writeFailed EXCEPT !["tcp"] = TRUE]
  /\ call' = NoCall
  /\ UNCHANGED <<sent, inVars, wrote, reached, waitVars, tcpVars>>

\* The budget is spent, the peer has closed, or send failed.
TcpWriteTimesOut == TcpWriteFails /\ Timeout > 0 /\ ~TriesAgain

TcpWriteBreaks == TcpWriteFails /\ "error" \in Faults

-----------------------------------------------------------------------------
(* wait_readable: select, with zero for a look without waiting.              *)

TcpWait(n, from) ==
  /\ TcpReady
  /\ Begin("tcp", "wait", n, from)
  /\ UNCHANGED <<sent, inVars, outVars, waitVars, tcpVars>>

\* Mutant: every return of select counts.
AlwaysReady ==
  /\ In("tcp", "wait") /\ Answers("tcp", "yes", "bytes") /\ call' = NoCall
  /\ UNCHANGED <<sent, inVars, outVars, tcpVars>>

\* A peer that closed is readable too.
TcpWaitReady ==
  /\ In("tcp", "wait") /\ ~Silent("tcp")
  /\ Answers("tcp", "yes", IF sent["tcp"] > taken["tcp"] THEN "bytes" ELSE "end")
  /\ call' = NoCall
  /\ UNCHANGED <<sent, inVars, outVars, tcpVars>>

TcpWaitReturns(a) ==
  /\ In("tcp", "wait")
  /\ Answers("tcp", a, "nothing")
  /\ call' = NoCall
  /\ UNCHANGED <<sent, inVars, outVars, tcpVars>>

TcpWaitNo == Silent("tcp") /\ TcpWaitReturns("no")

TcpWaitBreaks == "error" \in Faults /\ TcpWaitReturns("error")

TcpOpens == TcpResolve \/ TcpConnect \/ TcpOpenFails

\* What goes on inside a call on the transport, and what may go wrong in it.
TcpGoesOn ==
  \/ TcpReadMoves \/ TcpReadEnds \/ TcpReadTimesOut \/ TcpTriesAgain
  \/ TcpWriteTimesOut \/ (\E k \in 1 .. MaxBytes : TcpWriteMoves(k))
  \/ TcpWaitReady \/ TcpWaitNo

TcpBreaks == TcpReadBreaks \/ TcpWriteBreaks \/ TcpWaitBreaks

TcpInitially ==
  /\ addrs \in Endpoints
  /\ tcp = [st |-> "none", at |-> 0, socket |-> NoSocket]
  /\ fds = {}

=============================================================================
