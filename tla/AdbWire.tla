------------------------------- MODULE AdbWire -------------------------------
(***************************************************************************)
(* What the two transports share: the caller's one thread, which is in at  *)
(* most one blocking call, and the bytes to and from each device.          *)
(*                                                                         *)
(* Time is counted inside a call: an attempt that times out takes Timeout. *)
(* Both libusb and the socket options take a timeout of zero for none.     *)
(***************************************************************************)
EXTENDS Naturals, Sequences

CONSTANTS
  Timeout,      \* transfer_timeout_ms
  Budget,       \* transfer_budget_ms
  MaxBytes,     \* bound: bytes in each direction of each transport
  MaxHanded,    \* bound: bytes the caller reads from a transport
  MaxRead,      \* bound: bytes of one read
  Faults        \* which of "open", "error", "short", "empty" may happen

ASSUME WireAssumption ==
  /\ Timeout \in Nat /\ Budget \in Nat /\ MaxBytes \in Nat /\ MaxHanded \in Nat /\ MaxRead \in Nat
  /\ Faults \subseteq {"open", "error", "short", "empty"}

Kinds == {"usb", "tcp"}

VARIABLES
  call,         \* the blocking call the thread is in
  sent,         \* per transport: bytes the device has sent
  taken,        \* bytes of these the transport has taken off the wire
  ended,        \* the device closed (TCP), or sent an empty packet (USB)
  handed,       \* bytes the caller got from read
  readFailed,   \* a read, or a wait that was no timeout, returned an error
  wrote,        \* bytes the caller gave to write
  reached,      \* bytes of these that reached the device
  writeFailed,  \* a write returned an error
  saw,          \* what the last wait_readable saw: "bytes", "end" or "nothing"
  answer        \* what the last wait_readable of any transport returned

inVars   == <<taken, ended, handed, readFailed>>
outVars  == <<wrote, reached, writeFailed>>
waitVars == <<saw, answer>>
wireVars == <<call, sent, inVars, outVars, waitVars>>

-----------------------------------------------------------------------------
\* No call is going on.
NoCall == [t |-> "none", op |-> "none", n |-> 0, waited |-> 0, from |-> "caller"]

\* A call with the length of its buffer or, for a wait, its timeout.
Begin(t, op, n, from) == call' = [t |-> t, op |-> op, n |-> n, waited |-> 0, from |-> from]

In(t, op) == call.t = t /\ call.op = op

\* Bytes a + 1 up to b of a direction.
Bytes(a, b) == [i \in 1 .. b - a |-> a + i]

Least(a, b) == IF a < b THEN a ELSE b

Silent(t) == sent[t] = taken[t] /\ ~ended[t]

\* wait_readable returns a, having seen what.
Answers(t, a, what) == answer' = a /\ saw' = [saw EXCEPT ![t] = what]

\* A read uses up what the last wait said.
Forget(t) == saw' = [saw EXCEPT ![t] = "nothing"] /\ UNCHANGED answer

\* An attempt timed out and the deadline is not reached: another one follows.
TriesAgain == call.waited + Timeout < Budget

AttemptTimesOut == Timeout > 0 /\ Silent(call.t)

\* Mutant: every attempt has the whole budget.
DeadlineRestarts == call' = call

Again == call' = [call EXCEPT !.waited = @ + Timeout]

WireInit ==
  /\ call = NoCall
  /\ sent = [t \in Kinds |-> 0] /\ taken = sent /\ ended = [t \in Kinds |-> FALSE]
  /\ handed = [t \in Kinds |-> <<>>] /\ readFailed = ended
  /\ wrote = sent /\ reached = handed /\ writeFailed = ended
  /\ saw = [t \in Kinds |-> "nothing"] /\ answer = "none"

-----------------------------------------------------------------------------
(* The devices (external).                                                  *)

DeviceSends(t) ==
  /\ sent[t] < MaxBytes /\ ~ended[t]
  /\ sent' = [sent EXCEPT ![t] = @ + 1]
  /\ UNCHANGED <<call, inVars, outVars, waitVars>>

DeviceEnds(t) ==
  /\ "empty" \in Faults /\ ~ended[t] /\ sent[t] > 0
  /\ ended' = [ended EXCEPT ![t] = TRUE]
  /\ UNCHANGED <<call, sent, taken, handed, readFailed, outVars, waitVars>>

WireTypeOK ==
  /\ call \in [t : Kinds \cup {"none"}, op : {"none", "read", "write", "wait"}, n : Nat,
               waited : Nat, from : {"caller", "poll"}]
  /\ \A t \in Kinds :
       /\ sent[t] \in Nat /\ taken[t] \in 0 .. sent[t] /\ ended[t] \in BOOLEAN
       /\ handed[t] \in Seq(Nat) /\ readFailed[t] \in BOOLEAN
       /\ wrote[t] \in Nat /\ reached[t] \in Seq(Nat) /\ writeFailed[t] \in BOOLEAN
       /\ saw[t] \in {"bytes", "end", "nothing"}
  /\ answer \in {"none", "yes", "no", "error"}

=============================================================================
