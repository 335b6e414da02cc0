--------------------------------- MODULE Adbd ---------------------------------
(***************************************************************************)
(* The device's daemon as the library relies on it (external): adbd is not *)
(* part of the repository.  A frame names its recipient's own id in arg1;  *)
(* frames for ids the device does not have open are ignored.  The service  *)
(* behind a stream writes bytes 1, 2, 3, ...  Without delayed              *)
(* acknowledgements one WRTE may be outstanding; with them the window of   *)
(* the OPEN is, and an OKAY gives back what its payload counts.            *)
(*                                                                         *)
(* The device's streams are indexed by the id the host opened them with,   *)
(* which is unique; the id the device knows them by is rid.                *)
(***************************************************************************)
EXTENDS AdbLink

CONSTANTS
  MaxBytes,     \* bound: bytes a service writes on one stream
  MaxChunk      \* bound: bytes in one WRTE of the device

ASSUME DeviceAssumption == MaxBytes \in Nat /\ MaxChunk \in Nat

VARIABLES
  dstat,        \* state of the stream the host opened as l
  rid,          \* the device's id for it, 0 while it has none
  nextRid,      \* the next id the device will choose
  credit,       \* what the device may still send (see Cost and Release)
  sent,         \* bytes the service has written
  acked         \* host WRTEs acknowledged

devVars == <<dstat, rid, nextRid, credit, sent, acked>>

DeviceTypeOK ==
  /\ dstat \in [LocalIds -> {"none", "open", "refused", "closed", "gone"}]
  /\ rid \in [LocalIds -> Nat]
  /\ nextRid \in Nat \ {0}
  /\ credit \in [LocalIds -> Nat]
  /\ sent \in [LocalIds -> Nat]
  /\ acked \in [LocalIds -> Nat]

DeviceInit ==
  /\ dstat = [l \in LocalIds |-> "none"]
  /\ rid = [l \in LocalIds |-> 0]
  /\ nextRid = 1
  /\ credit = [l \in LocalIds |-> 0]
  /\ sent = [l \in LocalIds |-> 0]
  /\ acked = [l \in LocalIds |-> 0]

-----------------------------------------------------------------------------
Cost(len) == IF DelayedAck THEN len ELSE 1

Release(f) == IF DelayedAck THEN f.len ELSE 1

DeviceHead(cmd) == link = "up" /\ toDevice # <<>> /\ Head(toDevice).cmd = cmd

Reply(f) == toHost' = Append(toHost, f)

DeviceAccept ==
  LET f == Head(toDevice)
      l == f.arg0
  IN  /\ DeviceHead("OPEN")
      /\ toDevice' = Tail(toDevice)
      /\ dstat' = [dstat EXCEPT ![l] = "open"]
      /\ rid' = [rid EXCEPT ![l] = nextRid]
      /\ nextRid' = nextRid + 1
      /\ credit' = [credit EXCEPT ![l] = IF DelayedAck THEN f.arg1 ELSE 1]
      /\ Reply(make_empty_message("OKAY", nextRid, l))
      /\ UNCHANGED <<link, sent, acked>>

DeviceRefuse ==
  LET l == Head(toDevice).arg0
  IN  /\ DeviceHead("OPEN")
      /\ toDevice' = Tail(toDevice)
      /\ dstat' = [dstat EXCEPT ![l] = "refused"]
      /\ Reply(make_empty_message("CLSE", 0, l))
      /\ UNCHANGED <<link, rid, nextRid, credit, sent, acked>>

\* Does f address a stream the device has open?
Addressed(f) == f.arg1 # 0 /\ dstat[f.arg0] = "open" /\ rid[f.arg0] = f.arg1

DeviceGetsWrte ==
  LET f == Head(toDevice)
      l == f.arg0
  IN  /\ DeviceHead("WRTE")
      /\ toDevice' = Tail(toDevice)
      /\ IF Addressed(f)
         THEN /\ acked' = [acked EXCEPT ![l] = @ + 1]
              /\ Reply(make_empty_message("OKAY", rid[l], l))
         ELSE UNCHANGED <<acked, toHost>>
      /\ UNCHANGED <<link, dstat, rid, nextRid, credit, sent>>

DeviceGetsOkay ==
  LET f == Head(toDevice)
  IN  /\ DeviceHead("OKAY")
      /\ toDevice' = Tail(toDevice)
      /\ credit' = IF Addressed(f)
                   THEN [credit EXCEPT ![f.arg0] = @ + Release(f)]
                   ELSE credit
      /\ UNCHANGED <<link, toHost, dstat, rid, nextRid, sent, acked>>

\* The device may answer with a CLSE of its own.
DeviceGetsClse ==
  LET f == Head(toDevice)
      l == f.arg0
  IN  /\ DeviceHead("CLSE")
      /\ toDevice' = Tail(toDevice)
      /\ IF Addressed(f)
         THEN /\ dstat' = [dstat EXCEPT ![l] = "closed"]
              /\ \/ Reply(make_empty_message("CLSE", rid[l], l))
                 \/ UNCHANGED toHost
         ELSE UNCHANGED <<dstat, toHost>>
      /\ UNCHANGED <<link, rid, nextRid, credit, sent, acked>>

\* The service writes n bytes.
DeviceWrite(l, n) ==
  /\ link = "up"
  /\ dstat[l] = "open"
  /\ sent[l] + n <= MaxBytes
  /\ credit[l] >= Cost(n)
  /\ credit' = [credit EXCEPT ![l] = @ - Cost(n)]
  /\ sent' = [sent EXCEPT ![l] = @ + n]
  /\ Reply(Frame("WRTE", rid[l], l, sent[l] + 1, n))
  /\ UNCHANGED <<link, toDevice, dstat, rid, nextRid, acked>>

\* The service is done.
DeviceClose(l) ==
  /\ link = "up"
  /\ dstat[l] = "open"
  /\ dstat' = [dstat EXCEPT ![l] = "closed"]
  /\ Reply(make_empty_message("CLSE", rid[l], l))
  /\ UNCHANGED <<link, toDevice, rid, nextRid, credit, sent, acked>>

\* A second CLSE for a stream that is already closed, which open tolerates.
DeviceClosesAgain(l) ==
  /\ "stray" \in Faults
  /\ link = "up"
  /\ dstat[l] = "closed"
  /\ rid[l] # 0
  /\ Reply(make_empty_message("CLSE", rid[l], l))
  /\ dstat' = [dstat EXCEPT ![l] = "gone"]
  /\ UNCHANGED <<link, toDevice, rid, nextRid, credit, sent, acked>>

\* A frame no stream expects; one at a time.
DeviceStray(l) ==
  /\ "stray" \in Faults
  /\ link = "up"
  /\ dstat[l] = "open"
  /\ \A i \in 1 .. Len(toHost) : toHost[i].cmd # "SYNC"
  /\ Reply(make_empty_message("SYNC", 0, l))
  /\ UNCHANGED <<link, toDevice, devVars>>


-----------------------------------------------------------------------------
\* The device handles the next frame.
DeviceHandles ==
  \/ DeviceAccept \/ DeviceRefuse
  \/ DeviceGetsWrte \/ DeviceGetsOkay \/ DeviceGetsClse

\* The service on l has written all of its output and exits.
ServiceDone(l) == sent[l] = MaxBytes /\ DeviceClose(l)

DeviceStep ==
  \/ DeviceHandles
  \/ \E l \in LocalIds, n \in 1 .. MaxChunk : DeviceWrite(l, n)
  \/ \E l \in LocalIds : DeviceClose(l) \/ DeviceClosesAgain(l) \/ DeviceStray(l)

=============================================================================
