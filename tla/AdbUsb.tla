------------------------------- MODULE AdbUsb -------------------------------
(***************************************************************************)
(* UsbTransport (src/usb/usb_transport.cpp) over libusb (external).        *)
(*                                                                         *)
(* Open is a step per libusb call that can fail; `held' is what libusb has *)
(* given out.  The buffer `incoming' holds the device's bytes by number, a *)
(* byte of a vector that was resized and not filled is 0.  A transfer      *)
(* moves what is there, up to the buffer's size.                           *)
(***************************************************************************)
EXTENDS AdbWire

CONSTANTS
  BufferSize,   \* kReadBufferSize
  Buses         \* the sequences of devices that may be attached at first

Devices == [model : STRING, serial : STRING, busy : BOOLEAN, adb : BOOLEAN]

ASSUME UsbAssumption == BufferSize \in Nat \ {0} /\ Buses \subseteq Seq(Devices)

VARIABLES
  bus,          \* the attached devices, in libusb's order
  id,           \* the DeviceId the caller took from list
  aimed,        \* the device that id was listed for
  usb,          \* where open stands, the receive buffer and its offset
  target,       \* the device open matched
  held          \* what libusb has given out and not got back

busVars == <<bus, id, aimed, target>>
usbVars == <<busVars, usb, held>>

-----------------------------------------------------------------------------
(* Enumeration.  A device has a model (vendor and product), a serial, "" when *)
(* it has none, and perhaps an ADB interface; a busy one cannot be opened, so *)
(* its serial cannot be read.                                                 *)

device_serial(d) == IF d.busy THEN "" ELSE d.serial

\* Mutant: the serial is not compared.
ModelOnly(d, i) == i.model = "any" \/ d.model = i.model

\* find_device: the model, when one is given, and the serial, when one is.
matches(d, i) ==
  /\ i.model = "any" \/ d.model = i.model
  /\ i.serial = "" \/ device_serial(d) = i.serial

\* The first match, or 0.
find_device(i) ==
  LET found == {k \in 1 .. Len(bus) : matches(bus[k], i)}
  IN  IF found = {} THEN 0 ELSE CHOOSE k \in found : \A j \in found : k <= j

find_adb_interface(d) == d.adb

\* list, and the caller picks one of the ids it returned or only its serial.
UsbList ==
  /\ usb.st = "none" /\ id.model = "none"
  /\ \E k \in 1 .. Len(bus) :
       /\ find_adb_interface(bus[k])
       /\ aimed' = bus[k]
       /\ \E m \in {bus[k].model} \cup (IF device_serial(bus[k]) = "" THEN {} ELSE {"any"}) :
            id' = [model |-> m, serial |-> device_serial(bus[k])]
  /\ UNCHANGED <<wireVars, bus, usb, target, held>>

\* Somebody unplugs a device, or lets go of one, while nothing is open.
BusChanges ==
  /\ "open" \in Faults
  /\ usb.st = "none"
  /\ \E k \in 1 .. Len(bus) :
       \/ bus' = SubSeq(bus, 1, k - 1) \o SubSeq(bus, k + 1, Len(bus))
       \/ bus[k].busy /\ bus' = [bus EXCEPT ![k].busy = FALSE]
  /\ UNCHANGED <<wireVars, id, aimed, usb, target, held>>

-----------------------------------------------------------------------------
(* Open and close.                                                          *)

UsbAt(st) == usb' = [usb EXCEPT !.st = st]

UsbInit ==
  /\ usb.st = "none" /\ id.model # "none"
  /\ \/ held' = {"context"} /\ UsbAt("init")
     \/ "open" \in Faults /\ UsbAt("destroy") /\ UNCHANGED held
  /\ UNCHANGED <<wireVars, busVars>>

\* is_present is the same up to here, and then frees what it has.
UsbGetList ==
  /\ usb.st = "init"
  /\ \/ held' = held \cup {"list"} /\ UsbAt("list")
     \/ "open" \in Faults /\ UsbAt("destroy") /\ UNCHANGED held
  /\ UNCHANGED <<wireVars, busVars>>

\* No match, no ADB interface: the list is freed on the way out.
UsbMatch ==
  /\ usb.st = "list"
  /\ LET k == find_device(id) IN
       IF k # 0 /\ find_adb_interface(bus[k])
       THEN target' = bus[k] /\ UsbAt("matched") /\ UNCHANGED held
       ELSE held' = held \ {"list"} /\ UsbAt("destroy") /\ UNCHANGED target
  /\ UNCHANGED <<wireVars, bus, id, aimed>>

\* Mutant: the list is freed only when the device opened.
OpenFirst ==
  /\ usb.st = "matched"
  /\ \/ ~target.busy /\ held' = (held \ {"list"}) \cup {"handle"} /\ UsbAt("handle")
     \/ ("open" \in Faults \/ target.busy) /\ UsbAt("destroy") /\ UNCHANGED held
  /\ UNCHANGED <<wireVars, busVars>>

\* libusb_open; the list is freed before its result is looked at.
UsbOpenDevice ==
  /\ usb.st = "matched"
  /\ \/ ~target.busy /\ held' = (held \ {"list"}) \cup {"handle"} /\ UsbAt("handle")
     \/ ("open" \in Faults \/ target.busy) /\ held' = held \ {"list"} /\ UsbAt("destroy")
  /\ UNCHANGED <<wireVars, busVars>>

\* The interface is claimed, and halted endpoints are cleared.
UsbClaim ==
  /\ usb.st = "handle"
  /\ \/ held' = held \cup {"claim"} /\ UsbAt("ready")
     \/ "open" \in Faults /\ UsbAt("destroy") /\ UNCHANGED held
  /\ UNCHANGED <<wireVars, busVars>>

\* close lets the device go, the context stays with the object.
UsbClose ==
  /\ usb.st = "ready" /\ call = NoCall
  /\ held' = held \ {"claim", "handle"}
  /\ UsbAt("closed")
  /\ UNCHANGED <<wireVars, busVars>>

\* ~Impl, also of the object of an open that failed.
UsbDestroy ==
  /\ usb.st \in {"destroy", "ready", "closed"} /\ call = NoCall
  /\ held' = held \ {"claim", "handle", "context"}
  /\ UsbAt("gone")
  /\ UNCHANGED <<wireVars, busVars>>

-----------------------------------------------------------------------------
(* Transfers.                                                               *)

UsbReady == usb.st = "ready" /\ call = NoCall

Buffered == usb.offset < Len(usb.incoming)

\* vector::resize: what was there stays, the rest is zero.
Resized == usb.incoming \o [i \in 1 .. BufferSize - Len(usb.incoming) |-> 0]

\* Up to n bytes of buf from offset o on go to the caller.
HandOut(buf, o, n) ==
  LET k == Least(n, Len(buf) - o) IN
    /\ handed' = [handed EXCEPT !["usb"] = @ \o SubSeq(buf, o + 1, o + k)]
    /\ usb' = [usb EXCEPT !.incoming = buf, !.offset = o + k]

\* A transfer that moves k bytes into the buffer.
Transfer(k) ==
  /\ k > 0 /\ k <= Least(BufferSize, sent["usb"] - taken["usb"])
  /\ taken' = [taken EXCEPT !["usb"] = @ + k]

Packet(k) == Bytes(taken["usb"], taken["usb"] + k)

\* read of what an earlier transfer left, or the start of a new one.
UsbRead(n) ==
  /\ UsbReady /\ Len(handed["usb"]) < MaxHanded
  /\ IF Buffered
     THEN HandOut(usb.incoming, usb.offset, n) /\ Forget("usb") /\ UNCHANGED call
     ELSE /\ usb' = [usb EXCEPT !.incoming = Resized]
          /\ Begin("usb", "read", n, "caller")
          /\ UNCHANGED <<handed, waitVars>>
  /\ UNCHANGED <<sent, taken, ended, readFailed, outVars, busVars, held>>

UsbReadMoves ==
  /\ In("usb", "read")
  /\ \E k \in 1 .. BufferSize : Transfer(k) /\ HandOut(Packet(k), 0, call.n)
  /\ call' = NoCall /\ Forget("usb")
  /\ UNCHANGED <<sent, ended, readFailed, outVars, busVars, held>>

\* Mutant: the offset is not reset.
EmptyKeepsOffset ==
  /\ sent["usb"] = taken["usb"] /\ ended["usb"]
  /\ ended' = [ended EXCEPT !["usb"] = FALSE]
  /\ usb' = [usb EXCEPT !.incoming = <<>>]

\* An empty packet is taken off the wire and read returns 0.
EmptyPacket ==
  /\ sent["usb"] = taken["usb"] /\ ended["usb"]
  /\ ended' = [ended EXCEPT !["usb"] = FALSE]
  /\ usb' = [usb EXCEPT !.incoming = <<>>, !.offset = 0]

UsbReadEmpty ==
  /\ In("usb", "read") /\ EmptyPacket
  /\ call' = NoCall /\ Forget("usb")
  /\ UNCHANGED <<sent, taken, handed, readFailed, outVars, busVars, held>>

\* The loop of bulk_transfer, for reads and writes.
bulk_transfer_again ==
  /\ call.t = "usb" /\ call.op \in {"read", "write"}
  /\ (call.op = "read" => AttemptTimesOut) /\ Timeout > 0 /\ TriesAgain /\ Again
  /\ UNCHANGED <<sent, inVars, outVars, waitVars, usbVars>>

\* read returns an error.  The buffer keeps the size it was given for the
\* transfer, and the offset its value.
UsbReadFails ==
  /\ In("usb", "read")
  /\ readFailed' = [readFailed EXCEPT !["usb"] = TRUE]
  /\ call' = NoCall /\ Forget("usb")
  /\ UNCHANGED <<sent, ended, handed, outVars, busVars, held>>

\* The budget is spent.
UsbReadTimesOut == UsbReadFails /\ AttemptTimesOut /\ ~TriesAgain /\ UNCHANGED <<taken, usb>>

\* The transfer failed, with or without bytes moved.
UsbReadBreaks ==
  /\ UsbReadFails /\ "error" \in Faults
  /\ \/ UNCHANGED <<taken, usb>>
     \/ \E k \in 1 .. BufferSize :
          Transfer(k) /\ usb' = [usb EXCEPT !.incoming = Packet(k) \o SubSeq(@, k + 1, Len(@))]

UsbWrite(n) ==
  /\ UsbReady /\ n > 0 /\ wrote["usb"] + n <= MaxBytes
  /\ wrote' = [wrote EXCEPT !["usb"] = @ + n]
  /\ Begin("usb", "write", n, "caller")
  /\ UNCHANGED <<sent, inVars, reached, writeFailed, waitVars, usbVars>>

\* A short transfer is an error, and what is left is not sent.
WriteIsShort(k) == k < call.n

\* Mutant: a short transfer is followed by another one of the whole data.
WriteAgain(k) ==
  /\ In("usb", "write") /\ k <= call.n
  /\ reached' = [reached EXCEPT !["usb"] = @ \o Bytes(wrote["usb"] - call.n, wrote["usb"] - call.n + k)]
  /\ call' = IF k < call.n THEN call ELSE NoCall
  /\ UNCHANGED <<sent, inVars, wrote, writeFailed, waitVars, usbVars>>

\* One transfer moves k bytes of the call's.
UsbWriteMoves(k) ==
  /\ In("usb", "write") /\ k <= call.n
  /\ k < call.n => "short" \in Faults
  /\ reached' = [reached EXCEPT !["usb"] = @ \o Bytes(wrote["usb"] - call.n, wrote["usb"] - call.n + k)]
  /\ writeFailed' = [writeFailed EXCEPT !["usb"] = @ \/ WriteIsShort(k)]
  /\ call' = NoCall
  /\ UNCHANGED <<sent, inVars, wrote, waitVars, usbVars>>

\* Nothing moved: the budget is spent, or libusb failed.
UsbWriteFails ==
  /\ In("usb", "write")
  /\ writeFailed' = [writeFailed EXCEPT !["usb"] = TRUE]
  /\ call' = NoCall
  /\ UNCHANGED <<sent, inVars, wrote, reached, waitVars, usbVars>>

UsbWriteTimesOut == UsbWriteFails /\ Timeout > 0 /\ ~TriesAgain

UsbWriteBreaks == UsbWriteFails /\ "error" \in Faults

-----------------------------------------------------------------------------
(* wait_readable: one transfer bounded by the caller's timeout n, where zero  *)
(* is no bound to libusb.                                                     *)

UsbWait(n, from) ==
  /\ UsbReady
  /\ IF Buffered
     THEN Answers("usb", "yes", "bytes") /\ UNCHANGED <<call, usb>>
     ELSE /\ usb' = [usb EXCEPT !.incoming = Resized]
          /\ Begin("usb", "wait", n, from)
          /\ UNCHANGED waitVars
  /\ UNCHANGED <<sent, inVars, outVars, busVars, held>>

UsbWaitMoves ==
  /\ In("usb", "wait")
  /\ \E k \in 1 .. BufferSize :
       Transfer(k) /\ usb' = [usb EXCEPT !.incoming = Packet(k), !.offset = 0]
  /\ Answers("usb", "yes", "bytes") /\ call' = NoCall
  /\ UNCHANGED <<sent, ended, handed, readFailed, outVars, busVars, held>>

\* An empty packet is readable, and is taken off the wire.
UsbWaitEmpty ==
  /\ In("usb", "wait") /\ EmptyPacket
  /\ Answers("usb", "yes", "end") /\ call' = NoCall
  /\ UNCHANGED <<sent, taken, handed, readFailed, outVars, busVars, held>>

\* Mutant: the buffer keeps its size when the wait fails.
KeepBuffer == usb' = usb

\* The buffer of a wait that failed is emptied.
ClearBuffer == usb' = [usb EXCEPT !.incoming = <<>>, !.offset = 0]

\* wait_readable returns an error.
UsbWaitFails ==
  /\ In("usb", "wait")
  /\ ClearBuffer
  /\ Answers("usb", "error", "nothing") /\ call' = NoCall
  /\ UNCHANGED <<sent, ended, handed, outVars, busVars, held>>

UsbWaitTimesOut == UsbWaitFails /\ call.n > 0 /\ Silent("usb") /\ UNCHANGED <<taken, readFailed>>

\* Bytes moved by a transfer that failed are dropped with the buffer.
UsbWaitBreaks ==
  /\ UsbWaitFails /\ "error" \in Faults
  /\ UNCHANGED taken \/ \E k \in 1 .. BufferSize : Transfer(k)
  /\ readFailed' = [readFailed EXCEPT !["usb"] = TRUE]

UsbOpens ==
  UsbList \/ UsbInit \/ UsbGetList \/ UsbMatch \/ UsbOpenDevice \/ UsbClaim

\* What goes on inside a call on the transport, and what may go wrong in it.
UsbGoesOn ==
  \/ UsbReadMoves \/ UsbReadEmpty \/ UsbReadTimesOut \/ bulk_transfer_again
  \/ UsbWriteTimesOut \/ (\E k \in 1 .. MaxBytes : UsbWriteMoves(k))
  \/ UsbWaitMoves \/ UsbWaitEmpty \/ UsbWaitTimesOut

UsbBreaks == UsbReadBreaks \/ UsbWriteBreaks \/ UsbWaitBreaks

NoDevice == [model |-> "none", serial |-> "", busy |-> FALSE, adb |-> FALSE]

UsbInitially ==
  /\ bus \in Buses /\ aimed = NoDevice /\ target = NoDevice
  /\ id = [model |-> "none", serial |-> ""]
  /\ usb = [st |-> "none", incoming |-> <<>>, offset |-> 0]
  /\ held = {}

=============================================================================
