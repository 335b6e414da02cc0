# adbcpp: TLA+ models and proofs

adbcpp is a host-side implementation of the Android Debug Bridge (ADB) protocol
in C++20: it talks to the `adbd` of a device over TCP or USB without an adb
server. This directory holds TLA+ models of it, translated from the C++ sources,
TLC configurations that check them on small instances, and proofs checked by
TLAPS.

    tlc -workers 2 -config MCStreamFaults.cfg MCStream     # one run
    tlapm AdbStreamProofs.tla                              # the proofs of streams
    tlapm AdbKeyProofs.tla && tlapm AdbTourProofs.tla      # and of the key store

`PROJECT.json` lists components, runs, the mutants that show each property can
fail, the source lines behind every definition, the hazards and the theorems.

## 1. The system

### Components

| component | source | state | operations |
|---|---|---|---|
| Transport (interface), `wait_readable` | `src/transport.cpp` | the open flag | read, write, wait_readable, close |
| TCP transport | `src/tcp/tcp_transport.cpp` | socket, timeouts | open (several addresses, one budget), read, write, close |
| USB transport | `src/usb/usb_transport.cpp` | libusb handle, claimed interface, receive buffer | open, read, write, wait_readable, close |
| Session | `src/session.cpp` | borrowed transport, `closed_` | send, receive, close, moves |
| Message | `src/protocol/message.cpp` | none | encode, decode, make_message, data checksum |
| Connection | `src/connection.cpp`, `connection.hpp` | session, banner, features, `next_local_id_` | connect (handshake), connect_with_retry, allocate_local_id, send, receive, close |
| Stream | `src/stream.cpp` | ids, `incoming_`, `closed_` | open, read, read_all, write, destructor, moves |
| Sync | `src/sync.cpp` | one stream per call, a local file | list, stat, pull, push, compressed variants |
| Compression | `src/compression.cpp` | codec contexts | encode, decode |
| Shell | `src/shell.cpp` | one stream per call | run (v1, v2) |
| App | `src/app.cpp` | none | install, uninstall, launch, close, is_running |
| Log | `src/log.cpp` | process-wide sink, level | set_logger, clear_logger, write |
| AdbKey | `src/crypto/adb_key.cpp` | RSA key, key file | load_or_generate, sign, public key |
| `examples/poll` | `main.cpp` | a list of transports | the loop around `wait_readable` |
| `examples/demo_multi` | `main.cpp` | a thread, a key, a connection and a result per device | `run_tour`, `install_app`, join, exit status |
| adbd (external) | not in the repository | its streams, its windows | accepts, refuses, writes, acknowledges, closes |

Calls go down: App uses Shell and Sync, these open a Stream each, a Stream uses
Connection's `send` and `receive`, these are Session's, which uses the
transport. Nothing goes up: there are no callbacks (but the log sink), no
threads and no locks in the library except in Log. Every call blocks until it is
done, and a Connection must not be used from two threads at once. Programs that
drive several devices use one thread per device (`demo_multi`), or one thread and
`wait_readable` (`poll`); the key files in the user's home are then shared.

### What is hard in it

Most of the concurrency is between the host and the device. Frames of the device
arrive whenever it likes, and the host sees them only inside a call, which
throws away what is not for it. So the interesting questions are about order
and about what is left over: a frame that arrives after the call that wanted it
has given up, a stream that one side takes for open and the other for closed,
an acknowledgement without which both wait, a buffer that is half read when its
object moves, a frame that is half read or half written when the transport
fails. Around that are files and devices that outlive the call: a local file that
is half pulled, an APK or an installer session left on the device, a key file that
a crash cut short, a USB interface that was claimed and not given back.
`PROJECT.json` lists these hazards at their lines, with the properties
that address them.

What would make each part correct; section 4 says where the code falls short of it:

- **Stream**: what the caller reads is what the device wrote, in order, complete
  when `read_all` says so; one CLSE per stream; frames addressed to the
  device's id; no stream left behind; calls return.
- **Session**: frames whole and in order, none that fails a check; a session
  that lost its place in the byte stream is not used any more.
- **Connection**: a handshake is completed by an answer to this attempt; the
  features agreed on are the device's; ids are not used twice.
- **Transports**: a silent peer is noticed within the budget; no byte is lost
  or returned twice; open gives back what it took when it fails; the device that
  was picked is the one that is opened; a transport that is said to be readable is.
- **Sync**: what a call reports as done is done, a file that is not complete is a
  beginning, host and device agree about every field.
- **Shell, App**: a result that says success is the device's success, and `install`
  leaves no APK behind.
- **AdbKey**: a key that exists is never replaced, and the key handed out is the
  one on disk.

## 2. The plan

The most important behaviour first:

1. `AdbLink`, `Adbd`, `AdbStream`: streams over a connection. *Done.*
2. `AdbSession`, `FrameChannel`: frames over bytes. *Done.*
3. `AdbConnect`: the handshake and `connect_with_retry`. *Done.* Its composition
   with `AdbStream`, for Stream objects that survive a reconnect, is open.
4. `AdbWire`, `AdbUsb`, `AdbTcp`, `AdbPoll`, `ByteChannel`: both transports, the
   helper `wait_readable`, and the byte channel they implement. *Done.*
5. `AdbSync`: list, stat, pull and push over an abstract stream, with the decode
   loops of the codecs. *Done.*
6. `AdbApp`: shell and app commands in one device's tour. *Done.*
7. `AdbKey`, `AdbTour`: the key files shared by threads and runs, and the program
   around everything. *Done.*

Theorems, component by component: the invariants of the stream's types and of its
closing; the key store and the program around it; the handshake; the session and
its refinement of `FrameChannel`; the transports and their refinement of
`ByteChannel`; the app commands; the sync service; of the streams also the frames on
their way, their acknowledgement and the order of the bytes. *Done.*

## 3. Modules

### AdbLink, Adbd, AdbStream

`AdbLink` is the connection as streams see it: two FIFO channels of whole
frames, `toDevice` and `toHost`, and a link that is up, down (the peer is gone,
what was received can still be read) or closed by `Connection::close`. `Send` is
`Connection::send`, `FrameReady` and `ReceiveFails` are the outcomes of
`Connection::receive`.

`Adbd` is the device, which is not in the repository. It does what the library
relies on (routing by `arg1`, one outstanding WRTE, or a window with delayed
acknowledgements) and what the library says it tolerates (a second CLSE, a
refusal, frames it did not expect). A device that goes on writing after it
closed a stream, or that reuses an id, is not modelled.

`AdbStream` is `src/stream.cpp`. A Stream object is a record of its ids, its
`closed_` flag and its buffer; `incoming_` from `incoming_offset_` on is a
source, a position and a length, so that a byte which is lost, repeated or of
another stream shows up as a wrong position. The blocking calls are a `call`
record that persists between steps:

| code | definitions |
|---|---|
| `Stream::open` | `OpenCall`, `OpenSkip`, `OpenAccepted`, `OpenRefused`, `OpenReceiveFails` |
| `Stream::read` | `ReadCall`, then the actions of `receive_more` |
| `Stream::read_all` | `ReadAllCall`, then the actions of `receive_more` |
| `Stream::receive_more` | `ReceiveSkip`, `ReceiveWrte`, `ReceiveClse`, `ReceiveUnexpected`, `ReadReceiveFails` |
| `Stream::write` | `Write` |
| `~Stream`, moves, `close_now` | `Destroy`, `MoveConstruct`, `MoveAssign`, `close_now` |
| `Connection::allocate_local_id` | `next_local_id` in `OpenCall` |

The caller does whatever the interface allows between calls, except that it
does not read or write a Stream it moved from or was told is closed (`Usable`).
The history variables (`fate`, `delivered`, `lost`, `taken`, `sawClose`,
`finished`, `closes`, `wrote`) record what the calls returned; no action reads
one in a guard other than the bound on `wrote`.

`AdbStreamInv` holds the inductive invariants, proved in `AdbStreamProofs`.

### AdbSession, FrameChannel

`AdbSession` is `src/session.cpp` over a transport that moves bytes. A byte is
the number of the frame it belongs to and its place in it. `ReadSome(k)` is one
turn of the loop of `read_exact`; when the header or payload is complete the
same step makes the checks of `receive` (magic, length, checksum) and either
delivers, goes on to the payload or closes the session (`FramingError`).
`ReadFails` is a timeout, an error or the end of the stream: what was read is
dropped and the session stays open, as in the code. `WriteDone` and
`WriteFails(k)` are the two writes of `send`.

`FrameChannel` is what the layers above may count on: frames whole, in order,
each once, none that fails a check, and every sent frame handled in order. After a
read that failed in the middle of a frame (`torn`) frames may be missing, never
repeated or mixed up. `AdbSession` implements it (`ChannelSpec`) wherever reads
fail. A write that fails half way breaks the other direction (section 4), so
write failures are outside the refinement.

### AdbConnect

`Connection::connect` inside the loop of `connect_with_retry`. `pc` is the place
in the code; every send and every receive is a step of its own, so that the
device, the user in front of it and a failing transport come in between. Init
takes every combination of arguments (signer, public key, delayed_ack) and of
devices (wants authentication, has delayed_ack, knows the key).

| code | definitions |
|---|---|
| the loop, the backoff, giving up | `Call`, `NextAttempt`, `GiveUp`, `AttemptFailed` |
| `open()`, `transport.emplace` | `OpenSucceeds`, `OpenFails` |
| sending CNXN | `SendCnxn` |
| AUTH, first answer | `ReceiveToken` (with a signer), `ReceiveRejection` (without) |
| AUTH, second answer | `ReceiveRejection` |
| the final CNXN, or not | `ReceiveCnxn`, `ReceiveUnexpected` |
| errors, `transport.reset()` | `SendFails`, `ReceiveFails`, `ConnectFails` |
| `Connection::close` | `Close` |

The device's side (`DeviceGetsCnxn` to `DeviceStray`) is external: it makes up a
new token for every challenge, accepts a signature of the latest one under a key
it knows, and asks its user when it gets a key. The user may approve at any time,
also after the attempt has given up.

### AdbWire, AdbUsb, AdbTcp, AdbPoll, ByteChannel

`AdbWire` is what the transports share: one thread, which is in at most one
blocking call, and per transport the bytes on their way. Bytes are numbers, so one
that is lost, repeated or made up shows; time is counted in timeouts within a call.

| code | definitions |
|---|---|
| `UsbTransport::list`, `find_device`, `device_serial` | `UsbList`, `find_device`, `matches`, `device_serial`; `BusChanges` is the world |
| `UsbTransport::open`, one step per libusb call | `UsbInit`, `UsbGetList`, `UsbMatch`, `UsbOpenDevice`, `UsbClaim` |
| `read`, `write`, `wait_readable` of USB | `UsbRead...`, `UsbWrite...`, `UsbWait...`, with `ClearBuffer` and `EmptyPacket` for the receive buffer |
| `TcpTransport::open`, `connect_with_timeout` | `TcpResolve`, `TcpConnect`, `NextAddress` |
| `read`, `write`, `wait_readable` of TCP | `TcpRead...`, `TcpWrite...`, `TcpWait...` |
| the budget | `Again` |
| `wait_readable(span, timeout)` | `PollCall`, `PollAsk`, `PollAnswer`, `PollPass` |

`AdbPoll` composes them: a thread that drives a USB device, a TCP device or, like
`examples/poll`, both. `ByteChannel` is the promise for one direction: bytes come
out as they went in until a failure was reported. Both transports implement it in
both directions (`InSpec`, `OutSpec`); TCP reads go on keeping it after a failure.

### AdbSync

One call of `list`, `stat`, `pull` or `push`, from its arguments to its return,
over a stream that keeps its order until it fails. The device's answers are a
sequence of fields (id, body, name, size, chunk, reason), and the host names the
field it reads, so a wrong branch shows as a host that has lost its place. A file
is a sequence of blocks; a compressed chunk a sequence of symbols that expand to
blocks. Init takes every call, every build (with and without codecs) and every
device.

| code | definitions |
|---|---|
| `choose_codec`, the v1 and v2 forms | `Available`, `CodecAllowed`, `ChosenCodec`, `Choose`, `Start` |
| `stat`, `list`, their v2 forms | `StatRequest`, `StatId`, `StatBody`, `ListRequest`, `ListId`, `ListBody`, `ListName` |
| `pull`, the ofstream | `PullRequest`, `OpenLocal`, `PullId`, `PullSize`, `PullChunk`, `Drop` (what the destructor flushes, or fails to) |
| the decoders | `DecoderCall`, `InputTaken`, `DecodeLoop`, `BrotliDecode` |
| `push`, its `stat` first, DONE, the status | `PushChoose`, `Destination`, `PushRequest`, `OpenInput`, `PushData`, `ReadStatus` |
| `sync_fail` | `FailRead` |

### AdbKey, AdbApp, AdbTour

`AdbKey` is `Key::load_or_generate` in several threads: every look at the file
system, every open that truncates, every write and every close is a step. The
ofstreams may write at once or when they are closed, after the checks. A run may
crash at any point and the program be started again.

`AdbApp` is one device's tour through the shell and app commands as
`examples/demo_multi` makes it: connect, install (one APK with `pm install`,
several in a `pm` session with create, write, commit and abandon), wake, launch with retries,
`is_running`, close, uninstall. A command is one step with all its outcomes: the
answer came whole, it was cut at any packet or inside one, the stream failed
before or after the device acted. What the device prints is the set of words the
host looks for.

`AdbTour` is `main`: a thread per device, joined, with an exit status. One
thread's tour is followed; of the others the key is, which is all they share.

## 4. Runs

### Passing

| run | what it shows |
|---|---|
| `stream_faults` | one stream at a time (as Shell, Sync and App use them) with delayed acknowledgements, timeouts, a link that dies or is closed at any point, stray frames: `InOrder`, `AllDelivered`, `VerdictsTrue`, `TypeOK` |
| `stream_moves` | two objects, two streams open at once, moves and assignments, calls that time out: `InOrder`, `OneClose`, `AckAfterTake`, `NoOrphan` (which excepts the stream of an open that timed out, see below) |
| `stream_live` | the caller writes too, no faults: `FramesAddressed`, and every call returns: `CallReturns` |
| `session_faults` | reads and writes that fail anywhere, corrupt frames, moved sessions: `ClosedForCause`, `OneHoldsTransport` |
| `session_channel` | reads that fail anywhere, corrupt frames: `AdbSession` implements `FrameChannel` (`ChannelSpec`); `ReceiveReturns` |
| `connect` | every caller and device, a fault in any step of any attempt, a reconnect: `HandshakeAgreed`, `AuthorizationReported`, `PromptOnlyForUnknownKey`, `DeviceFree`, `FailsForCause`, `ConnectReturns` |
| `sync` | every call, codec, build and device, with a failing connection, disk and device, and a directory that comes or goes between stat and send: `DoneAsReported` (`PullExact`, `PushStored`, `ListExact`), `PartialIsPrefix`, `InStep`, `NeverUncompressed`, `RejectionReported`, `CallReturns` |
| `transports` | USB, TCP and both under the helper, with every fault: `InSpec`, `OutSpec`, `ReadableIsRead`, `NothingLeaks`, `OpensTheOnePicked`, `TransferReturns`, `TypeOK` |
| `tour` | threads that race for the key files, a crash and a second run, a tour in which every command may fail: `KeyUntouched`, `StoredWhole`, `HandedOutIsStored`, `CommandsTruthful` (`InstalledAsSaid`, `TourTruthful`, `RunningTruthful`), `InstallTidiesUp` (`ApkRemoved`, `SessionEnds`), `ExitTruthful`, `ProgramEnds` |

Some properties say less than one might read into their names:

- `DoneAsReported` excuses a pull for what the ofstream's destructor could not flush
  (`local.lost`) and for what the brotli decoder still held at DONE (`dec.held`);
  `brotli_truncates` shows the second.
- `NeverUncompressed` says that a transfer with a named codec runs in a v2 form and
  needs that codec on both sides. It does not say that this codec is the one used.
- `ReadableIsRead` is about bytes that a wait saw and, over TCP, about a peer that
  closed. After an empty USB packet the promised read waits.
- `CommandsTruthful` claims "running" and an install of several APKs only where every
  answer came whole and with an exit code (`Answered`).
- `InstallTidiesUp` is about the one APK of `install` and about the session of an
  `install_app` whose write was refused. The APKs `install_app` pushes stay, and a
  stream or a push that fails leaves the session.

`AllDelivered` is not checked in `stream_moves`, where two streams are open at
once: there it is false (see below). Delayed acknowledgements with a window of
the whole output allow every order of frames that the other mode allows.

### Disagreements with the repository's own words

Three have a run that shows them:

| run | the code does | the repository says |
|---|---|---|
| `overlap_truncates` | the reader of one stream drops the WRTE of another; its `read_all` then succeeds with part of the output | `stream.hpp:74`: reads all output until the remote closes |
| `brotli_truncates` | the loop of the brotli decoder ends with its input (`compression.cpp:207`) while the decoder may still hold output; after the last chunk it never comes, and the pull succeeds with a short file | `compression.cpp:12`: one output buffer per call is enough for a chunk |
| `poll_blocks` | the helper asks with a timeout of zero, which is no timeout to libusb: a silent USB device blocks the thread | `transport.cpp:35`: a zero timeout asks without waiting |

The models do what the code does in these cases too:

- `Stream::write` sends again while the last WRTE is not acknowledged
  (`stream.cpp:188`); `commands.hpp:71` forbids it.
- After an `open` that timed out the CLSE carries remote id 0 (`stream.cpp:103`);
  a device that accepted keeps the stream, which `NoOrphan` excepts (`fate` is
  "failed"). `stream.hpp:28`: every later frame
  carries both ids.
- With delayed acknowledgements the OKAY of a WRTE has no count
  (`stream.cpp:214`); `commands.hpp:58`: the count is what releases the window.
- The Stream of an `open` that the device refused is not marked closed
  (`stream.cpp:112`), so its destructor sends a CLSE although `stream.cpp:225`
  says that a CLOSE must not be answered with another.
- Two reads that fail inside one frame can leave the session open and aligned on
  the next frame (`session.cpp:205`); `session.cpp:77`: a desynchronised session
  is closed as well as reported.
- A write that fails half way leaves the session open, and the next send completes
  the wrong frame (`session.cpp:158`); `session.hpp:61`: never a header that leaves
  the device waiting.
- A USB read that fails leaves its receive buffer at full size
  (`usb_transport.cpp:471-481`), and the next read returns bytes nobody sent;
  `wait_readable` clears the buffer on the same path. `ByteChannel` promises
  nothing after a reported failure, so `InSpec` holds.
- A USB `wait_readable` that times out is an error (`usb_transport.cpp:550`);
  `transport.hpp:74` says a timeout is `false`. An empty packet is taken off the
  wire and answered with "readable", and the read that follows waits.
- `choose_codec` returns the best codec both sides have even when another one was
  named (`sync.cpp:268`); `sync.hpp:111`: the v2 forms with that codec.
- Threads without a key truncate and write the same file (`adb_key.cpp:413`), and
  one that sees another's empty file fails; `demo_multi/main.cpp:486` calls one
  thread per device the supported model because the objects share no state.
  `StoredWhole` says what survives: a whole key, when all have finished.

And these follow from the code without contradicting a document:

- a transfer timeout of zero is no timeout, so the budget is never looked at;
- the v1 shell reports every command as a success, and a v2 answer without an exit
  packet counts as exit code 0, so the commands that look at the exit code alone
  are only as good as the answer (`Answered` in `CommandsTruthful`);
- `pm install-create` that answers `Failure [REASON]` gives `REASON` as a session
  id, and the next command fails;
- split APKs that were pushed are never removed, and a push that fails leaves
  the `pm` session behind (`SessionEnds` excepts it with `lost`);
- an ofstream's last flush is in its destructor, where a failure is not seen: a
  pull or a stored key can be short (`local.lost`, `damaged`);
- a crash in the middle of storing a key leaves an empty `adbkey` that every later
  run refuses;
- a push asks `stat` on one stream and sends on another, so a directory may come
  or go in between (the fault "race").

### Bounds

`AdbStream`: two local ids (`MaxLocalId` 3) are enough for a stream to meet what
an earlier or a concurrent one left behind; two objects for every move; two to
three bytes in chunks of one or two, read one or two at a time, give reads that end
before, at and after the end of a WRTE and a buffer that is half read; two
writes for one in flight behind another. In `stream_faults` a `Window` of 2 with
three bytes exhausts the window: the third byte is never sent, because the OKAY
gives nothing back. `stream_moves` has three bytes that are read one at a time.

`AdbSession`: a header of two bytes can be read in pieces; payloads of 0 up to
`MaxData` + 1 cover the empty, the full and the oversized payload; two frames in
each direction are one to lose and one to go on with.

`AdbConnect`: three attempts are a first, a middle and a last one; two calls are
a connect and a reconnect; three tokens on one transport are the three AUTHs
that `connect` tells apart.

`AdbSync`: three blocks are a chunk, one that fills the output and one that comes
after; two entries are one that fails and one that does not, in either order; the
devices have no codec, one, two and all.

`AdbPoll`: two bytes each way, at most two (`MaxRead`) asked for in one read, and three handed out (one more than was sent); a
buffer of two; a timeout of 2 and a budget of 3, so that a second attempt is within
the budget and a third is not; two passes of the helper, over TCP alone and over
both in either order. Buses have one device, two
of one model, a busy one and one without an ADB interface; endpoints have none, one
or two addresses. Where there is a choice of devices or addresses, only open and
close are followed.

`AdbTour`: two threads, two runs, two launches and two polls (ten in the code). The
whole tour is followed where adb left its key; where a key has to be made, the
device is gone when the thread wants to connect. The two parts do not share state.

States: `sync` 240,030, `transports` 662,773, `tour` 315,928, `stream_faults`
2,021,409, `stream_moves` 3,481,291, `session_faults` 1,577,419.

Faults are sets, so that each run has those its question is about. Deadlock is
not checked: a caller may stop at any time.

### Fairness

`CallReturns`: the host handles a frame that is there (a call in progress is a
loop in a running thread), the device handles its frames, its services write
what they are allowed to and exit when done. No fairness on the caller or on
faults. The device's part is an assumption about adbd; with it, what is shown is
that the host's acknowledgements never leave both sides waiting.

`ReceiveReturns`: the transport goes on moving bytes that have arrived.

`ConnectReturns`: the thread inside `connect_with_retry` goes on, where a receive
that gets nothing fails in the end, because both transports bound their reads by a
budget. The device and its user owe nothing.

`CallReturns` of `AdbSync`: the host's call goes on (its reads return, in the end
with an error) and the device's sync service answers what it got. `TransferReturns`:
a call in progress goes on, that is a thread that runs and a timeout that expires;
the device owes nothing. `ProgramEnds`: every thread runs on, because its commands,
transfers and handshakes return, which the runs above show. A crash is never owed.

## 5. Proofs

`AdbStreamProofs` proves, for every set of objects, every bound, every set of
faults and both acknowledgement modes:

- `TypeCorrect`: `Spec => []TypeOK`. The invariant is `TypeOK` with `CallHasObject`:
  a call that waits has a Stream object, without which `stream[call.h]` has no
  type. What is not evident is that lengths stay natural numbers (`buf.len - n`
  in read, `want - k`, the device's credit).
- `ClosedOnce`: `Spec => []OneClose`. `OneClose` says nothing about who will send
  the next CLSE, so it is not inductive. `OwnerInv` adds that an object which is
  not closed owns an accepted stream that neither side has closed, that no two
  objects own the same one, that a call works on an object it owns, and what
  the history of an id says about its closing. Each action is a step of the
  proof; the moves are the ones that need `OneOwner`, `OpenAccepted` the ones
  that need that an id being opened has no owner.

- `OnlyAddressed` and `VerdictsHold`: `FramesAddressed` and `VerdictsTrue`. The invariant
  is `WireInv` (`WireInvariance`), about every frame on its way: one to the device is an
  OPEN the device has not answered, the only one for its id, or is of a stream it
  accepted (`ToDeviceSound`); one to the host is of a stream the device accepted, or a
  refusal, and no CLSE comes of a stream that is still open (`ToHostSound`). What open
  reported is what the device did (`FateTrue`), and the first frame an open can meet
  for its id is the device's answer (`AnswerFirst`): this is why open may take
  whatever has its id in `arg1`.
- `NoneOrphaned`: `NoOrphan`, with every fault. `OrphanInv` says that while the link is
  up a stream which was opened and is open at the device has an owner or a CLSE on its
  way. `NoOrphan` excepts the stream whose open failed: an open that gives up before
  the answer sends `CLSE(l, 0)`, which names no id of the device's, and the stream
  stays open.
- `AcknowledgedWhenTaken`: `AckAfterTake`. `OneInFlight` says that without delayed
  acknowledgements there is, for each stream, one of the right to send, a WRTE and an
  OKAY, and how far `taken` is behind `sent` in each case; a WRTE that another
  stream's call dropped leaves none of them, and the device waits for good.
- `ReadInOrder`: `InOrder` when `~DelayedAck \/ OneHandle`. `BytesKept` says that what was
  taken of a stream is what its calls have returned, then what the call in progress
  has copied or the object has buffered. That the next WRTE follows comes from
  `OneInFlight` or, with one object and any window, from `StreamedInv`: of a stream that
  somebody awaits, each WRTE on its way continues the one before it, and the CLSE
  comes behind them all. With several objects and a window it is false: a call on one
  stream drops a WRTE of another, whose device sends on.
- `ReadAllComplete`: `AllDelivered` when `OneHandle`, with every fault and any window, from
  the same invariant. With two objects it is false (section 4).

`OneHandle`, one Stream object at a time, is how shell, sync and app use streams. The runs
check these invariants' consequences on small instances; the invariants themselves
are in `AdbStreamInv`, where TLC can evaluate them.

The assumptions used there are those of the constants (`LinkAssumption`,
`DeviceAssumption`, `HostAssumption`): bounds are natural numbers, and
`NoHandle` is not an object.

`AdbKeyProofs` proves, for every number of threads and runs and every fault:

- `KeyTypeCorrect`: `KeySpec => []KeyTypeOK`.
- `KeyNeverReplaced`: `KeySpec => []KeyUntouched`. A key that was there when a run
  began stays, in both files.
- `StoreLeavesWholeKey`: `KeySpec => []StoredWhole`. However many threads store at
  once, when none is storing any more `adbkey` holds a whole key, unless a store
  was cut off.
- `HandedOutKeyIsStored`: `KeySpec => []HandedOutIsStored`.

They share the invariant `KeyInv`. `NobodyMakes` says that no thread gets as far as
making or storing a key when there was one; `PrivateOwed` and `PublicOwed` that a
truncated file is owed by a thread that is still going to write it, which is what
makes a race harmless in the end: the last to truncate is also still to write.
`HasKeyInv`, `MadeInv` and `ExistsInv` relate keys, counters and files.
`KeyAssumption` is all that is assumed.

`AdbTourProofs` proves `TourImplementsKeyStore`, `Spec => KeySpec`: every step of the
program is a step of the key store or leaves it alone; hence `TourKeepsKey`,
`Spec => []KeyUntouched` for the whole program.

`AdbConnectProofs` proves, for every number of attempts, calls and tokens, every
caller and device and every set of faults, the five safety properties of the run
`connect`: `HandshakeAgrees`, `AuthorizationIsReported`, `PromptsOnlyForUnknownKey`,
`DeviceIsFree` and `FailsOnlyForCause`. None is inductive: each compares a result
with what the device did several frames earlier. `ConnectInv` adds that question and
answer alternate on a transport (`Alternation`), so that the answer connect takes
is the one to its last question; that what an answer says is still so when it is
taken (`AnswersTrue`), though the user may approve at any time; what each side knows
of the other (`ViewsAgree`); and that the attempts which ended are those a fault hit
(`AttemptsCounted`, with `EasyHandshake` for a device that needs no user).

`AdbSessionProofs` proves, for frames of any number and length, reads of any size
and any failures:

- `TransportHasOneOwner`: at most one session is open, it has the open transport, and
  the call in progress is on it.
- `SessionClosedForCause`.
- `SessionIsFrameChannel`: `Spec => ChannelSpec` when `"write" \notin Faults`. The
  hypothesis is needed, because the statement is false otherwise (section 4).

`SessionInv` says where receive stands: the bytes on the wire continue those it has
read of the current frame (`ReadPosition`), until a read has failed inside a frame
it looks at every frame from the first byte (`InStep`), and the device stands where
it thinks it does in what the host wrote (`DevicePosition`). `Known` says that all
bytes to the device belong to frames that were sent. The lemmas on byte streams
(`Whole`, `At`) tell what remains of a stream of frames after some bytes were read
or a frame was added.

`AdbPollProofs` proves, for all buses, endpoints, buffer sizes, timeouts, budgets
and faults:

- `PollTypeCorrect`, `NothingIsLeaked`, `PickedIsOpened`.
- `SeenIsRead`: `ReadableIsRead`, that is all but what follows an empty USB packet.
- `ReadsAreChannels` and `WritesAreChannels`: both transports implement `ByteChannel`
  in both directions.

`PollInv` relates the resources held to how far open came, the receive buffer to
what was taken off the wire and not handed out (`UsbIntact`), the bytes a write has
still to move to what has reached the device (`Written`), and what the last wait saw
to what is still there (`UsbSaw`, `TcpSaw`). `UsbAssumption`, `TcpAssumption` and
`PollAssumption` say that sizes and rounds are positive and that buses are
sequences of devices.

`AdbAppProofs` has the invariant of a tour, one lemma per command; `AdbTourProofs`
combines it with the key store's and proves `CommandsAreTruthful`,
`InstallIsTidy` and `ExitIsTruthful`, each with the exceptions of section 4, for every app, number of threads, retries
and fault. `AppInv` says what the device has when a command was reported to have
worked (`WorkedTruthful`), that what was written into a `pm` session and what is still
to be written make up the app (`Remaining`), and that a session is open only while
it is being worked on (`SessionKnown`).

`AdbSyncProofs` proves the five safety properties of the run `sync` for files and
directories of any size, all builds, devices, chunks and codecs and every set of
faults: `ReadsInStep`, `NamedNeverUncompressed`, `RejectionsReported`, `PartialsArePrefixes`
and `DoneIsAsReported`. They are about the end of a call, and `SyncInv` is what holds
on the way there. `Modes` ties the operation, the form, the codec and the place in
the code to each other; what the caller named comes in with `Named`, an invariant of
its own, because only the two steps that call `choose_codec` matter to it. `Conversation` says that the unread fields are whole
frames (`Framed`), that the one the host is about to read is the one that comes
(`Place`), and what the device still owes (`Answer`): a call ends well only when it
owes nothing. For a push, `Pushing` numbers the blocks on their way, so that what has
been stored continues with them up to the DONE. For a pull and a listing, `Progress`
gives every unread field the number of blocks or entries before it: those in the
file, in the ofstream's buffer and in the decoder (`HostAt`), then those in the
fields, then those the device has still to send (`DeviceAt`) make up the whole.
`Flushed` says that zstd and lz4 meet the end of their frame before DONE, which is why
nothing is held back at the end. `SyncAssumption` is all that is assumed.

Model-checked only: liveness (`CallReturns`, `ReceiveReturns`,
`ConnectReturns`, `TransferReturns`, `ProgramEnds`), which is out of the prover's
reach. Every safety property of a passing run is stated by a theorem, under the
hypotheses above where there are any.

## 6. Abstractions and limits

- A failed `receive` in `AdbLink` consumes no frame. The torn reads of
  `AdbSession` can lose one; they are not fed into `AdbStream`.
- A `send` fails only when the link is not up.
- The model device sends no empty WRTE.
- Payload bytes never look like a header: their magic is wrong.
- Every transport of `AdbConnect` starts with empty channels: what a USB endpoint
  keeps across a close is not modelled. Of the banners only `delayed_ack` is
  kept, and the backoff has no duration.
- The caller of `AdbConnect` closes a connection before it connects again, as
  `docs/05-usage.md` does.
- `next_local_id` stays below its wrap at 2^32.
- What the host writes has no content; a write longer than `max_data` is an error
  that changes nothing and is left out.
- Streams over a reconnect are not modelled: a Stream keeps a pointer to its
  Connection, and one that survives `connection = connect_with_retry(...)` would
  send its CLSE on the new one.
- `AdbSync` stops where the host takes one field for another (`InStep` shows that it
  never does); its stream neither loses nor reorders. Files have no mode and no
  time; errors of the codec libraries, and a FAIL whose length is absurd
  (`sync_fail` allocates what it is told), are left out.
- Timeouts and budgets of the transports are constants of a run, not set while a
  call is going on. Hot-plugging while a device is open is a failing transfer.
- A thread that stores a key writes it whole or not at all; two threads that
  write at the same time leave one of the two keys.
- `AdbApp` leaves out quoting and wording; a command's output has the words the
  host searches for and no others.
- Not modelled: `DeviceId::parse` and `parse_endpoint` as string handling, the
  header's byte layout, RSA, the key encodings, `sign` and `fingerprint`, the codecs
  themselves, Log (each operation is one critical section; a sink that was copied
  may be called once more after `clear_logger`), the mock transport, the other
  examples (`demo` is `demo_multi` with one device; `multi` and `usb` call
  single operations), tests and build files.
