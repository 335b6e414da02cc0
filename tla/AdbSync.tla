------------------------------- MODULE AdbSync -------------------------------
(***************************************************************************)
(* The sync service (src/sync.cpp): list, stat, pull and push, with the v2 *)
(* forms and their codecs (src/compression.cpp).  One call is followed     *)
(* from its arguments to its return.                                       *)
(*                                                                         *)
(* The stream under it is AdbStream's promise: bytes in order until the    *)
(* connection fails or the device closes the stream.  The device's answers *)
(* are a sequence of fields, because the host reads them field by field: a *)
(* field read as another one is garbage.  A request is one write.          *)
(*                                                                         *)
(* Data.  A file is the sequence of its blocks of kMaxChunkSize bytes.  A  *)
(* compressed chunk is a sequence of symbols, a symbol the sequence of     *)
(* blocks it expands to; a frame is closed by a symbol that expands to     *)
(* nothing.  zstd and lz4 take it only once their output is flushed (the   *)
(* last byte zstd holds back, the end mark of lz4), brotli at once.        *)
(***************************************************************************)
EXTENDS Naturals, Sequences, SequencesExt

CONSTANTS
  Builds,       \* the sets of codecs the library may be built with
  Devices,      \* the sets of features the device may advertise
  MaxBlocks,    \* bound: blocks of a file
  MaxEntries,   \* bound: entries of a directory
  Faults        \* which of "link", "io", "reject" and "race" may happen

ASSUME SyncAssumption ==
  /\ MaxBlocks \in Nat /\ MaxEntries \in Nat
  /\ Faults \subseteq {"link", "io", "reject", "race"}

VARIABLES
  call,         \* the arguments of the call and the world it is made in
  pc,           \* where the call stands
  form,         \* "stat", "list", "pull", "push", "pull_v2" or "push_v2"
  codec,        \* what choose_codec returned, NoCodec for the v1 forms
  last,         \* the id read last
  result,       \* "none", "ok" or an ErrorCode
  entries,      \* list: what it returns
  errored,      \* list: the error field of the body read last is set
  found,        \* stat: the kind it reports
  dest,         \* push: "path", or "inside" the directory path names
  sent,         \* push: blocks read from the local file and written
  local,        \* pull: the local file, the ofstream's buffer, what it lost
  dec,          \* pull_v2: the decoder's input, output and what it holds back
  up,           \* the connection works
  toDev, toHost,
  dev,          \* the device's sync service
  remote        \* the device's files

callVars == <<call, form, codec>>
listVars == <<entries, errored, found>>
pushVars == <<dest, sent>>
linkVars == <<up, toDev, toHost>>
vars == <<callVars, pc, last, result, listVars, pushVars, local, dec, linkVars, dev, remote>>

-----------------------------------------------------------------------------
(* Values.                                                                  *)

Codecs  == {"zstd", "lz4", "brotli"}
NoCodec == "none"

Nothing == [kind |-> "missing", data |-> <<>>]
Dir     == [kind |-> "dir", data |-> <<>>]
File(d) == [kind |-> "file", data |-> d]
Data(n) == [i \in 1 .. n |-> i]

\* The local file before a pull: one block that is not the device's.
OldData == <<0>>

Field(k, v) == [k |-> k, v |-> v]
Fail        == <<Field("id", "FAIL"), Field("length", 0), Field("reason", 0)>>
Req(id, v)  == [id |-> id, v |-> v]

Has(feature) == feature \in call.features

-----------------------------------------------------------------------------
(* Reading and writing the stream.                                          *)

Goto(p) == pc' = p /\ UNCHANGED result

\* The call returns r; its stream and its files are destroyed on the way out.
Return(r) == pc' = "drop" /\ result' = r

\* Stream::read takes the next field.  A host that takes another field for it
\* has lost its place, and the model stops there.
Read(k, Then(_), frame) ==
  /\ toHost # <<>>
  /\ toHost' = Tail(toHost)
  /\ IF Head(toHost).k = k
     THEN Then(Head(toHost).v)
     ELSE Return("Protocol") /\ UNCHANGED frame
  /\ UNCHANGED <<callVars, pushVars, up, toDev, dev, remote>>

\* Stream::write.
Write(r, p) ==
  /\ up
  /\ toDev' = Append(toDev, r)
  /\ Goto(p)
  /\ UNCHANGED <<callVars, last, listVars, dec, up, toHost, dev, remote>>

ReadingAt == {"id", "body", "name", "size", "chunk", "length", "reason", "okay"}
WritingAt == {"request", "data", "done", "quit"}

\* A read fails when the connection does, or when the device closed the stream
\* and nothing is buffered; a write only when the connection fails.
StreamFails ==
  /\ \/ ~up /\ pc \in ReadingAt \cup WritingAt /\ Return("Transport")
     \/ /\ pc \in ReadingAt /\ toHost = <<>> /\ dev.st = "gone"
        /\ Return("Closed")
  /\ UNCHANGED <<callVars, last, listVars, pushVars, local, dec, linkVars, dev, remote>>

-----------------------------------------------------------------------------
(* The start of a call.                                                     *)

\* A codec both sides have.
Available(c) == c \in call.build /\ Has("sendrecv_v2") /\ Has(c)

\* Mutant: an explicit codec falls back to the best one there is.
ExplicitOk(c) == TRUE

\* choose_codec refuses an explicit codec one side does not have.
CodecAllowed(c) == c \in Codecs => Available(c)

\* choose_codec: zstd, then lz4, then brotli, whatever codec was named.
ChosenCodec ==
  IF call.compression = "None" THEN NoCodec
  ELSE IF Available("zstd") THEN "zstd"
  ELSE IF Available("lz4") THEN "lz4"
  ELSE IF Available("brotli") THEN "brotli"
  ELSE NoCodec

\* The file forms of pull and push: v2 with a codec, v1 without.
Choose(v1, v2) ==
  IF CodecAllowed(call.compression)
  THEN /\ codec' = ChosenCodec
       /\ form' = IF ChosenCodec = NoCodec THEN v1 ELSE v2
       /\ Goto("open")
  ELSE Return("InvalidArgument") /\ UNCHANGED <<codec, form>>

\* list, stat, pull and push check their arguments; push asks stat first.
Start ==
  /\ pc = "start"
  /\ IF ~call.pathOk \/ ~call.localOk
     THEN Return("InvalidArgument") /\ UNCHANGED <<codec, form>>
     ELSE IF call.op = "pull"
     THEN Choose("pull", "pull_v2")
     ELSE /\ form' = IF call.op = "list" THEN "list" ELSE "stat"
          /\ Goto("open")
          /\ UNCHANGED codec
  /\ UNCHANGED <<call, last, listVars, pushVars, local, dec, linkVars, dev, remote>>

\* Stream::open of "sync:"; every stream is a service of its own.
OpenSync ==
  /\ pc = "open"
  /\ IF up THEN Goto("request") ELSE Return("Transport")
  /\ toDev' = <<>> /\ toHost' = <<>>
  /\ dev' = [st |-> "ready", rest |-> <<>>, tail |-> FALSE, to |-> "path", failed |-> FALSE]
  /\ UNCHANGED <<callVars, last, listVars, pushVars, local, dec, up, remote>>

\* The request of a call without a file of its own.
ListRequest ==
  /\ pc = "request" /\ form = "list"
  /\ Write(Req("LIST", Has("ls_v2")), "id")
  /\ UNCHANGED <<pushVars, local>>

StatRequest ==
  /\ pc = "request" /\ form = "stat"
  /\ Write(Req("STAT", Has("stat_v2")), "id")
  /\ UNCHANGED <<pushVars, local>>

-----------------------------------------------------------------------------
(* list and stat.                                                           *)

\* Mutant: sync_fail reads past the reason.
FailReadsOn ==
  /\ \/ pc = "length" /\ Read("length", LAMBDA v : Goto("reason"), <<>>)
     \/ pc = "reason" /\ Read("reason", LAMBDA v : Goto("reason"), <<>>)
  /\ UNCHANGED <<last, listVars, local, dec>>

\* sync_fail: the reason is read before the error is returned.
FailRead ==
  /\ \/ pc = "length" /\ Read("length", LAMBDA v : Goto("reason"), <<>>)
     \/ pc = "reason" /\ Read("reason", LAMBDA v : Return("Device"), <<>>)
  /\ UNCHANGED <<last, listVars, local, dec>>

\* Every answer starts with an id; FAIL is told from the others at once.
ReadId(Then(_)) ==
  /\ pc = "id"
  /\ Read("id", LAMBDA v : last' = v /\ IF v = "FAIL" THEN Goto("length") ELSE Then(v), last)
  /\ UNCHANGED <<listVars, local, dec>>

\* Mutant: DONE has no body in a listing.
DoneHasNoBody == form = "list" /\ ReadId(LAMBDA v : Goto(IF v = "DONE" THEN "quit" ELSE "body"))

\* An id is followed by a body, DONE too.
ListId == form = "list" /\ ReadId(LAMBDA v : Goto("body"))

\* The name follows even when the entry failed.
NameFollows(v) == Goto("name")

\* The body of a DENT; DONE has one too and ends the listing.
ListBody ==
  /\ pc = "body" /\ form = "list"
  /\ Read("body", LAMBDA v :
       /\ errored' = v
       /\ IF last = "DONE" THEN Goto("quit")
          ELSE IF last # "DENT" THEN Return("Protocol")
          ELSE NameFollows(v), errored)
  /\ UNCHANGED <<last, entries, found, local, dec>>

\* v2 entries whose lstat failed are left out.
Kept == ~(Has("ls_v2") /\ errored)

ListName ==
  /\ pc = "name"
  /\ Read("name", LAMBDA v : entries' = (IF Kept THEN Append(entries, v) ELSE entries) /\ Goto("id"), entries)
  /\ UNCHANGED <<last, errored, found, local, dec>>

\* stat does not look at the id.
StatId ==
  /\ pc = "id" /\ form = "stat"
  /\ Read("id", LAMBDA v : Goto("body"), <<>>)
  /\ UNCHANGED <<last, listVars, local, dec>>

\* v2 reports a missing path as an error, v1 as all zeros.
StatBody ==
  /\ pc = "body" /\ form = "stat"
  /\ Read("body", LAMBDA v : found' = v /\ Goto("quit"), found)
  /\ UNCHANGED <<last, entries, errored, local, dec>>

-----------------------------------------------------------------------------
(* pull.                                                                    *)

PullRequest ==
  /\ pc = "request" /\ form = "pull"
  /\ Write(Req("RECV", NoCodec), "local")
  /\ UNCHANGED <<pushVars, local>>

PullV2Request ==
  /\ pc = "request" /\ form = "pull_v2"
  /\ Write(Req("RECV", codec), "local")
  /\ UNCHANGED <<pushVars, local>>

\* The ofstream truncates the file before the first answer is read.
OpenLocal ==
  /\ pc = "local"
  /\ \/ /\ local' = [local EXCEPT !.file = <<>>, !.open = TRUE]
        /\ Goto("id")
     \/ /\ "io" \in Faults
        /\ Return("Io") /\ UNCHANGED local
  /\ UNCHANGED <<callVars, last, listVars, pushVars, dec, linkVars, dev, remote>>

PullId == form \in {"pull", "pull_v2"} /\ ReadId(LAMBDA v : Goto("size"))

\* The size field: DONE ends the transfer, DATA is bounded.
AfterSize(v, bound) ==
  IF last = "DONE" THEN Goto("quit")
  ELSE IF last # "DATA" \/ v > bound THEN Return("Protocol")
  ELSE Goto("chunk")

\* kMaxChunkSize is one block, kMaxCompressedChunkSize two symbols.
PullSize ==
  /\ pc = "size" /\ form = "pull"
  /\ Read("size", LAMBDA v : AfterSize(v, 1), <<>>)
  /\ UNCHANGED <<last, listVars, local, dec>>

PullV2Size ==
  /\ pc = "size" /\ form = "pull_v2"
  /\ Read("size", LAMBDA v : AfterSize(v, 2), <<>>)
  /\ UNCHANGED <<last, listVars, local, dec>>

\* ofstream::write: what was buffered goes to disk, the new bytes are buffered.
Output(d) ==
  \/ local' = [local EXCEPT !.file = @ \o local.buf, !.buf = d] /\ Goto("id")
  \/ "io" \in Faults /\ Return("Io") /\ UNCHANGED local

PullChunk ==
  /\ pc = "chunk" /\ form = "pull"
  /\ Read("chunk", LAMBDA v : Output(v[1]), local)
  /\ UNCHANGED <<last, listVars, dec>>

PullV2Chunk ==
  /\ pc = "chunk" /\ form = "pull_v2"
  /\ Read("chunk", LAMBDA v :
       dec' = [dec EXCEPT !.in = v, !.out = <<>>] /\ Goto("decode"), dec)
  /\ UNCHANGED <<last, listVars, local>>

\* The blocks a chunk expands to.
Expand(c) == (IF Len(c) > 0 THEN c[1] ELSE <<>>) \o (IF Len(c) > 1 THEN c[2] ELSE <<>>)

\* One call of the codec's library (external), which gives out at most the one
\* block its buffer has room for.  zstd and lz4 take the next symbol once nothing
\* is held back, brotli takes all its input at once.
DecoderCall ==
  LET eager == codec = "brotli"
      pend  == IF eager THEN dec.held \o Expand(dec.in)
               ELSE IF dec.held = <<>> THEN Head(dec.in) ELSE dec.held
  IN  [in   |-> IF eager THEN <<>> ELSE IF dec.held = <<>> THEN Tail(dec.in) ELSE dec.in,
       out  |-> dec.out \o (IF pend = <<>> THEN <<>> ELSE <<Head(pend)>>),
       held |-> SubSeq(pend, 2, Len(pend))]

\* Mutant: the decoder is called once per chunk.
OneCall == dec.out # <<>> \/ dec.in = <<>>

\* The decode loops end with their input.
InputTaken == dec.in = <<>>

DecodeLoop ==
  /\ pc = "decode"
  /\ IF InputTaken
     THEN Output(dec.out) /\ UNCHANGED dec
     ELSE dec' = DecoderCall /\ UNCHANGED <<pc, result, local>>
  /\ UNCHANGED <<callVars, last, listVars, pushVars, linkVars, dev, remote>>

ZstdDecode   == codec = "zstd" /\ DecodeLoop
Lz4Decode    == codec = "lz4" /\ DecodeLoop
BrotliDecode == codec = "brotli" /\ DecodeLoop

-----------------------------------------------------------------------------
(* push.                                                                    *)

\* A directory receives the file under its local name.
Destination == IF found = "dir" THEN "inside" ELSE "path"

\* push goes on once stat has returned.
PushChoose ==
  /\ pc = "drop" /\ form = "stat" /\ call.op = "push" /\ result = "ok"
  /\ dest' = Destination
  /\ IF CodecAllowed(call.compression)
     THEN /\ codec' = ChosenCodec
          /\ form' = IF ChosenCodec = NoCodec THEN "push" ELSE "push_v2"
          /\ pc' = "open" /\ result' = "none"
     ELSE Return("InvalidArgument") /\ form' = "push" /\ UNCHANGED codec
  /\ UNCHANGED <<call, last, listVars, sent, local, dec, linkVars, dev, remote>>

PushRequest ==
  /\ pc = "request" /\ form = "push"
  /\ Write(Req("SEND", dest), "input")
  /\ UNCHANGED <<pushVars, local>>

PushV2Request ==
  /\ pc = "request" /\ form = "push_v2"
  /\ Write(Req("SEND", dest), "input")
  /\ UNCHANGED <<pushVars, local>>

\* The ifstream is opened after the request went out.
OpenInput ==
  /\ pc = "input"
  /\ Goto("data") \/ ("io" \in Faults /\ Return("Io"))
  /\ UNCHANGED <<callVars, last, listVars, pushVars, local, dec, linkVars, dev, remote>>

\* Mutant: the last block is not followed by DONE.
BlocksOnly(payload) ==
  /\ pc = "data"
  /\ \/ sent < call.size /\ Write(Req("DATA", payload), "data") /\ sent' = sent + 1
     \/ /\ sent = call.size /\ Goto("id")
        /\ UNCHANGED <<callVars, last, listVars, dec, linkVars, dev, remote, sent>>
  /\ UNCHANGED <<dest, local>>

\* One DATA block in one write, which must fit the connection's max_data; DONE
\* follows the last one.  Nothing is read on the way.
PushBlock(payload) ==
  /\ pc = "data"
  /\ \/ /\ sent < call.size /\ call.fits
        /\ Write(Req("DATA", payload), "data")
        /\ sent' = sent + 1
     \/ /\ sent = call.size
        /\ Write(Req("DONE", 0), "id")
        /\ UNCHANGED sent
     \/ /\ sent < call.size
        /\ \/ ~call.fits /\ Return("InvalidArgument")
           \/ "io" \in Faults /\ Return("Io")
        /\ UNCHANGED <<callVars, last, listVars, dec, linkVars, dev, remote, sent>>
  /\ UNCHANGED <<dest, local>>

PushData == form = "push" /\ PushBlock(<<sent + 1>>)

\* Each block is a frame of its own.
PushV2Data == form = "push_v2" /\ PushBlock(<<sent + 1>>)

\* Mutant: the transfer counts as done when DONE is written.
StatusUnread == form \in {"push", "push_v2"} /\ pc = "id" /\ Goto("quit")
                /\ UNCHANGED <<callVars, last, listVars, pushVars, local, dec, linkVars, dev, remote>>

\* read_status: OKAY, or FAIL and its reason.
ReadStatus ==
  \/ form \in {"push", "push_v2"} /\ ReadId(LAMBDA v : IF v = "OKAY" THEN Goto("okay") ELSE Return("Protocol"))
  \/ /\ pc = "okay"
     /\ Read("length", LAMBDA v : Goto("quit"), <<>>)
     /\ UNCHANGED <<last, listVars, local, dec>>

-----------------------------------------------------------------------------
(* The end of a call.                                                       *)

\* write_quit is the last thing a call that worked does; its failure is the
\* call's.
WriteQuit ==
  /\ pc = "quit"
  /\ up
  /\ toDev' = Append(toDev, Req("QUIT", 0))
  /\ Return("ok")
  /\ UNCHANGED <<callVars, last, listVars, pushVars, local, dec, up, toHost, dev, remote>>

\* The destructors: the ofstream's last flush may fail and nobody is told.
Drop ==
  /\ pc = "drop"
  /\ ~(form = "stat" /\ call.op = "push" /\ result = "ok")
  /\ pc' = "ret"
  /\ \/ local' = [local EXCEPT !.file = @ \o local.buf, !.buf = <<>>]
     \/ "io" \in Faults /\ local.buf # <<>> /\ local' = [local EXCEPT !.lost = local.buf, !.buf = <<>>]
  /\ UNCHANGED <<callVars, last, result, listVars, pushVars, dec, linkVars, dev, remote>>

-----------------------------------------------------------------------------
(* The device (external).                                                   *)

Emit(fields) == toHost' = toHost \o fields
DeviceLeaves == UNCHANGED <<callVars, pc, last, result, listVars, pushVars, local, dec, up>>

\* It answers LIST and RECV in steps, STAT at once.
Serve(r) ==
  CASE r.id = "LIST" -> dev' = [dev EXCEPT !.st = "listing", !.rest = call.entries] /\ UNCHANGED <<toHost, remote>>
    [] r.id = "STAT" -> Emit(<<Field("id", "STAT"), Field("body", remote.path.kind)>>) /\ UNCHANGED <<dev, remote>>
    [] r.id = "RECV" -> /\ IF remote.path.kind = "file"
                           THEN /\ dev' = [dev EXCEPT !.st = "sending", !.rest = remote.path.data,
                                           !.tail = r.v # NoCodec]
                                /\ UNCHANGED toHost
                           ELSE dev' = [dev EXCEPT !.st = "gone", !.failed = TRUE] /\ Emit(Fail)
                        /\ UNCHANGED remote
    [] r.id = "SEND" -> /\ IF remote.path.kind = (IF r.v = "path" THEN "dir" ELSE "file")
                           THEN dev' = [dev EXCEPT !.st = "draining", !.failed = TRUE] /\ Emit(Fail)
                           ELSE dev' = [dev EXCEPT !.st = "storing", !.to = r.v] /\ UNCHANGED toHost
                        /\ UNCHANGED remote
    [] r.id = "DATA" -> /\ dev' = IF dev.st = "storing" THEN [dev EXCEPT !.rest = @ \o r.v] ELSE dev
                        /\ UNCHANGED <<toHost, remote>>
    [] r.id = "DONE" -> IF dev.st = "storing"
                        THEN /\ remote' = IF dev.to = "path" THEN [remote EXCEPT !.path = File(dev.rest)]
                                          ELSE [path |-> Dir, inside |-> File(dev.rest)]
                             /\ Emit(<<Field("id", "OKAY"), Field("length", 0)>>)
                             /\ dev' = [dev EXCEPT !.st = "ready", !.rest = <<>>]
                        ELSE dev' = [dev EXCEPT !.st = "gone"] /\ UNCHANGED <<toHost, remote>>
    [] r.id = "QUIT" -> dev' = [dev EXCEPT !.st = "gone"] /\ UNCHANGED <<toHost, remote>>

DeviceTakes ==
  /\ toDev # <<>>
  /\ dev.st \in {"ready", "storing", "draining"}
  /\ toDev' = Tail(toDev)
  /\ Serve(Head(toDev))
  /\ DeviceLeaves

\* The chunks the next blocks may be packed into: a block each without a codec,
\* else one symbol of any number of blocks, or two of one block.
Chunks(rest) ==
  IF codec = NoCodec THEN {<<SubSeq(rest, 1, 1)>>}
  ELSE {<<SubSeq(rest, 1, n)>> : n \in 1 .. Len(rest)}
       \cup IF Len(rest) < 2 THEN {} ELSE {<<SubSeq(rest, 1, 1), SubSeq(rest, 2, 2)>>}

EmitChunk(c) == Emit(<<Field("id", "DATA"), Field("size", Len(c)), Field("chunk", c)>>)

DeviceAnswers ==
  /\ \/ /\ dev.st = "listing" /\ dev.rest # <<>>
        /\ Emit(<<Field("id", "DENT"), Field("body", Head(dev.rest).error),
                  Field("name", Head(dev.rest).name)>>)
        /\ dev' = [dev EXCEPT !.rest = Tail(@)]
     \/ /\ dev.st = "listing" /\ dev.rest = <<>>
        /\ Emit(<<Field("id", "DONE"), Field("body", FALSE)>>)
        /\ dev' = [dev EXCEPT !.st = "ready"]
     \/ /\ dev.st = "sending" /\ dev.rest # <<>>
        /\ \E c \in Chunks(dev.rest) :
             /\ EmitChunk(c)
             /\ dev' = [dev EXCEPT !.rest = SubSeq(@, Len(Expand(c)) + 1, Len(@))]
     \/ /\ dev.st = "sending" /\ dev.rest = <<>> /\ dev.tail
        /\ EmitChunk(<< <<>> >>)
        /\ dev' = [dev EXCEPT !.tail = FALSE]
     \/ /\ dev.st = "sending" /\ dev.rest = <<>> /\ ~dev.tail
        /\ Emit(<<Field("id", "DONE"), Field("size", 0)>>)
        /\ dev' = [dev EXCEPT !.st = "ready"]
  /\ UNCHANGED <<toDev, remote>>
  /\ DeviceLeaves

\* It gives up half way: a read error, a full disk.  What a push still sends is
\* read and dropped.
DeviceRejects ==
  /\ "reject" \in Faults
  /\ dev.st \in {"listing", "sending", "storing"}
  /\ Emit(Fail)
  /\ dev' = [dev EXCEPT !.st = IF dev.st = "storing" THEN "draining" ELSE "gone", !.failed = TRUE]
  /\ UNCHANGED <<toDev, remote>>
  /\ DeviceLeaves

\* Somebody else makes or removes the directory between push's two streams.
OthersChange ==
  /\ "race" \in Faults
  /\ pc = "request" /\ form \in {"push", "push_v2"} /\ remote.path.kind # "file"
  /\ remote' = [remote EXCEPT !.path = IF remote.path.kind = "dir" THEN Nothing ELSE Dir]
  /\ UNCHANGED <<toDev, toHost, dev>>
  /\ DeviceLeaves

LinkFails ==
  /\ "link" \in Faults
  /\ up /\ pc # "ret"
  /\ up' = FALSE
  /\ UNCHANGED <<callVars, pc, last, result, listVars, pushVars, local, dec, toDev, toHost, dev, remote>>

-----------------------------------------------------------------------------
\* The arguments of a call.  Only a file transfer names a compression and has a
\* size, only list has entries, only push a local file to check.
Calls ==
  LET Raw == [op : {"list", "stat", "pull", "push"},
              compression : {"Auto", "None"} \cup Codecs,
              pathOk : BOOLEAN, localOk : BOOLEAN, fits : BOOLEAN,
              size : 0 .. MaxBlocks, build : Builds, features : Devices,
              entries : UNION {[1 .. n -> BOOLEAN] : n \in 0 .. MaxEntries}]
      Named(c) == [c EXCEPT !.entries = [i \in DOMAIN c.entries |-> [name |-> i, error |-> c.entries[i]]]]
  IN  {Named(c) : c \in {d \in Raw :
        /\ d.op \in {"list", "stat"} => d.compression = "None" /\ d.size = 0 /\ d.build = CHOOSE b \in Builds : TRUE
        /\ d.op # "push" => d.localOk /\ d.fits
        /\ d.op # "list" => d.entries = <<>>
        /\ "ls_v2" \notin d.features => \A i \in DOMAIN d.entries : ~d.entries[i]}}

Init ==
  /\ call \in Calls
  /\ pc = "start" /\ form = "none" /\ codec = NoCodec
  /\ last = "none" /\ result = "none"
  /\ entries = <<>> /\ errored = FALSE /\ found = "none"
  /\ dest = "path" /\ sent = 0
  /\ local = [file |-> OldData, open |-> FALSE, buf |-> <<>>, lost |-> <<>>]
  /\ dec = [in |-> <<>>, out |-> <<>>, held |-> <<>>]
  /\ up = TRUE /\ toDev = <<>> /\ toHost = <<>>
  /\ dev = [st |-> "gone", rest |-> <<>>, tail |-> FALSE, to |-> "path", failed |-> FALSE]
  /\ \E p \in {Nothing, Dir, File(Data(call.size))} :
       /\ call.op = "pull" => p # Dir
       /\ remote = [path |-> p, inside |-> Nothing]

HostStep ==
  \/ Start \/ OpenSync \/ ListRequest \/ StatRequest \/ FailRead
  \/ ListId \/ ListBody \/ ListName \/ StatId \/ StatBody
  \/ PullRequest \/ PullV2Request \/ OpenLocal \/ PullId \/ PullSize \/ PullV2Size
  \/ PullChunk \/ PullV2Chunk \/ ZstdDecode \/ Lz4Decode \/ BrotliDecode
  \/ PushChoose \/ PushRequest \/ PushV2Request \/ OpenInput \/ PushData \/ PushV2Data
  \/ ReadStatus \/ WriteQuit \/ Drop \/ StreamFails

DeviceStep == DeviceTakes \/ DeviceAnswers

Next == HostStep \/ DeviceStep \/ DeviceRejects \/ OthersChange \/ LinkFails

Spec == Init /\ [][Next]_vars

\* The thread that made the call runs on, and so does the device's service.
FairSpec == Spec /\ WF_vars(HostStep) /\ WF_vars(DeviceStep)

-----------------------------------------------------------------------------
(* Properties.                                                              *)

Returned(op) == pc = "ret" /\ call.op = op
Worked(op)   == Returned(op) /\ result = "ok"

\* sync.hpp on pull: the file is copied.  A pull that reports success has the
\* whole of the device's file (pull, pull_v2, the decoders).
PullComplete == Worked("pull") => local.file = remote.path.data

\* A pull that reports success is short of the device's file only by what the
\* ofstream's destructor failed to flush and what the brotli decoder still held
\* back at DONE: no block is skipped, repeated or out of place, whatever the
\* chunks, and zstd and lz4 hold nothing back (pull, pull_v2, decode).
PullExact ==
  Worked("pull") => /\ local.file \o local.lost \o dec.held = remote.path.data
                    /\ codec # "brotli" => dec.held = <<>>

\* However a pull ends, the local file is the old one or the beginning of the
\* device's: never a mix of the two and never bytes of another field
\* (pull truncates before the first answer, each chunk is written once).
PartialIsPrefix ==
  Returned("pull") => \/ ~local.open /\ local.file = OldData
                      \/ local.open /\ IsPrefix(local.file, remote.path.data)

\* A push that reports success has stored the local file where push said: at the
\* path, or inside the directory that stat found there, even if that directory
\* came or went in between (push, push_v2, read_status).
PushStored ==
  Worked("push") => /\ remote[dest] = File(Data(call.size))
                    /\ dest = "inside" <=> found = "dir"

\* A listing that reports success has every entry the device could stat, in its
\* order, each once, and no other (list).  Entries are named by their place.
ListExact ==
  Worked("list") => /\ Range(entries) = {n \in DOMAIN call.entries : ~call.entries[n].error}
                    /\ \A i, j \in DOMAIN entries : i < j => entries[i] < entries[j]

\* What a call reports as done is done: the file stored, the directory listed, and
\* of a pulled file all but what the ofstream lost when it was destroyed and what the
\* brotli decoder still held (pull, push, list and their v2 forms).
DoneAsReported == PullExact /\ PushStored /\ ListExact

\* The host reads the fields the device wrote, one for one: with a device that
\* keeps to the protocol no answer is ever taken for another field's, and a call
\* that worked leaves nothing unread in its stream (list, stat, pull, push).
InStep ==
  /\ result # "Protocol"
  /\ pc = "ret" /\ result = "ok" => toHost = <<>>

\* A transfer that names a codec never goes uncompressed and only works with that
\* codec on both sides; whatever is named, the codec used is one both sides have,
\* and "None" uses none.  It does not say that the codec named is the one used:
\* choose_codec sends zstd where lz4 or brotli was named and zstd is there, too.
NeverUncompressed ==
  /\ pc = "ret" /\ call.op \in {"pull", "push"} /\ result = "ok" /\ call.compression \in Codecs
       => form \in {"pull_v2", "push_v2"}
  /\ codec # NoCodec =>
       /\ codec \in call.build \cap call.features
       /\ call.compression # "None"
       /\ call.compression \in Codecs => call.compression \in call.build \cap call.features

\* A device that rejects a request is believed: no call reports success after a
\* FAIL, and the caller gets the device's reason or an error of its own side,
\* never just the end of the stream (sync_fail, read_status).
RejectionReported == pc = "ret" /\ dev.failed => result \notin {"ok", "Closed"}

\* Every call returns, whatever fails on the way: no read is left waiting for a
\* field the device does not send (the read loops of list, stat, pull, push).
CallReturns == <>(pc = "ret")

=============================================================================
