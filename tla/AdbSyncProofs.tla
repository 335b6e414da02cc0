---------------------------- MODULE AdbSyncProofs ----------------------------
(***************************************************************************)
(* Proofs about AdbSync: one call of list, stat, pull or push, for files   *)
(* and directories of any size, any build, any device and any choice of    *)
(* faults.                                                                 *)
(***************************************************************************)
EXTENDS AdbSync, SequenceTheorems, TLAPS

-----------------------------------------------------------------------------
(* Types.                                                                   *)

Ids   == {"STAT", "DENT", "DATA", "DONE", "FAIL", "OKAY"}
Kinds == {"missing", "dir", "file"}
Blocks == Seq(Nat)

Fields == [k : {"id"}, v : Ids] \cup [k : {"body"}, v : BOOLEAN \cup Kinds]
          \cup [k : {"name", "size", "length", "reason"}, v : Nat]
          \cup [k : {"chunk"}, v : Seq(Blocks)]

Reqs == [id : {"LIST", "STAT"}, v : BOOLEAN] \cup [id : {"RECV"}, v : Codecs \cup {NoCodec}]
        \cup [id : {"SEND"}, v : {"path", "inside"}] \cup [id : {"DATA"}, v : Blocks]
        \cup [id : {"DONE", "QUIT"}, v : {0}]

Entries == [name : Nat, error : BOOLEAN]

Pulls  == {"pull", "pull_v2"}
Pushes == {"push", "push_v2"}

\* What the device has still to send or has stored, in a call of form f.
RestOf(f) == IF f = "none" THEN {<<>>} ELSE IF f = "list" THEN Seq(Entries) ELSE Blocks

SyncTypeOK ==
  /\ call \in Calls
  /\ pc \in {"start", "open", "request", "local", "input", "data", "id", "body", "name", "size",
             "chunk", "decode", "length", "reason", "okay", "quit", "drop", "ret"}
  /\ form \in {"none", "stat", "list"} \cup Pulls \cup Pushes
  /\ codec \in Codecs \cup {NoCodec}
  /\ last \in Ids \cup {"none"}
  /\ result \in {"none", "ok", "InvalidArgument", "Transport", "Io", "Device"}
  /\ entries \in Seq(Nat)
  /\ dest \in {"path", "inside"} /\ sent \in Nat
  /\ local \in [file : Blocks, open : BOOLEAN, buf : Blocks, lost : Blocks]
  /\ dec \in [in : Seq(Blocks), out : Blocks, held : Blocks]
  /\ up \in BOOLEAN
  /\ toDev \in Seq(Reqs) /\ toHost \in Seq(Fields)
  /\ dev \in [st : {"ready", "listing", "sending", "storing", "draining", "gone"},
              rest : Seq(Nat \cup Entries), tail : BOOLEAN, to : {"path", "inside"}, failed : BOOLEAN]
  /\ dev.rest \in RestOf(form)
  /\ remote \in [path : [kind : Kinds, data : Blocks], inside : [kind : Kinds, data : Blocks]]

-----------------------------------------------------------------------------
(* The arguments and the form of the call.                                  *)

Left == pc \in {"drop", "ret"}
Ok   == Left /\ result = "ok"

Modes ==
  /\ Left <=> result # "none"
  /\ pc = "start" <=> form = "none" /\ result = "none"
  /\ form = "none" => codec = NoCodec
  /\ form = "list" => call.op = "list"
  /\ form = "stat" => call.op \in {"stat", "push"}
  /\ form \in Pulls => call.op = "pull"
  /\ form \in Pushes => call.op = "push"
  /\ codec # NoCodec => Available(codec) /\ form \in {"pull_v2", "push_v2"}
  /\ form \in {"pull_v2", "push_v2"} => codec # NoCodec
  /\ form \in {"pull", "push"} => call.compression \notin Codecs \/ result = "InvalidArgument"
  /\ form = "none" /\ Left => result = "InvalidArgument"
  /\ pc = "ret" /\ form = "stat" /\ result = "ok" => call.op # "push"
  /\ pc = "ret" => local.buf = <<>>
  /\ pc = "local" => form \in Pulls
  /\ pc \in {"input", "data", "okay"} => form \in Pushes
  /\ pc \in {"size", "chunk"} => form \in Pulls
  /\ pc = "decode" => form = "pull_v2"
  /\ pc = "body" => form \in {"list", "stat"}
  /\ pc = "name" => form = "list"
  /\ form \in Pushes => dest = Destination

-----------------------------------------------------------------------------
(* The conversation.  What the device owes: an answer that is not complete, *)
(* none after a good one or a FAIL, or none since it was told QUIT.         *)

Answer ==
  IF dev.st \in {"listing", "sending", "storing"}
     \/ (dev.st = "ready" /\ toDev # <<>> /\ toDev[1].id # "QUIT") THEN "owed"
  ELSE IF dev.failed THEN "failed"
  ELSE IF dev.st = "ready" /\ toDev = <<>> THEN "done"
  ELSE "over"

\* At place i of the fields s a frame begins, or will.
AtFrame(s, i, a) == IF i <= Len(s) THEN s[i].k = "id" ELSE a = "owed"

\* What follows the id v from place i on, in an answer to f.
Rest(s, i, v, f, a) ==
  /\ v \in Ids
  /\ v = "DENT" => /\ f = "list" /\ i + 1 <= Len(s)
                   /\ s[i].k = "body" /\ s[i + 1].k = "name" /\ AtFrame(s, i + 2, a)
  /\ v = "DATA" => /\ f \in Pulls /\ i + 1 <= Len(s)
                   /\ s[i].k = "size" /\ s[i + 1].k = "chunk" /\ AtFrame(s, i + 2, a)
                   /\ s[i].v = Len(s[i + 1].v) /\ s[i].v \in 1 .. 2 /\ (f = "pull" => s[i].v = 1)
  /\ v = "DONE" => /\ f \in {"list"} \cup Pulls /\ Len(s) = i
                   /\ s[i].k = (IF f = "list" THEN "body" ELSE "size") /\ a = "done"
  /\ v = "STAT" => f = "stat" /\ Len(s) = i /\ s[i].k = "body" /\ a = "done"
  /\ v = "OKAY" => f \in Pushes /\ Len(s) = i /\ s[i].k = "length" /\ a = "done"
  /\ v = "FAIL" => /\ f # "stat" /\ Len(s) = i + 1
                   /\ s[i].k = "length" /\ s[i + 1].k = "reason" /\ a = "failed"

\* The unread fields are whole frames from the first id on.
Framed(s, f, a) == \A i \in 1 .. Len(s) : s[i].k = "id" => Rest(s, i + 1, s[i].v, f, a)

\* The field the host reads at p is the one that comes.
Place(s, p, l, f, a) ==
  /\ p \in {"local", "input", "data", "id", "decode"} => AtFrame(s, 1, a)
  /\ p = "body" => Rest(s, 1, IF f = "stat" THEN "STAT" ELSE l, f, a) /\ (f # "stat" => l # "FAIL")
  /\ p = "size" => Rest(s, 1, l, f, a) /\ l # "FAIL"
  /\ p = "name" => Len(s) >= 1 /\ s[1].k = "name" /\ AtFrame(s, 2, a)
  /\ p = "chunk" => /\ Len(s) >= 1 /\ s[1].k = "chunk" /\ AtFrame(s, 2, a)
                    /\ Len(s[1].v) \in 1 .. 2 /\ (f = "pull" => Len(s[1].v) = 1)
  /\ p = "length" => Rest(s, 1, "FAIL", f, a)
  /\ p = "reason" => Len(s) = 1 /\ s[1].k = "reason" /\ a = "failed"
  /\ p = "okay" => Rest(s, 1, "OKAY", f, a)
  /\ p \in {"request", "quit"} => s = <<>> /\ a = "done"
  /\ p \in {"start", "open"} => s = <<>> /\ a = "over"

RequestOf(f) ==
  IF f = "list" THEN "LIST" ELSE IF f = "stat" THEN "STAT" ELSE IF f \in Pulls THEN "RECV" ELSE "SEND"

Queued ==
  /\ \A i \in 1 .. Len(toDev) :
       /\ toDev[i].id \in {"LIST", "STAT", "RECV", "SEND"} =>
            i = 1 /\ dev.st = "ready" /\ toDev[i].id = RequestOf(form) /\ form # "none"
       /\ toDev[i].id = "RECV" => toDev[i].v = codec
       /\ toDev[i].id = "SEND" => toDev[i].v = dest
       /\ toDev[i].id \in {"DATA", "DONE"} =>
            form \in Pushes /\ (i > 1 \/ dev.st \in {"storing", "draining"})
       /\ toDev[i].id = "DONE" => i = Len(toDev) /\ pc \notin {"input", "data"}
       /\ toDev[i].id = "QUIT" => Len(toDev) = 1 /\ dev.st = "ready"
  /\ dev.st = "draining" => dev.failed
  /\ dev.failed => dev.st \in {"draining", "gone"}
  /\ dev.st = "listing" => form = "list"
  /\ dev.st = "sending" => form \in Pulls
  /\ dev.st \in {"storing", "draining"} => form \in Pushes
  /\ pc \in {"input", "data"} =>
       dev.st \in {"storing", "draining"} \/ (dev.st = "ready" /\ toDev # <<>> /\ toDev[1].id = "SEND")

Conversation ==
  /\ Framed(toHost, form, Answer)
  /\ Place(toHost, pc, last, form, Answer)
  /\ Queued
  /\ Ok => toHost = <<>> /\ Answer = "over" /\ ~dev.failed

-----------------------------------------------------------------------------
(* push.  Blocks are numbered, and so is what the device has stored and what *)
(* is on its way.                                                           *)

Stored == remote[dest] = File(Data(call.size))

\* The blocks up to the first place of toDev.
Base == Len(dev.rest) - (IF dev.st = "ready" THEN 1 ELSE 0)

Pushing ==
  /\ form \in Pushes /\ pc \in {"input", "data", "id"} /\ Answer = "owed" =>
       /\ dev.st = "ready" => dev.rest = <<>>
       /\ dev.st = "storing" => dev.to = dest
       /\ \A j \in 1 .. Len(dev.rest) : dev.rest[j] = j
       /\ \A i \in 1 .. Len(toDev) :
            /\ toDev[i].id = "DATA" => toDev[i].v = <<Base + i>>
            /\ toDev[i].id = "DONE" => Base + i = call.size + 1
       /\ pc \in {"input", "data"} => Base + Len(toDev) = sent
  /\ form \in Pushes /\ pc \in {"open", "request", "input"} => sent = 0
  /\ form \in Pushes /\ pc = "request" => dev.rest = <<>>
  /\ form \notin Pushes => sent = 0
  /\ form \in Pushes /\ pc \in {"id", "okay", "quit"} /\ Answer = "done" => Stored
  /\ form \in Pushes /\ Ok => Stored

-----------------------------------------------------------------------------
(* pull and list.                                                           *)

\* The numbers after n, in order.
Run(s, n) == \A j \in 1 .. Len(s) : s[j] = n + j

Total == IF form = "list" THEN Len(call.entries) ELSE Len(remote.path.data)

\* The local file is the beginning of the device's.
Copied ==
  call.op = "pull" =>
    /\ remote.path.kind # "dir" /\ Run(remote.path.data, 0)
    /\ remote.path.kind = "file" => remote.path.data = Data(call.size)
    /\ IF local.open
       THEN /\ Run(local.file, 0) /\ Run(local.buf, Len(local.file)) /\ Run(local.lost, Len(local.file))
            /\ local.lost = <<>> \/ (local.buf = <<>> /\ pc = "ret")
            /\ Len(local.file) + Len(local.buf) + Len(local.lost) <= Len(remote.path.data)
       ELSE local.file = OldData /\ local.buf = <<>> /\ local.lost = <<>>
    /\ pc \in {"start", "open", "request", "local"} => ~local.open /\ dec.held = <<>> /\ dec.in = <<>>
    /\ pc \in {"id", "size", "chunk", "decode", "quit"} \/ Ok => local.open

\* What the decoder has given out of this chunk.
Out == IF pc = "decode" THEN dec.out ELSE <<>>

InFile == IF local.open THEN Len(local.file) + Len(local.buf) + Len(local.lost) ELSE 0

\* The device's file up to block n has been taken, and is in the local file, in
\* the decoder or still to be decoded.
PulledUpTo(n) ==
  LET o == InFile + Len(Out)
      h == o + Len(dec.held)
  IN  /\ Run(Out, InFile) /\ Run(dec.held, o) /\ Run(Expand(dec.in), h)
      /\ n = h + Len(Expand(dec.in))
      /\ Len(dec.in) <= 2 /\ (pc # "decode" => dec.in = <<>>)
      /\ form = "pull" => dec.held = <<>>

\* entries are those of the first n the device could stat.
ListedUpTo(n) ==
  /\ \A i, j \in 1 .. Len(entries) : i < j => entries[i] < entries[j]
  /\ \A i \in 1 .. Len(entries) : entries[i] \in 1 .. n /\ ~call.entries[entries[i]].error
  /\ \A j \in 1 .. n : ~call.entries[j].error => \E i \in 1 .. Len(entries) : entries[i] = j

TakenUpTo(n) == IF form = "list" THEN ListedUpTo(n) ELSE PulledUpTo(n)

Weight(x) == IF x.k = "name" THEN 1 ELSE IF x.k = "chunk" THEN Len(Expand(x.v)) ELSE 0

\* Field i of s after n blocks or entries were counted.
Counted(s, i, n) ==
  /\ s[i].k = "chunk" => s[i].v \in Seq(Blocks) /\ Run(Expand(s[i].v), n)
  /\ s[i].k = "name" => s[i].v = n + 1
  /\ s[i].k = "body" /\ i < Len(s) /\ s[i + 1].k = "name" => s[i].v = call.entries[n + 1].error
  /\ s[i].k = "id" /\ s[i].v = "DONE" => n = Total

\* pos[i] is what has been counted after field i.
Counting(s, pos) ==
  \A i \in 1 .. Len(s) : pos[i] = pos[i - 1] + Weight(s[i]) /\ Counted(s, i, pos[i - 1])

\* What the device has still to send begins after n.
DeviceAt(n) ==
  /\ dev.st = "ready" /\ Answer = "owed" => n = 0
  /\ dev.st \in {"sending", "listing"} => n + Len(dev.rest) = Total
  /\ dev.st = "sending" => Run(dev.rest, n)
  /\ dev.st = "listing" => \A j \in 1 .. Len(dev.rest) : dev.rest[j] = call.entries[n + j]

\* What the host has taken ends with n.
HostAt(n) ==
  /\ TakenUpTo(n)
  /\ pc \in {"body", "size"} /\ last = "DONE" => n = Total
  /\ pc = "name" => errored = call.entries[n + 1].error

Positions(s) == [0 .. Len(s) -> 0 .. Total]

Transferring ==
  /\ form \in {"list"} \cup Pulls
  /\ pc \in {"local", "id", "body", "name", "size", "chunk", "decode"}

Progress ==
  Transferring => \E pos \in Positions(toHost) :
                    Counting(toHost, pos) /\ DeviceAt(pos[Len(toHost)]) /\ HostAt(pos[0])

Finished == form \in {"list"} \cup Pulls /\ (pc = "quit" \/ Ok) => TakenUpTo(Total)

\* The end of the codec's frame comes before DONE, and with it what zstd and lz4
\* held back.
HeldBack == IF pc = "decode" /\ dec.in # <<>> THEN dec.in = << <<>> >>
            ELSE codec # "brotli" => dec.held = <<>>

FlushedBefore(i) == IF i > 1 THEN toHost[i - 1].k = "chunk" /\ toHost[i - 1].v = << <<>> >> ELSE HeldBack

Flushed ==
  /\ form = "pull" /\ dev.st = "sending" => ~dev.tail
  /\ form = "pull_v2" =>
       /\ dev.st = "sending" /\ ~dev.tail => dev.rest = <<>>
       /\ Transferring =>
            /\ \A i \in 1 .. Len(toHost) :
                 toHost[i].k = "id" /\ toHost[i].v = "DONE" => FlushedBefore(i)
            /\ dev.st = "sending" /\ ~dev.tail => FlushedBefore(Len(toHost) + 1)
       /\ (pc = "size" /\ last = "DONE") \/ pc = "quit" \/ Ok =>
            (codec # "brotli" => dec.held = <<>>)

NoEntriesStart == pc \in {"start", "open", "request"} /\ form \in {"none", "list"} => entries = <<>>

EntriesKnown ==
  /\ call.entries \in Seq(Entries)
  /\ \A i \in 1 .. Len(call.entries) : call.entries[i].name = i
  /\ "ls_v2" \notin call.features => \A i \in 1 .. Len(call.entries) : ~call.entries[i].error

SyncInv ==
  /\ SyncTypeOK /\ Modes /\ Conversation /\ Pushing /\ Copied
  /\ Progress /\ Finished /\ Flushed /\ NoEntriesStart

-----------------------------------------------------------------------------
(* Sequences.                                                               *)

\* What Stream::read leaves.
LEMMA TailOf ==
  ASSUME NEW T, NEW s \in Seq(T), s # <<>>
  PROVE  /\ Len(s) \in Nat /\ Len(s) >= 1 /\ s[1] \in T /\ Head(s) = s[1]
         /\ Tail(s) \in Seq(T) /\ Len(Tail(s)) = Len(s) - 1 /\ Len(Tail(s)) \in Nat
         /\ \A i \in 1 .. Len(s) - 1 : Tail(s)[i] = s[i + 1]
<1>1. Len(s) \in Nat /\ Len(s) # 0
  BY LenProperties, EmptySeq
<1>2. 1 \in 1 .. Len(s)
  BY <1>1
<1>3. s[1] \in T
  BY <1>2, ElementOfSeq
<1>4. Head(s) = s[1]
  BY DEF Head
<1>. QED  BY <1>1, <1>3, <1>4, HeadTailProperties

\* One sequence after another.
LEMMA Joined ==
  ASSUME NEW T, NEW s \in Seq(T), NEW t \in Seq(T)
  PROVE  /\ s \o t \in Seq(T) /\ Len(s) \in Nat /\ Len(t) \in Nat
         /\ Len(s \o t) = Len(s) + Len(t)
         /\ \A i \in 1 .. Len(s) : (s \o t)[i] = s[i]
         /\ \A i \in 1 .. Len(t) : (s \o t)[Len(s) + i] = t[i]
<1>1. /\ s \o t \in Seq(T) /\ Len(s) \in Nat /\ Len(t) \in Nat
      /\ Len(s \o t) = Len(s) + Len(t)
      /\ \A i \in 1 .. Len(s) + Len(t) : (s \o t)[i] = IF i <= Len(s) THEN s[i] ELSE t[i - Len(s)]
  BY ConcatProperties, LenProperties
<1>2. ASSUME NEW i \in 1 .. Len(t) PROVE (s \o t)[Len(s) + i] = t[i]
  <2>1. Len(s) + i \in 1 .. Len(s) + Len(t) /\ ~(Len(s) + i <= Len(s)) /\ (Len(s) + i) - Len(s) = i
    BY <1>1
  <2>. QED  BY <1>1, <2>1
<1>. QED  BY <1>1, <1>2

\* A sequence is empty if its length is.
LEMMA EmptyLen ==
  ASSUME NEW T, NEW s \in Seq(T)
  PROVE  Len(s) \in Nat /\ (s = <<>> <=> Len(s) = 0) /\ <<>> \in Seq(T) /\ Len(<<>>) = 0
BY LenProperties, EmptySeq

\* Append, element by element.
LEMMA Appended ==
  ASSUME NEW T, NEW s \in Seq(T), NEW e \in T
  PROVE  /\ Append(s, e) \in Seq(T) /\ Len(s) \in Nat
         /\ Len(Append(s, e)) = Len(s) + 1 /\ Append(s, e) # <<>>
         /\ \A i \in 1 .. Len(s) : Append(s, e)[i] = s[i]
         /\ Append(s, e)[Len(s) + 1] = e
BY AppendProperties, LenProperties

-----------------------------------------------------------------------------
(* The grammar of the answers.                                              *)

\* A frame stays one when the field before it is taken.
LEMMA RestShift ==
  ASSUME NEW s \in Seq(Fields), s # <<>>, NEW f, NEW a, NEW v, NEW i \in Nat \ {0}
  PROVE  /\ AtFrame(s, i + 1, a) => AtFrame(Tail(s), i, a)
         /\ Rest(s, i + 1, v, f, a) => Rest(Tail(s), i, v, f, a)
<1>. DEFINE t == Tail(s)
<1>1. /\ Len(s) \in Nat /\ Len(s) >= 1 /\ Len(t) = Len(s) - 1 /\ Len(t) \in Nat
      /\ \A j \in 1 .. Len(s) - 1 : t[j] = s[j + 1]
  BY TailOf
<1>. HIDE DEF t
<1>2. \A j \in Nat \ {0} : AtFrame(s, j + 1, a) => AtFrame(t, j, a)
  <2>. SUFFICES ASSUME NEW j \in Nat \ {0}, AtFrame(s, j + 1, a) PROVE AtFrame(t, j, a)
    OBVIOUS
  <2>1. CASE j <= Len(t)
    <3>1. j + 1 <= Len(s) /\ t[j] = s[j + 1]
      BY <1>1, <2>1
    <3>. QED  BY <2>1, <3>1 DEF AtFrame
  <2>2. CASE ~(j <= Len(t))
    <3>1. ~(j + 1 <= Len(s))
      BY <1>1, <2>2
    <3>. QED  BY <2>2, <3>1 DEF AtFrame
  <2>. QED  BY <2>1, <2>2
<1>3. ASSUME Rest(s, i + 1, v, f, a) PROVE Rest(t, i, v, f, a)
  <2>. DEFINE AS == AtFrame(s, i + 3, a)  AT == AtFrame(t, i + 2, a)
  <2>1. AS => AT
    <3>1. i + 2 \in Nat \ {0} /\ (i + 2) + 1 = i + 3
      OBVIOUS
    <3>. QED  BY <1>2, <3>1
  <2>2. (i + 1) + 1 = i + 2 /\ (i + 1) + 2 = i + 3
    OBVIOUS
  <2>3. /\ i + 2 <= Len(s) => i + 1 <= Len(t) /\ t[i] = s[i + 1] /\ t[i + 1] = s[i + 2]
        /\ Len(s) = i + 1 => Len(t) = i /\ t[i] = s[i + 1]
        /\ Len(s) = i + 2 => Len(t) = i + 1
    BY <1>1
  <2>. HIDE DEF AS, AT
  <2>a. /\ v \in Ids
        /\ v = "DENT" => f = "list" /\ i + 2 <= Len(s) /\ s[i + 1].k = "body" /\ s[i + 2].k = "name" /\ AS
        /\ v = "DATA" => /\ f \in Pulls /\ i + 2 <= Len(s) /\ s[i + 1].k = "size" /\ s[i + 2].k = "chunk" /\ AS
                         /\ s[i + 1].v = Len(s[i + 2].v) /\ s[i + 1].v \in 1 .. 2 /\ (f = "pull" => s[i + 1].v = 1)
        /\ v = "DONE" => /\ f \in {"list"} \cup Pulls /\ Len(s) = i + 1
                         /\ s[i + 1].k = (IF f = "list" THEN "body" ELSE "size") /\ a = "done"
        /\ v = "STAT" => f = "stat" /\ Len(s) = i + 1 /\ s[i + 1].k = "body" /\ a = "done"
        /\ v = "OKAY" => f \in Pushes /\ Len(s) = i + 1 /\ s[i + 1].k = "length" /\ a = "done"
        /\ v = "FAIL" => /\ f # "stat" /\ Len(s) = i + 2
                         /\ s[i + 1].k = "length" /\ s[i + 2].k = "reason" /\ a = "failed"
    BY <1>3, <2>2 DEF Rest, AS
  <2>l. Len(s) = i + 2 => i + 2 <= Len(s)
    BY <1>1
  <2>. QED  BY <2>a, <2>1, <2>3, <2>l DEF Rest, AT
<1>. QED  BY <1>2, <1>3 DEF t

\* Whole frames stay whole frames when the first field is taken.
LEMMA FramedTail ==
  ASSUME NEW s \in Seq(Fields), s # <<>>, NEW f, NEW a, Framed(s, f, a)
  PROVE  Framed(Tail(s), f, a)
<1>. SUFFICES ASSUME NEW i \in 1 .. Len(Tail(s)), Tail(s)[i].k = "id"
              PROVE  Rest(Tail(s), i + 1, Tail(s)[i].v, f, a)
  BY DEF Framed
<1>1. i \in Nat \ {0} /\ i + 1 \in 1 .. Len(s) /\ Tail(s)[i] = s[i + 1]
  BY TailOf
<1>2. Rest(s, (i + 1) + 1, s[i + 1].v, f, a)
  BY <1>1 DEF Framed
<1>3. i + 1 \in Nat \ {0}
  BY <1>1
<1>. QED  BY <1>1, <1>2, <1>3, RestShift


\* A frame that was complete stays one when another is added behind it.
LEMMA RestBefore ==
  ASSUME NEW s \in Seq(Fields), NEW t \in Seq(Fields), t # <<>>, t[1].k = "id",
         NEW f, NEW a, NEW v, NEW i \in 1 .. Len(s) + 1
  PROVE  /\ AtFrame(s, i, "owed") => AtFrame(s \o t, i, a)
         /\ Rest(s, i, v, f, "owed") => Rest(s \o t, i, v, f, a)
<1>. DEFINE r == s \o t
<1>1. /\ Len(s) \in Nat /\ Len(t) \in Nat /\ Len(t) >= 1 /\ Len(r) = Len(s) + Len(t)
      /\ \A j \in 1 .. Len(s) : r[j] = s[j]
      /\ r[Len(s) + 1] = t[1]
  <2>1. Len(t) \in Nat /\ Len(t) # 0
    BY EmptyLen
  <2>2. 1 \in 1 .. Len(t)
    BY <2>1
  <2>. QED  BY <2>1, <2>2, Joined
<1>. HIDE DEF r
<1>2. \A j \in 1 .. Len(s) + 1 : AtFrame(s, j, "owed") => AtFrame(r, j, a)
  <2>. SUFFICES ASSUME NEW j \in 1 .. Len(s) + 1, AtFrame(s, j, "owed") PROVE AtFrame(r, j, a)
    OBVIOUS
  <2>0. j <= Len(r)
    BY <1>1
  <2>1. CASE j <= Len(s)
    BY <1>1, <2>0, <2>1 DEF AtFrame
  <2>2. CASE ~(j <= Len(s))
    <3>1. j = Len(s) + 1
      BY <1>1, <2>2
    <3>. QED  BY <1>1, <2>0, <3>1 DEF AtFrame
  <2>. QED  BY <2>1, <2>2
<1>3. ASSUME Rest(s, i, v, f, "owed") PROVE Rest(r, i, v, f, a)
  <2>. DEFINE AS == AtFrame(s, i + 2, "owed")  AT == AtFrame(r, i + 2, a)
  <2>1. i + 1 <= Len(s) /\ AS => AT
    <3>1. i + 1 <= Len(s) => i + 2 \in 1 .. Len(s) + 1
      BY <1>1
    <3>. QED  BY <1>2, <3>1
  <2>3. i + 1 <= Len(s) => i + 1 <= Len(r) /\ r[i] = s[i] /\ r[i + 1] = s[i + 1]
    BY <1>1
  <2>. HIDE DEF AS, AT
  <2>a. /\ v \in {"DENT", "DATA"}
        /\ v = "DENT" => f = "list" /\ i + 1 <= Len(s) /\ s[i].k = "body" /\ s[i + 1].k = "name" /\ AS
        /\ v = "DATA" => /\ f \in Pulls /\ i + 1 <= Len(s) /\ s[i].k = "size" /\ s[i + 1].k = "chunk" /\ AS
                         /\ s[i].v = Len(s[i + 1].v) /\ s[i].v \in 1 .. 2 /\ (f = "pull" => s[i].v = 1)
    BY <1>3 DEF Rest, AS, Ids
  <2>. QED  BY <2>a, <2>1, <2>3 DEF Rest, AT, Ids
<1>. QED  BY <1>2, <1>3 DEF r

\* A frame stays one when it is put behind others.
LEMMA RestBehind ==
  ASSUME NEW s \in Seq(Fields), NEW t \in Seq(Fields),
         NEW f, NEW a, NEW v, NEW i \in Nat \ {0}
  PROVE  /\ AtFrame(t, i, a) => AtFrame(s \o t, Len(s) + i, a)
         /\ Rest(t, i, v, f, a) => Rest(s \o t, Len(s) + i, v, f, a)
<1>. DEFINE r == s \o t  n == Len(s)
<1>1. /\ n \in Nat /\ Len(t) \in Nat /\ Len(r) = n + Len(t)
      /\ \A j \in 1 .. Len(t) : r[n + j] = t[j]
  BY Joined
<1>. HIDE DEF r, n
<1>2. \A j \in Nat \ {0} : AtFrame(t, j, a) => AtFrame(r, n + j, a)
  <2>. SUFFICES ASSUME NEW j \in Nat \ {0}, AtFrame(t, j, a) PROVE AtFrame(r, n + j, a)
    OBVIOUS
  <2>1. CASE j <= Len(t)
    <3>1. n + j <= Len(r) /\ r[n + j] = t[j]
      BY <1>1, <2>1
    <3>. QED  BY <2>1, <3>1 DEF AtFrame
  <2>2. CASE ~(j <= Len(t))
    <3>1. ~(n + j <= Len(r))
      BY <1>1, <2>2
    <3>. QED  BY <2>2, <3>1 DEF AtFrame
  <2>. QED  BY <2>1, <2>2
<1>3. ASSUME Rest(t, i, v, f, a) PROVE Rest(r, n + i, v, f, a)
  <2>. DEFINE AS == AtFrame(t, i + 2, a)  AT == AtFrame(r, (n + i) + 2, a)
  <2>1. AS => AT
    <3>1. i + 2 \in Nat \ {0} /\ n + (i + 2) = (n + i) + 2
      BY <1>1
    <3>. QED  BY <1>2, <3>1
  <2>3. /\ i + 1 <= Len(t) => (n + i) + 1 <= Len(r) /\ r[n + i] = t[i] /\ r[(n + i) + 1] = t[i + 1]
        /\ Len(t) = i => Len(r) = n + i /\ r[n + i] = t[i]
        /\ Len(t) = i + 1 => Len(r) = (n + i) + 1 /\ r[n + i] = t[i] /\ r[(n + i) + 1] = t[i + 1]
    <3>1. n + (i + 1) = (n + i) + 1
      BY <1>1
    <3>. DEFINE m == Len(t)  l == Len(r)
    <3>0. n \in Nat /\ m \in Nat /\ l = n + m
      BY <1>1
    <3>. HIDE DEF m, l
    <3>2. /\ i + 1 <= m => i \in 1 .. m /\ i + 1 \in 1 .. m /\ n + (i + 1) <= l
          /\ m = i => i \in 1 .. m /\ l = n + i
          /\ m = i + 1 => i \in 1 .. m /\ i + 1 \in 1 .. m /\ l = n + (i + 1)
      BY <3>0
    <3>. USE DEF m, l
    <3>3. /\ i \in 1 .. Len(t) => r[n + i] = t[i]
          /\ i + 1 \in 1 .. Len(t) => r[n + (i + 1)] = t[i + 1]
      BY <1>1
    <3>. QED  BY <3>1, <3>2, <3>3
  <2>. HIDE DEF AS, AT
  <2>a. /\ v \in Ids
        /\ v = "DENT" => f = "list" /\ i + 1 <= Len(t) /\ t[i].k = "body" /\ t[i + 1].k = "name" /\ AS
        /\ v = "DATA" => /\ f \in Pulls /\ i + 1 <= Len(t) /\ t[i].k = "size" /\ t[i + 1].k = "chunk" /\ AS
                         /\ t[i].v = Len(t[i + 1].v) /\ t[i].v \in 1 .. 2 /\ (f = "pull" => t[i].v = 1)
        /\ v = "DONE" => /\ f \in {"list"} \cup Pulls /\ Len(t) = i
                         /\ t[i].k = (IF f = "list" THEN "body" ELSE "size") /\ a = "done"
        /\ v = "STAT" => f = "stat" /\ Len(t) = i /\ t[i].k = "body" /\ a = "done"
        /\ v = "OKAY" => f \in Pushes /\ Len(t) = i /\ t[i].k = "length" /\ a = "done"
        /\ v = "FAIL" => /\ f # "stat" /\ Len(t) = i + 1
                         /\ t[i].k = "length" /\ t[i + 1].k = "reason" /\ a = "failed"
    BY <1>3 DEF Rest, AS
  <2>. QED  BY <2>a, <2>1, <2>3 DEF Rest, AT
<1>. QED  BY <1>2, <1>3 DEF r, n

\* A frame added behind whole frames.
LEMMA FramedJoined ==
  ASSUME NEW s \in Seq(Fields), NEW t \in Seq(Fields), t # <<>>, t[1].k = "id",
         NEW f, NEW a, Framed(s, f, "owed"), Framed(t, f, a)
  PROVE  Framed(s \o t, f, a)
<1>. SUFFICES ASSUME NEW i \in 1 .. Len(s \o t), (s \o t)[i].k = "id"
              PROVE  Rest(s \o t, i + 1, (s \o t)[i].v, f, a)
  BY DEF Framed
<1>1. /\ Len(s) \in Nat /\ Len(t) \in Nat /\ Len(s \o t) = Len(s) + Len(t)
      /\ \A j \in 1 .. Len(s) : (s \o t)[j] = s[j]
      /\ \A j \in 1 .. Len(t) : (s \o t)[Len(s) + j] = t[j]
  BY Joined
<1>2. CASE i <= Len(s)
  <2>1. i \in 1 .. Len(s) /\ (s \o t)[i] = s[i] /\ i + 1 \in 1 .. Len(s) + 1
    BY <1>1, <1>2
  <2>2. Rest(s, i + 1, s[i].v, f, "owed")
    BY <2>1 DEF Framed
  <2>. QED  BY <2>1, <2>2, RestBefore
<1>3. CASE ~(i <= Len(s))
  <2>. DEFINE j == i - Len(s)
  <2>1. j \in 1 .. Len(t) /\ i = Len(s) + j /\ j + 1 \in Nat \ {0} /\ Len(s) + (j + 1) = i + 1
    BY <1>1, <1>3
  <2>2. (s \o t)[i] = t[j]
    BY <1>1, <2>1
  <2>. HIDE DEF j
  <2>3. Rest(t, j + 1, t[j].v, f, a)
    BY <2>1, <2>2 DEF Framed
  <2>4. Rest(s \o t, Len(s) + (j + 1), t[j].v, f, a)
    BY <2>1, <2>3, RestBehind
  <2>. QED  BY <2>1, <2>2, <2>4
<1>. QED  BY <1>2, <1>3

\* Nothing is left to read before an answer or after one.
LEMMA FramedEmpty ==
  ASSUME NEW f, NEW a
  PROVE  Framed(<<>>, f, a)
BY EmptySeq DEF Framed


-----------------------------------------------------------------------------
(* Fields, requests and calls.                                              *)

\* The fields the device writes.
LEMMA FieldTypes ==
  /\ \A v \in Ids : Field("id", v) \in Fields
  /\ \A v \in BOOLEAN \cup Kinds : Field("body", v) \in Fields
  /\ \A k \in {"name", "size", "length", "reason"}, v \in Nat : Field(k, v) \in Fields
  /\ \A v \in Seq(Blocks) : Field("chunk", v) \in Fields
BY DEF Field, Fields

\* What a field is made of.
LEMMA FieldParts ==
  ASSUME NEW k, NEW v
  PROVE  Field(k, v).k = k /\ Field(k, v).v = v
BY DEF Field

\* What a field that was read can be.
LEMMA FieldFacts ==
  ASSUME NEW x \in Fields
  PROVE  /\ x.k = "id" => x.v \in Ids
         /\ x.k = "name" => x.v \in Nat
         /\ x.k = "chunk" => x.v \in Seq(Blocks)
BY DEF Fields

\* The requests the host writes.
LEMMA ReqTypes ==
  /\ \A b \in BOOLEAN : Req("LIST", b) \in Reqs /\ Req("STAT", b) \in Reqs
  /\ \A c \in Codecs \cup {NoCodec} : Req("RECV", c) \in Reqs
  /\ \A d \in {"path", "inside"} : Req("SEND", d) \in Reqs
  /\ \A b \in Blocks : Req("DATA", b) \in Reqs
  /\ Req("DONE", 0) \in Reqs /\ Req("QUIT", 0) \in Reqs
BY DEF Req, Reqs

\* What a request is made of.
LEMMA ReqParts ==
  ASSUME NEW id, NEW v
  PROVE  Req(id, v).id = id /\ Req(id, v).v = v
BY DEF Req

\* A request is one of seven.
LEMMA ReqFacts ==
  ASSUME NEW r \in Reqs
  PROVE  /\ r.id \in {"LIST", "STAT", "RECV", "SEND", "DATA", "DONE", "QUIT"}
         /\ r.id = "DATA" => r.v \in Blocks
         /\ r.id = "SEND" => r.v \in {"path", "inside"}
BY DEF Reqs

\* The arguments of a call.  Entries are named by their place, and only a v2 listing
\* has one the device could not stat.
LEMMA CallFacts ==
  ASSUME call \in Calls
  PROVE  /\ call.op \in {"list", "stat", "pull", "push"} /\ call.size \in Nat
         /\ call.entries \in Seq(Entries)
         /\ \A i \in 1 .. Len(call.entries) : call.entries[i].name = i
         /\ ~Has("ls_v2") => \A i \in 1 .. Len(call.entries) : ~call.entries[i].error
<1>. DEFINE Arguments == [op : {"list", "stat", "pull", "push"},
              compression : {"Auto", "None"} \cup Codecs,
              pathOk : BOOLEAN, localOk : BOOLEAN, fits : BOOLEAN,
              size : 0 .. MaxBlocks, build : Builds, features : Devices,
              entries : UNION {[1 .. n -> BOOLEAN] : n \in 0 .. MaxEntries}]
            Names(e) == [i \in DOMAIN e |-> [name |-> i, error |-> e[i]]]
<1>1. PICK c \in Arguments :
        /\ call = [c EXCEPT !.entries = Names(c.entries)]
        /\ "ls_v2" \notin c.features => \A i \in DOMAIN c.entries : ~c.entries[i]
  BY DEF Calls
<1>2. PICK n \in 0 .. MaxEntries : c.entries \in [1 .. n -> BOOLEAN]
  <2>1. c.entries \in UNION {[1 .. n -> BOOLEAN] : n \in 0 .. MaxEntries}
    OBVIOUS
  <2>. QED  BY <2>1
<1>3. /\ call.op = c.op /\ call.size = c.size /\ call.features = c.features
      /\ call.entries = Names(c.entries)
  BY <1>1
<1>4. n \in Nat /\ DOMAIN c.entries = 1 .. n
  BY <1>2, SyncAssumption
<1>. DEFINE es == Names(c.entries)
<1>5. es \in [1 .. n -> Entries] /\ \A i \in 1 .. n : es[i].name = i /\ es[i].error = c.entries[i]
  BY <1>2, <1>4 DEF Entries
<1>. HIDE DEF es
<1>6. es \in Seq(Entries) /\ Len(es) = n
  BY <1>4, <1>5, SeqDef, LenProperties
<1>7. ~Has("ls_v2") => \A i \in 1 .. n : ~es[i].error
  BY <1>1, <1>3, <1>4, <1>5 DEF Has
<1>8. call.op \in {"list", "stat", "pull", "push"} /\ call.size \in Nat
  BY <1>3, SyncAssumption
<1>9. call.entries = es
  BY <1>3 DEF es
<1>. QED  BY <1>5, <1>6, <1>7, <1>8, <1>9

\* What the device owes is determined by its state and its queue.
LEMMA AnswerSame ==
  ASSUME UNCHANGED <<dev, toDev>>
  PROVE  Answer' = Answer
BY DEF Answer

\* The device owes one of four things.
LEMMA AnswerFacts ==
  ASSUME SyncTypeOK, Queued
  PROVE  /\ Answer \in {"owed", "failed", "done", "over"}
         /\ Answer = "done" <=> dev.st = "ready" /\ toDev = <<>>
         /\ Answer = "failed" => dev.st \in {"draining", "gone"} /\ dev.failed
         /\ Answer = "owed" => dev.st # "gone" /\ ~dev.failed
         /\ dev.st \in {"listing", "sending", "storing"} => Answer = "owed"
         /\ dev.st = "draining" => Answer = "failed"
         /\ Answer = "over" => /\ dev.st \in {"ready", "gone"} /\ ~dev.failed
                               /\ dev.st = "ready" => toDev # <<>> /\ toDev[1].id = "QUIT"
<1>1. dev.st \in {"ready", "listing", "sending", "storing", "draining", "gone"}
  BY DEF SyncTypeOK
<1>. QED  BY <1>1, Zenon DEF Answer, Queued


-----------------------------------------------------------------------------
(* What steps have in common.                                               *)

\* A step that leaves the device's side alone and does not go on pushing.
LEMMA QueuedSame ==
  ASSUME Queued, UNCHANGED <<form, codec, dest, toDev, dev>>, pc' \notin {"input", "data"}
  PROVE  Queued'
BY DEF Queued, RequestOf

\* A call that pushes nothing.
LEMMA PushingNothing ==
  ASSUME Pushing, form \notin Pushes, UNCHANGED <<form, sent>>
  PROVE  Pushing'
BY DEF Pushing

\* A call that transfers nothing to the host.
LEMMA TransferringNothing ==
  ASSUME form' \notin {"list"} \cup Pulls
  PROVE  Progress' /\ Finished' /\ Flushed' /\ (form' # "none" => NoEntriesStart')
BY DEF Progress, Finished, Flushed, Transferring, Pulls, NoEntriesStart

\* A call that is no pull has no local file.
LEMMA CopiedNothing ==
  ASSUME call.op # "pull", UNCHANGED call
  PROVE  Copied'
BY DEF Copied

\* A step of a pull that leaves the local file and the decoder alone.
LEMMA CopiedSame ==
  ASSUME Copied, UNCHANGED <<call, remote, local, dec>>, pc # "ret",
         pc' \in {"start", "open", "request", "local"} => pc \in {"start", "open", "request", "local"},
         pc' \in {"id", "size", "chunk", "decode", "quit"} \/ Ok'
           => pc \in {"id", "size", "chunk", "decode", "quit"}
  PROVE  Copied'
BY DEF Copied, Run

\* A field is taken off the stream.
TookField ==
  /\ toHost # <<>> /\ toHost' = Tail(toHost)
  /\ UNCHANGED <<call, form, codec, dest, sent, up, toDev, dev, remote>>

\* The call fails: whatever is left unread or unwritten, nobody waits for it.
LEMMA Leaving ==
  ASSUME SyncInv, ~Left, pc' = "drop",
         result' \in {"InvalidArgument", "Transport", "Io", "Device"},
         form = "none" => result' = "InvalidArgument",
         UNCHANGED <<call, form, codec, last, entries, found, dest, sent, local, dec, up, toDev, dev, remote>>,
         UNCHANGED toHost \/ TookField
  PROVE  SyncInv'
<1>t. SyncTypeOK /\ Modes /\ Conversation /\ Pushing /\ Copied /\ NoEntriesStart
  BY DEF SyncInv
<1>1. toHost' \in Seq(Fields)
  <2>1. toHost \in Seq(Fields)
    BY <1>t DEF SyncTypeOK
  <2>2. toHost # <<>> => Tail(toHost) \in Seq(Fields)
    BY <2>1, TailOf
  <2>. QED  BY <2>1, <2>2 DEF TookField
<1>2. SyncTypeOK'
  BY <1>t, <1>1 DEF SyncTypeOK
<1>3. Modes'
  BY <1>t DEF Modes, Left, Available, Has, Destination, Pulls, Pushes
<1>4. ~Ok'
  BY DEF Ok
<1>5. Conversation'
  <2>1. Answer' = Answer
    BY AnswerSame
  <2>2. Framed(toHost', form, Answer)
    <3>1. toHost \in Seq(Fields) /\ Framed(toHost, form, Answer)
      BY <1>t DEF SyncTypeOK, Conversation
    <3>2. toHost # <<>> => Framed(Tail(toHost), form, Answer)
      BY <3>1, FramedTail
    <3>. QED  BY <3>1, <3>2 DEF TookField
  <2>3. Queued'
    BY <1>t, QueuedSame DEF Conversation
  <2>4. Place(toHost', "drop", last', form', Answer')
    BY DEF Place
  <2>. QED  BY <1>4, <2>1, <2>2, <2>3, <2>4 DEF Conversation
<1>6. Pushing'
  BY <1>t, <1>4 DEF Pushing
<1>7. Copied'
  <2>1. pc # "ret"
    BY DEF Left
  <2>. QED  BY <1>t, <1>4, <2>1, CopiedSame
<1>8. Progress' /\ Finished' /\ Flushed'
  <2>1. ~Transferring'
    BY DEF Transferring
  <2>2. Flushed'
    BY <1>4, <2>1 DEF Flushed, SyncInv
  <2>. QED  BY <1>4, <2>1, <2>2 DEF Progress, Finished
<1>9. NoEntriesStart'
  BY DEF NoEntriesStart
<1>. QED  BY <1>2, <1>3, <1>5, <1>6, <1>7, <1>8, <1>9 DEF SyncInv


-----------------------------------------------------------------------------
(* Counting.                                                                *)

\* A weight is a number.
LEMMA WeightNat ==
  ASSUME NEW x, x.k = "chunk" => x.v \in Seq(Blocks)
  PROVE  Weight(x) \in Nat
<1>1. CASE x.k = "chunk"
  <2>1. x.v \in Seq(Blocks) /\ Len(x.v) \in Nat
    BY <1>1, LenProperties
  <2>2. Len(x.v) > 0 => x.v[1] \in Seq(Nat)
    BY <2>1, ElementOfSeq DEF Blocks
  <2>3. Len(x.v) > 1 => x.v[2] \in Seq(Nat)
    BY <2>1, ElementOfSeq DEF Blocks
  <2>4. <<>> \in Seq(Nat)
    BY EmptySeq
  <2>5. Expand(x.v) \in Seq(Nat)
    BY <2>2, <2>3, <2>4, ConcatProperties DEF Expand
  <2>6. Len(Expand(x.v)) \in Nat
    BY <2>5, LenProperties
  <2>. QED  BY <1>1, <2>6 DEF Weight
<1>. QED  BY <1>1 DEF Weight

\* The counts after a field was taken.
Shifted(s, pos) == [i \in 0 .. Len(s) - 1 |-> pos[i + 1]]

\* The counts with those of t behind, of which the last field weighs w.
Extended(s, t, pos, n, w) ==
  [i \in 0 .. Len(s) + Len(t) |->
     IF i <= Len(s) THEN pos[i] ELSE IF i < Len(s) + Len(t) THEN n ELSE n + w]

\* A frame that comes after n, of which the last field weighs w.
Behind(t, n, w) ==
  \A j \in 1 .. Len(t) : /\ Weight(t[j]) = IF j < Len(t) THEN 0 ELSE w
                         /\ Counted(t, j, n)

\* Taking a field moves the count past it.
LEMMA CountTail ==
  ASSUME NEW s \in Seq(Fields), s # <<>>, NEW N \in Nat, NEW pos \in [0 .. Len(s) -> 0 .. N],
         Counting(s, pos), NEW q, q = Shifted(s, pos)
  PROVE  /\ q \in [0 .. Len(Tail(s)) -> 0 .. N] /\ Counting(Tail(s), q)
         /\ q[Len(Tail(s))] = pos[Len(s)]
         /\ q[0] = pos[0] + Weight(s[1]) /\ Counted(s, 1, pos[0]) /\ pos[0] \in 0 .. N
<1>. DEFINE t == Tail(s)
<1>1. /\ Len(s) \in Nat /\ Len(s) >= 1 /\ Len(t) = Len(s) - 1 /\ Len(t) \in Nat
      /\ \A j \in 1 .. Len(s) - 1 : t[j] = s[j + 1]
  BY TailOf
<1>. HIDE DEF t
<1>2. \A i \in 0 .. Len(s) - 1 : q[i] = pos[i + 1] /\ q[i] \in 0 .. N
  <2>. SUFFICES ASSUME NEW i \in 0 .. Len(s) - 1 PROVE q[i] = pos[i + 1] /\ q[i] \in 0 .. N
    OBVIOUS
  <2>1. i + 1 \in 0 .. Len(s)
    BY <1>1
  <2>. QED  BY <2>1 DEF Shifted
<1>3. q \in [0 .. Len(t) -> 0 .. N]
  <2>1. q = [i \in 0 .. Len(t) |-> q[i]]
    BY <1>1 DEF Shifted
  <2>. QED  BY <1>1, <1>2, <2>1
<1>4. ASSUME NEW i \in 1 .. Len(t)
      PROVE  q[i] = q[i - 1] + Weight(t[i]) /\ Counted(t, i, q[i - 1])
  <2>1. /\ i \in 1 .. Len(s) - 1 /\ i + 1 \in 1 .. Len(s) /\ i - 1 \in 0 .. Len(s) - 1 /\ i \in 0 .. Len(s) - 1
        /\ (i + 1) - 1 = i /\ (i - 1) + 1 = i
    BY <1>1
  <2>2. q[i] = pos[i + 1] /\ q[i - 1] = pos[i] /\ t[i] = s[i + 1]
    BY <1>1, <1>2, <2>1
  <2>3. pos[i + 1] = pos[i] + Weight(s[i + 1]) /\ Counted(s, i + 1, pos[i])
    BY <2>1 DEF Counting
  <2>4. i < Len(t) => i + 1 < Len(s) /\ t[i + 1] = s[(i + 1) + 1]
    <3>1. i < Len(t) => i + 1 \in 1 .. Len(s) - 1 /\ i + 1 < Len(s)
      BY <1>1
    <3>. QED  BY <1>1, <3>1
  <2>5. Counted(t, i, pos[i])
    BY <2>2, <2>3, <2>4 DEF Counted
  <2>. QED  BY <2>2, <2>3, <2>5
<1>5. q[Len(t)] = pos[Len(s)]
  <2>1. Len(t) \in 0 .. Len(s) - 1 /\ Len(t) + 1 = Len(s)
    BY <1>1
  <2>. QED  BY <1>2, <2>1
<1>6. q[0] = pos[0] + Weight(s[1]) /\ Counted(s, 1, pos[0]) /\ pos[0] \in 0 .. N
  <2>1. 0 \in 0 .. Len(s) - 1 /\ 1 \in 1 .. Len(s) /\ 0 + 1 = 1 /\ 1 - 1 = 0 /\ 0 \in 0 .. Len(s)
    BY <1>1
  <2>2. q[0] = pos[1] /\ pos[1] = pos[0] + Weight(s[1]) /\ Counted(s, 1, pos[0])
    BY <1>2, <2>1 DEF Counting
  <2>. QED  BY <2>1, <2>2
<1>7. Counting(t, q)
  BY <1>4 DEF Counting
<1>. QED  BY <1>3, <1>5, <1>6, <1>7 DEF t

\* A place behind the first m of m + l.
LEMMA PlaceBehind ==
  ASSUME NEW m \in Nat, NEW l \in Nat, NEW i \in 1 .. m + l, ~(i <= m)
  PROVE  i - m \in 1 .. l /\ i = m + (i - m) /\ i - 1 = m + ((i - m) - 1)
OBVIOUS

\* A frame t, of which only the last field counts, comes behind s.
Adding(s, t, N, pos, n, w, q) ==
  /\ s \in Seq(Fields) /\ t \in Seq(Fields) /\ t # <<>> /\ t[1].k = "id"
  /\ N \in Nat /\ pos \in [0 .. Len(s) -> 0 .. N] /\ Counting(s, pos)
  /\ n = pos[Len(s)] /\ w \in Nat /\ n + w \in 0 .. N
  /\ Behind(t, n, w)
  /\ q = Extended(s, t, pos, n, w)

\* It moves the count at the end.
LEMMA CountJoined ==
  ASSUME NEW s, NEW t, NEW N, NEW pos, NEW n, NEW w, NEW q, Adding(s, t, N, pos, n, w, q)
  PROVE  /\ q \in [0 .. Len(s \o t) -> 0 .. N] /\ Counting(s \o t, q)
         /\ q[Len(s \o t)] = n + w /\ q[0] = pos[0]
<1>0. /\ s \in Seq(Fields) /\ t \in Seq(Fields) /\ t # <<>> /\ t[1].k = "id"
      /\ N \in Nat /\ pos \in [0 .. Len(s) -> 0 .. N] /\ Counting(s, pos)
      /\ n = pos[Len(s)] /\ w \in Nat /\ n + w \in 0 .. N
      /\ Behind(t, n, w)
      /\ q = Extended(s, t, pos, n, w)
  BY DEF Adding
<1>. USE <1>0
<1>. DEFINE r == s \o t  m == Len(s)  l == Len(t)
<1>1. /\ m \in Nat /\ l \in Nat /\ l >= 1 /\ Len(r) = m + l
      /\ \A j \in 1 .. m : r[j] = s[j]
      /\ \A j \in 1 .. l : r[m + j] = t[j]
  <2>1. Len(t) # 0
    BY EmptyLen
  <2>. QED  BY <2>1, Joined
<1>2. n \in 0 .. N /\ pos[0] \in 0 .. N
  <2>1. m \in 0 .. m /\ 0 \in 0 .. m
    BY <1>1
  <2>. QED  BY <2>1
<1>. HIDE DEF r, m, l
<1>3. \A i \in 0 .. m + l :
        q[i] = IF i <= m THEN pos[i] ELSE IF i < m + l THEN n ELSE n + w
  BY DEF m, l, Extended
<1>4. \A i \in 0 .. m : q[i] = pos[i] /\ pos[i] \in 0 .. N
  <2>. SUFFICES ASSUME NEW i \in 0 .. m PROVE q[i] = pos[i] /\ pos[i] \in 0 .. N
    OBVIOUS
  <2>1. i \in 0 .. m + l /\ i <= m
    BY <1>1
  <2>. QED  BY <1>3, <2>1 DEF m
<1>5. \A j \in 1 .. l : q[m + j] = (IF j < l THEN n ELSE n + w) /\ q[m + (j - 1)] = n
  <2>. SUFFICES ASSUME NEW j \in 1 .. l
                PROVE  q[m + j] = (IF j < l THEN n ELSE n + w) /\ q[m + (j - 1)] = n
    OBVIOUS
  <2>1. /\ m + j \in 0 .. m + l /\ ~(m + j <= m) /\ (m + j < m + l <=> j < l)
        /\ m + (j - 1) \in 0 .. m + l /\ m + (j - 1) < m + l /\ (m + (j - 1) <= m <=> j = 1)
    BY <1>1
  <2>2. q[m + j] = IF j < l THEN n ELSE n + w
    BY <1>3, <2>1
  <2>3. CASE j = 1
    <3>1. m + (j - 1) = m /\ m \in 0 .. m
      BY <1>1, <2>3
    <3>2. q[m] = pos[m]
      BY <1>4, <3>1
    <3>. QED  BY <2>2, <3>1, <3>2 DEF m
  <2>4. CASE j # 1
    <3>1. q[m + (j - 1)] = n
      BY <1>3, <2>1, <2>4
    <3>. QED  BY <2>2, <3>1
  <2>. QED  BY <2>3, <2>4
<1>6. q \in [0 .. m + l -> 0 .. N]
  <2>1. ASSUME NEW i \in 0 .. m + l PROVE q[i] \in 0 .. N
    <3>1. CASE i <= m
      <4>1. i \in 0 .. m
        BY <1>1, <3>1
      <4>. QED  BY <1>4, <4>1
    <3>2. CASE ~(i <= m)
      BY <1>2, <1>3, <3>2
    <3>. QED  BY <3>1, <3>2
  <2>2. q = [i \in 0 .. m + l |-> q[i]]
    BY DEF m, l, Extended
  <2>. QED  BY <2>1, <2>2
<1>7. ASSUME NEW i \in 1 .. m + l
      PROVE  q[i] = q[i - 1] + Weight(r[i]) /\ Counted(r, i, q[i - 1])
  <2>1. CASE i <= m
    <3>1. i \in 1 .. m /\ i \in 0 .. m /\ i - 1 \in 0 .. m
      BY <1>1, <2>1
    <3>2. q[i] = pos[i] /\ q[i - 1] = pos[i - 1] /\ r[i] = s[i]
      BY <1>1, <1>4, <3>1
    <3>3. pos[i] = pos[i - 1] + Weight(s[i]) /\ Counted(s, i, pos[i - 1])
      BY <3>1 DEF Counting, m
    <3>4. i < Len(r) /\ r[i + 1].k = "name" => i < Len(s) /\ s[i + 1].k = "name"
      <4>1. CASE i < m
        <5>1. i + 1 \in 1 .. m
          BY <1>1, <3>1, <4>1
        <5>. QED  BY <1>1, <4>1, <5>1 DEF m
      <4>2. CASE ~(i < m)
        <5>1. i + 1 = m + 1 /\ 1 \in 1 .. l
          BY <1>1, <3>1, <4>2
        <5>2. r[i + 1] = t[1]
          BY <1>1, <5>1
        <5>. QED  BY <5>2
      <4>. QED  BY <4>1, <4>2
    <3>5. i < Len(r) /\ r[i + 1].k = "name" => r[i + 1] = s[i + 1]
      <4>1. i < Len(r) /\ r[i + 1].k = "name" => i + 1 \in 1 .. m
        BY <1>1, <3>1, <3>4 DEF m
      <4>. QED  BY <1>1, <4>1
    <3>6. Counted(r, i, pos[i - 1])
      BY <3>2, <3>3, <3>4 DEF Counted
    <3>. QED  BY <3>2, <3>3, <3>6
  <2>2. CASE ~(i <= m)
    <3>. DEFINE j == i - m
    <3>1. j \in 1 .. l /\ i = m + j /\ i - 1 = m + (j - 1)
      BY <1>1, <2>2, PlaceBehind
    <3>. HIDE DEF j
    <3>2. q[i] = (IF j < l THEN n ELSE n + w) /\ q[i - 1] = n /\ r[i] = t[j]
      BY <1>1, <1>5, <3>1
    <3>3. Weight(t[j]) = (IF j < l THEN 0 ELSE w) /\ Counted(t, j, n)
      BY <3>1 DEF l, Behind
    <3>4. i < Len(r) => j < Len(t) /\ r[i + 1] = t[j + 1]
      <4>1. i < Len(r) => j < l /\ j + 1 \in 1 .. l /\ i + 1 = m + (j + 1)
        BY <1>1, <3>1
      <4>. QED  BY <1>1, <4>1 DEF l
    <3>5. Counted(r, i, n)
      BY <3>2, <3>3, <3>4 DEF Counted
    <3>6. q[i] = n + Weight(r[i])
      BY <1>2, <3>2, <3>3
    <3>. QED  BY <3>2, <3>5, <3>6
  <2>. QED  BY <2>1, <2>2
<1>8. Counting(r, q)
  BY <1>1, <1>7 DEF Counting
<1>9. q[m + l] = n + w /\ q[0] = pos[0]
  <2>1. l \in 1 .. l /\ ~(l < l) /\ 0 \in 0 .. m
    BY <1>1
  <2>. QED  BY <1>4, <1>5, <2>1
<1>. QED  BY <1>1, <1>6, <1>8, <1>9 DEF r


\* The files and the listing have a length.
LEMMA TotalNat ==
  ASSUME SyncTypeOK
  PROVE  Total \in Nat
<1>1. Len(call.entries) \in Nat
  BY CallFacts, LenProperties DEF SyncTypeOK
<1>2. remote.path.data \in Seq(Nat)
  BY DEF SyncTypeOK, Blocks
<1>3. Len(remote.path.data) \in Nat
  BY <1>2, LenProperties
<1>. QED  BY <1>1, <1>3 DEF Total

\* What a field means depends on the call and on the device's files alone.
LEMMA CountingSame ==
  ASSUME UNCHANGED <<call, form>>, remote'.path = remote.path \/ form = "list"
  PROVE  /\ Total' = Total
         /\ \A s, pos : Counting(s, pos) => Counting(s, pos)'
<1>1. Total' = Total
  BY DEF Total
<1>. QED  BY <1>1 DEF Counting, Counted

\* Reading a field in the middle of a transfer: only what the host has taken is
\* to be looked at.
LEMMA ProgressRead ==
  ASSUME SyncTypeOK, Progress, Transferring, TookField,
         \A n, m \in 0 .. Total :
           m = n + Weight(toHost[1]) /\ HostAt(n) /\ Counted(toHost, 1, n) => HostAt(m)'
  PROVE  Progress'
<1>1. PICK pos \in Positions(toHost) :
        Counting(toHost, pos) /\ DeviceAt(pos[Len(toHost)]) /\ HostAt(pos[0])
  BY DEF Progress
<1>2. toHost \in Seq(Fields) /\ toHost # <<>> /\ toHost' = Tail(toHost) /\ Total \in Nat
  BY TotalNat DEF SyncTypeOK, TookField
<1>3. pos \in [0 .. Len(toHost) -> 0 .. Total]
  BY DEF Positions
<1>q. PICK q : q = Shifted(toHost, pos)
  OBVIOUS
<1>p. PICK t : t = Tail(toHost)
  OBVIOUS
<1>4. /\ q \in [0 .. Len(t) -> 0 .. Total] /\ Counting(t, q)
      /\ q[Len(t)] = pos[Len(toHost)]
      /\ q[0] = pos[0] + Weight(toHost[1]) /\ Counted(toHost, 1, pos[0]) /\ pos[0] \in 0 .. Total
  <2>. DEFINE N == Total  s == toHost
  <2>1. /\ s \in Seq(Fields) /\ s # <<>> /\ N \in Nat /\ pos \in [0 .. Len(s) -> 0 .. N]
        /\ Counting(s, pos) /\ q = Shifted(s, pos)
    BY <1>1, <1>2, <1>3, <1>q
  <2>. HIDE DEF N, s
  <2>2. /\ q \in [0 .. Len(Tail(s)) -> 0 .. N] /\ Counting(Tail(s), q)
        /\ q[Len(Tail(s))] = pos[Len(s)]
        /\ q[0] = pos[0] + Weight(s[1]) /\ Counted(s, 1, pos[0]) /\ pos[0] \in 0 .. N
    BY <2>1, CountTail
  <2>. QED  BY <2>2, <1>p DEF N, s
<1>5. Total' = Total /\ Counting(t, q)'
  <2>1. \A u, p : Counting(u, p) => Counting(u, p)'
    BY CountingSame DEF TookField
  <2>. QED  BY <1>4, <2>1, CountingSame DEF TookField
<1>6. DeviceAt(q[Len(t)])
  BY <1>1, <1>4
<1>7. \A n : DeviceAt(n) => DeviceAt(n)'
  <2>1. Answer' = Answer
    BY AnswerSame DEF TookField
  <2>. QED  BY <1>5, <2>1 DEF DeviceAt, TookField, Run
<1>8. HostAt(q[0])'
  <2>0. Len(t) \in Nat
    BY <1>2, <1>p, TailOf
  <2>1. q[0] \in 0 .. Total
    BY <1>4, <2>0
  <2>. DEFINE n == pos[0]  m == q[0]
  <2>2. n \in 0 .. Total /\ m \in 0 .. Total /\ m = n + Weight(toHost[1]) /\ HostAt(n) /\ Counted(toHost, 1, n)
    BY <1>1, <1>4, <2>1
  <2>. QED  BY <2>2
<1>9. toHost' = t
  BY <1>2, <1>p
<1>10. q \in Positions(toHost)' /\ Counting(toHost, q)' /\ DeviceAt(q[Len(toHost)])'
  <2>1. Counting(t, q)' /\ DeviceAt(q[Len(t)])'
    BY <1>5, <1>6, <1>7
  <2>2. q \in [0 .. Len(t) -> 0 .. Total']
    BY <1>4, <1>5
  <2>. QED  BY <1>9, <2>1, <2>2 DEF Positions, Counting, Counted, DeviceAt
<1>. QED  BY <1>8, <1>10 DEF Progress


\* What the host has taken is the host's affair.
LEMMA HostAtSame ==
  ASSUME NEW n, HostAt(n), UNCHANGED <<call, form, pc, last, entries, errored, local, dec>>,
         remote'.path = remote.path \/ form = "list"
  PROVE  HostAt(n)'
<1>1. Total' = Total
  BY CountingSame
<1>2. ListedUpTo(n) => ListedUpTo(n)'
  BY DEF ListedUpTo
<1>3. PulledUpTo(n) => PulledUpTo(n)'
  <2>1. Out' = Out /\ InFile' = InFile /\ dec' = dec /\ pc' = pc /\ form' = form
    BY DEF Out, InFile
  <2>. QED  BY <2>1 DEF PulledUpTo, Run, Expand
<1>4. TakenUpTo(n) => TakenUpTo(n)'
  BY <1>2, <1>3 DEF TakenUpTo
<1>5. TakenUpTo(n)
  BY DEF HostAt
<1>6. pc' \in {"body", "size"} /\ last' = "DONE" => n = Total'
  BY <1>1 DEF HostAt
<1>7. pc' = "name" => errored' = call'.entries[n + 1].error
  BY DEF HostAt
<1>. QED  BY <1>4, <1>5, <1>6, <1>7 DEF HostAt

\* The device writes a frame: only its own place is to be looked at.
LEMMA ProgressEmit ==
  ASSUME SyncTypeOK, Progress, Transferring, DeviceLeaves, UNCHANGED remote,
         NEW t \in Seq(Fields), t # <<>>, t[1].k = "id", toHost' = toHost \o t,
         NEW w \in Nat,
         \A n \in 0 .. Total : DeviceAt(n) =>
           n + w <= Total /\ DeviceAt(n + w)' /\ Behind(t, n, w)
  PROVE  Progress'
<1>1. PICK pos \in Positions(toHost) :
        Counting(toHost, pos) /\ DeviceAt(pos[Len(toHost)]) /\ HostAt(pos[0])
  BY DEF Progress
<1>u. UNCHANGED <<call, form, pc, last, entries, errored, local, dec>>
  BY DEF DeviceLeaves, callVars, listVars
<1>p. PICK s : s = toHost
  OBVIOUS
<1>2. s \in Seq(Fields) /\ s \o t \in Seq(Fields) /\ Len(s) \in Nat /\ Total \in Nat
  BY <1>p, TotalNat, Joined DEF SyncTypeOK
<1>3. pos \in [0 .. Len(s) -> 0 .. Total]
  BY <1>p DEF Positions
<1>n. PICK n : n = pos[Len(s)]
  OBVIOUS
<1>q. PICK q : q = Extended(s, t, pos, n, w)
  OBVIOUS
<1>4. n \in 0 .. Total /\ DeviceAt(n)
  <2>1. Len(s) \in 0 .. Len(s)
    BY <1>2
  <2>. QED  BY <1>1, <1>3, <1>n, <1>p, <2>1
<1>5. n + w \in 0 .. Total /\ DeviceAt(n + w)' /\ Behind(t, n, w)
  BY <1>2, <1>4
<1>6. /\ q \in [0 .. Len(s \o t) -> 0 .. Total] /\ Counting(s \o t, q)
      /\ q[Len(s \o t)] = n + w /\ q[0] = pos[0]
  <2>. DEFINE N == Total
  <2>1. /\ N \in Nat /\ pos \in [0 .. Len(s) -> 0 .. N] /\ n + w \in 0 .. N /\ Counting(s, pos)
        /\ Behind(t, n, w)
    BY <1>1, <1>2, <1>3, <1>5, <1>p
  <2>. HIDE DEF N
  <2>3. Adding(s, t, N, pos, n, w, q)
    BY <1>2, <1>n, <1>q, <2>1 DEF Adding
  <2>2. /\ q \in [0 .. Len(s \o t) -> 0 .. N] /\ Counting(s \o t, q)
        /\ q[Len(s \o t)] = n + w /\ q[0] = pos[0]
    BY <2>3, CountJoined
  <2>. QED  BY <2>2 DEF N
<1>7. Total' = Total /\ Counting(s \o t, q)'
  BY <1>6, <1>u, CountingSame
<1>8. HostAt(q[0])'
  <2>1. HostAt(q[0])
    BY <1>1, <1>6
  <2>. QED  BY <1>u, <2>1, HostAtSame
<1>9. toHost' = s \o t
  BY <1>p
<1>10. q \in Positions(toHost)' /\ Counting(toHost, q)' /\ DeviceAt(q[Len(toHost)])'
  <2>1. Counting(s \o t, q)' /\ DeviceAt(q[Len(s \o t)])'
    BY <1>5, <1>6, <1>7
  <2>2. q \in [0 .. Len(s \o t) -> 0 .. Total']
    BY <1>6, <1>7
  <2>. QED  BY <1>9, <2>1, <2>2 DEF Positions, Counting, Counted, DeviceAt
<1>. QED  BY <1>8, <1>10 DEF Progress

\* A step that neither reads nor writes a field.
LEMMA ProgressBetween ==
  ASSUME Progress, Transferring, UNCHANGED <<call, form, toHost>>,
         remote'.path = remote.path \/ form = "list",
         \A n \in 0 .. Total : HostAt(n) => HostAt(n)',
         \A n \in 0 .. Total : DeviceAt(n) => DeviceAt(n)',
         SyncTypeOK
  PROVE  Progress'
<1>1. PICK pos \in Positions(toHost) :
        Counting(toHost, pos) /\ DeviceAt(pos[Len(toHost)]) /\ HostAt(pos[0])
  BY DEF Progress
<1>p. PICK s : s = toHost
  OBVIOUS
<1>2. Total' = Total /\ Counting(s, pos)'
  <2>1. Counting(s, pos)
    BY <1>1, <1>p
  <2>. QED  BY <2>1, CountingSame
<1>3. pos[0] \in 0 .. Total /\ pos[Len(s)] \in 0 .. Total
  <2>1. Len(s) \in Nat
    BY <1>p, LenProperties DEF SyncTypeOK
  <2>2. pos \in [0 .. Len(s) -> 0 .. Total] /\ 0 \in 0 .. Len(s) /\ Len(s) \in 0 .. Len(s)
    BY <1>p, <2>1 DEF Positions
  <2>. QED  BY <2>2
<1>4. HostAt(pos[0])' /\ DeviceAt(pos[Len(s)])'
  <2>1. HostAt(pos[0]) /\ DeviceAt(pos[Len(s)])
    BY <1>1, <1>p
  <2>. QED  BY <1>3, <2>1
<1>5. toHost' = s
  BY <1>p
<1>6. pos \in Positions(toHost)' /\ Counting(toHost, pos)' /\ DeviceAt(pos[Len(toHost)])'
  <2>1. pos \in [0 .. Len(s) -> 0 .. Total']
    BY <1>2, <1>p DEF Positions
  <2>. QED  BY <1>2, <1>4, <1>5, <2>1 DEF Positions, Counting, Counted, DeviceAt
<1>. QED  BY <1>4, <1>6 DEF Progress


-----------------------------------------------------------------------------
(* Reads.                                                                   *)

\* The field a read takes.
LEMMA FirstField ==
  ASSUME SyncTypeOK, toHost # <<>>
  PROVE  /\ toHost \in Seq(Fields) /\ Len(toHost) \in Nat /\ Len(toHost) >= 1
         /\ toHost[1] \in Fields /\ Head(toHost) = toHost[1]
         /\ Tail(toHost) \in Seq(Fields) /\ Len(Tail(toHost)) = Len(toHost) - 1
BY TailOf DEF SyncTypeOK

\* A host that reads an id gets one, and what belongs to it comes behind.
LEMMA IdComes ==
  ASSUME SyncInv, pc = "id", toHost # <<>>
  PROVE  /\ toHost[1].k = "id" /\ toHost[1].v \in Ids
         /\ Rest(Tail(toHost), 1, toHost[1].v, form, Answer)
<1>1. SyncTypeOK /\ Framed(toHost, form, Answer) /\ Place(toHost, pc, last, form, Answer)
  BY DEF SyncInv, Conversation
<1>2. toHost \in Seq(Fields) /\ Len(toHost) >= 1 /\ Len(toHost) \in Nat /\ toHost[1] \in Fields
  BY <1>1, FirstField
<1>3. toHost[1].k = "id"
  BY <1>1, <1>2 DEF Place, AtFrame
<1>4. toHost[1].v \in Ids
  BY <1>2, <1>3, FieldFacts
<1>5. Rest(toHost, 1 + 1, toHost[1].v, form, Answer)
  <2>1. 1 \in 1 .. Len(toHost)
    BY <1>2
  <2>. QED  BY <1>1, <1>3, <2>1 DEF Framed
<1>6. Rest(Tail(toHost), 1, toHost[1].v, form, Answer)
  BY <1>2, <1>5, RestShift
<1>. QED  BY <1>3, <1>4, <1>6

\* A call that has read a field and goes on.
LEMMA ReadOn ==
  ASSUME SyncInv, TookField, UNCHANGED result, pc \in ReadingAt,
         pc' \in {"id", "body", "name", "size", "chunk", "decode", "length", "reason", "okay", "quit"},
         pc' = "okay" => form \in Pushes,
         pc' \in {"size", "chunk"} => form \in Pulls,
         pc' = "decode" => form = "pull_v2",
         pc' = "body" => form \in {"list", "stat"},
         pc' = "name" => form = "list",
         form \in Pushes => pc' \in {"okay", "length", "reason", "quit"} /\ found' = found,
         last' \in Ids \cup {"none"}, entries' \in Seq(Nat),
         local' \in [file : Blocks, open : BOOLEAN, buf : Blocks, lost : Blocks],
         dec' \in [in : Seq(Blocks), out : Blocks, held : Blocks],
         Place(Tail(toHost), pc', last', form, Answer),
         Copied', Progress', Finished', Flushed'
  PROVE  SyncInv'
<1>t. /\ SyncTypeOK /\ Modes /\ Conversation /\ Pushing
      /\ pc \in {"id", "body", "name", "size", "chunk", "length", "reason", "okay"}
  BY DEF SyncInv, ReadingAt
<1>1. SyncTypeOK'
  <2>1. Tail(toHost) \in Seq(Fields)
    BY <1>t, FirstField DEF TookField
  <2>. QED  BY <1>t, <2>1 DEF SyncTypeOK, TookField
<1>2. result = "none" /\ form # "none"
  BY <1>t DEF Modes, Left
<1>3. Modes'
  <2>1. /\ ~Left' /\ result' = "none" /\ pc' # "start" /\ pc' # "ret" /\ form' = form /\ codec' = codec
        /\ call' = call /\ dest' = dest /\ pc' \notin {"local", "input", "data"}
    BY <1>2 DEF TookField, Left
  <2>2. form \in Pushes => dest = Destination /\ Destination' = Destination
    BY <1>t DEF Modes, Destination
  <2>3. codec # NoCodec => Available(codec)' /\ form \in {"pull_v2", "push_v2"}
    BY <1>t, <2>1 DEF Modes, Available, Has
  <2>4. pc' \in {"input", "data", "okay"} => form \in Pushes
    BY <2>1
  <2>. QED  BY <1>2, <1>t, <2>1, <2>2, <2>3, <2>4 DEF Modes
<1>4. ~Ok'
  BY <1>2 DEF Ok
<1>5. Answer' = Answer
  BY AnswerSame DEF TookField
<1>6. Conversation'
  <2>1. Framed(Tail(toHost), form, Answer)
    BY <1>t, FirstField, FramedTail DEF Conversation, TookField
  <2>2. Queued'
    BY <1>t, QueuedSame DEF Conversation, TookField
  <2>3. toHost' = Tail(toHost) /\ form' = form
    BY DEF TookField
  <2>. QED  BY <1>4, <1>5, <2>1, <2>2, <2>3 DEF Conversation
<1>7. Pushing'
  <2>1. CASE form \notin Pushes
    BY <1>t, <2>1, PushingNothing DEF TookField
  <2>2. CASE form \in Pushes
    <3>1. pc \in {"id", "length", "reason", "okay"}
      BY <1>t, <2>2 DEF Modes, Pulls, Pushes
    <3>2. pc \in {"length", "reason"} => Answer = "failed"
      BY <1>t DEF Conversation, Place, Rest
    <3>3. Answer = "done" => Stored
      BY <1>t, <2>2, <3>1, <3>2 DEF Pushing
    <3>4. form' = form /\ sent' = sent /\ Stored' = Stored
      BY DEF TookField, Stored
    <3>5. pc' \notin {"open", "request", "input", "data", "id"}
      BY <2>2
    <3>. QED  BY <1>4, <1>5, <2>2, <3>3, <3>4, <3>5 DEF Pushing
  <2>. QED  BY <2>1, <2>2
<1>8. NoEntriesStart'
  BY DEF NoEntriesStart
<1>. QED  BY <1>1, <1>3, <1>6, <1>7, <1>8 DEF SyncInv

\* At DONE all of it has been taken.
LEMMA TakenAtEnd ==
  ASSUME Progress, Transferring, pc \in {"body", "size"}, last = "DONE"
  PROVE  TakenUpTo(Total)
<1>1. PICK pos : HostAt(pos[0])
  BY DEF Progress
<1>2. PICK n : n = pos[0]
  OBVIOUS
<1>3. HostAt(n)
  BY <1>1, <1>2
<1>. QED  BY <1>3 DEF HostAt


\* What Read leaves alone.
LEMMA Took ==
  ASSUME toHost # <<>>, toHost' = Tail(toHost), UNCHANGED <<callVars, pushVars, up, toDev, dev, remote>>
  PROVE  TookField
BY DEF TookField, callVars, pushVars

\* What has been taken stays taken while the local file, the decoder and the
\* entries stay as they are.
LEMMA TakenSame ==
  ASSUME NEW n, TakenUpTo(n), UNCHANGED <<call, form, entries, local, dec>>,
         pc' = "decode" <=> pc = "decode"
  PROVE  TakenUpTo(n)'
<1>1. ListedUpTo(n) => ListedUpTo(n)'
  BY DEF ListedUpTo
<1>2. PulledUpTo(n) => PulledUpTo(n)'
  <2>1. Out' = Out /\ InFile' = InFile /\ dec' = dec /\ form' = form /\ (pc' = "decode" <=> pc = "decode")
    BY DEF Out, InFile
  <2>. QED  BY <2>1 DEF PulledUpTo, Run, Expand
<1>. QED  BY <1>1, <1>2 DEF TakenUpTo

\* The device's side of the flushing is its own.
LEMMA FlushedLater ==
  ASSUME Flushed, UNCHANGED <<form, dev>>, ~Transferring', pc' \notin {"size", "quit"}, ~Ok'
  PROVE  Flushed'
BY DEF Flushed

\* A call that is going on has a form and no result.
LEMMA UnderWay ==
  ASSUME SyncInv, ~Left, pc # "start"
  PROVE  form # "none" /\ result = "none" /\ pc # "drop" /\ pc # "ret"
BY DEF SyncInv, Modes, Left

\* A FAIL is on its way to the caller.
LEMMA FailOn ==
  ASSUME SyncInv, TookField, UNCHANGED <<result, entries, found, local, dec>>, pc \in ReadingAt,
         pc' \in {"length", "reason"}, last' \in Ids \cup {"none"},
         Place(Tail(toHost), pc', last', form, Answer)
  PROVE  SyncInv'
<1>t. SyncTypeOK /\ Copied /\ Flushed
  BY DEF SyncInv
<1>0. pc # "ret" /\ pc # "drop" /\ result = "none"
  BY UnderWay DEF ReadingAt, Left
<1>1. ~Transferring' /\ ~Ok'
  BY <1>0 DEF Transferring, Ok
<1>2. Flushed'
  BY <1>t, <1>1, FlushedLater DEF TookField
<1>3. Copied'
  BY <1>t, <1>0, <1>1, CopiedSame DEF TookField
<1>4. Progress' /\ Finished'
  BY <1>1 DEF Progress, Finished
<1>5. /\ local' \in [file : Blocks, open : BOOLEAN, buf : Blocks, lost : Blocks]
      /\ dec' \in [in : Seq(Blocks), out : Blocks, held : Blocks]
      /\ entries' \in Seq(Nat)
  BY <1>t DEF SyncTypeOK
<1>. QED  BY <1>2, <1>3, <1>4, <1>5, ReadOn

\* The id FAIL.
LEMMA FailIdStep ==
  ASSUME SyncInv, pc = "id", TookField, last' = toHost[1].v, last' = "FAIL",
         UNCHANGED <<result, listVars, local, dec>>, pc' = "length"
  PROVE  SyncInv'
<1>1. toHost # <<>>
  BY DEF TookField
<1>2. Rest(Tail(toHost), 1, "FAIL", form, Answer)
  BY <1>1, IdComes
<1>3. Place(Tail(toHost), pc', last', form, Answer)
  BY <1>2 DEF Place
<1>. QED  BY <1>3, FailOn DEF listVars, Ids, ReadingAt

\* sync_fail.
LEMMA FailReadStep ==
  ASSUME SyncInv, FailRead
  PROVE  SyncInv'
<1>t. SyncTypeOK /\ Place(toHost, pc, last, form, Answer)
  BY DEF SyncInv, Conversation
<1>1. CASE pc = "length"
  <2>1. /\ toHost # <<>> /\ toHost' = Tail(toHost)
        /\ IF Head(toHost).k = "length" THEN Goto("reason") ELSE Return("Protocol")
        /\ UNCHANGED <<callVars, pushVars, up, toDev, dev, remote>>
        /\ UNCHANGED <<last, listVars, local, dec>>
    BY Zenon, <1>1 DEF FailRead, Read
  <2>2. /\ Len(toHost) = 2 /\ toHost[1].k = "length" /\ toHost[2].k = "reason" /\ Answer = "failed"
    BY <1>t, <1>1 DEF Place, Rest
  <2>3. pc' = "reason" /\ UNCHANGED result
    BY <1>t, <2>1, <2>2, FirstField DEF Goto
  <2>4. TookField
    BY <2>1, Took
  <2>5. Len(Tail(toHost)) = 1 /\ Tail(toHost)[1].k = "reason"
    <3>1. /\ Len(Tail(toHost)) = Len(toHost) - 1
          /\ \A i \in 1 .. Len(toHost) - 1 : Tail(toHost)[i] = toHost[i + 1]
      BY <1>t, <2>1, TailOf DEF SyncTypeOK
    <3>. QED  BY <2>2, <3>1
  <2>6. Place(Tail(toHost), pc', last', form, Answer)
    BY <2>2, <2>3, <2>5 DEF Place
  <2>7. last' \in Ids \cup {"none"}
    BY <1>t, <2>1 DEF SyncTypeOK
  <2>. QED  BY <1>1, <2>1, <2>3, <2>4, <2>6, <2>7, FailOn DEF listVars, ReadingAt
<1>2. CASE pc = "reason"
  <2>1. /\ toHost # <<>> /\ toHost' = Tail(toHost)
        /\ IF Head(toHost).k = "reason" THEN Return("Device") ELSE Return("Protocol")
        /\ UNCHANGED <<callVars, pushVars, up, toDev, dev, remote>>
        /\ UNCHANGED <<last, listVars, local, dec>>
    BY Zenon, <1>2 DEF FailRead, Read
  <2>2. toHost[1].k = "reason"
    BY <1>t, <1>2 DEF Place
  <2>3. pc' = "drop" /\ result' = "Device"
    BY <1>t, <2>1, <2>2, FirstField DEF Return
  <2>4. TookField
    BY <2>1, Took
  <2>5. form # "none" /\ ~Left
    BY <1>2, UnderWay DEF Left
  <2>. QED  BY <2>1, <2>3, <2>4, <2>5, Leaving DEF TookField, listVars
<1>. QED  BY <1>1, <1>2 DEF FailRead


-----------------------------------------------------------------------------
(* list and stat.                                                           *)

\* What a step of Read that matches does.
LEMMA TookFields ==
  ASSUME SyncTypeOK, toHost # <<>>, toHost' = Tail(toHost),
         UNCHANGED <<callVars, pushVars, up, toDev, dev, remote>>
  PROVE  /\ TookField /\ Head(toHost) = toHost[1] /\ toHost[1] \in Fields
         /\ Len(Tail(toHost)) = Len(toHost) - 1 /\ Len(toHost) \in Nat /\ Len(toHost) >= 1
         /\ \A i \in 1 .. Len(toHost) - 1 : Tail(toHost)[i] = toHost[i + 1]
<1>1. toHost \in Seq(Fields)
  BY DEF SyncTypeOK
<1>. QED  BY <1>1, Took, TailOf

\* A call of list pulls nothing.
LEMMA ListFacts ==
  ASSUME SyncInv, form = "list"
  PROVE  /\ call.op = "list" /\ Total = Len(call.entries)
         /\ form \notin Pulls /\ form \notin Pushes /\ form # "stat" /\ form # "none"
BY DEF SyncInv, Modes, Total, Pulls, Pushes

\* A listing that has read a field and goes on.
LEMMA ListOn ==
  ASSUME SyncInv, TookField, form = "list", UNCHANGED <<result, local, dec>>,
         pc \in {"id", "body", "name"}, pc' \in {"id", "body", "name", "quit"},
         last' \in Ids \cup {"none"}, entries' \in Seq(Nat),
         Place(Tail(toHost), pc', last', form, Answer),
         pc' # "quit" => \A n, m \in 0 .. Total :
            m = n + Weight(toHost[1]) /\ HostAt(n) /\ Counted(toHost, 1, n) => HostAt(m)',
         pc' = "quit" => TakenUpTo(Total)'
  PROVE  SyncInv'
<1>t. SyncTypeOK /\ Progress /\ form' = form /\ call' = call
  BY DEF SyncInv, TookField
<1>f. call.op = "list" /\ form \notin Pulls /\ form \notin Pushes
  BY ListFacts
<1>0. result = "none" /\ pc \in ReadingAt
  BY UnderWay DEF Left, ReadingAt
<1>1. Copied'
  BY <1>t, <1>f, CopiedNothing
<1>2. Progress'
  <2>1. Transferring
    BY DEF Transferring
  <2>2. CASE pc' = "quit"
    BY <2>2 DEF Progress, Transferring
  <2>3. CASE pc' # "quit"
    BY <1>t, <2>1, <2>3, ProgressRead
  <2>. QED  BY <2>2, <2>3
<1>4. ~Ok'
  BY <1>0 DEF Ok
<1>5. Finished'
  BY <1>4 DEF Finished
<1>6. Flushed'
  BY <1>t DEF Flushed
<1>7. /\ local' \in [file : Blocks, open : BOOLEAN, buf : Blocks, lost : Blocks]
      /\ dec' \in [in : Seq(Blocks), out : Blocks, held : Blocks]
  BY <1>t DEF SyncTypeOK
<1>8. pc' \in {"body"} => form \in {"list", "stat"}
  OBVIOUS
<1>. QED  BY <1>0, <1>1, <1>2, <1>5, <1>6, <1>7, <1>f, ReadOn

\* The id of an entry, or DONE.
LEMMA ListIdStep ==
  ASSUME SyncInv, ListId
  PROVE  SyncInv'
<1>t. SyncTypeOK
  BY DEF SyncInv
<1>1. /\ form = "list" /\ pc = "id"
      /\ toHost # <<>> /\ toHost' = Tail(toHost)
      /\ IF Head(toHost).k = "id"
         THEN last' = Head(toHost).v /\ IF Head(toHost).v = "FAIL" THEN Goto("length") ELSE Goto("body")
         ELSE Return("Protocol") /\ UNCHANGED last
      /\ UNCHANGED <<callVars, pushVars, up, toDev, dev, remote>>
      /\ UNCHANGED <<listVars, local, dec>>
  BY Zenon DEF ListId, ReadId, Read
<1>2. /\ toHost[1].k = "id" /\ toHost[1].v \in Ids
      /\ Rest(Tail(toHost), 1, toHost[1].v, form, Answer)
  BY <1>1, IdComes
<1>3. TookField /\ Head(toHost) = toHost[1]
  BY <1>t, <1>1, TookFields
<1>4. /\ last' = toHost[1].v
      /\ IF toHost[1].v = "FAIL" THEN Goto("length") ELSE Goto("body")
  BY <1>1, <1>2, <1>3
<1>5. CASE toHost[1].v = "FAIL"
  BY <1>1, <1>3, <1>4, <1>5, FailIdStep DEF Goto
<1>6. CASE toHost[1].v # "FAIL"
  <2>1. pc' = "body" /\ UNCHANGED <<result, local, dec, entries>> /\ last' \in Ids
    BY <1>1, <1>2, <1>4, <1>6 DEF Goto, listVars
  <2>2. Place(Tail(toHost), pc', last', form, Answer)
    BY <1>1, <1>2, <1>4, <1>6, <2>1 DEF Place
  <2>3. \A n, m \in 0 .. Total :
          m = n + Weight(toHost[1]) /\ HostAt(n) /\ Counted(toHost, 1, n) => HostAt(m)'
    <3>. SUFFICES ASSUME NEW n \in 0 .. Total, NEW m \in 0 .. Total, m = n + Weight(toHost[1]),
                         HostAt(n), Counted(toHost, 1, n)
                  PROVE  HostAt(m)'
      OBVIOUS
    <3>1. m = n
      <4>1. Weight(toHost[1]) = 0
        BY <1>2 DEF Weight
      <4>2. n \in Nat
        BY <1>t, TotalNat
      <4>. QED  BY <4>1, <4>2
    <3>2. TakenUpTo(n)'
      BY <1>1, <1>3, <2>1, TakenSame DEF HostAt, TookField
    <3>3. last' = "DONE" => n = Total'
      BY <1>2, <1>3, <1>4, CountingSame DEF Counted, TookField
    <3>. QED  BY <2>1, <3>1, <3>2, <3>3 DEF HostAt
  <2>4. entries' \in Seq(Nat)
    BY <1>t, <2>1 DEF SyncTypeOK
  <2>. QED  BY <1>1, <1>3, <2>1, <2>2, <2>3, <2>4, ListOn
<1>. QED  BY <1>5, <1>6

\* The body of an entry, or of DONE.
LEMMA ListBodyStep ==
  ASSUME SyncInv, ListBody
  PROVE  SyncInv'
<1>t. SyncTypeOK /\ Progress /\ Place(toHost, pc, last, form, Answer)
  BY DEF SyncInv, Conversation
<1>1. /\ form = "list" /\ pc = "body"
      /\ toHost # <<>> /\ toHost' = Tail(toHost)
      /\ IF Head(toHost).k = "body"
         THEN /\ errored' = Head(toHost).v
              /\ IF last = "DONE" THEN Goto("quit")
                 ELSE IF last # "DENT" THEN Return("Protocol") ELSE Goto("name")
         ELSE Return("Protocol") /\ UNCHANGED errored
      /\ UNCHANGED <<callVars, pushVars, up, toDev, dev, remote>>
      /\ UNCHANGED <<last, entries, found, local, dec>>
  BY Zenon DEF ListBody, Read, NameFollows
<1>2. /\ TookField /\ Head(toHost) = toHost[1] /\ Len(Tail(toHost)) = Len(toHost) - 1
      /\ \A i \in 1 .. Len(toHost) - 1 : Tail(toHost)[i] = toHost[i + 1]
  BY <1>t, <1>1, TookFields
<1>3. Rest(toHost, 1, last, "list", Answer) /\ last # "FAIL"
  BY <1>t, <1>1 DEF Place
<1>4. last \in {"DENT", "DONE"} /\ toHost[1].k = "body"
  BY <1>3 DEF Rest, Ids, Pulls, Pushes
<1>5. entries' \in Seq(Nat) /\ last' \in Ids \cup {"none"}
  BY <1>t, <1>1 DEF SyncTypeOK
<1>6. CASE last = "DONE"
  <2>1. pc' = "quit" /\ UNCHANGED result
    BY <1>1, <1>2, <1>4, <1>6 DEF Goto
  <2>2. Tail(toHost) = <<>> /\ Answer = "done"
    <3>1. Len(toHost) = 1 /\ Answer = "done"
      BY <1>3, <1>6 DEF Rest
    <3>2. Tail(toHost) \in Seq(Fields) /\ Len(Tail(toHost)) = 0
      BY <1>t, <1>1, <1>2, <3>1, FirstField
    <3>. QED  BY <3>1, <3>2, EmptyLen
  <2>3. Place(Tail(toHost), pc', last', form, Answer)
    BY <2>1, <2>2 DEF Place
  <2>4. TakenUpTo(Total)
    BY <1>t, <1>1, <1>6, TakenAtEnd DEF Transferring
  <2>5. TakenUpTo(Total)'
    <3>1. PICK n : n = Total
      OBVIOUS
    <3>2. TakenUpTo(n)'
      BY <1>1, <1>2, <2>1, <2>4, <3>1, TakenSame DEF TookField
    <3>3. Total' = n
      BY <1>2, <3>1, CountingSame DEF TookField
    <3>. QED  BY <3>2, <3>3 DEF TakenUpTo, ListedUpTo, PulledUpTo
  <2>. QED  BY <1>1, <1>2, <1>5, <2>1, <2>3, <2>5, ListOn
<1>7. CASE last = "DENT"
  <2>1. pc' = "name" /\ UNCHANGED result /\ errored' = toHost[1].v
    BY <1>1, <1>2, <1>4, <1>7 DEF Goto
  <2>2. 2 <= Len(toHost) /\ toHost[2].k = "name" /\ AtFrame(toHost, 3, Answer)
    BY <1>3, <1>7 DEF Rest
  <2>3. Place(Tail(toHost), pc', last', form, Answer)
    <3>1. Len(toHost) \in Nat /\ toHost \in Seq(Fields)
      BY <1>t, <1>1, FirstField
    <3>2. AtFrame(Tail(toHost), 2, Answer)
      <4>1. 2 \in Nat \ {0} /\ 2 + 1 = 3
        OBVIOUS
      <4>. QED  BY <1>1, <2>2, <3>1, <4>1, RestShift
    <3>3. Len(Tail(toHost)) >= 1 /\ Tail(toHost)[1].k = "name"
      BY <1>2, <2>2, <3>1
    <3>. QED  BY <2>1, <3>2, <3>3 DEF Place
  <2>4. \A n, m \in 0 .. Total :
          m = n + Weight(toHost[1]) /\ HostAt(n) /\ Counted(toHost, 1, n) => HostAt(m)'
    <3>. SUFFICES ASSUME NEW n \in 0 .. Total, NEW m \in 0 .. Total, m = n + Weight(toHost[1]),
                         HostAt(n), Counted(toHost, 1, n)
                  PROVE  HostAt(m)'
      OBVIOUS
    <3>1. m = n
      <4>1. Weight(toHost[1]) = 0
        BY <1>4 DEF Weight
      <4>2. n \in Nat
        BY <1>t, TotalNat
      <4>. QED  BY <4>1, <4>2
    <3>2. TakenUpTo(n)'
      BY <1>1, <1>2, <2>1, TakenSame DEF HostAt, TookField
    <3>3. errored' = call'.entries[n + 1].error
      <4>1. 1 < Len(toHost) /\ 1 + 1 = 2
        BY <1>t, <1>1, <2>2, FirstField
      <4>2. toHost[1].v = call.entries[n + 1].error
        BY <1>4, <2>2, <4>1 DEF Counted
      <4>. QED  BY <1>2, <2>1, <4>2 DEF TookField
    <3>. QED  BY <2>1, <3>1, <3>2, <3>3 DEF HostAt
  <2>. QED  BY <1>1, <1>2, <1>5, <2>1, <2>3, <2>4, ListOn
<1>. QED  BY <1>4, <1>6, <1>7


\* One entry more.
LEMMA ListedNext ==
  ASSUME entries \in Seq(Nat), NEW n \in Nat, ListedUpTo(n), call' = call,
         entries' = IF call.entries[n + 1].error THEN entries ELSE Append(entries, n + 1)
  PROVE  ListedUpTo(n + 1)' /\ entries' \in Seq(Nat)
<1>. DEFINE e == entries  l == Len(entries)  E == call.entries
<1>1. /\ \A i, j \in 1 .. l : i < j => e[i] < e[j]
      /\ \A i \in 1 .. l : e[i] \in 1 .. n /\ ~E[e[i]].error
      /\ \A j \in 1 .. n : ~E[j].error => \E i \in 1 .. l : e[i] = j
      /\ l \in Nat
  BY LenProperties DEF ListedUpTo
<1>2. CASE E[n + 1].error
  <2>1. entries' = e
    BY <1>2
  <2>2. \A i \in 1 .. l : e[i] \in 1 .. n + 1
    BY <1>1
  <2>3. \A j \in 1 .. n + 1 : ~E[j].error => \E i \in 1 .. l : e[i] = j
    <3>. SUFFICES ASSUME NEW j \in 1 .. n + 1, ~E[j].error PROVE \E i \in 1 .. l : e[i] = j
      OBVIOUS
    <3>1. j # n + 1
      BY <1>2
    <3>2. j \in 1 .. n
      BY <3>1
    <3>. QED  BY <1>1, <3>2
  <2>. QED  BY <1>1, <2>1, <2>2, <2>3 DEF ListedUpTo
<1>3. CASE ~E[n + 1].error
  <2>1. PICK a : a = Append(e, n + 1)
    OBVIOUS
  <2>2. /\ a \in Seq(Nat) /\ Len(a) = l + 1 /\ \A i \in 1 .. l : a[i] = e[i]
        /\ a[l + 1] = n + 1
    BY <2>1, Appended
  <2>3. entries' = a
    BY <1>3, <2>1
  <2>4. \A i \in 1 .. l + 1 : i \in 1 .. l \/ i = l + 1
    BY <1>1
  <2>5. \A i \in 1 .. l + 1 : a[i] \in 1 .. n + 1 /\ ~E[a[i]].error
    <3>. SUFFICES ASSUME NEW i \in 1 .. l + 1 PROVE a[i] \in 1 .. n + 1 /\ ~E[a[i]].error
      OBVIOUS
    <3>1. CASE i \in 1 .. l
      <4>1. e[i] \in 1 .. n /\ ~E[e[i]].error /\ a[i] = e[i]
        BY <1>1, <2>2, <3>1
      <4>. QED  BY <4>1
    <3>2. CASE i = l + 1
      <4>1. n + 1 \in 1 .. n + 1
        OBVIOUS
      <4>. QED  BY <1>3, <2>2, <3>2, <4>1
    <3>. QED  BY <2>4, <3>1, <3>2
  <2>6. ASSUME NEW i \in 1 .. l + 1, NEW j \in 1 .. l + 1, i < j PROVE a[i] < a[j]
    <3>1. i \in 1 .. l
      BY <1>1, <2>6
    <3>2. e[i] \in 1 .. n /\ a[i] = e[i]
      BY <1>1, <2>2, <3>1
    <3>3. CASE j \in 1 .. l
      <4>1. e[i] < e[j]
        BY <1>1, <2>6, <3>1, <3>3
      <4>. QED  BY <2>2, <3>2, <3>3, <4>1
    <3>4. CASE j = l + 1
      <4>1. a[j] = n + 1
        BY <2>2, <3>4
      <4>. QED  BY <3>2, <4>1
    <3>. QED  BY <2>4, <3>3, <3>4
  <2>7. \A j \in 1 .. n + 1 : ~E[j].error => \E i \in 1 .. l + 1 : a[i] = j
    <3>. SUFFICES ASSUME NEW j \in 1 .. n + 1, ~E[j].error PROVE \E i \in 1 .. l + 1 : a[i] = j
      OBVIOUS
    <3>1. CASE j = n + 1
      <4>1. l + 1 \in 1 .. l + 1
        BY <1>1
      <4>. QED  BY <2>2, <3>1, <4>1
    <3>2. CASE j # n + 1
      <4>1. j \in 1 .. n
        BY <3>2
      <4>2. PICK i \in 1 .. l : e[i] = j
        BY <1>1, <4>1
      <4>3. i \in 1 .. l + 1 /\ a[i] = j
        BY <1>1, <2>2, <4>2
      <4>. QED  BY <4>3
    <3>. QED  BY <3>1, <3>2
  <2>. QED  BY <2>2, <2>3, <2>5, <2>6, <2>7 DEF ListedUpTo
<1>. QED  BY <1>2, <1>3

\* The name of an entry.
LEMMA ListNameStep ==
  ASSUME SyncInv, ListName
  PROVE  SyncInv'
<1>t. SyncTypeOK /\ Progress /\ Modes /\ Place(toHost, pc, last, form, Answer)
  BY DEF SyncInv, Conversation
<1>1. /\ pc = "name"
      /\ toHost # <<>> /\ toHost' = Tail(toHost)
      /\ IF Head(toHost).k = "name"
         THEN entries' = (IF Kept THEN Append(entries, Head(toHost).v) ELSE entries) /\ Goto("id")
         ELSE Return("Protocol") /\ UNCHANGED entries
      /\ UNCHANGED <<callVars, pushVars, up, toDev, dev, remote>>
      /\ UNCHANGED <<last, errored, found, local, dec>>
  BY Zenon DEF ListName, Read
<1>f. form = "list"
  BY <1>t, <1>1 DEF Modes
<1>2. TookField /\ Head(toHost) = toHost[1] /\ toHost[1] \in Fields
  BY <1>t, <1>1, TookFields
<1>3. toHost[1].k = "name" /\ AtFrame(toHost, 2, Answer)
  BY <1>t, <1>1 DEF Place
<1>4. PICK v : v = toHost[1].v
  OBVIOUS
<1>5. v \in Nat
  BY <1>2, <1>3, <1>4, FieldFacts
<1>6. pc' = "id" /\ UNCHANGED result /\ entries' = (IF Kept THEN Append(entries, v) ELSE entries)
  BY <1>1, <1>2, <1>3, <1>4 DEF Goto
<1>7. entries' \in Seq(Nat) /\ last' \in Ids \cup {"none"}
  <2>1. entries \in Seq(Nat)
    BY <1>t DEF SyncTypeOK
  <2>. QED  BY <1>1, <1>5, <1>6, <1>t, <2>1, Appended DEF SyncTypeOK
<1>8. Place(Tail(toHost), pc', last', form, Answer)
  <2>1. AtFrame(Tail(toHost), 1, Answer)
    <3>1. 1 \in Nat \ {0} /\ 1 + 1 = 2 /\ toHost \in Seq(Fields)
      BY <1>t DEF SyncTypeOK
    <3>. QED  BY <1>1, <1>3, <3>1, RestShift
  <2>. QED  BY <1>6, <2>1 DEF Place
<1>9. \A n, m \in 0 .. Total :
        m = n + Weight(toHost[1]) /\ HostAt(n) /\ Counted(toHost, 1, n) => HostAt(m)'
  <2>. SUFFICES ASSUME NEW n \in 0 .. Total, NEW m \in 0 .. Total, m = n + Weight(toHost[1]),
                       HostAt(n), Counted(toHost, 1, n)
                PROVE  HostAt(m)'
    OBVIOUS
  <2>1. n \in Nat /\ m = n + 1 /\ v = n + 1 /\ n + 1 \in 1 .. Total
    <3>1. Total \in Nat
      BY <1>t, TotalNat
    <3>2. Weight(toHost[1]) = 1
      BY <1>3 DEF Weight
    <3>3. v = n + 1
      BY <1>3, <1>4 DEF Counted
    <3>. QED  BY <3>1, <3>2, <3>3
  <2>2. ListedUpTo(n) /\ errored = call.entries[n + 1].error
    BY <1>1, <1>f DEF HostAt, TakenUpTo
  <2>3. Kept <=> ~call.entries[n + 1].error
    <3>1. ~Has("ls_v2") => ~call.entries[n + 1].error
      BY <1>t, <1>f, <2>1, CallFacts, ListFacts DEF SyncTypeOK
    <3>. QED  BY <2>2, <3>1 DEF Kept
  <2>4. ListedUpTo(n + 1)'
    <3>1. entries' = IF call.entries[n + 1].error THEN entries ELSE Append(entries, n + 1)
      BY <1>6, <2>1, <2>3
    <3>2. entries \in Seq(Nat) /\ call' = call
      BY <1>t, <1>2 DEF SyncTypeOK, TookField
    <3>. QED  BY <2>1, <2>2, <3>1, <3>2, ListedNext
  <2>5. form' = "list"
    BY <1>2, <1>f DEF TookField
  <2>. QED  BY <1>6, <2>1, <2>4, <2>5 DEF HostAt, TakenUpTo
<1>. QED  BY <1>1, <1>2, <1>6, <1>7, <1>8, <1>9, <1>f, ListOn

\* A stat that has read a field and goes on.
LEMMA StatOn ==
  ASSUME SyncInv, TookField, form = "stat", UNCHANGED <<result, last, entries, local, dec>>,
         pc \in ReadingAt, pc' \in {"body", "quit"},
         Place(Tail(toHost), pc', last', form, Answer)
  PROVE  SyncInv'
<1>t. SyncTypeOK /\ form' = form /\ call' = call
  BY DEF SyncInv, TookField
<1>1. call.op # "pull" /\ form \notin Pulls /\ form \notin Pushes
  BY DEF SyncInv, Modes, Pulls, Pushes
<1>2. Copied'
  BY <1>t, <1>1, CopiedNothing
<1>3. Progress' /\ Finished' /\ Flushed'
  BY <1>t, <1>1, TransferringNothing
<1>4. /\ local' \in [file : Blocks, open : BOOLEAN, buf : Blocks, lost : Blocks]
      /\ dec' \in [in : Seq(Blocks), out : Blocks, held : Blocks]
      /\ last' \in Ids \cup {"none"} /\ entries' \in Seq(Nat)
  BY <1>t DEF SyncTypeOK
<1>. QED  BY <1>1, <1>2, <1>3, <1>4, ReadOn

\* stat does not look at the id it reads.
LEMMA StatIdStep ==
  ASSUME SyncInv, StatId
  PROVE  SyncInv'
<1>t. SyncTypeOK
  BY DEF SyncInv
<1>1. /\ form = "stat" /\ pc = "id"
      /\ toHost # <<>> /\ toHost' = Tail(toHost)
      /\ IF Head(toHost).k = "id" THEN Goto("body") ELSE Return("Protocol")
      /\ UNCHANGED <<callVars, pushVars, up, toDev, dev, remote>>
      /\ UNCHANGED <<last, listVars, local, dec>>
  BY Zenon DEF StatId, Read
<1>2. toHost[1].k = "id" /\ Rest(Tail(toHost), 1, toHost[1].v, form, Answer)
  BY <1>1, IdComes
<1>3. TookField /\ Head(toHost) = toHost[1]
  BY <1>t, <1>1, TookFields
<1>4. pc' = "body" /\ UNCHANGED result
  BY <1>1, <1>2, <1>3 DEF Goto
<1>5. Rest(Tail(toHost), 1, "STAT", form, Answer)
  BY <1>1, <1>2 DEF Rest, Ids, Pulls, Pushes
<1>6. Place(Tail(toHost), pc', last', form, Answer)
  BY <1>1, <1>4, <1>5 DEF Place
<1>. QED  BY <1>1, <1>3, <1>4, <1>6, StatOn DEF listVars, ReadingAt

\* The body of a STAT.
LEMMA StatBodyStep ==
  ASSUME SyncInv, StatBody
  PROVE  SyncInv'
<1>t. SyncTypeOK /\ Place(toHost, pc, last, form, Answer)
  BY DEF SyncInv, Conversation
<1>1. /\ form = "stat" /\ pc = "body"
      /\ toHost # <<>> /\ toHost' = Tail(toHost)
      /\ IF Head(toHost).k = "body" THEN found' = Head(toHost).v /\ Goto("quit")
         ELSE Return("Protocol") /\ UNCHANGED found
      /\ UNCHANGED <<callVars, pushVars, up, toDev, dev, remote>>
      /\ UNCHANGED <<last, entries, errored, local, dec>>
  BY Zenon DEF StatBody, Read
<1>2. Len(toHost) = 1 /\ toHost[1].k = "body" /\ Answer = "done"
  BY <1>t, <1>1 DEF Place, Rest
<1>3. TookField /\ Head(toHost) = toHost[1]
  BY <1>t, <1>1, TookFields
<1>4. pc' = "quit" /\ UNCHANGED result
  BY <1>1, <1>2, <1>3 DEF Goto
<1>5. Tail(toHost) = <<>>
  <2>1. Tail(toHost) \in Seq(Fields) /\ Len(Tail(toHost)) = 0
    BY <1>t, <1>1, <1>2, FirstField
  <2>. QED  BY <2>1, EmptyLen
<1>6. Place(Tail(toHost), pc', last', form, Answer)
  BY <1>2, <1>4, <1>5 DEF Place
<1>. QED  BY <1>1, <1>3, <1>4, <1>6, StatOn DEF ReadingAt


-----------------------------------------------------------------------------
(* pull: runs of blocks.                                                    *)

\* A run is split where it is joined.
LEMMA RunJoined ==
  ASSUME NEW s \in Blocks, NEW t \in Blocks, NEW n \in Nat
  PROVE  /\ s \o t \in Blocks /\ Len(s) \in Nat /\ Len(t) \in Nat /\ Len(s \o t) = Len(s) + Len(t)
         /\ Run(s \o t, n) <=> Run(s, n) /\ Run(t, n + Len(s))
<1>. DEFINE r == s \o t  l == Len(s)  m == Len(t)
<1>1. /\ r \in Blocks /\ l \in Nat /\ m \in Nat /\ Len(r) = l + m
      /\ \A i \in 1 .. l : r[i] = s[i]
      /\ \A i \in 1 .. m : r[l + i] = t[i]
  BY Joined DEF Blocks
<1>. HIDE DEF r
<1>2. ASSUME Run(s, n), Run(t, n + l) PROVE Run(r, n)
  <2>1. ASSUME NEW j \in 1 .. l + m PROVE r[j] = n + j
    <3>1. CASE j <= l
      <4>1. j \in 1 .. l
        BY <1>1, <3>1
      <4>. QED  BY <1>1, <1>2, <4>1 DEF Run
    <3>2. CASE ~(j <= l)
      <4>. DEFINE i == j - l
      <4>1. i \in 1 .. m /\ j = l + i
        BY <1>1, <3>2
      <4>2. r[l + i] = t[i] /\ t[i] = (n + l) + i
        BY <1>1, <1>2, <4>1 DEF Run
      <4>. HIDE DEF i
      <4>3. r[j] = (n + l) + i
        BY <4>1, <4>2
      <4>. QED  BY <1>1, <4>1, <4>3
    <3>. QED  BY <3>1, <3>2
  <2>. QED  BY <1>1, <2>1 DEF Run
<1>3. ASSUME Run(r, n) PROVE Run(s, n) /\ Run(t, n + l)
  <2>0. \A j \in 1 .. l + m : r[j] = n + j
    BY <1>1, <1>3 DEF Run
  <2>1. ASSUME NEW j \in 1 .. l PROVE s[j] = n + j
    <3>1. j \in 1 .. l + m
      BY <1>1
    <3>. QED  BY <1>1, <2>0, <3>1
  <2>2. ASSUME NEW j \in 1 .. m PROVE t[j] = (n + l) + j
    <3>1. l + j \in 1 .. l + m /\ n + (l + j) = (n + l) + j
      BY <1>1
    <3>2. r[l + j] = n + (l + j)
      BY <2>0, <3>1
    <3>. QED  BY <1>1, <3>1, <3>2
  <2>. QED  BY <2>1, <2>2 DEF Run
<1>. QED  BY <1>1, <1>2, <1>3 DEF r

\* The empty run.
LEMMA RunEmpty ==
  ASSUME NEW n
  PROVE  Run(<<>>, n) /\ <<>> \in Blocks /\ Len(<<>>) = 0
BY EmptySeq DEF Run, Blocks

\* The first block of a run, and the rest.
LEMMA RunRest ==
  ASSUME NEW s \in Blocks, s # <<>>, NEW n \in Nat, Run(s, n)
  PROVE  /\ <<Head(s)>> \in Blocks /\ Run(<<Head(s)>>, n) /\ Len(<<Head(s)>>) = 1
         /\ SubSeq(s, 2, Len(s)) \in Blocks /\ Run(SubSeq(s, 2, Len(s)), n + 1)
         /\ Len(SubSeq(s, 2, Len(s))) = Len(s) - 1 /\ Len(s) \in Nat /\ Len(s) >= 1
<1>1. Len(s) \in Nat /\ Len(s) >= 1 /\ Head(s) = s[1] /\ s[1] \in Nat
  BY TailOf DEF Blocks
<1>2. s[1] = n + 1
  <2>1. 1 \in 1 .. Len(s)
    BY <1>1
  <2>. QED  BY <2>1 DEF Run
<1>3. <<Head(s)>> \in Blocks /\ Len(<<Head(s)>>) = 1 /\ Run(<<Head(s)>>, n)
  <2>1. PICK x : x = Head(s)
    OBVIOUS
  <2>2. x \in Nat /\ x = n + 1
    BY <1>1, <1>2, <2>1
  <2>3. <<x>> \in Seq(Nat) /\ Len(<<x>>) = 1 /\ <<x>>[1] = x
    BY <2>2
  <2>4. \A j \in 1 .. 1 : j = 1
    OBVIOUS
  <2>5. Run(<<x>>, n)
    <3>1. ASSUME NEW j \in 1 .. 1 PROVE <<x>>[j] = n + j
      <4>1. j = 1
        BY <2>4
      <4>. QED  BY <2>2, <2>3, <4>1
    <3>2. PICK y : y = <<x>>
      OBVIOUS
    <3>3. Len(y) = 1 /\ \A j \in 1 .. 1 : y[j] = n + j
      BY <2>3, <3>1, <3>2
    <3>4. Run(y, n)
      BY <3>3 DEF Run
    <3>. QED  BY <3>2, <3>4
  <2>. QED  BY <2>1, <2>3, <2>5 DEF Blocks
<1>. DEFINE r == SubSeq(s, 2, Len(s))
<1>4. r \in Blocks /\ Len(r) = Len(s) - 1 /\ \A i \in 1 .. Len(s) - 1 : r[i] = s[i + 1]
  <2>0. PICK l : l = Len(s)
    OBVIOUS
  <2>1. ASSUME NEW i \in 2 .. l PROVE s[i] \in Nat
    <3>1. i \in 1 .. Len(s)
      BY <1>1, <2>0
    <3>2. s \in Seq(Nat)
      BY DEF Blocks
    <3>. QED  BY <3>1, <3>2, ElementOfSeq
  <2>4. 2 \in Int /\ l \in Int
    BY <1>1, <2>0
  <2>5. /\ SubSeq(s, 2, l) \in Seq(Nat) /\ Len(SubSeq(s, 2, l)) = IF 2 <= l THEN l - 2 + 1 ELSE 0
        /\ \A i \in 1 .. l - 2 + 1 : SubSeq(s, 2, l)[i] = s[2 + i - 1]
    BY <2>1, <2>4, SubSeqProperties
  <2>6. (IF 2 <= l THEN l - 2 + 1 ELSE 0) = l - 2 + 1
    BY <1>1, <2>0
  <2>2. /\ r \in Seq(Nat) /\ Len(r) = Len(s) - 2 + 1
        /\ \A i \in 1 .. Len(s) - 2 + 1 : r[i] = s[2 + i - 1]
    BY <2>0, <2>5, <2>6
  <2>3. Len(s) - 2 + 1 = Len(s) - 1 /\ \A i \in 1 .. Len(s) - 1 : 2 + i - 1 = i + 1
    BY <1>1
  <2>. QED  BY <2>2, <2>3 DEF Blocks
<1>. HIDE DEF r
<1>5. ASSUME NEW j \in 1 .. Len(r) PROVE r[j] = (n + 1) + j
  <2>1. j \in 1 .. Len(s) - 1 /\ j + 1 \in 1 .. Len(s) /\ n + (j + 1) = (n + 1) + j
    BY <1>1, <1>4
  <2>2. r[j] = s[j + 1] /\ s[j + 1] = n + (j + 1)
    BY <1>4, <2>1 DEF Run
  <2>. QED  BY <2>1, <2>2
<1>6. Run(r, n + 1)
  BY <1>5 DEF Run
<1>. QED  BY <1>1, <1>3, <1>4, <1>6 DEF r

\* What a chunk expands to.
LEMMA Expanded ==
  /\ Expand(<<>>) = <<>>
  /\ \A c \in Seq(Blocks) : Expand(c) \in Blocks
  /\ \A c \in Seq(Blocks) : Len(c) = 1 => c[1] \in Blocks /\ Expand(c) = c[1]
  /\ \A c \in Seq(Blocks) : Len(c) = 2 => c[1] \in Blocks /\ c[2] \in Blocks /\ Expand(c) = c[1] \o c[2]
<1>e. <<>> \in Blocks /\ \A s \in Blocks : s \o <<>> = s /\ <<>> \o s = s
  <2>1. <<>> \in Blocks
    BY EmptySeq DEF Blocks
  <2>2. ASSUME NEW s \in Blocks PROVE s \o <<>> = s /\ <<>> \o s = s
    BY ConcatEmptySeq DEF Blocks
  <2>. QED  BY <2>1, <2>2
<1>1. Expand(<<>>) = <<>>
  <2>1. Len(<<>>) = 0
    BY EmptySeq
  <2>. QED  BY <1>e, <2>1 DEF Expand
<1>2. ASSUME NEW c \in Seq(Blocks)
      PROVE  /\ Expand(c) \in Blocks
             /\ Len(c) = 1 => c[1] \in Blocks /\ Expand(c) = c[1]
             /\ Len(c) = 2 => c[1] \in Blocks /\ c[2] \in Blocks /\ Expand(c) = c[1] \o c[2]
  <2>1. Len(c) \in Nat
    BY LenProperties
  <2>2. /\ Len(c) > 0 => c[1] \in Blocks
        /\ Len(c) > 1 => c[2] \in Blocks
    <3>1. Len(c) > 0 => 1 \in 1 .. Len(c)
      BY <2>1
    <3>2. Len(c) > 1 => 2 \in 1 .. Len(c)
      BY <2>1
    <3>. QED  BY <3>1, <3>2, ElementOfSeq
  <2>3. /\ Len(c) = 1 => Len(c) > 0 /\ ~(Len(c) > 1)
        /\ Len(c) = 2 => Len(c) > 0 /\ Len(c) > 1
    <3>1. \A l \in Nat : (l = 1 => l > 0 /\ ~(l > 1)) /\ (l = 2 => l > 0 /\ l > 1)
      OBVIOUS
    <3>. QED  BY <2>1, <3>1
  <2>4. ASSUME NEW s \in Blocks, NEW t \in Blocks PROVE s \o t \in Blocks
    BY ConcatProperties DEF Blocks
  <2>. QED  BY <1>e, <2>2, <2>3, <2>4 DEF Expand
<1>. QED  BY <1>1, <1>2


-----------------------------------------------------------------------------
(* pull: reads.                                                             *)

\* What the next field of a transfer is worth.
LEMMA NextCounted ==
  ASSUME SyncTypeOK, Progress, Transferring, toHost # <<>>
  PROVE  \E n \in 0 .. Total : /\ n + Weight(toHost[1]) \in 0 .. Total
                               /\ HostAt(n) /\ Counted(toHost, 1, n)
<1>1. PICK pos \in Positions(toHost) : Counting(toHost, pos) /\ HostAt(pos[0])
  BY DEF Progress
<1>2. Len(toHost) \in Nat /\ Len(toHost) >= 1
  BY FirstField
<1>3. pos[0] \in 0 .. Total /\ pos[1] \in 0 .. Total
  <2>1. 0 \in 0 .. Len(toHost) /\ 1 \in 0 .. Len(toHost)
    BY <1>2
  <2>. QED  BY <2>1 DEF Positions
<1>4. pos[1] = pos[0] + Weight(toHost[1]) /\ Counted(toHost, 1, pos[0])
  <2>1. 1 \in 1 .. Len(toHost) /\ 1 - 1 = 0
    BY <1>2
  <2>. QED  BY <1>1, <2>1 DEF Counting
<1>. QED  BY <1>1, <1>3, <1>4

\* Flushed after a read.
LEMMA FlushedRead ==
  ASSUME SyncTypeOK, Flushed, form = "pull_v2", Transferring, TookField,
         toHost[1].k = "chunk" /\ toHost[1].v = << <<>> >> => HeldBack',
         (pc' = "size" /\ last' = "DONE") \/ pc' = "quit" \/ Ok' => (codec # "brotli" => dec'.held = <<>>)
  PROVE  Flushed'
<1>. DEFINE s == toHost  t == Tail(toHost)
<1>1. /\ Len(s) \in Nat /\ Len(s) >= 1 /\ Len(t) = Len(s) - 1
      /\ \A i \in 1 .. Len(s) - 1 : t[i] = s[i + 1]
  BY TailOf DEF SyncTypeOK, TookField
<1>2. toHost' = t /\ form' = form /\ codec' = codec /\ dev' = dev
  BY DEF TookField
<1>. HIDE DEF t
<1>3. ASSUME NEW i \in 1 .. Len(s), FlushedBefore(i + 1)
      PROVE  FlushedBefore(i)'
  <2>1. FlushedBefore(i)' <=> IF i > 1 THEN t[i - 1].k = "chunk" /\ t[i - 1].v = << <<>> >> ELSE HeldBack'
    BY <1>2 DEF FlushedBefore
  <2>2. s[i].k = "chunk" /\ s[i].v = << <<>> >>
    <3>1. i + 1 > 1 /\ (i + 1) - 1 = i
      BY <1>1
    <3>. QED  BY <1>3, <3>1 DEF FlushedBefore
  <2>3. CASE i > 1
    <3>1. i - 1 \in 1 .. Len(s) - 1 /\ (i - 1) + 1 = i
      BY <1>1, <2>3
    <3>2. t[i - 1] = s[i]
      BY <1>1, <3>1
    <3>. QED  BY <2>1, <2>2, <2>3, <3>2
  <2>4. CASE ~(i > 1)
    <3>1. i = 1
      BY <1>1, <2>4
    <3>. QED  BY <2>1, <2>2, <2>4, <3>1
  <2>. QED  BY <2>3, <2>4
<1>4. /\ \A i \in 1 .. Len(s) : s[i].k = "id" /\ s[i].v = "DONE" => FlushedBefore(i)
      /\ dev.st = "sending" /\ ~dev.tail => FlushedBefore(Len(s) + 1)
      /\ dev.st = "sending" /\ ~dev.tail => dev.rest = <<>>
  BY DEF Flushed
<1>5. ASSUME NEW i \in 1 .. Len(t), t[i].k = "id" /\ t[i].v = "DONE"
      PROVE  FlushedBefore(i)'
  <2>1. i \in 1 .. Len(s) - 1 /\ i + 1 \in 1 .. Len(s) /\ i \in 1 .. Len(s)
    BY <1>1
  <2>2. FlushedBefore(i + 1)
    BY <1>1, <1>4, <1>5, <2>1
  <2>. QED  BY <1>3, <2>1, <2>2
<1>6. ASSUME dev.st = "sending" /\ ~dev.tail
      PROVE  FlushedBefore(Len(toHost) + 1)'
  <2>1. Len(s) \in 1 .. Len(s) /\ Len(t) + 1 = Len(s)
    BY <1>1
  <2>2. FlushedBefore(Len(s) + 1)
    BY <1>4, <1>6
  <2>3. PICK l : l = Len(s)
    OBVIOUS
  <2>4. FlushedBefore(l)'
    BY <1>3, <2>1, <2>2, <2>3
  <2>5. (Len(toHost) + 1)' = l
    BY <1>2, <2>1, <2>3
  <2>. QED  BY <2>4, <2>5 DEF FlushedBefore
<1>7. form' # "pull"
  BY <1>2
<1>8. \A i \in 1 .. Len(toHost') : toHost'[i].k = "id" /\ toHost'[i].v = "DONE" => FlushedBefore(i)'
  BY <1>2, <1>5
<1>9. dev'.st = "sending" /\ ~dev'.tail => FlushedBefore(Len(toHost) + 1)' /\ dev'.rest = <<>>
  BY <1>2, <1>4, <1>6
<1>10. (pc' = "size" /\ last' = "DONE") \/ pc' = "quit" \/ Ok' => (codec' # "brotli" => dec'.held = <<>>)
  BY <1>2
<1>. QED  BY <1>7, <1>8, <1>9, <1>10 DEF Flushed

\* A pull has one file.
LEMMA PullFacts ==
  ASSUME SyncInv, form \in Pulls
  PROVE  /\ call.op = "pull" /\ Total = Len(remote.path.data) /\ form \notin {"list", "stat", "none"}
         /\ form \notin Pushes /\ (form = "pull_v2" => codec \in Codecs) /\ (form = "pull" => codec = NoCodec)
BY DEF SyncInv, SyncTypeOK, Modes, Total, Pulls, Pushes

\* A pull that has read a field and goes on.
LEMMA PullOn ==
  ASSUME SyncInv, TookField, form \in Pulls, UNCHANGED <<result, entries>>,
         pc \in {"id", "size", "chunk"}, pc' \in {"id", "size", "chunk", "decode", "quit"},
         pc' = "decode" => form = "pull_v2",
         last' \in Ids \cup {"none"},
         local' \in [file : Blocks, open : BOOLEAN, buf : Blocks, lost : Blocks],
         dec' \in [in : Seq(Blocks), out : Blocks, held : Blocks],
         Place(Tail(toHost), pc', last', form, Answer),
         Copied',
         pc' # "quit" => \A n, m \in 0 .. Total :
            m = n + Weight(toHost[1]) /\ HostAt(n) /\ Counted(toHost, 1, n) => HostAt(m)',
         pc' = "quit" => TakenUpTo(Total)',
         toHost[1].k = "chunk" /\ toHost[1].v = << <<>> >> => HeldBack',
         (pc' = "size" /\ last' = "DONE") \/ pc' = "quit" =>
            (form = "pull_v2" /\ codec # "brotli" => dec'.held = <<>>)
  PROVE  SyncInv'
<1>t. SyncTypeOK /\ Progress /\ Flushed /\ form' = form /\ call' = call /\ dev' = dev
  BY DEF SyncInv, TookField
<1>f. form \notin Pushes /\ form \notin {"list", "stat"} /\ form \in {"pull", "pull_v2"}
  BY PullFacts DEF Pulls
<1>0. result = "none" /\ pc \in ReadingAt /\ Transferring
  BY UnderWay DEF Left, ReadingAt, Transferring
<1>1. ~Ok'
  BY <1>0 DEF Ok
<1>2. Progress'
  <2>2. CASE pc' = "quit"
    BY <2>2 DEF Progress, Transferring
  <2>3. CASE pc' # "quit"
    BY <1>0, <1>t, <2>3, ProgressRead
  <2>. QED  BY <2>2, <2>3
<1>3. Finished'
  BY <1>1 DEF Finished
<1>4. Flushed'
  <2>1. CASE form = "pull"
    BY <1>t, <2>1 DEF Flushed
  <2>2. CASE form = "pull_v2"
    BY <1>0, <1>1, <1>t, <2>2, FlushedRead
  <2>. QED  BY <1>f, <2>1, <2>2
<1>5. entries' \in Seq(Nat)
  BY <1>t DEF SyncTypeOK
<1>6. form \in Pushes => pc' \in {"okay", "length", "reason", "quit"} /\ found' = found
  BY <1>f
<1>7. /\ pc' = "okay" => form \in Pushes
      /\ pc' = "body" => form \in {"list", "stat"}
      /\ pc' = "name" => form = "list"
      /\ pc' \in {"size", "chunk"} => form \in Pulls
      /\ pc' \in {"id", "body", "name", "size", "chunk", "decode", "length", "reason", "okay", "quit"}
  OBVIOUS
<1>. QED  BY <1>0, <1>2, <1>3, <1>4, <1>5, <1>6, <1>7, ReadOn

\* A field that is no chunk leaves the host where it is.
LEMMA HostKeeps ==
  ASSUME SyncTypeOK, TookField, form \in Pulls, toHost[1].k \in {"id", "size"},
         UNCHANGED <<entries, local, dec>>, pc # "decode", pc' \notin {"decode", "body", "name"},
         pc' = "size" /\ last' = "DONE" => toHost[1].k = "id" /\ toHost[1].v = "DONE"
  PROVE  \A n, m \in 0 .. Total :
            m = n + Weight(toHost[1]) /\ HostAt(n) /\ Counted(toHost, 1, n) => HostAt(m)'
<1>. SUFFICES ASSUME NEW n \in 0 .. Total, NEW m \in 0 .. Total, m = n + Weight(toHost[1]),
                     HostAt(n), Counted(toHost, 1, n)
              PROVE  HostAt(m)'
  OBVIOUS
<1>1. m = n
  <2>1. Weight(toHost[1]) = 0
    BY DEF Weight
  <2>2. n \in Nat
    BY TotalNat
  <2>. QED  BY <2>1, <2>2
<1>2. TakenUpTo(n)'
  BY TakenSame DEF HostAt, TookField
<1>3. pc' = "size" /\ last' = "DONE" => n = Total'
  BY CountingSame DEF Counted, TookField
<1>. QED  BY <1>1, <1>2, <1>3 DEF HostAt


\* The id of a chunk, or DONE.
LEMMA PullIdStep ==
  ASSUME SyncInv, PullId
  PROVE  SyncInv'
<1>t. SyncTypeOK /\ Copied /\ Flushed
  BY DEF SyncInv
<1>1. /\ form \in {"pull", "pull_v2"} /\ pc = "id"
      /\ toHost # <<>> /\ toHost' = Tail(toHost)
      /\ IF Head(toHost).k = "id"
         THEN last' = Head(toHost).v /\ IF Head(toHost).v = "FAIL" THEN Goto("length") ELSE Goto("size")
         ELSE Return("Protocol") /\ UNCHANGED last
      /\ UNCHANGED <<callVars, pushVars, up, toDev, dev, remote>>
      /\ UNCHANGED <<listVars, local, dec>>
  BY Zenon DEF PullId, ReadId, Read
<1>2. /\ toHost[1].k = "id" /\ toHost[1].v \in Ids
      /\ Rest(Tail(toHost), 1, toHost[1].v, form, Answer)
  BY <1>1, IdComes
<1>3. TookField /\ Head(toHost) = toHost[1]
  BY <1>t, <1>1, TookFields
<1>4. /\ last' = toHost[1].v
      /\ IF toHost[1].v = "FAIL" THEN Goto("length") ELSE Goto("size")
  BY <1>1, <1>2, <1>3
<1>5. CASE toHost[1].v = "FAIL"
  BY <1>1, <1>3, <1>4, <1>5, FailIdStep DEF Goto
<1>6. CASE toHost[1].v # "FAIL"
  <2>1. pc' = "size" /\ UNCHANGED <<result, local, dec, entries>> /\ last' \in Ids \cup {"none"}
    BY <1>1, <1>2, <1>4, <1>6 DEF Goto, listVars
  <2>2. Place(Tail(toHost), pc', last', form, Answer)
    BY <1>2, <1>4, <1>6, <2>1 DEF Place
  <2>3. Copied'
    BY <1>1, <1>3, <1>t, <2>1, CopiedSame DEF TookField
  <2>4. \A n, m \in 0 .. Total :
          m = n + Weight(toHost[1]) /\ HostAt(n) /\ Counted(toHost, 1, n) => HostAt(m)'
    <3>1. form \in Pulls /\ toHost[1].k \in {"id", "size"} /\ pc # "decode" /\ pc' \notin {"decode", "body", "name"}
      BY <1>1, <1>2, <2>1 DEF Pulls
    <3>2. pc' = "size" /\ last' = "DONE" => toHost[1].k = "id" /\ toHost[1].v = "DONE"
      BY <1>2, <1>4
    <3>. QED  BY <1>3, <1>t, <2>1, <3>1, <3>2, HostKeeps
  <2>5. last' = "DONE" => (form = "pull_v2" /\ codec # "brotli" => dec'.held = <<>>)
    <3>1. 1 \in 1 .. Len(toHost) /\ ~(1 > 1)
      BY <1>1, <1>t, FirstField
    <3>2. Transferring
      BY <1>1 DEF Transferring, Pulls
    <3>3. form = "pull_v2" /\ toHost[1].v = "DONE" => FlushedBefore(1)
      BY <1>2, <1>t, <3>1, <3>2 DEF Flushed
    <3>4. FlushedBefore(1) => HeldBack
      BY <3>1 DEF FlushedBefore
    <3>. QED  BY <1>1, <1>4, <2>1, <3>3, <3>4 DEF HeldBack
  <2>6. /\ local' \in [file : Blocks, open : BOOLEAN, buf : Blocks, lost : Blocks]
        /\ dec' \in [in : Seq(Blocks), out : Blocks, held : Blocks]
    BY <1>t, <2>1 DEF SyncTypeOK
  <2>7. toHost[1].k # "chunk" /\ pc' \in {"id", "size", "chunk", "decode", "quit"} /\ pc' # "quit" /\ pc' # "decode"
    BY <1>2, <2>1
  <2>8. form \in Pulls /\ pc \in {"id", "size", "chunk"} /\ UNCHANGED <<result, entries>>
    BY <1>1, <2>1 DEF Pulls
  <2>9. /\ pc' = "decode" => form = "pull_v2"
        /\ pc' = "quit" => TakenUpTo(Total)'
        /\ toHost[1].k = "chunk" /\ toHost[1].v = << <<>> >> => HeldBack'
        /\ (pc' = "size" /\ last' = "DONE") \/ pc' = "quit" =>
             (form = "pull_v2" /\ codec # "brotli" => dec'.held = <<>>)
    BY <2>5, <2>7
  <2>. QED  BY <1>3, <2>1, <2>2, <2>3, <2>4, <2>6, <2>7, <2>8, <2>9, PullOn
<1>. QED  BY <1>5, <1>6

\* The size of a chunk, or what follows DONE.
LEMMA SizeStep ==
  ASSUME SyncInv, pc = "size", NEW b, (form = "pull" /\ b = 1) \/ (form = "pull_v2" /\ b = 2),
         toHost # <<>>, toHost' = Tail(toHost),
         IF Head(toHost).k = "size" THEN AfterSize(Head(toHost).v, b) ELSE Return("Protocol"),
         UNCHANGED <<callVars, pushVars, up, toDev, dev, remote>>, UNCHANGED <<last, listVars, local, dec>>
  PROVE  SyncInv'
<1>t. SyncTypeOK /\ Copied /\ Flushed /\ Progress /\ Place(toHost, pc, last, form, Answer)
  BY DEF SyncInv, Conversation
<1>f. form \in Pulls
  BY DEF Pulls
<1>2. /\ TookField /\ Head(toHost) = toHost[1] /\ Len(Tail(toHost)) = Len(toHost) - 1
      /\ \A i \in 1 .. Len(toHost) - 1 : Tail(toHost)[i] = toHost[i + 1]
  BY <1>t, TookFields
<1>3. Rest(toHost, 1, last, form, Answer) /\ last # "FAIL"
  BY <1>t DEF Place
<1>4. last \in {"DATA", "DONE"} /\ toHost[1].k = "size"
  BY <1>3 DEF Rest, Ids, Pulls, Pushes
<1>5. AfterSize(toHost[1].v, b)
  BY <1>2, <1>4
<1>6. /\ local' \in [file : Blocks, open : BOOLEAN, buf : Blocks, lost : Blocks]
      /\ dec' \in [in : Seq(Blocks), out : Blocks, held : Blocks]
      /\ last' \in Ids \cup {"none"} /\ UNCHANGED entries
  BY <1>t DEF SyncTypeOK, listVars
<1>7. CASE last = "DONE"
  <2>1. pc' = "quit" /\ UNCHANGED result
    BY <1>5, <1>7 DEF AfterSize, Goto
  <2>2. Tail(toHost) = <<>> /\ Answer = "done"
    <3>1. Len(toHost) = 1 /\ Answer = "done"
      BY <1>3, <1>7 DEF Rest
    <3>2. Tail(toHost) \in Seq(Fields) /\ Len(Tail(toHost)) = 0
      BY <1>t, <1>2, <3>1, FirstField
    <3>. QED  BY <3>1, <3>2, EmptyLen
  <2>3. Place(Tail(toHost), pc', last', form, Answer)
    BY <2>1, <2>2 DEF Place
  <2>4. TakenUpTo(Total)'
    <3>1. TakenUpTo(Total)
      BY <1>t, <1>f, <1>7, TakenAtEnd DEF Transferring
    <3>2. PICK n : n = Total
      OBVIOUS
    <3>3. TakenUpTo(n)'
      BY <1>2, <1>6, <2>1, <3>1, <3>2, TakenSame DEF TookField
    <3>4. Total' = n
      BY <1>2, <3>2, CountingSame DEF TookField
    <3>. QED  BY <3>3, <3>4 DEF TakenUpTo, ListedUpTo, PulledUpTo
  <2>5. Copied'
    BY <1>2, <1>t, <2>1, CopiedSame DEF TookField
  <2>6. form = "pull_v2" /\ codec # "brotli" => dec'.held = <<>>
    BY <1>7, <1>t DEF Flushed
  <2>. QED  BY <1>2, <1>4, <1>6, <1>f, <2>1, <2>3, <2>4, <2>5, <2>6, PullOn
<1>8. CASE last = "DATA"
  <2>1. /\ 2 <= Len(toHost) /\ toHost[2].k = "chunk" /\ AtFrame(toHost, 3, Answer)
        /\ toHost[1].v = Len(toHost[2].v) /\ toHost[1].v \in 1 .. 2 /\ (form = "pull" => toHost[1].v = 1)
    BY <1>3, <1>8 DEF Rest
  <2>2. pc' = "chunk" /\ UNCHANGED result
    <3>1. ~(toHost[1].v > b)
      <4>1. CASE form = "pull" /\ b = 1
        <5>1. ~(1 > 1)
          OBVIOUS
        <5>2. toHost[1].v = 1 /\ b = 1
          BY <2>1, <4>1
        <5>. QED  BY <5>1, <5>2
      <4>2. CASE form = "pull_v2" /\ b = 2
        <5>1. \A x \in 1 .. 2 : ~(x > 2)
          OBVIOUS
        <5>. QED  BY <2>1, <4>2, <5>1
      <4>. QED  BY <4>1, <4>2
    <3>. QED  BY <1>5, <1>8, <3>1 DEF AfterSize, Goto
  <2>3. Place(Tail(toHost), pc', last', form, Answer)
    <3>1. Len(toHost) \in Nat /\ toHost \in Seq(Fields)
      BY <1>t, FirstField
    <3>2. AtFrame(Tail(toHost), 2, Answer)
      <4>1. 2 \in Nat \ {0} /\ 2 + 1 = 3
        OBVIOUS
      <4>. QED  BY <2>1, <3>1, <4>1, RestShift
    <3>3. Len(Tail(toHost)) >= 1 /\ Tail(toHost)[1] = toHost[2]
      BY <1>2, <2>1, <3>1
    <3>. QED  BY <2>1, <2>2, <3>2, <3>3 DEF Place
  <2>4. Copied'
    BY <1>2, <1>t, <2>2, CopiedSame DEF TookField
  <2>5. \A n, m \in 0 .. Total :
          m = n + Weight(toHost[1]) /\ HostAt(n) /\ Counted(toHost, 1, n) => HostAt(m)'
    BY <1>2, <1>4, <1>6, <1>f, <1>t, <2>2, HostKeeps
  <2>. QED  BY <1>2, <1>4, <1>6, <1>f, <2>2, <2>3, <2>4, <2>5, PullOn
<1>. QED  BY <1>4, <1>7, <1>8

\* The size field of the v1 and of the v2 form.
LEMMA PullSizeStep ==
  ASSUME SyncInv, PullSize \/ PullV2Size
  PROVE  SyncInv'
<1>1. CASE PullSize
  <2>1. /\ pc = "size" /\ form = "pull"
        /\ toHost # <<>> /\ toHost' = Tail(toHost)
        /\ IF Head(toHost).k = "size" THEN AfterSize(Head(toHost).v, 1) ELSE Return("Protocol")
        /\ UNCHANGED <<callVars, pushVars, up, toDev, dev, remote>>
        /\ UNCHANGED <<last, listVars, local, dec>>
    BY Zenon, <1>1 DEF Read, PullSize
  <2>. QED  BY <2>1, SizeStep
<1>2. CASE PullV2Size
  <2>1. /\ pc = "size" /\ form = "pull_v2"
        /\ toHost # <<>> /\ toHost' = Tail(toHost)
        /\ IF Head(toHost).k = "size" THEN AfterSize(Head(toHost).v, 2) ELSE Return("Protocol")
        /\ UNCHANGED <<callVars, pushVars, up, toDev, dev, remote>>
        /\ UNCHANGED <<last, listVars, local, dec>>
    BY Zenon, <1>2 DEF Read, PullV2Size
  <2>. QED  BY <2>1, SizeStep
<1>. QED  BY <1>1, <1>2


\* ofstream::write: the local file stays the beginning of the device's.
LEMMA OutputStep ==
  ASSUME SyncTypeOK, Copied, call.op = "pull", local.open, pc # "ret", pc' = "id", UNCHANGED <<call, remote>>,
         NEW d \in Blocks, Run(d, InFile), InFile + Len(d) <= Len(remote.path.data),
         local' = [local EXCEPT !.file = @ \o local.buf, !.buf = d]
  PROVE  /\ Copied' /\ InFile \in Nat /\ InFile' = InFile + Len(d)
         /\ local' \in [file : Blocks, open : BOOLEAN, buf : Blocks, lost : Blocks]
<1>t. local \in [file : Blocks, open : BOOLEAN, buf : Blocks, lost : Blocks]
  BY DEF SyncTypeOK
<1>p. PICK f, b : f = local.file /\ b = local.buf
  OBVIOUS
<1>1. /\ f \in Blocks /\ b \in Blocks /\ local.open = TRUE
      /\ f \o b \in Blocks /\ Len(f) \in Nat /\ Len(b) \in Nat /\ Len(f \o b) = Len(f) + Len(b)
      /\ Len(d) \in Nat
  <2>1. f \in Blocks /\ b \in Blocks /\ local.open = TRUE
    BY <1>t, <1>p
  <2>. QED  BY <2>1, RunJoined
<1>2. /\ remote.path.kind # "dir" /\ Run(remote.path.data, 0)
      /\ remote.path.kind = "file" => remote.path.data = Data(call.size)
      /\ Run(f, 0) /\ Run(b, Len(f))
      /\ local.lost = <<>>
  BY <1>p DEF Copied
<1>3. Len(<<>>) = 0
  BY EmptySeq
<1>4. InFile = Len(f) + Len(b)
  <2>1. InFile = Len(f) + Len(b) + 0
    BY <1>2, <1>3, <1>p DEF InFile
  <2>. QED  BY <1>1, <2>1
<1>5. /\ local'.file = f \o b /\ local'.buf = d /\ local'.open = TRUE /\ local'.lost = <<>>
      /\ local' \in [file : Blocks, open : BOOLEAN, buf : Blocks, lost : Blocks]
  <2>1. local' = [local EXCEPT !.file = f \o b, !.buf = d]
    BY <1>p
  <2>. QED  BY <1>1, <1>2, <1>t, <2>1
<1>6. Run(f \o b, 0)
  <2>1. 0 + Len(f) = Len(f) /\ 0 \in Nat
    BY <1>1
  <2>2. Run(b, 0 + Len(f))
    BY <1>2, <2>1
  <2>. QED  BY <1>1, <1>2, <2>1, <2>2, RunJoined
<1>7. InFile' = InFile + Len(d)
  <2>1. InFile' = Len(local'.file) + Len(local'.buf) + Len(local'.lost)
    BY <1>5 DEF InFile
  <2>2. InFile' = (Len(f) + Len(b)) + Len(d) + 0
    BY <1>1, <1>3, <1>5, <2>1
  <2>. QED  BY <1>1, <1>4, <2>2
<1>8. Copied'
  <2>1. Run(local'.buf, Len(local'.file)) /\ Run(local'.lost, Len(local'.file)) /\ Run(local'.file, 0)
    BY <1>1, <1>4, <1>5, <1>6, RunEmpty
  <2>2. Len(local'.file) + Len(local'.buf) + Len(local'.lost) <= Len(remote.path.data)
    BY <1>5, <1>7 DEF InFile
  <2>. QED  BY <1>2, <1>5, <2>1, <2>2 DEF Copied, Run
<1>. QED  BY <1>1, <1>4, <1>5, <1>7, <1>8

\* What is taken between two chunks.
LEMMA PulledIdle ==
  ASSUME NEW n, PulledUpTo(n), pc # "decode", SyncTypeOK
  PROVE  /\ dec.in = <<>> /\ Run(dec.held, InFile) /\ InFile \in Nat /\ Len(dec.held) \in Nat
         /\ n = InFile + Len(dec.held) /\ (form = "pull" => dec.held = <<>>)
<1>1. dec.in = <<>> /\ Out = <<>> /\ Len(<<>>) = 0 /\ Expand(<<>>) = <<>>
  BY Expanded, EmptySeq DEF PulledUpTo, Out
<1>2. InFile \in Nat /\ Len(dec.held) \in Nat
  <2>1. /\ local.file \in Seq(Nat) /\ local.buf \in Seq(Nat) /\ local.lost \in Seq(Nat) /\ dec.held \in Seq(Nat)
    BY DEF SyncTypeOK, Blocks
  <2>2. Len(local.file) \in Nat /\ Len(local.buf) \in Nat /\ Len(local.lost) \in Nat /\ Len(dec.held) \in Nat
    BY <2>1, LenProperties
  <2>3. \A a, b, c \in Nat : a + b + c \in Nat
    OBVIOUS
  <2>4. Len(local.file) + Len(local.buf) + Len(local.lost) \in Nat
    BY <2>2, <2>3
  <2>. QED  BY <2>2, <2>4 DEF InFile
<1>3. /\ Run(dec.held, InFile + 0) /\ n = ((InFile + 0) + Len(dec.held)) + 0
      /\ form = "pull" => dec.held = <<>>
  BY <1>1 DEF PulledUpTo
<1>4. InFile + 0 = InFile /\ ((InFile + 0) + Len(dec.held)) + 0 = InFile + Len(dec.held)
  BY <1>2
<1>. QED  BY <1>1, <1>2, <1>3, <1>4

\* The same after a step.
LEMMA IdlePulled ==
  ASSUME pc' # "decode", dec'.in = <<>>, NEW i \in Nat, InFile' = i, NEW h \in Blocks, dec'.held = h,
         Run(h, i), form' = "pull" => h = <<>>, NEW n, n = i + Len(h)
  PROVE  PulledUpTo(n)'
<1>1. Out' = <<>> /\ Len(<<>>) = 0 /\ Expand(<<>>) = <<>> /\ Len(h) \in Nat
  BY Expanded, EmptySeq, LenProperties DEF Out, Blocks
<1>2. i + 0 = i /\ (i + Len(h)) + 0 = i + Len(h) /\ 0 <= 2
  BY <1>1
<1>3. Run(<<>>, i) /\ Run(<<>>, i + Len(h))
  BY RunEmpty
<1>4. /\ Run(Out, InFile)' /\ Run(dec.held, InFile + Len(Out))'
      /\ Run(Expand(dec.in), (InFile + Len(Out)) + Len(dec.held))'
      /\ n = (((InFile + Len(Out)) + Len(dec.held)) + Len(Expand(dec.in)))'
      /\ (Len(dec.in) <= 2 /\ (pc # "decode" => dec.in = <<>>))'
      /\ (form = "pull" => dec.held = <<>>)'
  <2>1. Run(Out', InFile') /\ Run(dec'.held, InFile' + Len(Out'))
    BY <1>1, <1>2, <1>3
  <2>2. Expand(dec'.in) = <<>> /\ (InFile' + Len(Out')) + Len(dec'.held) = i + Len(h)
    BY <1>1, <1>2
  <2>3. Run(Expand(dec'.in), (InFile' + Len(Out')) + Len(dec'.held))
    BY <1>3, <2>2
  <2>4. Run(Out, InFile)' /\ Run(dec.held, InFile + Len(Out))'
    BY <2>1 DEF Run
  <2>5. Run(Expand(dec.in), (InFile + Len(Out)) + Len(dec.held))'
    BY <2>3 DEF Run, Expand
  <2>6. Expand(dec.in)' = <<>>
    BY <2>2 DEF Expand
  <2>7. n = (((InFile + Len(Out)) + Len(dec.held)) + Len(Expand(dec.in)))'
    BY <1>1, <1>2, <2>2, <2>6
  <2>. QED  BY <1>1, <1>2, <2>4, <2>5, <2>7
<1>. QED  BY <1>4 DEF PulledUpTo


\* The chunk a pull reads next.
LEMMA ChunkComes ==
  ASSUME SyncInv, pc = "chunk", toHost # <<>>
  PROVE  /\ toHost[1].k = "chunk" /\ toHost[1].v \in Seq(Blocks) /\ Len(toHost[1].v) \in 1 .. 2
         /\ form = "pull" => Len(toHost[1].v) = 1
         /\ form \in Pulls /\ call.op = "pull" /\ local.open /\ Transferring
         /\ AtFrame(Tail(toHost), 1, Answer)
         /\ Weight(toHost[1]) = Len(Expand(toHost[1].v)) /\ Expand(toHost[1].v) \in Blocks
         /\ Len(Expand(toHost[1].v)) \in Nat
<1>1. SyncTypeOK /\ Modes /\ Copied /\ Place(toHost, pc, last, form, Answer)
  BY DEF SyncInv, Conversation
<1>2. toHost \in Seq(Fields) /\ toHost[1] \in Fields
  BY <1>1, FirstField
<1>3. /\ toHost[1].k = "chunk" /\ AtFrame(toHost, 2, Answer)
      /\ Len(toHost[1].v) \in 1 .. 2 /\ (form = "pull" => Len(toHost[1].v) = 1)
  BY <1>1 DEF Place
<1>4. toHost[1].v \in Seq(Blocks)
  BY <1>2, <1>3, FieldFacts
<1>5. form \in Pulls /\ call.op = "pull" /\ local.open /\ Transferring
  BY <1>1 DEF Modes, Copied, Transferring
<1>6. AtFrame(Tail(toHost), 1, Answer)
  <2>1. 1 \in Nat \ {0} /\ 1 + 1 = 2
    OBVIOUS
  <2>. QED  BY <1>2, <1>3, <2>1, RestShift
<1>7. Weight(toHost[1]) = Len(Expand(toHost[1].v)) /\ Expand(toHost[1].v) \in Blocks
  BY <1>3, <1>4, Expanded DEF Weight
<1>8. Len(Expand(toHost[1].v)) \in Nat
  BY <1>7, LenProperties DEF Blocks
<1>. QED  BY <1>3, <1>4, <1>5, <1>6, <1>7, <1>8

\* A chunk of a v1 pull: one block, written as it is.
LEMMA PullChunkStep ==
  ASSUME SyncInv, PullChunk
  PROVE  SyncInv'
<1>t. SyncTypeOK /\ Progress /\ Copied
  BY DEF SyncInv
<1>1. /\ pc = "chunk" /\ form = "pull"
      /\ toHost # <<>> /\ toHost' = Tail(toHost)
      /\ IF Head(toHost).k = "chunk" THEN Output(Head(toHost).v[1])
         ELSE Return("Protocol") /\ UNCHANGED local
      /\ UNCHANGED <<callVars, pushVars, up, toDev, dev, remote>>
      /\ UNCHANGED <<last, listVars, dec>>
  BY Zenon DEF PullChunk, Read
<1>2. TookField /\ Head(toHost) = toHost[1]
  BY <1>t, <1>1, TookFields
<1>3. /\ toHost[1].k = "chunk" /\ toHost[1].v \in Seq(Blocks) /\ Len(toHost[1].v) = 1
      /\ form \in Pulls /\ call.op = "pull" /\ local.open /\ Transferring
      /\ AtFrame(Tail(toHost), 1, Answer)
      /\ Weight(toHost[1]) = Len(Expand(toHost[1].v))
  BY <1>1, ChunkComes
<1>d. PICK d : d = toHost[1].v[1]
  OBVIOUS
<1>4. d \in Blocks /\ Expand(toHost[1].v) = d /\ Len(d) \in Nat
  <2>1. d \in Blocks /\ Expand(toHost[1].v) = d
    BY <1>3, <1>d, Expanded
  <2>. QED  BY <2>1, LenProperties DEF Blocks
<1>5. Output(d)
  BY <1>1, <1>2, <1>3, <1>d
<1>6. CASE Return("Io") /\ UNCHANGED local
  <2>1. ~Left /\ pc' = "drop" /\ result' = "Io" /\ form # "none"
    BY <1>1, <1>6 DEF Return, Left
  <2>. QED  BY <1>1, <1>2, <1>6, <2>1, Leaving DEF TookField, listVars
<1>7. CASE local' = [local EXCEPT !.file = @ \o local.buf, !.buf = d] /\ Goto("id")
  <2>1. pc' = "id" /\ UNCHANGED <<result, entries, dec>>
    BY <1>1, <1>7 DEF Goto, listVars
  <2>2. PICK n0 \in 0 .. Total : n0 + Weight(toHost[1]) \in 0 .. Total /\ HostAt(n0) /\ Counted(toHost, 1, n0)
    BY <1>1, <1>3, <1>t, NextCounted
  <2>3. \A n : HostAt(n) =>
           dec.in = <<>> /\ dec.held = <<>> /\ InFile \in Nat /\ n = InFile
    <3>. SUFFICES ASSUME NEW n, HostAt(n)
                  PROVE  dec.in = <<>> /\ dec.held = <<>> /\ InFile \in Nat /\ n = InFile
      OBVIOUS
    <3>1. PulledUpTo(n)
      BY <1>1 DEF HostAt, TakenUpTo
    <3>2. dec.in = <<>> /\ InFile \in Nat /\ n = InFile + Len(dec.held) /\ dec.held = <<>>
      BY <1>1, <1>t, <3>1, PulledIdle
    <3>3. Len(<<>>) = 0
      BY EmptySeq
    <3>. QED  BY <3>2, <3>3
  <2>4. n0 = InFile /\ InFile \in Nat /\ dec.in = <<>> /\ dec.held = <<>>
    BY <2>2, <2>3
  <2>5. Run(d, InFile) /\ InFile + Len(d) <= Len(remote.path.data)
    <3>1. Total = Len(remote.path.data) /\ Total \in Nat
      BY <1>3, <1>t, PullFacts, TotalNat
    <3>2. Run(d, n0)
      BY <1>3, <1>4, <2>2 DEF Counted
    <3>. QED  BY <1>3, <1>4, <2>2, <2>4, <3>1, <3>2
  <2>6. /\ Copied' /\ InFile' = InFile + Len(d)
        /\ local' \in [file : Blocks, open : BOOLEAN, buf : Blocks, lost : Blocks]
    <3>1. pc # "ret" /\ UNCHANGED <<call, remote>>
      BY <1>1, <1>2 DEF TookField
    <3>. QED  BY <1>3, <1>4, <1>7, <1>t, <2>1, <2>5, <3>1, OutputStep
  <2>7. \A n, m \in 0 .. Total :
          m = n + Weight(toHost[1]) /\ HostAt(n) /\ Counted(toHost, 1, n) => HostAt(m)'
    <3>. SUFFICES ASSUME NEW n \in 0 .. Total, NEW m \in 0 .. Total, m = n + Weight(toHost[1]),
                         HostAt(n), Counted(toHost, 1, n)
                  PROVE  HostAt(m)'
      OBVIOUS
    <3>1. m = InFile + Len(d)
      BY <1>3, <1>4, <2>3
    <3>2. PulledUpTo(m)'
      <4>1. PICK i : i = InFile + Len(d)
        OBVIOUS
      <4>2. i \in Nat /\ i + Len(<<>>) = i /\ <<>> \in Blocks /\ Run(<<>>, i)
        BY <1>4, <2>4, <4>1, RunEmpty
      <4>3. pc' # "decode" /\ dec'.in = <<>> /\ dec'.held = <<>> /\ InFile' = i /\ m = i + Len(<<>>)
        BY <2>1, <2>4, <2>6, <3>1, <4>1, <4>2
      <4>. QED  BY <4>2, <4>3, IdlePulled
    <3>3. form' # "list"
      BY <1>1, <1>2 DEF TookField
    <3>. QED  BY <2>1, <3>2, <3>3 DEF HostAt, TakenUpTo
  <2>8. Place(Tail(toHost), pc', last', form, Answer)
    BY <1>3, <2>1 DEF Place
  <2>9. /\ dec' \in [in : Seq(Blocks), out : Blocks, held : Blocks] /\ last' \in Ids \cup {"none"}
    BY <1>1, <1>t DEF SyncTypeOK
  <2>10. HeldBack'
    BY <2>1, <2>4 DEF HeldBack
  <2>11. /\ pc \in {"id", "size", "chunk"} /\ pc' \in {"id", "size", "chunk", "decode", "quit"}
         /\ pc' = "decode" => form = "pull_v2"
         /\ pc' = "quit" => TakenUpTo(Total)'
         /\ (pc' = "size" /\ last' = "DONE") \/ pc' = "quit" =>
              (form = "pull_v2" /\ codec # "brotli" => dec'.held = <<>>)
    BY <1>1, <2>1
  <2>. QED  BY <1>2, <1>3, <2>1, <2>6, <2>7, <2>8, <2>9, <2>10, <2>11, PullOn
<1>. QED  BY <1>5, <1>6, <1>7 DEF Output

\* A chunk of a v2 pull goes to the decoder.
LEMMA PullV2ChunkStep ==
  ASSUME SyncInv, PullV2Chunk
  PROVE  SyncInv'
<1>t. SyncTypeOK /\ Progress /\ Copied
  BY DEF SyncInv
<1>1. /\ pc = "chunk" /\ form = "pull_v2"
      /\ toHost # <<>> /\ toHost' = Tail(toHost)
      /\ IF Head(toHost).k = "chunk"
         THEN dec' = [dec EXCEPT !.in = Head(toHost).v, !.out = <<>>] /\ Goto("decode")
         ELSE Return("Protocol") /\ UNCHANGED dec
      /\ UNCHANGED <<callVars, pushVars, up, toDev, dev, remote>>
      /\ UNCHANGED <<last, listVars, local>>
  BY Zenon DEF PullV2Chunk, Read
<1>2. TookField /\ Head(toHost) = toHost[1]
  BY <1>t, <1>1, TookFields
<1>c. PICK c : c = toHost[1].v
  OBVIOUS
<1>3. /\ toHost[1].k = "chunk" /\ c \in Seq(Blocks) /\ Len(c) \in 1 .. 2
      /\ form \in Pulls /\ call.op = "pull" /\ local.open /\ Transferring
      /\ AtFrame(Tail(toHost), 1, Answer)
      /\ Weight(toHost[1]) = Len(Expand(c)) /\ Expand(c) \in Blocks /\ Len(Expand(c)) \in Nat
  BY <1>1, <1>c, ChunkComes
<1>4. pc' = "decode" /\ UNCHANGED <<result, entries, local>> /\ dec' = [dec EXCEPT !.in = c, !.out = <<>>]
  BY <1>1, <1>2, <1>3, <1>c DEF Goto, listVars
<1>5. /\ dec'.in = c /\ dec'.out = <<>> /\ dec'.held = dec.held
      /\ dec' \in [in : Seq(Blocks), out : Blocks, held : Blocks]
  <2>1. dec \in [in : Seq(Blocks), out : Blocks, held : Blocks] /\ <<>> \in Blocks
    BY <1>t, RunEmpty DEF SyncTypeOK
  <2>. QED  BY <1>3, <1>4, <2>1
<1>6. \A n, m \in 0 .. Total :
        m = n + Weight(toHost[1]) /\ HostAt(n) /\ Counted(toHost, 1, n) => HostAt(m)'
  <2>. SUFFICES ASSUME NEW n \in 0 .. Total, NEW m \in 0 .. Total, m = n + Weight(toHost[1]),
                       HostAt(n), Counted(toHost, 1, n)
                PROVE  HostAt(m)'
    OBVIOUS
  <2>1. PulledUpTo(n)
    BY <1>1 DEF HostAt, TakenUpTo
  <2>2. Run(dec.held, InFile) /\ InFile \in Nat /\ Len(dec.held) \in Nat /\ n = InFile + Len(dec.held)
    BY <1>1, <1>t, <2>1, PulledIdle
  <2>3. Run(Expand(c), n)
    BY <1>3, <1>c DEF Counted
  <2>4. Out' = <<>> /\ Len(<<>>) = 0 /\ InFile' = InFile
    BY <1>4, <1>5, EmptySeq DEF Out, InFile
  <2>5. PICK i, h : i = InFile /\ h = dec.held
    OBVIOUS
  <2>6. InFile' + Len(Out') = i /\ (InFile' + Len(Out')) + Len(dec'.held) = n
    BY <1>5, <2>2, <2>4, <2>5
  <2>7. Run(Out', InFile')
    BY <2>4, RunEmpty
  <2>8. Run(dec'.held, InFile' + Len(Out')) /\ Run(Expand(dec'.in), (InFile' + Len(Out')) + Len(dec'.held))
    BY <1>5, <2>2, <2>3, <2>5, <2>6
  <2>9. /\ Run(Out, InFile)' /\ Run(dec.held, InFile + Len(Out))'
        /\ Run(Expand(dec.in), (InFile + Len(Out)) + Len(dec.held))'
    BY <2>7, <2>8 DEF Run, Expand
  <2>10. m = (((InFile + Len(Out)) + Len(dec.held)) + Len(Expand(dec.in)))'
    <3>1. Expand(dec.in)' = Expand(c)
      BY <1>5 DEF Expand
    <3>. QED  BY <1>3, <2>6, <3>1
  <2>11. Len(dec'.in) <= 2 /\ pc' = "decode" /\ form' = "pull_v2"
    <3>1. \A x \in 1 .. 2 : x <= 2
      OBVIOUS
    <3>2. Len(dec'.in) <= 2
      BY <1>3, <1>5, <3>1
    <3>. QED  BY <1>1, <1>2, <1>4, <3>2 DEF TookField
  <2>12. PulledUpTo(m)'
    BY <2>9, <2>10, <2>11 DEF PulledUpTo
  <2>. QED  BY <1>4, <2>11, <2>12 DEF HostAt, TakenUpTo
<1>7. Copied'
  <2>1. pc # "ret" /\ pc' \notin {"start", "open", "request", "local"} /\ UNCHANGED <<call, remote>>
    BY <1>1, <1>2, <1>4 DEF TookField
  <2>. QED  BY <1>1, <1>3, <1>4, <1>t, <2>1 DEF Copied, Run
<1>8. Place(Tail(toHost), pc', last', form, Answer)
  BY <1>3, <1>4 DEF Place
<1>9. /\ local' \in [file : Blocks, open : BOOLEAN, buf : Blocks, lost : Blocks] /\ last' \in Ids \cup {"none"}
  BY <1>1, <1>t DEF SyncTypeOK
<1>10. toHost[1].v = << <<>> >> => HeldBack'
  BY <1>4, <1>5, <1>c DEF HeldBack
<1>11. /\ pc \in {"id", "size", "chunk"} /\ pc' \in {"id", "size", "chunk", "decode", "quit"}
       /\ pc' = "decode" => form = "pull_v2"
       /\ pc' # "quit" /\ pc' # "size"
  BY <1>1, <1>4
<1>. QED  BY <1>2, <1>3, <1>4, <1>5, <1>6, <1>7, <1>8, <1>9, <1>10, <1>11, PullOn


-----------------------------------------------------------------------------
(* Steps of the host alone.                                                 *)

\* A step that touches neither the stream nor the device.
LEMMA StayOn ==
  ASSUME SyncInv,
         UNCHANGED <<call, form, codec, last, result, entries, found, dest, sent, up, toDev, toHost, dev, remote>>,
         \/ pc \in {"local", "decode"} /\ pc' \in {"id", pc} /\ pc' # "local"
         \/ pc = "input" /\ pc' = "data",
         local' \in [file : Blocks, open : BOOLEAN, buf : Blocks, lost : Blocks],
         dec' \in [in : Seq(Blocks), out : Blocks, held : Blocks],
         Copied', Progress', Flushed'
  PROVE  SyncInv'
<1>t. /\ SyncTypeOK /\ Modes /\ Conversation /\ Pushing
  BY DEF SyncInv
<1>1. SyncTypeOK'
  BY <1>t DEF SyncTypeOK
<1>2. result = "none" /\ form # "none" /\ result' = "none" /\ ~Left'
  BY <1>t DEF Modes, Left
<1>3. Modes'
  <2>1. /\ pc' \notin {"start", "ret", "local", "okay", "size", "chunk", "body", "name"} /\ form' = form /\ codec' = codec
        /\ call' = call /\ dest' = dest
    OBVIOUS
  <2>2. Destination' = Destination
    BY DEF Destination
  <2>3. codec # NoCodec => Available(codec)' /\ form \in {"pull_v2", "push_v2"}
    BY <1>t DEF Modes, Available, Has
  <2>4. /\ pc' \in {"input", "data", "okay"} => form \in Pushes
        /\ pc' = "decode" => form = "pull_v2"
    BY <1>t DEF Modes
  <2>. QED  BY <1>2, <1>t, <2>1, <2>2, <2>3, <2>4 DEF Modes
<1>4. ~Ok'
  BY <1>2 DEF Ok
<1>5. Answer' = Answer
  BY AnswerSame
<1>6. Conversation'
  <2>1. AtFrame(toHost, 1, Answer)
    BY <1>t DEF Conversation, Place
  <2>2. Place(toHost, pc', last', form, Answer)
    BY <2>1 DEF Place
  <2>3. Queued'
    <3>1. CASE pc' \in {"input", "data"}
      <4>1. pc = "input" /\ Queued
        BY <1>t, <3>1 DEF Conversation
      <4>. QED  BY <3>1, <4>1 DEF Queued, RequestOf
    <3>2. CASE pc' \notin {"input", "data"}
      BY <1>t, <3>2, QueuedSame DEF Conversation
    <3>. QED  BY <3>1, <3>2
  <2>. QED  BY <1>4, <1>5, <1>t, <2>2, <2>3 DEF Conversation
<1>7. Pushing'
  <2>1. CASE form \notin Pushes
    BY <1>t, <2>1, PushingNothing
  <2>2. CASE form \in Pushes
    <3>1. pc = "input" /\ pc' = "data"
      BY <1>t, <2>2 DEF Modes, Pulls, Pushes
    <3>2. Base' = Base
      BY DEF Base
    <3>. QED  BY <1>4, <1>5, <1>t, <2>2, <3>1, <3>2 DEF Pushing
  <2>. QED  BY <2>1, <2>2
<1>8. Finished' /\ NoEntriesStart'
  BY <1>4 DEF Finished, NoEntriesStart
<1>. QED  BY <1>1, <1>3, <1>6, <1>7, <1>8 DEF SyncInv

\* Flushed after a step of the host that reads nothing.
LEMMA FlushedBetween ==
  ASSUME Flushed, Transferring, UNCHANGED <<form, codec, toHost, dev>>,
         HeldBack => HeldBack', pc' \notin {"size", "quit"}, ~Ok'
  PROVE  Flushed'
<1>1. \A i : FlushedBefore(i) => FlushedBefore(i)'
  BY DEF FlushedBefore
<1>2. form = "pull" => Flushed'
  BY DEF Flushed
<1>3. ASSUME form = "pull_v2" PROVE Flushed'
  <2>1. /\ \A i \in 1 .. Len(toHost') :
             toHost'[i].k = "id" /\ toHost'[i].v = "DONE" => FlushedBefore(i)'
        /\ dev'.st = "sending" /\ ~dev'.tail => dev'.rest = <<>>
    BY <1>1, <1>3 DEF Flushed
  <2>2. dev'.st = "sending" /\ ~dev'.tail => FlushedBefore(Len(toHost) + 1)'
    <3>1. PICK l : l = Len(toHost) + 1
      OBVIOUS
    <3>2. dev'.st = "sending" /\ ~dev'.tail => FlushedBefore(l)
      BY <1>3, <3>1 DEF Flushed
    <3>3. FlushedBefore(l)' => FlushedBefore(Len(toHost) + 1)'
      BY <3>1 DEF FlushedBefore
    <3>. QED  BY <1>1, <3>2, <3>3
  <2>3. form' # "pull" /\ ~(pc' = "size" /\ last' = "DONE") /\ pc' # "quit" /\ ~Ok'
    BY <1>3
  <2>. QED  BY <2>1, <2>2, <2>3 DEF Flushed
<1>4. form \notin {"pull", "pull_v2"} => Flushed'
  BY DEF Flushed
<1>. QED  BY <1>2, <1>3, <1>4

\* The ofstream truncates the local file.
LEMMA OpenLocalStep ==
  ASSUME SyncInv, OpenLocal
  PROVE  SyncInv'
<1>t. SyncTypeOK /\ Modes /\ Progress /\ Copied /\ Flushed
  BY DEF SyncInv
<1>1. /\ pc = "local"
      /\ UNCHANGED <<call, form, codec, last, entries, errored, found, dest, sent, dec, up, toDev, toHost, dev, remote>>
  BY DEF OpenLocal, callVars, listVars, pushVars, linkVars
<1>2. form \in Pulls /\ form \in {"pull", "pull_v2"} /\ call.op = "pull" /\ result = "none" /\ form # "none"
  BY <1>1, <1>t DEF Modes, Pulls, Left
<1>3. CASE Return("Io") /\ UNCHANGED local
  <2>1. pc' = "drop" /\ result' = "Io" /\ ~Left
    BY <1>1, <1>3 DEF Return, Left
  <2>. QED  BY <1>1, <1>2, <1>3, <2>1, Leaving
<1>4. CASE local' = [local EXCEPT !.file = <<>>, !.open = TRUE] /\ Goto("id")
  <2>1. pc' = "id" /\ UNCHANGED result
    BY <1>4 DEF Goto
  <2>2. ~local.open /\ local.buf = <<>> /\ local.lost = <<>>
    BY <1>1, <1>2, <1>t DEF Copied
  <2>3. /\ local'.file = <<>> /\ local'.open = TRUE /\ local'.buf = <<>> /\ local'.lost = <<>>
        /\ local' \in [file : Blocks, open : BOOLEAN, buf : Blocks, lost : Blocks]
    <3>1. local \in [file : Blocks, open : BOOLEAN, buf : Blocks, lost : Blocks] /\ <<>> \in Blocks
      BY <1>t, RunEmpty DEF SyncTypeOK
    <3>. QED  BY <1>4, <2>2, <3>1
  <2>4. InFile = 0 /\ InFile' = 0
    <3>1. Len(<<>>) = 0
      BY EmptySeq
    <3>2. InFile' = Len(<<>>) + Len(<<>>) + Len(<<>>)
      BY <2>3 DEF InFile
    <3>3. 0 + 0 + 0 = 0
      OBVIOUS
    <3>. QED  BY <2>2, <3>1, <3>2, <3>3 DEF InFile
  <2>5. Copied'
    <3>1. Len(<<>>) + Len(<<>>) + Len(<<>>) <= Len(remote.path.data)
      <4>1. remote.path.data \in Seq(Nat)
        BY <1>t DEF SyncTypeOK, Blocks
      <4>2. Len(remote.path.data) \in Nat /\ Len(<<>>) = 0
        BY <4>1, LenProperties, EmptySeq
      <4>. QED  BY <4>2
    <3>2. \A n : Run(<<>>, n)
      BY RunEmpty
    <3>. QED  BY <1>1, <1>2, <1>t, <2>1, <2>3, <3>1, <3>2 DEF Copied, Run
  <2>6. Transferring
    BY <1>1, <1>2 DEF Transferring
  <2>7. Progress'
    <3>1. \A n \in 0 .. Total : HostAt(n) => HostAt(n)'
      <4>. SUFFICES ASSUME NEW n \in 0 .. Total, HostAt(n) PROVE HostAt(n)'
        OBVIOUS
      <4>1. form # "list" /\ form' # "list"
        BY <1>1, <1>2
      <4>2. PulledUpTo(n)
        BY <4>1 DEF HostAt, TakenUpTo
      <4>3. PulledUpTo(n)'
        <5>1. Out' = Out /\ InFile' = InFile /\ pc # "decode" /\ pc' # "decode"
          BY <1>1, <2>1, <2>4 DEF Out
        <5>. QED  BY <1>1, <4>2, <5>1 DEF PulledUpTo, Run, Expand
      <4>. QED  BY <2>1, <4>1, <4>3 DEF HostAt, TakenUpTo
    <3>2. \A n \in 0 .. Total : DeviceAt(n) => DeviceAt(n)'
      <4>1. Answer' = Answer /\ Total' = Total
        BY <1>1, AnswerSame, CountingSame
      <4>. QED  BY <1>1, <4>1 DEF DeviceAt, Run
    <3>. QED  BY <1>1, <1>t, <2>6, <3>1, <3>2, ProgressBetween
  <2>8. Flushed'
    <3>1. HeldBack => HeldBack'
      BY <1>1, <2>1 DEF HeldBack
    <3>2. ~Ok'
      BY <1>2, <2>1 DEF Ok
    <3>. QED  BY <1>1, <1>t, <2>1, <2>6, <3>1, <3>2, FlushedBetween
  <2>9. dec' \in [in : Seq(Blocks), out : Blocks, held : Blocks]
    BY <1>1, <1>t DEF SyncTypeOK
  <2>. QED  BY <1>1, <2>1, <2>3, <2>5, <2>7, <2>8, <2>9, StayOn
<1>. QED  BY <1>3, <1>4 DEF OpenLocal


-----------------------------------------------------------------------------
(* The decode loops.                                                        *)

\* What is taken while a chunk is decoded.
LEMMA PulledDecoding ==
  ASSUME NEW n, PulledUpTo(n), pc = "decode", SyncTypeOK
  PROVE  /\ InFile \in Nat /\ Len(dec.out) \in Nat /\ Len(dec.held) \in Nat /\ Len(Expand(dec.in)) \in Nat
         /\ Run(dec.out, InFile) /\ Run(dec.held, InFile + Len(dec.out))
         /\ Run(Expand(dec.in), (InFile + Len(dec.out)) + Len(dec.held))
         /\ n = ((InFile + Len(dec.out)) + Len(dec.held)) + Len(Expand(dec.in))
         /\ Len(dec.in) <= 2 /\ (form = "pull" => dec.held = <<>>)
<1>1. Out = dec.out
  BY DEF Out
<1>2. /\ local.file \in Seq(Nat) /\ local.buf \in Seq(Nat) /\ local.lost \in Seq(Nat)
      /\ dec.held \in Seq(Nat) /\ dec.out \in Seq(Nat) /\ dec.in \in Seq(Blocks)
  BY DEF SyncTypeOK, Blocks
<1>3. Expand(dec.in) \in Seq(Nat)
  BY <1>2, Expanded DEF Blocks
<1>4. /\ Len(local.file) \in Nat /\ Len(local.buf) \in Nat /\ Len(local.lost) \in Nat
      /\ Len(dec.held) \in Nat /\ Len(dec.out) \in Nat /\ Len(Expand(dec.in)) \in Nat
  BY <1>2, <1>3, LenProperties
<1>5. InFile \in Nat
  <2>1. \A a, b, c \in Nat : a + b + c \in Nat
    OBVIOUS
  <2>2. Len(local.file) + Len(local.buf) + Len(local.lost) \in Nat
    BY <1>4, <2>1
  <2>. QED  BY <2>2 DEF InFile
<1>. QED  BY <1>1, <1>4, <1>5 DEF PulledUpTo

\* What a call of the codec's library looks at, and what it leaves of its input.
Pending ==
  IF codec = "brotli" THEN dec.held \o Expand(dec.in)
  ELSE IF dec.held = <<>> THEN Head(dec.in) ELSE dec.held

Untaken == IF codec = "brotli" THEN <<>> ELSE IF dec.held = <<>> THEN Tail(dec.in) ELSE dec.in

\* It comes to the same blocks.
LEMMA PendingRun ==
  ASSUME dec \in [in : Seq(Blocks), out : Blocks, held : Blocks], dec.in # <<>>, Len(dec.in) <= 2,
         NEW o \in Nat, Run(dec.held, o), Run(Expand(dec.in), o + Len(dec.held))
  PROVE  /\ Pending \in Blocks /\ Untaken \in Seq(Blocks) /\ Len(Untaken) <= 2
         /\ Len(Pending) \in Nat /\ Len(Expand(Untaken)) \in Nat
         /\ Run(Pending, o) /\ Run(Expand(Untaken), o + Len(Pending))
         /\ (o + Len(Pending)) + Len(Expand(Untaken)) = (o + Len(dec.held)) + Len(Expand(dec.in))
<1>p. PICK c, h, e : c = dec.in /\ h = dec.held /\ e = Expand(c)
  OBVIOUS
<1>1. /\ c \in Seq(Blocks) /\ h \in Blocks /\ e \in Blocks
      /\ Len(c) \in Nat /\ Len(h) \in Nat /\ Len(e) \in Nat /\ Len(c) >= 1
  <2>1. c \in Seq(Blocks) /\ h \in Blocks
    BY <1>p
  <2>2. e \in Blocks
    BY <1>p, <2>1, Expanded
  <2>3. Len(h) \in Nat /\ Len(e) \in Nat
    BY <2>1, <2>2, LenProperties DEF Blocks
  <2>4. Len(c) \in Nat /\ Len(c) >= 1
    BY <1>p, <2>1, TailOf
  <2>. QED  BY <2>1, <2>2, <2>3, <2>4
<1>2. Run(h, o) /\ Run(e, o + Len(h)) /\ Len(c) <= 2
  BY <1>p
<1>3. <<>> \in Seq(Blocks) /\ Len(<<>>) = 0 /\ Expand(<<>>) = <<>> /\ \A m : Run(<<>>, m)
  BY EmptySeq, Expanded, RunEmpty
<1>4. CASE codec = "brotli"
  <2>1. Pending = h \o e /\ Untaken = <<>>
    BY <1>4, <1>p DEF Pending, Untaken
  <2>2. h \o e \in Blocks /\ Len(h \o e) = Len(h) + Len(e) /\ Run(h \o e, o)
    BY <1>1, <1>2, RunJoined
  <2>3. (o + (Len(h) + Len(e))) + 0 = (o + Len(h)) + Len(e) /\ 0 <= 2 /\ 0 \in Nat /\ Len(h) + Len(e) \in Nat
    BY <1>1
  <2>. QED  BY <1>3, <1>p, <2>1, <2>2, <2>3
<1>5. CASE codec # "brotli" /\ h = <<>>
  <2>1. Pending = c[1] /\ Untaken = Tail(c)
    BY <1>5, <1>p, <1>1, TailOf DEF Pending, Untaken
  <2>2. Tail(c) \in Seq(Blocks) /\ Len(Tail(c)) = Len(c) - 1 /\ c[1] \in Blocks
        /\ \A i \in 1 .. Len(c) - 1 : Tail(c)[i] = c[i + 1]
    BY <1>1, <1>p, TailOf
  <2>3. Len(c[1]) \in Nat
    BY <2>2, LenProperties DEF Blocks
  <2>4. Len(h) = 0 /\ o + Len(h) = o
    BY <1>3, <1>5
  <2>5. CASE Len(c) = 1
    <3>1. e = c[1]
      BY <1>1, <1>p, <2>5, Expanded
    <3>2. Len(Tail(c)) = 0
      BY <2>2, <2>5
    <3>3. Tail(c) = <<>>
      BY <2>2, <3>2, EmptyLen
    <3>4. (o + Len(c[1])) + 0 = o + Len(c[1]) /\ 0 <= 2 /\ 0 \in Nat
      BY <2>3
    <3>. QED  BY <1>2, <1>3, <1>p, <2>1, <2>2, <2>3, <2>4, <3>1, <3>3, <3>4
  <2>6. CASE Len(c) = 2
    <3>1. e = c[1] \o c[2] /\ c[2] \in Blocks
      BY <1>1, <1>p, <2>6, Expanded
    <3>2. Len(Tail(c)) = 1 /\ Tail(c)[1] = c[2]
      <4>1. 2 - 1 = 1 /\ 1 \in 1 .. 2 - 1 /\ 1 + 1 = 2
        OBVIOUS
      <4>. QED  BY <2>2, <2>6, <4>1
    <3>3. Expand(Tail(c)) = c[2]
      BY <2>2, <3>2, Expanded
    <3>4. /\ Len(e) = Len(c[1]) + Len(c[2]) /\ Len(c[2]) \in Nat
          /\ Run(c[1], o) /\ Run(c[2], o + Len(c[1]))
      <4>1. Run(c[1] \o c[2], o)
        BY <1>2, <2>4, <3>1
      <4>. QED  BY <2>2, <3>1, <4>1, RunJoined
    <3>5. (o + Len(c[1])) + Len(c[2]) = o + Len(e) /\ 1 <= 2
      <4>1. \A x, y \in Nat : (o + x) + y = o + (x + y)
        OBVIOUS
      <4>2. 1 <= 2
        OBVIOUS
      <4>. QED  BY <2>3, <3>4, <4>1, <4>2
    <3>. QED  BY <1>p, <2>1, <2>2, <2>3, <2>4, <3>2, <3>3, <3>4, <3>5
  <2>7. Len(c) = 1 \/ Len(c) = 2
    <3>1. \A x \in Nat : x >= 1 /\ x <= 2 => x = 1 \/ x = 2
      OBVIOUS
    <3>. QED  BY <1>1, <1>2, <3>1
  <2>. QED  BY <2>5, <2>6, <2>7
<1>6. CASE codec # "brotli" /\ h # <<>>
  <2>1. Pending = h /\ Untaken = c
    BY <1>6, <1>p DEF Pending, Untaken
  <2>. QED  BY <1>1, <1>2, <1>p, <2>1
<1>. QED  BY <1>4, <1>5, <1>6

\* One call of the codec's library: the blocks stay in order.
LEMMA DecoderCallStep ==
  ASSUME SyncTypeOK, pc = "decode", pc' = pc, UNCHANGED <<local, form, codec>>, form = "pull_v2",
         dec.in # <<>>, dec' = DecoderCall, NEW n, PulledUpTo(n)
  PROVE  PulledUpTo(n)' /\ dec' \in [in : Seq(Blocks), out : Blocks, held : Blocks]
<1>p. PICK i, u, p, r, o : /\ i = InFile /\ u = dec.out /\ p = Pending /\ r = Untaken /\ o = InFile + Len(dec.out)
  OBVIOUS
<1>t. dec \in [in : Seq(Blocks), out : Blocks, held : Blocks]
  BY DEF SyncTypeOK
<1>0. u \in Blocks /\ <<>> \in Blocks
  BY <1>p, <1>t, RunEmpty
<1>1. /\ i \in Nat /\ Len(u) \in Nat /\ o = i + Len(u) /\ o \in Nat /\ Run(u, i)
      /\ Run(dec.held, o) /\ Run(Expand(dec.in), o + Len(dec.held)) /\ Len(dec.in) <= 2
      /\ n = (o + Len(dec.held)) + Len(Expand(dec.in))
  BY <1>p, PulledDecoding
<1>2. /\ p \in Blocks /\ r \in Seq(Blocks) /\ Len(r) <= 2 /\ Len(p) \in Nat /\ Len(Expand(r)) \in Nat
      /\ Run(p, o) /\ Run(Expand(r), o + Len(p)) /\ (o + Len(p)) + Len(Expand(r)) = n
  BY <1>1, <1>p, <1>t, PendingRun
<1>3. dec' = [in |-> r, out |-> u \o (IF p = <<>> THEN <<>> ELSE <<Head(p)>>), held |-> SubSeq(p, 2, Len(p))]
  BY <1>p DEF DecoderCall, Pending, Untaken
<1>q. PICK v, k : v = u \o (IF p = <<>> THEN <<>> ELSE <<Head(p)>>) /\ k = SubSeq(p, 2, Len(p))
  OBVIOUS
<1>4. /\ v \in Blocks /\ k \in Blocks /\ Len(v) \in Nat /\ Len(k) \in Nat
      /\ Run(v, i) /\ Run(k, i + Len(v)) /\ (i + Len(v)) + Len(k) = o + Len(p)
  <2>1. CASE p = <<>>
    <3>1. v = u
      BY <1>0, <1>q, <2>1, ConcatEmptySeq DEF Blocks
    <3>2. Len(p) = 0
      BY <2>1, EmptySeq
    <3>3. k = <<>>
      <4>1. 0 < 2 /\ 0 \in Int /\ 2 \in Int
        OBVIOUS
      <4>. QED  BY <1>q, <3>2, <4>1, SubSeqEmpty
    <3>4. Len(k) = 0 /\ Run(k, i + Len(v)) /\ k \in Blocks
      BY <3>3, RunEmpty
    <3>. QED  BY <1>0, <1>1, <3>1, <3>2, <3>4
  <2>2. CASE p # <<>>
    <3>0. PICK f : f = <<Head(p)>>
      OBVIOUS
    <3>1. /\ f \in Blocks /\ Run(f, o) /\ Len(f) = 1
          /\ k \in Blocks /\ Run(k, o + 1) /\ Len(k) = Len(p) - 1 /\ Len(p) >= 1
      BY <1>1, <1>2, <1>q, <2>2, <3>0, RunRest
    <3>2. v = u \o f
      BY <1>q, <2>2, <3>0
    <3>3. v \in Blocks /\ Len(v) = Len(u) + Len(f) /\ Run(v, i)
      BY <1>0, <1>1, <3>1, <3>2, RunJoined
    <3>4. i + Len(v) = o + 1
      BY <1>1, <3>1, <3>3
    <3>5. Len(v) \in Nat /\ Len(k) \in Nat /\ (i + Len(v)) + Len(k) = o + Len(p)
      BY <1>1, <1>2, <3>1, <3>3
    <3>. QED  BY <3>1, <3>3, <3>4, <3>5
  <2>. QED  BY <2>1, <2>2
<1>5. dec'.in = r /\ dec'.out = v /\ dec'.held = k
  BY <1>3, <1>q
<1>6. dec' \in [in : Seq(Blocks), out : Blocks, held : Blocks]
  <2>1. dec' = [in |-> r, out |-> v, held |-> k]
    BY <1>3, <1>q
  <2>. QED  BY <1>2, <1>4, <2>1
<1>7. Out' = v /\ InFile' = i
  BY <1>5, <1>p DEF Out, InFile
<1>8. Expand(dec.in)' = Expand(r)
  BY <1>5 DEF Expand
<1>9. /\ Run(Out, InFile)' /\ Run(dec.held, InFile + Len(Out))'
      /\ Run(Expand(dec.in), (InFile + Len(Out)) + Len(dec.held))'
  <2>1. Run(Out', InFile') /\ Run(dec'.held, InFile' + Len(Out'))
    BY <1>4, <1>5, <1>7
  <2>2. Run(Expand(dec.in)', (InFile' + Len(Out')) + Len(dec'.held))
    BY <1>2, <1>4, <1>5, <1>7, <1>8
  <2>. QED  BY <2>1, <2>2 DEF Run
<1>10. n = (((InFile + Len(Out)) + Len(dec.held)) + Len(Expand(dec.in)))'
  BY <1>2, <1>4, <1>5, <1>7, <1>8
<1>11. (Len(dec.in) <= 2 /\ (pc # "decode" => dec.in = <<>>) /\ (form = "pull" => dec.held = <<>>))'
  BY <1>2, <1>5
<1>. QED  BY <1>6, <1>9, <1>10, <1>11 DEF PulledUpTo


\* What is held back before DONE does not come back.
LEMMA HeldBackCall ==
  ASSUME SyncTypeOK, pc = "decode", pc' = pc, UNCHANGED codec, dec.in # <<>>, dec' = DecoderCall, HeldBack
  PROVE  HeldBack'
<1>1. dec.in = << <<>> >>
  BY DEF HeldBack
<1>2. /\ dec'.in = (IF codec = "brotli" THEN <<>> ELSE IF dec.held = <<>> THEN Tail(dec.in) ELSE dec.in)
      /\ codec # "brotli" /\ dec.held = <<>> => dec'.held = SubSeq(Head(dec.in), 2, Len(Head(dec.in)))
  BY DEF DecoderCall
<1>3. Head(dec.in) = <<>> /\ Tail(dec.in) = <<>>
  <2>1. PICK c : c = << <<>> >>
    OBVIOUS
  <2>2. c \in Seq({<<>>}) /\ Len(c) = 1 /\ c[1] = <<>> /\ c # <<>>
    BY <2>1
  <2>3. Head(c) = c[1] /\ Tail(c) \in Seq({<<>>}) /\ Len(Tail(c)) = Len(c) - 1
    BY <2>2, TailOf
  <2>4. Len(Tail(c)) = 0
    BY <2>2, <2>3
  <2>5. Tail(c) = <<>>
    BY <2>3, <2>4, EmptyLen
  <2>. QED  BY <1>1, <2>1, <2>2, <2>3, <2>5
<1>4. SubSeq(<<>>, 2, Len(<<>>)) = <<>>
  <2>1. Len(<<>>) = 0 /\ 0 < 2 /\ 0 \in Int /\ 2 \in Int
    BY EmptySeq
  <2>. QED  BY <2>1, SubSeqEmpty
<1>5. CASE codec = "brotli"
  BY <1>2, <1>5 DEF HeldBack
<1>6. CASE codec # "brotli" /\ dec.held = <<>>
  BY <1>2, <1>3, <1>4, <1>6 DEF HeldBack
<1>7. CASE codec # "brotli" /\ dec.held # <<>>
  BY <1>1, <1>2, <1>7 DEF HeldBack
<1>. QED  BY <1>5, <1>6, <1>7

\* The decode loop of the three codecs.
LEMMA DecodeStep ==
  ASSUME SyncInv, DecodeLoop
  PROVE  SyncInv'
<1>t. SyncTypeOK /\ Modes /\ Progress /\ Copied /\ Flushed
  BY DEF SyncInv
<1>1. /\ pc = "decode"
      /\ UNCHANGED <<call, form, codec, last, entries, errored, found, dest, sent, up, toDev, toHost, dev, remote>>
  BY DEF DecodeLoop, callVars, listVars, pushVars, linkVars
<1>2. form = "pull_v2" /\ form \in Pulls /\ call.op = "pull" /\ result = "none" /\ local.open /\ Transferring
  <2>1. form = "pull_v2" /\ result = "none"
    BY <1>1, <1>t DEF Modes, Left
  <2>2. form \in Pulls
    BY <2>1 DEF Pulls
  <2>3. call.op = "pull"
    BY <1>t, <2>2 DEF Modes
  <2>. QED  BY <1>1, <1>t, <2>1, <2>2, <2>3 DEF Copied, Transferring
<1>3. \A n \in 0 .. Total : DeviceAt(n) => DeviceAt(n)'
  <2>1. Answer' = Answer /\ Total' = Total
    BY <1>1, AnswerSame, CountingSame
  <2>. QED  BY <1>1, <2>1 DEF DeviceAt, Run
<1>4. \A n : HostAt(n) => PulledUpTo(n)
  BY <1>2 DEF HostAt, TakenUpTo
<1>5. CASE dec.in = <<>> /\ UNCHANGED dec /\ Return("Io") /\ UNCHANGED local
  <2>1. pc' = "drop" /\ result' = "Io" /\ ~Left /\ form # "none"
    BY <1>1, <1>2, <1>5 DEF Return, Left
  <2>. QED  BY <1>1, <1>5, <2>1, Leaving
<1>6. CASE /\ dec.in = <<>> /\ UNCHANGED dec /\ Goto("id")
           /\ local' = [local EXCEPT !.file = @ \o local.buf, !.buf = dec.out]
  <2>1. pc' = "id" /\ UNCHANGED <<result, dec>>
    BY <1>6 DEF Goto
  <2>p. PICK d, h, i : d = dec.out /\ h = dec.held /\ i = InFile
    OBVIOUS
  <2>2. d \in Blocks /\ h \in Blocks
    BY <1>t, <2>p DEF SyncTypeOK
  <2>3. ASSUME NEW n, HostAt(n)
        PROVE  /\ i \in Nat /\ Len(d) \in Nat /\ Len(h) \in Nat /\ Run(d, i) /\ Run(h, i + Len(d))
               /\ n = (i + Len(d)) + Len(h)
    <3>1. /\ i \in Nat /\ Len(d) \in Nat /\ Len(h) \in Nat /\ Run(d, i) /\ Run(h, i + Len(d))
          /\ n = ((i + Len(d)) + Len(h)) + Len(Expand(dec.in))
      BY <1>1, <1>4, <1>t, <2>3, <2>p, PulledDecoding
    <3>2. Len(Expand(dec.in)) = 0
      BY <1>6, Expanded, EmptySeq
    <3>3. ((i + Len(d)) + Len(h)) + 0 = (i + Len(d)) + Len(h)
      BY <3>1
    <3>. QED  BY <3>1, <3>2, <3>3
  <2>4. PICK n0 \in 0 .. Total : HostAt(n0)
    <3>1. PICK pos \in Positions(toHost) : HostAt(pos[0])
      BY <1>2, <1>t DEF Progress
    <3>2. 0 \in 0 .. Len(toHost)
      BY <1>t, LenProperties DEF SyncTypeOK
    <3>. QED  BY <3>1, <3>2 DEF Positions
  <2>5. Run(d, InFile) /\ InFile + Len(d) <= Len(remote.path.data)
    <3>1. Total = Len(remote.path.data) /\ Total \in Nat
      BY <1>2, <1>t, PullFacts, TotalNat
    <3>2. /\ i \in Nat /\ Len(d) \in Nat /\ Len(h) \in Nat /\ Run(d, i) /\ n0 = (i + Len(d)) + Len(h)
      BY <2>3, <2>4
    <3>3. \A a, b, c \in Nat : (a + b) + c <= Total => a + b <= Total
      BY <3>1
    <3>4. (i + Len(d)) + Len(h) <= Total
      BY <2>4, <3>2
    <3>5. i + Len(d) <= Total
      BY <3>2, <3>3, <3>4
    <3>. QED  BY <2>p, <3>1, <3>2, <3>5
  <2>6. /\ Copied' /\ InFile' = InFile + Len(d)
        /\ local' \in [file : Blocks, open : BOOLEAN, buf : Blocks, lost : Blocks]
    <3>1. pc # "ret" /\ UNCHANGED <<call, remote>>
      BY <1>1
    <3>2. local' = [local EXCEPT !.file = @ \o local.buf, !.buf = d]
      BY <1>6, <2>p
    <3>. QED  BY <1>2, <1>t, <2>1, <2>2, <2>5, <3>1, <3>2, OutputStep
  <2>7. \A n \in 0 .. Total : HostAt(n) => HostAt(n)'
    <3>. SUFFICES ASSUME NEW n \in 0 .. Total, HostAt(n) PROVE HostAt(n)'
      OBVIOUS
    <3>1. PICK j : j = i + Len(d)
      OBVIOUS
    <3>2. j \in Nat /\ Run(h, j) /\ n = j + Len(h)
      BY <2>3, <3>1
    <3>3. pc' # "decode" /\ dec'.in = <<>> /\ dec'.held = h /\ InFile' = j /\ form' # "pull" /\ form' # "list"
      BY <1>1, <1>2, <1>6, <2>1, <2>6, <2>p, <3>1
    <3>4. PulledUpTo(n)'
      BY <2>2, <3>2, <3>3, IdlePulled
    <3>. QED  BY <2>1, <3>3, <3>4 DEF HostAt, TakenUpTo
  <2>8. Progress'
    BY <1>1, <1>2, <1>3, <1>t, <2>7, ProgressBetween
  <2>9. Flushed'
    <3>1. HeldBack => HeldBack'
      BY <1>1, <1>6, <2>1 DEF HeldBack
    <3>2. ~Ok'
      BY <1>2, <2>1 DEF Ok
    <3>. QED  BY <1>1, <1>2, <1>t, <2>1, <3>1, <3>2, FlushedBetween
  <2>10. dec' \in [in : Seq(Blocks), out : Blocks, held : Blocks]
    BY <1>t, <2>1 DEF SyncTypeOK
  <2>. QED  BY <1>1, <2>1, <2>6, <2>8, <2>9, <2>10, StayOn
<1>7. CASE dec.in # <<>> /\ dec' = DecoderCall /\ UNCHANGED <<pc, result, local>>
  <2>1. \A n : PulledUpTo(n) => PulledUpTo(n)'
    BY <1>1, <1>2, <1>7, <1>t, DecoderCallStep
  <2>2. dec' \in [in : Seq(Blocks), out : Blocks, held : Blocks]
    <3>1. PICK pos : HostAt(pos[0])
      BY <1>2, <1>t DEF Progress
    <3>2. PICK n : PulledUpTo(n)
      BY <1>4, <3>1
    <3>. QED  BY <1>1, <1>2, <1>7, <1>t, <3>2, DecoderCallStep
  <2>3. \A n \in 0 .. Total : HostAt(n) => HostAt(n)'
    <3>1. form' # "list" /\ pc' = "decode"
      BY <1>1, <1>2, <1>7
    <3>. QED  BY <1>4, <2>1, <3>1 DEF HostAt, TakenUpTo
  <2>4. Progress'
    BY <1>1, <1>2, <1>3, <1>t, <2>3, ProgressBetween
  <2>5. Copied'
    BY <1>1, <1>7, <1>t DEF Copied, Run, Ok, Left
  <2>6. Flushed'
    <3>1. HeldBack => HeldBack'
      BY <1>1, <1>7, <1>t, HeldBackCall
    <3>2. ~Ok' /\ pc' = "decode"
      BY <1>1, <1>2, <1>7 DEF Ok
    <3>. QED  BY <1>1, <1>2, <1>t, <3>1, <3>2, FlushedBetween
  <2>7. local' \in [file : Blocks, open : BOOLEAN, buf : Blocks, lost : Blocks]
    BY <1>7, <1>t DEF SyncTypeOK
  <2>. QED  BY <1>1, <1>7, <2>2, <2>4, <2>5, <2>6, <2>7, StayOn
<1>. QED  BY <1>5, <1>6, <1>7 DEF DecodeLoop, InputTaken, Output


-----------------------------------------------------------------------------
(* The start and the end of a call.                                         *)

\* A read or a write fails; the end of the stream is never what a read meets.
LEMMA StreamFailsStep ==
  ASSUME SyncInv, StreamFails
  PROVE  SyncInv'
<1>t. SyncTypeOK /\ Queued /\ Place(toHost, pc, last, form, Answer)
  BY DEF SyncInv, Conversation
<1>1. UNCHANGED <<call, form, codec, last, entries, found, dest, sent, local, dec, up, toDev, toHost, dev, remote>>
  BY DEF StreamFails, callVars, listVars, pushVars, linkVars
<1>2. CASE pc \in ReadingAt \cup WritingAt /\ Return("Transport")
  <2>1. ~Left /\ pc # "start" /\ pc' = "drop" /\ result' = "Transport"
    BY <1>2 DEF ReadingAt, WritingAt, Left, Return
  <2>. QED  BY <1>1, <2>1, UnderWay, Leaving
<1>3. CASE pc \in ReadingAt /\ toHost = <<>> /\ dev.st = "gone"
  <2>1. Answer # "owed"
    BY <1>3, <1>t, AnswerFacts
  <2>2. Len(toHost) = 0 /\ ~(1 <= 0) /\ ~(0 >= 1) /\ 0 # 1 /\ ~(1 + 1 <= 0) /\ 0 # 1 + 1
    BY <1>3, EmptySeq
  <2>3. ~AtFrame(toHost, 1, Answer) /\ \A v : ~Rest(toHost, 1, v, form, Answer)
    BY <2>1, <2>2 DEF AtFrame, Rest, Ids
  <2>. QED  BY <1>3, <1>t, <2>2, <2>3 DEF Place, ReadingAt
<1>. QED  BY <1>2, <1>3 DEF StreamFails

\* Between two streams the device has nothing left to take but QUIT.
LEMMA QuitOnly ==
  ASSUME SyncTypeOK, Queued, Answer = "over", form \notin Pushes
  PROVE  /\ \A i \in 1 .. Len(toDev) : toDev[i].id = "QUIT" /\ Len(toDev) = 1 /\ dev.st = "ready"
         /\ dev.st \in {"ready", "gone"} /\ ~dev.failed
<1>1. /\ dev.st \in {"ready", "gone"} /\ ~dev.failed
      /\ dev.st = "ready" => toDev # <<>> /\ toDev[1].id = "QUIT"
  BY AnswerFacts
<1>2. toDev \in Seq(Reqs) /\ Len(toDev) \in Nat
  BY LenProperties DEF SyncTypeOK
<1>3. ASSUME NEW i \in 1 .. Len(toDev)
      PROVE  toDev[i].id = "QUIT" /\ Len(toDev) = 1 /\ dev.st = "ready"
  <2>1. toDev[i] \in Reqs
    BY <1>2, ElementOfSeq
  <2>2. toDev[i].id \in {"LIST", "STAT", "RECV", "SEND", "DATA", "DONE", "QUIT"}
    BY <2>1, ReqFacts
  <2>3. toDev[i].id \notin {"DATA", "DONE"}
    BY DEF Queued
  <2>4. toDev[i].id \in {"LIST", "STAT", "RECV", "SEND"} => i = 1 /\ dev.st = "ready"
    BY DEF Queued
  <2>5. toDev[i].id \notin {"LIST", "STAT", "RECV", "SEND"}
    BY <1>1, <2>4
  <2>6. toDev[i].id = "QUIT"
    BY <2>2, <2>3, <2>5
  <2>. QED  BY <2>6 DEF Queued
<1>. QED  BY <1>1, <1>3

\* The next stream of a call is about to be opened: nothing of an earlier one
\* concerns it.
LEMMA OpenNext ==
  ASSUME SyncInv, UNCHANGED <<call, last, entries, found, sent, local, dec, up, toDev, toHost, dev, remote>>,
         form \in {"none", "stat"}, toHost = <<>>, Answer = "over",
         pc' \in {"open", "drop"},
         result' = (IF pc' = "open" THEN "none" ELSE "InvalidArgument"),
         form' \in {"stat", "list"} \cup Pulls \cup Pushes,
         dest' \in {"path", "inside"}, codec' \in Codecs \cup {NoCodec},
         Modes', Copied', form' = "list" => entries = <<>>
  PROVE  SyncInv'
<1>t. SyncTypeOK /\ Conversation /\ Pushing /\ Queued
  BY DEF SyncInv, Conversation
<1>1. SyncTypeOK'
  <2>1. form = "none" \/ form' # "list"
    <3>1. Modes
      BY DEF SyncInv
    <3>. QED  BY <3>1 DEF Modes
  <2>2. dev.rest \in RestOf(form) /\ form' # "none"
    BY <1>t DEF SyncTypeOK, Pulls, Pushes
  <2>3. <<>> \in Seq(Entries) /\ <<>> \in Blocks
    BY EmptySeq DEF Blocks
  <2>4. dev'.rest \in RestOf(form')
    BY <2>1, <2>2, <2>3 DEF RestOf
  <2>. QED  BY <1>t, <2>4 DEF SyncTypeOK
<1>2. form \notin Pushes
  BY DEF Pushes
<1>3. /\ \A i \in 1 .. Len(toDev) : toDev[i].id = "QUIT" /\ Len(toDev) = 1 /\ dev.st = "ready"
      /\ dev.st \in {"ready", "gone"} /\ ~dev.failed
  BY <1>2, <1>t, QuitOnly
<1>4. ~Ok' /\ Answer' = "over" /\ ~Transferring'
  BY AnswerSame DEF Ok, Transferring
<1>5. Conversation'
  <2>1. Framed(toHost', form', Answer')
    BY FramedEmpty
  <2>2. Place(toHost', pc', last', form', Answer')
    BY <1>4 DEF Place
  <2>3. Queued'
    <3>1. pc' \notin {"input", "data"}
      OBVIOUS
    <3>. QED  BY <1>3, <3>1 DEF Queued
  <2>. QED  BY <1>4, <2>1, <2>2, <2>3 DEF Conversation
<1>6. Pushing'
  <2>1. sent = 0
    BY <1>2, <1>t DEF Pushing
  <2>. QED  BY <1>4, <2>1 DEF Pushing
<1>7. Progress' /\ Finished'
  BY <1>4 DEF Progress, Finished
<1>8. Flushed'
  BY <1>3, <1>4 DEF Flushed
<1>9. NoEntriesStart'
  BY DEF NoEntriesStart, Pulls, Pushes
<1>. QED  BY <1>1, <1>5, <1>6, <1>7, <1>8, <1>9 DEF SyncInv

\* choose_codec: what it chooses both sides have, and a codec asked for by name is
\* not left out.
LEMMA ChosenFacts ==
  ASSUME call \in Calls
  PROVE  /\ ChosenCodec \in Codecs \cup {NoCodec}
         /\ ChosenCodec # NoCodec => Available(ChosenCodec)
         /\ CodecAllowed(call.compression) /\ ChosenCodec = NoCodec => call.compression \notin Codecs
BY DEF ChosenCodec, Codecs, NoCodec, CodecAllowed

\* The arguments of a call are looked at.
LEMMA StartStep ==
  ASSUME SyncInv, Start
  PROVE  SyncInv'
<1>t. SyncTypeOK /\ Modes /\ Copied /\ Place(toHost, pc, last, form, Answer)
  BY DEF SyncInv, Conversation
<1>1. /\ pc = "start" /\ form = "none" /\ result = "none" /\ codec = NoCodec /\ toHost = <<>> /\ Answer = "over"
  BY <1>t DEF Start, Modes, Place
<1>2. UNCHANGED <<call, last, entries, errored, found, dest, sent, local, dec, up, toDev, toHost, dev, remote>>
  BY DEF Start, listVars, pushVars, linkVars
<1>3. CASE Return("InvalidArgument") /\ UNCHANGED <<codec, form>>
  BY <1>1, <1>2, <1>3, Leaving DEF Return, Left
<1>n. entries = <<>>
  BY <1>1 DEF SyncInv, NoEntriesStart
<1>c. /\ call \in Calls /\ call.op \in {"list", "stat", "pull", "push"} /\ dest \in {"path", "inside"}
  BY <1>t, CallFacts DEF SyncTypeOK
<1>4. CASE /\ call.op = "pull" /\ CodecAllowed(call.compression) /\ codec' = ChosenCodec
           /\ form' = (IF ChosenCodec = NoCodec THEN "pull" ELSE "pull_v2") /\ Goto("open")
  <2>1. /\ pc' = "open" /\ result' = "none" /\ codec' \in Codecs \cup {NoCodec} /\ form' \in Pulls
        /\ form' \in {"pull", "pull_v2"}
    BY <1>1, <1>4, <1>c, ChosenFacts DEF Goto, Pulls
  <2>2. codec' # NoCodec => Available(codec)' /\ form' = "pull_v2"
    <3>1. PICK c : c = ChosenCodec
      OBVIOUS
    <3>2. c # NoCodec => Available(c)
      BY <1>c, <3>1, ChosenFacts
    <3>3. Available(c) => Available(c)'
      BY <1>2 DEF Available, Has
    <3>4. codec' = c
      BY <1>4, <3>1
    <3>. QED  BY <1>4, <3>1, <3>2, <3>3, <3>4 DEF Available, Has
  <2>3. form' = "pull_v2" => codec' # NoCodec
    BY <1>4
  <2>4. form' = "pull" => call'.compression \notin Codecs
    BY <1>2, <1>4, <1>c, ChosenFacts
  <2>5. Modes'
    BY <1>2, <1>4, <2>1, <2>2, <2>3, <2>4 DEF Modes, Left, Pulls, Pushes
  <2>6. Copied'
    <3>1. ~Ok'
      BY <2>1 DEF Ok
    <3>. QED  BY <1>1, <1>2, <1>t, <2>1, <3>1, CopiedSame
  <2>. QED  BY <1>1, <1>2, <1>c, <1>n, <2>1, <2>5, <2>6, OpenNext
<1>5. CASE call.op # "pull" /\ form' = (IF call.op = "list" THEN "list" ELSE "stat") /\ Goto("open") /\ UNCHANGED codec
  <2>1. /\ pc' = "open" /\ result' = "none" /\ codec' = NoCodec /\ form' \in {"list", "stat"}
        /\ form' = "list" => call.op = "list"
        /\ form' = "stat" => call.op \in {"stat", "push"}
    BY <1>1, <1>5, <1>c DEF Goto
  <2>2. Modes'
    BY <1>2, <2>1 DEF Modes, Left, Pulls, Pushes
  <2>3. Copied'
    BY <1>2, <1>5, CopiedNothing
  <2>. QED  BY <1>1, <1>2, <1>c, <1>n, <2>1, <2>2, <2>3, OpenNext
<1>. QED  BY <1>3, <1>4, <1>5 DEF Start, Choose

\* push goes on after its stat.
LEMMA PushChooseStep ==
  ASSUME SyncInv, PushChoose
  PROVE  SyncInv'
<1>t. SyncTypeOK /\ Modes /\ Conversation
  BY DEF SyncInv
<1>1. /\ pc = "drop" /\ form = "stat" /\ call.op = "push" /\ result = "ok"
      /\ dest' = Destination
      /\ UNCHANGED <<call, last, entries, errored, found, sent, local, dec, up, toDev, toHost, dev, remote>>
  BY DEF PushChoose, listVars, linkVars
<1>2. toHost = <<>> /\ Answer = "over" /\ codec = NoCodec
  <2>1. Ok
    BY <1>1 DEF Ok, Left
  <2>. QED  BY <1>1, <1>t, <2>1 DEF Conversation, Modes
<1>c. call \in Calls /\ Destination \in {"path", "inside"} /\ Destination' = Destination
  BY <1>1, <1>t DEF SyncTypeOK, Destination
<1>3. Copied'
  BY <1>1, CopiedNothing
<1>4. CASE /\ CodecAllowed(call.compression) /\ codec' = ChosenCodec
           /\ form' = (IF ChosenCodec = NoCodec THEN "push" ELSE "push_v2")
           /\ pc' = "open" /\ result' = "none"
  <2>1. codec' \in Codecs \cup {NoCodec} /\ form' \in Pushes /\ form' \in {"push", "push_v2"}
    BY <1>4, <1>c, ChosenFacts DEF Pushes
  <2>2. codec' # NoCodec => Available(codec)' /\ form' = "push_v2"
    <3>1. PICK c : c = ChosenCodec
      OBVIOUS
    <3>2. c # NoCodec => Available(c)
      BY <1>c, <3>1, ChosenFacts
    <3>3. Available(c) => Available(c)'
      BY <1>1 DEF Available, Has
    <3>4. codec' = c
      BY <1>4, <3>1
    <3>. QED  BY <1>4, <3>1, <3>2, <3>3, <3>4 DEF Available, Has
  <2>3. form' = "push_v2" => codec' # NoCodec
    BY <1>4
  <2>4. form' = "push" => call'.compression \notin Codecs
    BY <1>1, <1>4, <1>c, ChosenFacts
  <2>5. Modes'
    BY <1>1, <1>4, <1>c, <2>1, <2>2, <2>3, <2>4 DEF Modes, Left, Pulls, Pushes
  <2>. QED  BY <1>1, <1>2, <1>3, <1>4, <1>c, <2>1, <2>5, OpenNext DEF Pulls, Pushes
<1>5. CASE Return("InvalidArgument") /\ form' = "push" /\ UNCHANGED codec
  <2>1. pc' = "drop" /\ result' = "InvalidArgument" /\ codec' = NoCodec /\ form' \in Pushes
    BY <1>2, <1>5 DEF Return, Pushes
  <2>2. Modes'
    BY <1>1, <1>5, <1>c, <2>1 DEF Modes, Left, Pulls, Pushes
  <2>. QED  BY <1>1, <1>2, <1>3, <1>5, <1>c, <2>1, <2>2, OpenNext DEF Pulls
<1>. QED  BY <1>4, <1>5 DEF PushChoose


\* Stream::open of "sync:".
LEMMA OpenSyncStep ==
  ASSUME SyncInv, OpenSync
  PROVE  SyncInv'
<1>t. SyncTypeOK /\ Modes /\ Pushing /\ Copied /\ NoEntriesStart
  BY DEF SyncInv
<1>1. /\ pc = "open" /\ toDev' = <<>> /\ toHost' = <<>>
      /\ dev' = [st |-> "ready", rest |-> <<>>, tail |-> FALSE, to |-> "path", failed |-> FALSE]
      /\ UNCHANGED <<call, form, codec, last, entries, errored, found, dest, sent, local, dec, up, remote>>
      /\ pc' \in {"request", "drop"} /\ result' = (IF pc' = "request" THEN result ELSE "Transport")
  BY DEF OpenSync, callVars, listVars, pushVars, Goto, Return
<1>2. result = "none" /\ form # "none"
  BY <1>1, <1>t DEF Modes, Left
<1>3. SyncTypeOK'
  <2>1. /\ dev' \in [st : {"ready", "listing", "sending", "storing", "draining", "gone"},
              rest : Seq(Nat \cup Entries), tail : BOOLEAN, to : {"path", "inside"}, failed : BOOLEAN]
        /\ toDev' \in Seq(Reqs) /\ toHost' \in Seq(Fields)
    BY <1>1, EmptySeq
  <2>2. pc' \in {"request", "drop"} /\ result' \in {"none", "Transport"}
    BY <1>1, <1>2
  <2>3. dev'.rest \in RestOf(form')
    BY <1>1, RunEmpty, EmptySeq DEF RestOf
  <2>. QED  BY <1>1, <1>t, <2>1, <2>2, <2>3 DEF SyncTypeOK
<1>4. Modes'
  <2>1. Destination' = Destination /\ (Available(codec) => Available(codec)')
    BY <1>1 DEF Destination, Available, Has
  <2>2. Left' <=> result' # "none"
    BY <1>1, <1>2 DEF Left
  <2>3. pc' \notin {"start", "ret", "local", "input", "data", "okay", "size", "chunk", "decode", "body", "name"}
    BY <1>1
  <2>. QED  BY <1>1, <1>2, <1>t, <2>1, <2>2, <2>3 DEF Modes
<1>5. ~Ok' /\ ~Transferring'
  BY <1>1, <1>2 DEF Ok, Transferring
<1>6. dev'.st = "ready" /\ dev'.rest = <<>> /\ ~dev'.failed /\ ~dev'.tail /\ Answer' = "done"
  BY <1>1 DEF Answer
<1>7. Conversation'
  <2>1. Framed(toHost', form', Answer')
    BY <1>1, FramedEmpty
  <2>2. Place(toHost', pc', last', form', Answer')
    BY <1>1, <1>6 DEF Place
  <2>3. Queued'
    <3>1. \A i \in 1 .. Len(toDev') : FALSE
      <4>1. Len(toDev') = 0
        BY <1>1, EmptySeq
      <4>. QED  BY <4>1
    <3>2. pc' \notin {"input", "data"}
      BY <1>1
    <3>. QED  BY <1>6, <3>1, <3>2 DEF Queued
  <2>. QED  BY <1>5, <2>1, <2>2, <2>3 DEF Conversation
<1>8. Pushing'
  BY <1>1, <1>5, <1>6, <1>t DEF Pushing
<1>9. Copied'
  BY <1>1, <1>5, <1>t, CopiedSame
<1>10. Progress' /\ Finished' /\ Flushed'
  BY <1>1, <1>5, <1>6 DEF Progress, Finished, Flushed
<1>11. NoEntriesStart'
  BY <1>1, <1>t DEF NoEntriesStart
<1>. QED  BY <1>3, <1>4, <1>7, <1>8, <1>9, <1>10, <1>11 DEF SyncInv

\* write_quit.
LEMMA WriteQuitStep ==
  ASSUME SyncInv, WriteQuit
  PROVE  SyncInv'
<1>t. /\ SyncTypeOK /\ Modes /\ Pushing /\ Copied /\ Finished /\ Flushed
      /\ Queued /\ Place(toHost, pc, last, form, Answer)
  BY DEF SyncInv, Conversation
<1>1. /\ pc = "quit" /\ pc' = "drop" /\ result' = "ok" /\ toDev' = Append(toDev, Req("QUIT", 0))
      /\ UNCHANGED <<call, form, codec, last, entries, errored, found, dest, sent, local, dec, up, toHost, dev, remote>>
  BY DEF WriteQuit, callVars, listVars, pushVars, Return
<1>2. toHost = <<>> /\ Answer = "done" /\ dev.st = "ready" /\ toDev = <<>> /\ ~dev.failed
  <2>1. toHost = <<>> /\ Answer = "done"
    BY <1>1, <1>t DEF Place
  <2>2. dev.st = "ready" /\ toDev = <<>>
    BY <1>t, <2>1, AnswerFacts
  <2>. QED  BY <1>t, <2>1, <2>2 DEF Queued
<1>3. /\ toDev' \in Seq(Reqs) /\ Len(toDev') = 1 /\ toDev' # <<>> /\ toDev'[1].id = "QUIT"
  <2>1. PICK r : r = Req("QUIT", 0)
    OBVIOUS
  <2>2. r \in Reqs /\ r.id = "QUIT" /\ toDev \in Seq(Reqs)
    BY <1>t, <2>1, ReqTypes, ReqParts DEF SyncTypeOK
  <2>3. Len(toDev) = 0
    BY <1>2, EmptySeq
  <2>4. /\ toDev' \in Seq(Reqs) /\ Len(toDev') = Len(toDev) + 1 /\ toDev' # <<>> /\ toDev'[Len(toDev) + 1] = r
    BY <1>1, <2>1, <2>2, Appended
  <2>. QED  BY <2>2, <2>3, <2>4
<1>4. result = "none" /\ form # "none"
  BY <1>1, <1>t DEF Modes, Left
<1>5. SyncTypeOK'
  BY <1>1, <1>3, <1>t DEF SyncTypeOK
<1>6. Modes'
  <2>1. Destination' = Destination /\ (Available(codec) => Available(codec)')
    BY <1>1 DEF Destination, Available, Has
  <2>2. Left' /\ result' # "none"
    BY <1>1 DEF Left
  <2>3. pc' = "drop"
    BY <1>1
  <2>. QED  BY <1>1, <1>4, <1>t, <2>1, <2>2, <2>3 DEF Modes
<1>7. Answer' = "over" /\ ~dev'.failed /\ toHost' = <<>>
  BY <1>1, <1>2, <1>3 DEF Answer
<1>8. Conversation'
  <2>1. Framed(toHost', form', Answer') /\ Place(toHost', pc', last', form', Answer')
    BY <1>1, <1>7, FramedEmpty DEF Place
  <2>2. Queued'
    <3>1. \A i \in 1 .. Len(toDev') : toDev'[i].id = "QUIT" /\ Len(toDev') = 1
      <4>1. \A i \in 1 .. 1 : i = 1
        OBVIOUS
      <4>. QED  BY <1>3, <4>1
    <3>2. pc' \notin {"input", "data"} /\ dev'.st = "ready" /\ ~dev'.failed
      BY <1>1, <1>2
    <3>. QED  BY <3>1, <3>2 DEF Queued
  <2>. QED  BY <1>7, <2>1, <2>2 DEF Conversation
<1>9. Pushing'
  <2>1. form \in Pushes => Stored
    BY <1>1, <1>2, <1>t DEF Pushing
  <2>2. Stored => Stored'
    BY <1>1 DEF Stored
  <2>. QED  BY <1>1, <1>7, <1>t, <2>1, <2>2 DEF Pushing
<1>10. Copied'
  BY <1>1, <1>t, CopiedSame
<1>11. Progress'
  BY <1>1 DEF Progress, Transferring
<1>12. Finished'
  <2>1. CASE form \in {"list"} \cup Pulls
    <3>1. PICK n : n = Total
      OBVIOUS
    <3>2. TakenUpTo(n)
      BY <1>1, <1>t, <2>1, <3>1 DEF Finished
    <3>3. TakenUpTo(n)'
      BY <1>1, <3>2, TakenSame
    <3>4. Total' = n
      BY <1>1, <3>1, CountingSame
    <3>5. TakenUpTo(Total)'
      BY <3>3, <3>4 DEF TakenUpTo, ListedUpTo, PulledUpTo
    <3>. QED  BY <3>5 DEF Finished
  <2>2. CASE form \notin {"list"} \cup Pulls
    BY <1>1, <2>2 DEF Finished
  <2>. QED  BY <2>1, <2>2
<1>13. Flushed'
  BY <1>1, <1>2, <1>t DEF Flushed, Transferring
<1>14. NoEntriesStart'
  BY <1>1 DEF NoEntriesStart
<1>. QED  BY <1>5, <1>6, <1>8, <1>9, <1>10, <1>11, <1>12, <1>13, <1>14 DEF SyncInv

\* The destructors.
LEMMA DropStep ==
  ASSUME SyncInv, Drop
  PROVE  SyncInv'
<1>t. /\ SyncTypeOK /\ Modes /\ Conversation /\ Pushing /\ Copied /\ Finished /\ Flushed
  BY DEF SyncInv
<1>1. /\ pc = "drop" /\ pc' = "ret" /\ ~(form = "stat" /\ call.op = "push" /\ result = "ok")
      /\ UNCHANGED <<call, form, codec, last, result, entries, errored, found, dest, sent, dec, up, toDev, toHost, dev, remote>>
      /\ \/ local' = [local EXCEPT !.file = @ \o local.buf, !.buf = <<>>]
         \/ local.buf # <<>> /\ local' = [local EXCEPT !.lost = local.buf, !.buf = <<>>]
  BY DEF Drop, callVars, listVars, pushVars, linkVars
<1>p. PICK f, b, l : f = local.file /\ b = local.buf /\ l = local.lost
  OBVIOUS
<1>2. /\ f \in Blocks /\ b \in Blocks /\ l \in Blocks /\ f \o b \in Blocks /\ <<>> \in Blocks
      /\ Len(f) \in Nat /\ Len(b) \in Nat /\ Len(l) \in Nat /\ Len(f \o b) = Len(f) + Len(b)
      /\ Len(<<>>) = 0
  <2>1. f \in Blocks /\ b \in Blocks /\ l \in Blocks
    BY <1>p, <1>t DEF SyncTypeOK
  <2>2. <<>> \in Blocks /\ Len(<<>>) = 0
    BY RunEmpty
  <2>3. Len(l) \in Nat
    BY <2>1, LenProperties DEF Blocks
  <2>. QED  BY <2>1, <2>2, <2>3, RunJoined
<1>l. local \in [file : Blocks, open : BOOLEAN, buf : Blocks, lost : Blocks]
  BY <1>t DEF SyncTypeOK
<1>3. /\ local' \in [file : Blocks, open : BOOLEAN, buf : Blocks, lost : Blocks]
      /\ local'.open = local.open /\ local'.buf = <<>>
      /\ \/ local'.file = f \o b /\ local'.lost = l
         \/ b # <<>> /\ local'.file = f /\ local'.lost = b
  <2>1. CASE local' = [local EXCEPT !.file = @ \o local.buf, !.buf = <<>>]
    <3>1. local' = [local EXCEPT !.file = f \o b, !.buf = <<>>]
      BY <1>p, <2>1
    <3>. QED  BY <1>2, <1>l, <1>p, <3>1
  <2>2. CASE local.buf # <<>> /\ local' = [local EXCEPT !.lost = local.buf, !.buf = <<>>]
    <3>1. b # <<>> /\ local' = [local EXCEPT !.lost = b, !.buf = <<>>]
      BY <1>p, <2>2
    <3>. QED  BY <1>2, <1>l, <1>p, <3>1
  <2>. QED  BY <1>1, <2>1, <2>2
<1>4. SyncTypeOK'
  BY <1>1, <1>3, <1>t DEF SyncTypeOK
<1>5. Modes'
  <2>1. Destination' = Destination /\ (Available(codec) => Available(codec)')
    BY <1>1 DEF Destination, Available, Has
  <2>2. Left' /\ Left
    BY <1>1 DEF Left
  <2>3. local'.buf = <<>>
    BY <1>3
  <2>. QED  BY <1>1, <1>t, <2>1, <2>2, <2>3 DEF Modes
<1>6. Answer' = Answer /\ (Ok' <=> Ok) /\ ~Transferring'
  BY <1>1, AnswerSame DEF Ok, Left, Transferring
<1>7. Conversation'
  <2>1. Queued'
    BY <1>1, <1>t, QueuedSame DEF Conversation
  <2>2. Place(toHost', pc', last', form', Answer')
    BY <1>1 DEF Place
  <2>. QED  BY <1>1, <1>6, <1>t, <2>1, <2>2 DEF Conversation
<1>8. Pushing'
  <2>1. Stored' <=> Stored
    BY <1>1 DEF Stored
  <2>. QED  BY <1>1, <1>6, <1>t, <2>1 DEF Pushing
<1>9. ASSUME call.op = "pull", local.open
      PROVE  /\ Run(f, 0) /\ Run(b, Len(f)) /\ l = <<>> /\ Len(f) + Len(b) <= Len(remote.path.data)
  <2>1. /\ Run(f, 0) /\ Run(b, Len(f)) /\ l = <<>> /\ Len(f) + Len(b) + Len(l) <= Len(remote.path.data)
    BY <1>1, <1>9, <1>p, <1>t DEF Copied
  <2>2. Len(f) + Len(b) + 0 = Len(f) + Len(b)
    BY <1>2
  <2>. QED  BY <1>2, <2>1, <2>2
<1>10. call.op = "pull" => InFile' = InFile
  <2>1. CASE call.op = "pull" /\ local.open
    <3>1. InFile' = Len(local'.file) + Len(local'.buf) + Len(local'.lost)
      BY <1>3, <2>1 DEF InFile
    <3>2. InFile = Len(f) + Len(b) + Len(l)
      BY <1>p, <2>1 DEF InFile
    <3>3. l = <<>>
      BY <1>9, <2>1
    <3>4. CASE local'.file = f \o b /\ local'.lost = l
      <4>1. InFile' = (Len(f) + Len(b)) + 0 + 0 /\ InFile = Len(f) + Len(b) + 0
        BY <1>2, <1>3, <3>1, <3>2, <3>3, <3>4
      <4>. QED  BY <1>2, <4>1
    <3>5. CASE local'.file = f /\ local'.lost = b
      <4>1. InFile' = Len(f) + 0 + Len(b) /\ InFile = Len(f) + Len(b) + 0
        BY <1>2, <1>3, <3>1, <3>2, <3>3, <3>5
      <4>. QED  BY <1>2, <4>1
    <3>. QED  BY <1>3, <3>4, <3>5
  <2>2. CASE ~local.open
    BY <1>3, <2>2 DEF InFile
  <2>. QED  BY <2>1, <2>2
<1>11. Copied'
  <2>1. CASE call.op # "pull"
    BY <1>1, <2>1, CopiedNothing
  <2>2. CASE call.op = "pull"
    <3>1. /\ remote.path.kind # "dir" /\ Run(remote.path.data, 0)
          /\ remote.path.kind = "file" => remote.path.data = Data(call.size)
          /\ Ok => local.open
      BY <1>t, <2>2 DEF Copied
    <3>2. CASE local.open
      <4>1. Run(f, 0) /\ Run(b, Len(f)) /\ l = <<>> /\ Len(f) + Len(b) <= Len(remote.path.data)
        BY <1>9, <2>2, <3>2
      <4>2. Run(f \o b, 0)
        <5>1. 0 + Len(f) = Len(f) /\ 0 \in Nat
          BY <1>2
        <5>. QED  BY <1>2, <4>1, <5>1, RunJoined
      <4>3. \A n : Run(<<>>, n)
        BY RunEmpty
      <4>4. Run(local'.file, 0) /\ Run(local'.buf, Len(local'.file)) /\ Run(local'.lost, Len(local'.file))
        BY <1>3, <4>1, <4>2, <4>3
      <4>5. Len(local'.file) + Len(local'.buf) + Len(local'.lost) <= Len(remote.path.data)
        <5>1. InFile = Len(f) + Len(b) + Len(l)
          BY <1>p, <3>2 DEF InFile
        <5>2. InFile = Len(f) + Len(b)
          BY <1>2, <4>1, <5>1
        <5>3. InFile' = Len(local'.file) + Len(local'.buf) + Len(local'.lost)
          BY <1>3, <3>2 DEF InFile
        <5>. QED  BY <1>10, <2>2, <4>1, <5>2, <5>3
      <4>. QED  BY <1>1, <1>3, <1>6, <3>1, <3>2, <4>4, <4>5 DEF Copied, Run
    <3>3. CASE ~local.open
      <4>1. f = OldData /\ b = <<>> /\ l = <<>>
        BY <1>p, <1>t, <2>2, <3>3 DEF Copied
      <4>2. f \o <<>> = f
        BY <1>2, ConcatEmptySeq DEF Blocks
      <4>3. local'.file = OldData /\ local'.buf = <<>> /\ local'.lost = <<>> /\ ~local'.open
        BY <1>3, <3>3, <4>1, <4>2
      <4>. QED  BY <1>1, <1>6, <3>1, <3>3, <4>3 DEF Copied, Run
    <3>. QED  BY <3>2, <3>3
  <2>. QED  BY <2>1, <2>2
<1>12. Finished'
  <2>. SUFFICES ASSUME form \in {"list"} \cup Pulls, Ok PROVE TakenUpTo(Total)'
    BY <1>1, <1>6 DEF Finished
  <2>1. PICK n : n = Total
    OBVIOUS
  <2>2. TakenUpTo(n)
    BY <1>t, <2>1 DEF Finished
  <2>3. TakenUpTo(n)'
    <3>1. CASE form = "list"
      BY <1>1, <2>2, <3>1 DEF TakenUpTo, ListedUpTo
    <3>2. CASE form # "list"
      <4>1. call.op = "pull"
        BY <1>t, <3>2 DEF Modes
      <4>2. Out' = Out /\ InFile' = InFile /\ pc' # "decode" /\ pc # "decode"
        BY <1>1, <1>10, <4>1 DEF Out
      <4>3. PulledUpTo(n)
        BY <2>2, <3>2 DEF TakenUpTo
      <4>4. PulledUpTo(n)'
        BY <1>1, <4>2, <4>3 DEF PulledUpTo, Run, Expand
      <4>. QED  BY <1>1, <3>2, <4>4 DEF TakenUpTo
    <3>. QED  BY <3>1, <3>2
  <2>4. Total' = n
    BY <1>1, <2>1, CountingSame
  <2>. QED  BY <2>3, <2>4 DEF TakenUpTo, ListedUpTo, PulledUpTo
<1>13. Flushed'
  BY <1>1, <1>6, <1>t DEF Flushed
<1>14. Progress' /\ NoEntriesStart'
  BY <1>1, <1>6 DEF Progress, NoEntriesStart
<1>. QED  BY <1>4, <1>5, <1>7, <1>8, <1>11, <1>12, <1>13, <1>14 DEF SyncInv


-----------------------------------------------------------------------------
(* Requests.                                                                *)

\* Before the first answer nothing has been counted.
LEMMA NothingTaken ==
  ASSUME SyncTypeOK, UNCHANGED <<call, form, remote>>, toHost' = <<>>, dev'.st = "ready", HostAt(0)'
  PROVE  Progress'
<1>1. PICK pos : pos = [i \in 0 .. 0 |-> 0]
  OBVIOUS
<1>2. Len(toHost') = 0 /\ Total' \in Nat
  <2>1. Total' = Total /\ Total \in Nat
    BY TotalNat, CountingSame
  <2>. QED  BY <2>1, EmptySeq
<1>3. pos[0] = 0 /\ pos \in [0 .. 0 -> 0 .. Total']
  BY <1>1, <1>2
<1>4. pos \in Positions(toHost)' /\ Counting(toHost, pos)'
  BY <1>2, <1>3 DEF Positions, Counting
<1>5. DeviceAt(0)'
  BY DEF DeviceAt
<1>6. DeviceAt(pos[Len(toHost)])' /\ HostAt(pos[0])'
  <2>1. pos[Len(toHost')] = 0
    BY <1>2, <1>3
  <2>. QED  BY <1>3, <1>5, <2>1 DEF DeviceAt, HostAt, TakenUpTo, ListedUpTo, PulledUpTo
<1>. QED  BY <1>4, <1>6 DEF Progress

\* A request is written.
LEMMA RequestStep ==
  ASSUME SyncInv, pc = "request", NEW r \in Reqs, r.id = RequestOf(form),
         r.id = "RECV" => r.v = codec, r.id = "SEND" => r.v = dest,
         toDev' = Append(toDev, r), UNCHANGED result,
         pc' = (IF form \in Pulls THEN "local" ELSE IF form \in Pushes THEN "input" ELSE "id"),
         UNCHANGED <<call, form, codec, last, entries, errored, found, dest, sent, local, dec, up, toHost, dev, remote>>
  PROVE  SyncInv'
<1>t. /\ SyncTypeOK /\ Modes /\ Pushing /\ Copied /\ NoEntriesStart
      /\ Queued /\ Place(toHost, pc, last, form, Answer)
  BY DEF SyncInv, Conversation
<1>1. toHost = <<>> /\ Answer = "done" /\ dev.st = "ready" /\ toDev = <<>> /\ ~dev.failed
  <2>1. toHost = <<>> /\ Answer = "done"
    BY <1>t DEF Place
  <2>2. dev.st = "ready" /\ toDev = <<>>
    BY <1>t, <2>1, AnswerFacts
  <2>. QED  BY <1>t, <2>1, <2>2 DEF Queued
<1>2. /\ toDev' \in Seq(Reqs) /\ Len(toDev') = 1 /\ toDev' # <<>> /\ toDev'[1] = r
  <2>1. toDev \in Seq(Reqs) /\ Len(toDev) = 0
    BY <1>1, <1>t, EmptySeq DEF SyncTypeOK
  <2>2. /\ toDev' \in Seq(Reqs) /\ Len(toDev') = Len(toDev) + 1 /\ toDev' # <<>> /\ toDev'[Len(toDev) + 1] = r
    BY <2>1, Appended
  <2>. QED  BY <2>1, <2>2
<1>3. /\ result = "none" /\ result' = "none" /\ form \in {"stat", "list"} \cup Pulls \cup Pushes
      /\ r.id \in {"LIST", "STAT", "RECV", "SEND"}
      /\ pc' \in {"local", "input", "id"} /\ ~Ok' /\ ~Left'
      /\ pc' = "local" <=> form \in Pulls
      /\ pc' = "input" <=> form \in Pushes
      /\ r.id = "SEND" <=> form \in Pushes
  BY <1>t DEF Modes, Left, SyncTypeOK, RequestOf, Ok, Pulls, Pushes
<1>4. SyncTypeOK'
  BY <1>2, <1>3, <1>t DEF SyncTypeOK
<1>5. Modes'
  <2>1. Destination' = Destination /\ (Available(codec) => Available(codec)')
    BY DEF Destination, Available, Has
  <2>. QED  BY <1>3, <1>t, <2>1 DEF Modes
<1>6. Answer' = "owed"
  BY <1>1, <1>2, <1>3 DEF Answer
<1>7. Conversation'
  <2>1. Framed(toHost', form', Answer')
    BY <1>1, FramedEmpty
  <2>2. AtFrame(toHost', 1, "owed")
    <3>1. Len(toHost') = 0 /\ ~(1 <= 0)
      BY <1>1, EmptySeq
    <3>. QED  BY <3>1 DEF AtFrame
  <2>3. Place(toHost', pc', last', form', Answer')
    BY <1>3, <1>6, <2>2 DEF Place
  <2>4. Queued'
    <3>1. \A i \in 1 .. Len(toDev') : i = 1 /\ toDev'[i] = r
      <4>1. \A i \in 1 .. 1 : i = 1
        OBVIOUS
      <4>. QED  BY <1>2, <4>1
    <3>2. dev'.st = "ready" /\ ~dev'.failed /\ form' = form /\ form # "none"
      BY <1>1, <1>3 DEF Pulls, Pushes
    <3>3. RequestOf(form)' = RequestOf(form)
      BY DEF RequestOf
    <3>4. pc' \in {"input", "data"} => toDev' # <<>> /\ toDev'[1].id = "SEND"
      BY <1>2, <1>3
    <3>. QED  BY <1>3, <3>1, <3>2, <3>3, <3>4 DEF Queued
  <2>. QED  BY <1>3, <2>1, <2>3, <2>4 DEF Conversation
<1>8. Pushing'
  <2>1. CASE form \notin Pushes
    BY <1>t, <2>1, PushingNothing
  <2>2. CASE form \in Pushes
    <3>1. dev'.rest = <<>> /\ sent' = 0 /\ dev'.st = "ready" /\ pc' = "input"
      BY <1>1, <1>3, <1>t, <2>2 DEF Pushing
    <3>2. Len(dev'.rest) = 0 /\ Base' = 0 - 1 /\ (0 - 1) + 1 = 0
      <4>1. Len(dev'.rest) = 0
        BY <3>1, EmptySeq
      <4>. QED  BY <3>1, <4>1 DEF Base
    <3>3. Base' + Len(toDev') = sent'
      BY <1>2, <3>1, <3>2
    <3>4. \A i \in 1 .. Len(toDev') : toDev'[i].id = "SEND"
      <4>1. \A i \in 1 .. 1 : i = 1
        OBVIOUS
      <4>. QED  BY <1>2, <1>3, <2>2, <4>1
    <3>5. \A j \in 1 .. Len(dev'.rest) : FALSE
      BY <3>2
    <3>. QED  BY <1>3, <1>6, <3>1, <3>3, <3>4, <3>5 DEF Pushing
  <2>. QED  BY <2>1, <2>2
<1>9. Copied'
  BY <1>3, <1>t DEF Copied, Run, Modes, Pulls, Pushes
<1>10. Progress'
  <2>1. CASE form \notin {"list"} \cup Pulls
    BY <2>1, TransferringNothing
  <2>2. CASE form = "list"
    <3>1. entries' = <<>> /\ form' = "list" /\ pc' = "id"
      BY <1>3, <1>t, <2>2 DEF NoEntriesStart, Pulls, Pushes
    <3>2. ListedUpTo(0)'
      <4>1. Len(entries') = 0 /\ \A i \in 1 .. 0 : FALSE
        BY <3>1, EmptySeq
      <4>. QED  BY <4>1 DEF ListedUpTo
    <3>3. HostAt(0)'
      BY <3>1, <3>2 DEF HostAt, TakenUpTo
    <3>. QED  BY <1>1, <1>t, <3>3, NothingTaken
  <2>3. CASE form \in Pulls
    <3>1. /\ call.op = "pull" /\ pc' = "local" /\ form' # "list"
      BY <1>3, <1>t, <2>3 DEF Modes, Pulls
    <3>2. ~local'.open /\ dec'.held = <<>> /\ dec'.in = <<>>
      BY <1>t, <3>1 DEF Copied
    <3>3. InFile' = 0 /\ 0 \in Nat /\ 0 = 0 + Len(<<>>) /\ <<>> \in Blocks /\ Run(<<>>, 0) /\ pc' # "decode"
      BY <3>1, <3>2, RunEmpty DEF InFile
    <3>4. PulledUpTo(0)'
      BY <3>2, <3>3, IdlePulled
    <3>5. HostAt(0)'
      BY <3>1, <3>4 DEF HostAt, TakenUpTo
    <3>. QED  BY <1>1, <1>t, <3>5, NothingTaken
  <2>. QED  BY <2>1, <2>2, <2>3
<1>11. Finished' /\ NoEntriesStart'
  BY <1>3 DEF Finished, NoEntriesStart
<1>12. Flushed'
  <2>1. dev'.st # "sending" /\ \A i \in 1 .. Len(toHost') : FALSE
    <3>1. Len(toHost') = 0
      BY <1>1, EmptySeq
    <3>. QED  BY <1>1, <3>1
  <2>. QED  BY <1>3, <2>1 DEF Flushed
<1>. QED  BY <1>4, <1>5, <1>7, <1>8, <1>9, <1>10, <1>11, <1>12 DEF SyncInv


\* The six requests.
LEMMA RequestsStep ==
  ASSUME SyncInv, pc = "request",
         ListRequest \/ StatRequest \/ PullRequest \/ PullV2Request \/ PushRequest \/ PushV2Request
  PROVE  SyncInv'
<1>t. SyncTypeOK
  BY DEF SyncInv
<1>1. ASSUME NEW r \in Reqs, r.id = RequestOf(form),
             r.id = "RECV" => r.v = codec, r.id = "SEND" => r.v = dest, NEW p,
             p = (IF form \in Pulls THEN "local" ELSE IF form \in Pushes THEN "input" ELSE "id"),
             Write(r, p), UNCHANGED <<pushVars, local>>
      PROVE  SyncInv'
  <2>1. /\ toDev' = Append(toDev, r) /\ UNCHANGED result /\ pc' = p
        /\ UNCHANGED <<call, form, codec, last, entries, errored, found, dest, sent, local, dec, up, toHost, dev, remote>>
    BY <1>1 DEF Write, Goto, callVars, listVars, pushVars
  <2>. QED  BY <1>1, <2>1, RequestStep
<1>2. CASE ListRequest
  <2>1. PICK r : r = Req("LIST", Has("ls_v2"))
    OBVIOUS
  <2>2. r \in Reqs /\ r.id = "LIST" /\ form = "list" /\ Write(r, "id") /\ UNCHANGED <<pushVars, local>>
    <3>1. Has("ls_v2") \in BOOLEAN
      BY DEF Has
    <3>. QED  BY <1>2, <2>1, <3>1, ReqTypes, ReqParts DEF ListRequest
  <2>. QED  BY <1>1, <2>2 DEF RequestOf, Pulls, Pushes
<1>3. CASE StatRequest
  <2>1. PICK r : r = Req("STAT", Has("stat_v2"))
    OBVIOUS
  <2>2. r \in Reqs /\ r.id = "STAT" /\ form = "stat" /\ Write(r, "id") /\ UNCHANGED <<pushVars, local>>
    <3>1. Has("stat_v2") \in BOOLEAN
      BY DEF Has
    <3>. QED  BY <1>3, <2>1, <3>1, ReqTypes, ReqParts DEF StatRequest
  <2>. QED  BY <1>1, <2>2 DEF RequestOf, Pulls, Pushes
<1>4. CASE PullRequest \/ PullV2Request
  <2>1. form \in Pulls /\ form # "list" /\ form # "stat"
    BY <1>4 DEF PullRequest, PullV2Request, Pulls
  <2>2. form = "pull" => codec = NoCodec
    BY <2>1, PullFacts
  <2>3. PICK r : r = Req("RECV", codec)
    OBVIOUS
  <2>4. r \in Reqs /\ r.id = "RECV" /\ r.v = codec
    BY <1>t, <2>3, ReqTypes, ReqParts DEF SyncTypeOK
  <2>5. Write(r, "local") /\ UNCHANGED <<pushVars, local>>
    BY <1>4, <2>2, <2>3, Zenon DEF PullRequest, PullV2Request
  <2>. QED  BY <1>1, <2>1, <2>4, <2>5 DEF RequestOf
<1>5. CASE PushRequest \/ PushV2Request
  <2>1. form \in Pushes /\ form \notin Pulls /\ form # "list" /\ form # "stat"
    BY <1>5 DEF PushRequest, PushV2Request, Pushes, Pulls
  <2>3. PICK r : r = Req("SEND", dest)
    OBVIOUS
  <2>4. r \in Reqs /\ r.id = "SEND" /\ r.v = dest
    BY <1>t, <2>3, ReqTypes, ReqParts DEF SyncTypeOK
  <2>5. Write(r, "input") /\ UNCHANGED <<pushVars, local>>
    BY <1>5, <2>3, Zenon DEF PushRequest, PushV2Request
  <2>. QED  BY <1>1, <2>1, <2>4, <2>5 DEF RequestOf
<1>. QED  BY <1>2, <1>3, <1>4, <1>5

-----------------------------------------------------------------------------
(* push.                                                                    *)

\* What holds of every push under way.
LEMMA PushFacts ==
  ASSUME SyncInv, form \in Pushes
  PROVE  call.op = "push" /\ form \notin {"none", "list", "stat"} /\ form \notin Pulls
<1>1. Modes
  BY DEF SyncInv
<1>. QED  BY <1>1 DEF Modes, Pushes, Pulls

\* push opens the local file.
LEMMA OpenInputStep ==
  ASSUME SyncInv, OpenInput
  PROVE  SyncInv'
<1>t. SyncTypeOK /\ Modes
  BY DEF SyncInv
<1>1. /\ pc = "input"
      /\ UNCHANGED <<call, form, codec, last, entries, errored, found, dest, sent, local, dec, up, toDev, toHost, dev, remote>>
  BY DEF OpenInput, callVars, listVars, pushVars, linkVars
<1>2. form \in Pushes
  BY <1>1, <1>t DEF Modes
<1>3. call.op = "push" /\ form \notin {"none", "list"} /\ form \notin Pulls
  BY <1>2, PushFacts
<1>4. CASE Goto("data")
  <2>1. pc' = "data" /\ UNCHANGED result
    BY <1>4 DEF Goto
  <2>2. Copied' /\ Progress' /\ Flushed'
    BY <1>1, <1>3, CopiedNothing, TransferringNothing
  <2>3. /\ local' \in [file : Blocks, open : BOOLEAN, buf : Blocks, lost : Blocks]
        /\ dec' \in [in : Seq(Blocks), out : Blocks, held : Blocks]
    BY <1>1, <1>t DEF SyncTypeOK
  <2>. QED  BY <1>1, <2>1, <2>2, <2>3, StayOn
<1>5. CASE Return("Io")
  <2>1. pc' = "drop" /\ result' = "Io" /\ ~Left
    BY <1>1, <1>5 DEF Return, Left
  <2>. QED  BY <1>1, <1>3, <2>1, Leaving
<1>. QED  BY <1>4, <1>5 DEF OpenInput

\* read_status: OKAY and its length field, or FAIL.
LEMMA ReadStatusStep ==
  ASSUME SyncInv, ReadStatus
  PROVE  SyncInv'
<1>t. SyncTypeOK /\ Modes /\ Place(toHost, pc, last, form, Answer)
  BY DEF SyncInv, Conversation
<1>0. ASSUME form \in Pushes, TookField, UNCHANGED <<result, entries, found, local, dec>>, pc \in ReadingAt,
             pc' \in {"okay", "quit"}, last' \in Ids \cup {"none"},
             Place(Tail(toHost), pc', last', form, Answer)
      PROVE  SyncInv'
  <2>1. call.op # "pull" /\ form' = form /\ call' = call /\ form \notin {"list"} \cup Pulls
    BY <1>0, PushFacts DEF TookField
  <2>2. Copied' /\ Progress' /\ Finished' /\ Flushed'
    BY <2>1, CopiedNothing, TransferringNothing
  <2>3. /\ local' \in [file : Blocks, open : BOOLEAN, buf : Blocks, lost : Blocks]
        /\ dec' \in [in : Seq(Blocks), out : Blocks, held : Blocks] /\ entries' \in Seq(Nat)
    BY <1>0, <1>t DEF SyncTypeOK
  <2>. QED  BY <1>0, <2>2, <2>3, ReadOn
<1>1. CASE form \in {"push", "push_v2"} /\ ReadId(LAMBDA v : IF v = "OKAY" THEN Goto("okay") ELSE Return("Protocol"))
  <2>1. /\ pc = "id" /\ form \in Pushes /\ UNCHANGED <<listVars, local, dec>>
        /\ toHost # <<>> /\ toHost' = Tail(toHost)
        /\ UNCHANGED <<callVars, pushVars, up, toDev, dev, remote>>
        /\ IF Head(toHost).k = "id"
           THEN /\ last' = Head(toHost).v
                /\ IF Head(toHost).v = "FAIL" THEN Goto("length")
                   ELSE IF Head(toHost).v = "OKAY" THEN Goto("okay") ELSE Return("Protocol")
           ELSE Return("Protocol") /\ UNCHANGED last
    BY <1>1, Zenon DEF ReadId, Read, Pushes
  <2>2. TookField /\ Head(toHost) = toHost[1]
    BY <1>t, <2>1, TookFields
  <2>3. toHost[1].k = "id" /\ toHost[1].v \in Ids /\ Rest(Tail(toHost), 1, toHost[1].v, form, Answer)
    BY <2>1, IdComes
  <2>4. toHost[1].v \in {"FAIL", "OKAY"}
    <3>1. form \notin {"none", "list", "stat"} /\ form \notin Pulls
      BY <2>1, PushFacts
    <3>. QED  BY <2>3, <3>1, Zenon DEF Rest, Ids
  <2>5. CASE toHost[1].v = "FAIL"
    <3>1. last' = toHost[1].v /\ last' = "FAIL" /\ pc' = "length" /\ UNCHANGED result
      BY <2>1, <2>2, <2>3, <2>5 DEF Goto
    <3>. QED  BY <2>1, <2>2, <3>1, FailIdStep
  <2>6. CASE toHost[1].v = "OKAY"
    <3>1. last' = "OKAY" /\ pc' = "okay" /\ UNCHANGED result
      BY <2>1, <2>2, <2>3, <2>6 DEF Goto
    <3>2. Place(Tail(toHost), "okay", last', form, Answer)
      BY <2>3, <2>6 DEF Place
    <3>3. last' \in Ids \cup {"none"} /\ pc \in ReadingAt /\ UNCHANGED <<entries, found, local, dec>>
      BY <2>1, <3>1 DEF Ids, ReadingAt, listVars
    <3>. QED  BY <1>0, <2>1, <2>2, <3>1, <3>2, <3>3
  <2>. QED  BY <2>4, <2>5, <2>6
<1>2. CASE /\ pc = "okay" /\ Read("length", LAMBDA v : Goto("quit"), <<>>)
           /\ UNCHANGED <<last, listVars, local, dec>>
  <2>1. /\ toHost # <<>> /\ toHost' = Tail(toHost)
        /\ UNCHANGED <<callVars, pushVars, up, toDev, dev, remote>>
        /\ Head(toHost).k = "length" => Goto("quit")
    BY <1>2, Zenon DEF Read
  <2>2. TookField /\ Head(toHost) = toHost[1] /\ Len(Tail(toHost)) = Len(toHost) - 1 /\ Tail(toHost) \in Seq(Fields)
    BY <1>t, <2>1, TookFields, FirstField
  <2>3. form \in Pushes /\ Len(toHost) = 1 /\ toHost[1].k = "length" /\ Answer = "done"
    <3>1. Rest(toHost, 1, "OKAY", form, Answer)
      BY <1>2, <1>t DEF Place
    <3>. QED  BY <3>1 DEF Rest
  <2>4. Tail(toHost) = <<>>
    <3>1. Len(Tail(toHost)) = 0
      BY <2>2, <2>3
    <3>. QED  BY <2>2, <3>1, EmptyLen
  <2>5. pc' = "quit" /\ UNCHANGED result
    BY <2>1, <2>2, <2>3 DEF Goto
  <2>6. Place(Tail(toHost), pc', last', form, Answer)
    BY <2>3, <2>4, <2>5 DEF Place
  <2>7. last' \in Ids \cup {"none"} /\ pc \in ReadingAt /\ UNCHANGED <<entries, found, local, dec>>
    BY <1>2, <1>t DEF SyncTypeOK, ReadingAt, listVars
  <2>. QED  BY <1>0, <2>2, <2>3, <2>5, <2>6, <2>7
<1>. QED  BY <1>1, <1>2, Zenon DEF ReadStatus


\* A DATA block or DONE is written behind the request, whether the device still
\* listens or not.
LEMMA PushWrites ==
  ASSUME SyncInv, pc = "data", form \in Pushes, NEW r \in Reqs, toDev' = Append(toDev, r), UNCHANGED result,
         \/ r.id = "DATA" /\ r.v = <<sent + 1>> /\ pc' = "data" /\ sent' = sent + 1
         \/ r.id = "DONE" /\ sent = call.size /\ pc' = "id" /\ sent' = sent,
         UNCHANGED <<call, form, codec, last, entries, errored, found, dest, local, dec, up, toHost, dev, remote>>
  PROVE  SyncInv'
<1>t. /\ SyncTypeOK /\ Modes /\ Pushing /\ NoEntriesStart /\ Queued
      /\ Framed(toHost, form, Answer) /\ Place(toHost, pc, last, form, Answer)
  BY DEF SyncInv, Conversation
<1>0. call.op = "push" /\ form \notin {"none", "list", "stat"} /\ form \notin Pulls /\ result = "none" /\ result' = "none"
  <2>1. result = "none"
    BY <1>t DEF Modes, Left
  <2>. QED  BY <2>1, PushFacts
<1>1. PICK m : m = Len(toDev)
  OBVIOUS
<1>2. /\ m \in Nat /\ toDev' \in Seq(Reqs) /\ Len(toDev') = m + 1 /\ toDev' # <<>>
      /\ \A i \in 1 .. m : toDev'[i] = toDev[i]
      /\ toDev'[m + 1] = r
  <2>1. toDev \in Seq(Reqs)
    BY <1>t DEF SyncTypeOK
  <2>. QED  BY <1>1, <2>1, Appended
<1>3. /\ dev.st \in {"storing", "draining"} \/ (dev.st = "ready" /\ toDev # <<>> /\ toDev[1].id = "SEND")
      /\ dev.st = "draining" => dev.failed
      /\ dev.failed => dev.st \in {"draining", "gone"}
  BY <1>t DEF Queued
<1>4. dev.st = "ready" => m >= 1 /\ toDev'[1] = toDev[1]
  <2>1. dev.st = "ready" => m # 0
    <3>1. toDev \in Seq(Reqs)
      BY <1>t DEF SyncTypeOK
    <3>. QED  BY <1>1, <1>3, <3>1, EmptyLen
  <2>2. m # 0 => m >= 1 /\ 1 \in 1 .. m
    BY <1>2
  <2>. QED  BY <1>2, <2>1, <2>2
<1>5. Answer' = Answer /\ Answer \in {"owed", "failed"}
  <2>1. CASE dev.st = "storing"
    BY <2>1 DEF Answer
  <2>2. CASE dev.st = "draining"
    BY <1>3, <2>2 DEF Answer
  <2>3. CASE dev.st = "ready"
    <3>1. toDev # <<>> /\ toDev[1].id = "SEND" /\ toDev' # <<>> /\ toDev'[1].id = "SEND" /\ dev'.st = "ready"
      BY <1>2, <1>3, <1>4, <2>3
    <3>. QED  BY <2>3, <3>1 DEF Answer
  <2>. QED  BY <1>3, <2>1, <2>2, <2>3
<1>6. sent \in Nat /\ sent' \in Nat /\ pc' \in {"data", "id"} /\ ~Left' /\ ~Ok'
  <2>1. sent \in Nat
    BY <1>t DEF SyncTypeOK
  <2>2. sent + 1 \in Nat
    BY <2>1
  <2>. QED  BY <2>1, <2>2 DEF Left, Ok
<1>7. SyncTypeOK'
  BY <1>2, <1>6, <1>t DEF SyncTypeOK
<1>8. Modes'
  <2>1. Destination' = Destination /\ (Available(codec) => Available(codec)')
    BY DEF Destination, Available, Has
  <2>. QED  BY <1>0, <1>6, <1>t, <2>1 DEF Modes, Left
<1>9. Queued'
  <2>1. ASSUME NEW i \in 1 .. m
        PROVE  /\ toDev[i].id \in {"LIST", "STAT", "RECV", "SEND"} =>
                    i = 1 /\ dev.st = "ready" /\ toDev[i].id = RequestOf(form) /\ form # "none"
               /\ toDev[i].id = "RECV" => toDev[i].v = codec
               /\ toDev[i].id = "SEND" => toDev[i].v = dest
               /\ toDev[i].id \in {"DATA", "DONE"} =>
                    form \in Pushes /\ (i > 1 \/ dev.st \in {"storing", "draining"})
               /\ toDev[i].id # "DONE" /\ toDev[i].id # "QUIT"
    <3>1. toDev[i].id = "QUIT" => m = 1 /\ dev.st = "ready"
      BY <1>1, <1>t DEF Queued
    <3>2. m = 1 => i = 1
      BY <1>2
    <3>3. toDev[i].id # "QUIT"
      BY <1>3, <3>1, <3>2
    <3>. QED  BY <1>1, <1>t, <3>3 DEF Queued
  <2>2. ASSUME NEW i \in 1 .. m + 1, ~(i \in 1 .. m)
        PROVE  i = m + 1
    <3>1. m \in Nat /\ i \in 1 .. m + 1 /\ ~(i \in 1 .. m)
      BY <1>2, <2>2
    <3>. QED  BY <3>1
  <2>3. dev.st \notin {"storing", "draining"} => m + 1 > 1
    BY <1>2, <1>3, <1>4
  <2>4. RequestOf(form)' = RequestOf(form)
    BY DEF RequestOf
  <2>5. ASSUME NEW i \in 1 .. Len(toDev')
        PROVE  /\ toDev'[i].id \in {"LIST", "STAT", "RECV", "SEND"} =>
                    i = 1 /\ dev'.st = "ready" /\ toDev'[i].id = RequestOf(form)' /\ form' # "none"
               /\ toDev'[i].id = "RECV" => toDev'[i].v = codec'
               /\ toDev'[i].id = "SEND" => toDev'[i].v = dest'
               /\ toDev'[i].id \in {"DATA", "DONE"} =>
                    form' \in Pushes /\ (i > 1 \/ dev'.st \in {"storing", "draining"})
               /\ toDev'[i].id = "DONE" => i = Len(toDev') /\ pc' \notin {"input", "data"}
               /\ toDev'[i].id # "QUIT"
    <3>1. CASE i \in 1 .. m
      <4>1. toDev'[i] = toDev[i]
        BY <1>2, <3>1
      <4>. QED  BY <2>1, <2>4, <3>1, <4>1
    <3>2. CASE ~(i \in 1 .. m)
      <4>1. i = m + 1 /\ toDev'[i] = r
        BY <1>2, <2>2, <3>2
      <4>. QED  BY <1>2, <2>3, <4>1
    <3>. QED  BY <3>1, <3>2
  <2>6. pc' \in {"input", "data"} =>
          dev'.st \in {"storing", "draining"} \/ (dev'.st = "ready" /\ toDev' # <<>> /\ toDev'[1].id = "SEND")
    BY <1>2, <1>3, <1>4
  <2>. QED  BY <1>t, <2>5, <2>6 DEF Queued
<1>10. Conversation'
  <2>1. Framed(toHost', form', Answer')
    BY <1>5, <1>t
  <2>2. Place(toHost', pc', last', form', Answer')
    BY <1>5, <1>6, <1>t DEF Place
  <2>. QED  BY <1>6, <1>9, <2>1, <2>2 DEF Conversation
<1>11. Pushing'
  <2>1. Base' = Base
    BY DEF Base
  <2>2. CASE Answer = "owed"
    <3>1. /\ dev.st = "ready" => dev.rest = <<>>
          /\ dev.st = "storing" => dev.to = dest
          /\ \A j \in 1 .. Len(dev.rest) : dev.rest[j] = j
          /\ \A i \in 1 .. m :
               /\ toDev[i].id = "DATA" => toDev[i].v = <<Base + i>>
               /\ toDev[i].id = "DONE" => Base + i = call.size + 1
          /\ Base + m = sent
      BY <1>1, <1>t, <2>2 DEF Pushing
    <3>2. Base \in Int
      <4>1. Len(dev.rest) \in Nat
        BY <1>t, LenProperties DEF SyncTypeOK
      <4>. QED  BY <4>1 DEF Base
    <3>3. Base + (m + 1) = sent + 1
      BY <1>2, <3>1, <3>2
    <3>4. ASSUME NEW i \in 1 .. Len(toDev')
          PROVE  /\ toDev'[i].id = "DATA" => toDev'[i].v = <<Base + i>>
                 /\ toDev'[i].id = "DONE" => Base + i = call.size + 1
      <4>1. CASE i \in 1 .. m
        BY <1>2, <3>1, <4>1
      <4>2. CASE ~(i \in 1 .. m)
        <5>1. i = m + 1
          BY <1>2, <4>2
        <5>2. toDev'[i] = r
          BY <1>2, <5>1
        <5>3. Base + i = sent + 1
          BY <3>3, <5>1
        <5>. QED  BY <5>2, <5>3
      <4>. QED  BY <4>1, <4>2
    <3>5. pc' \in {"input", "data"} => Base + Len(toDev') = sent'
      BY <1>2, <3>3
    <3>. QED  BY <1>5, <1>6, <2>1, <2>2, <3>1, <3>4, <3>5 DEF Pushing
  <2>3. CASE Answer # "owed"
    <3>1. Answer' # "owed" /\ Answer' # "done"
      BY <1>5, <2>3
    <3>. QED  BY <1>6, <3>1 DEF Pushing
  <2>. QED  BY <2>2, <2>3
<1>12. Copied' /\ Progress' /\ Finished' /\ Flushed' /\ NoEntriesStart'
  <2>1. call.op # "pull" /\ form' \notin {"list"} \cup Pulls /\ form' # "none"
    BY <1>0
  <2>. QED  BY <2>1, CopiedNothing, TransferringNothing
<1>. QED  BY <1>7, <1>8, <1>10, <1>11, <1>12 DEF SyncInv

\* push and push_v2 write their blocks and DONE.
LEMMA PushDataStep ==
  ASSUME SyncInv, PushData \/ PushV2Data
  PROVE  SyncInv'
<1>t. SyncTypeOK
  BY DEF SyncInv
<1>1. form \in Pushes /\ PushBlock(<<sent + 1>>)
  BY DEF PushData, PushV2Data, Pushes
<1>2. pc = "data" /\ UNCHANGED <<dest, local>> /\ form # "none"
  BY <1>1, PushFacts DEF PushBlock
<1>3. CASE sent < call.size /\ Write(Req("DATA", <<sent + 1>>), "data") /\ sent' = sent + 1
  <2>1. PICK r : r = Req("DATA", <<sent + 1>>)
    OBVIOUS
  <2>2. r \in Reqs /\ r.id = "DATA" /\ r.v = <<sent + 1>>
    <3>1. sent + 1 \in Nat
      BY <1>t DEF SyncTypeOK
    <3>2. <<sent + 1>> \in Blocks
      BY <3>1 DEF Blocks
    <3>. QED  BY <2>1, <3>2, ReqTypes, ReqParts
  <2>3. /\ toDev' = Append(toDev, r) /\ UNCHANGED result /\ pc' = "data" /\ sent' = sent + 1
        /\ UNCHANGED <<call, form, codec, last, entries, errored, found, dest, local, dec, up, toHost, dev, remote>>
    BY <1>2, <1>3, <2>1 DEF Write, Goto, callVars, listVars
  <2>. QED  BY <1>1, <1>2, <2>2, <2>3, PushWrites
<1>4. CASE sent = call.size /\ Write(Req("DONE", 0), "id") /\ UNCHANGED sent
  <2>1. PICK r : r = Req("DONE", 0)
    OBVIOUS
  <2>2. r \in Reqs /\ r.id = "DONE"
    BY <2>1, ReqTypes, ReqParts
  <2>3. /\ toDev' = Append(toDev, r) /\ UNCHANGED result /\ pc' = "id" /\ sent' = sent /\ sent = call.size
        /\ UNCHANGED <<call, form, codec, last, entries, errored, found, dest, local, dec, up, toHost, dev, remote>>
    BY <1>2, <1>4, <2>1 DEF Write, Goto, callVars, listVars
  <2>. QED  BY <1>1, <1>2, <2>2, <2>3, PushWrites
<1>5. CASE /\ Return("InvalidArgument") \/ Return("Io")
           /\ UNCHANGED <<callVars, last, listVars, dec, linkVars, dev, remote, sent>>
  <2>1. /\ pc' = "drop" /\ result' \in {"InvalidArgument", "Io"} /\ ~Left
        /\ UNCHANGED <<call, form, codec, last, entries, found, dest, sent, local, dec, up, toDev, toHost, dev, remote>>
    BY <1>2, <1>5 DEF Return, Left, callVars, listVars, linkVars
  <2>. QED  BY <1>2, <2>1, Leaving
<1>. QED  BY <1>1, <1>3, <1>4, <1>5, Zenon DEF PushBlock


-----------------------------------------------------------------------------
(* The device.                                                              *)

Devs == [st : {"ready", "listing", "sending", "storing", "draining", "gone"},
         rest : Seq(Nat \cup Entries), tail : BOOLEAN, to : {"path", "inside"}, failed : BOOLEAN]

\* The device does not touch the host.
LEMMA LeavesHost ==
  ASSUME SyncInv, DeviceLeaves
  PROVE  /\ UNCHANGED <<call, form, codec, pc, last, result, entries, errored, found, dest, sent, local, dec, up>>
         /\ Modes' /\ NoEntriesStart'
         /\ (Ok' <=> Ok) /\ (Transferring' <=> Transferring)
<1>1. UNCHANGED <<call, form, codec, pc, last, result, entries, errored, found, dest, sent, local, dec, up>>
  BY DEF DeviceLeaves, callVars, listVars, pushVars
<1>2. Modes'
  <2>1. Destination' = Destination /\ (Available(codec) => Available(codec)') /\ (Left' <=> Left)
    BY <1>1 DEF Destination, Available, Has, Left
  <2>2. Modes
    BY DEF SyncInv
  <2>. QED  BY <1>1, <2>1, <2>2 DEF Modes
<1>3. NoEntriesStart'
  BY <1>1 DEF SyncInv, NoEntriesStart
<1>. QED  BY <1>1, <1>2, <1>3 DEF Ok, Left, Transferring

\* Behind the first request there are only blocks of a push, and DONE is the last.
OnlyBlocks(q) ==
  \A i \in 1 .. Len(q) : /\ q[i].id \in {"DATA", "DONE"} /\ form \in Pushes
                         /\ q[i].id = "DONE" => i = Len(q) /\ pc \notin {"input", "data"}

\* Behind the first request only a push's blocks and its DONE are on their way (PushBlock).
LEMMA TakenBlocks ==
  ASSUME SyncTypeOK, Queued, toDev # <<>>
  PROVE  /\ Tail(toDev) \in Seq(Reqs) /\ OnlyBlocks(Tail(toDev)) /\ (form \notin Pushes => Tail(toDev) = <<>>)
         /\ Len(toDev) \in Nat /\ Len(Tail(toDev)) = Len(toDev) - 1 /\ Head(toDev) = toDev[1] /\ toDev[1] \in Reqs
         /\ 1 \in 1 .. Len(toDev)
         /\ \A i \in 1 .. Len(Tail(toDev)) : i + 1 \in 1 .. Len(toDev) /\ Tail(toDev)[i] = toDev[i + 1]
<1>1. PICK q : q = Tail(toDev)
  OBVIOUS
<1>2. toDev \in Seq(Reqs)
  BY DEF SyncTypeOK
<1>3. /\ Len(toDev) \in Nat /\ Len(toDev) >= 1 /\ q \in Seq(Reqs) /\ Len(q) = Len(toDev) - 1 /\ Len(q) \in Nat
      /\ Head(toDev) = toDev[1] /\ toDev[1] \in Reqs
      /\ \A i \in 1 .. Len(toDev) - 1 : q[i] = toDev[i + 1]
  BY <1>1, <1>2, TailOf
<1>4. ASSUME NEW i \in 1 .. Len(q)
      PROVE  /\ q[i].id \in {"DATA", "DONE"} /\ form \in Pushes
             /\ q[i].id = "DONE" => i = Len(q) /\ pc \notin {"input", "data"}
             /\ i + 1 \in 1 .. Len(toDev) /\ q[i] = toDev[i + 1]
  <2>1. PICK k : k = i + 1
    OBVIOUS
  <2>2. k \in 1 .. Len(toDev) /\ k # 1 /\ Len(toDev) # 1 /\ q[i] = toDev[k] /\ (k = Len(toDev) => i = Len(q))
    BY <1>3, <2>1
  <2>3. toDev[k] \in Reqs
    BY <1>2, <2>2, ElementOfSeq
  <2>4. toDev[k].id \in {"LIST", "STAT", "RECV", "SEND", "DATA", "DONE", "QUIT"}
    BY <2>3, ReqFacts
  <2>5. /\ toDev[k].id \in {"LIST", "STAT", "RECV", "SEND"} => k = 1
        /\ toDev[k].id \in {"DATA", "DONE"} => form \in Pushes
        /\ toDev[k].id = "DONE" => k = Len(toDev) /\ pc \notin {"input", "data"}
        /\ toDev[k].id = "QUIT" => Len(toDev) = 1
    BY <2>2 DEF Queued
  <2>. QED  BY <2>1, <2>2, <2>4, <2>5
<1>5. form \notin Pushes => q = <<>>
  <2>1. Len(q) # 0 => 1 \in 1 .. Len(q)
    BY <1>3
  <2>2. form \notin Pushes => Len(q) = 0
    BY <1>4, <2>1
  <2>. QED  BY <1>3, <2>2, EmptyLen
<1>6. OnlyBlocks(q)
  BY <1>4 DEF OnlyBlocks
<1>7. 1 \in 1 .. Len(toDev)
  BY <1>3
<1>8. \A i \in 1 .. Len(q) : i + 1 \in 1 .. Len(toDev) /\ q[i] = toDev[i + 1]
  BY <1>4
<1>. QED  BY <1>1, <1>3, <1>5, <1>6, <1>7, <1>8, Zenon

\* While it answers or stores there is no request left either.
LEMMA KeptBlocks ==
  ASSUME SyncTypeOK, Queued, dev.st # "ready"
  PROVE  OnlyBlocks(toDev) /\ (form \notin Pushes => toDev = <<>>)
<1>1. toDev \in Seq(Reqs) /\ Len(toDev) \in Nat
  BY LenProperties DEF SyncTypeOK
<1>2. ASSUME NEW i \in 1 .. Len(toDev)
      PROVE  /\ toDev[i].id \in {"DATA", "DONE"} /\ form \in Pushes
             /\ toDev[i].id = "DONE" => i = Len(toDev) /\ pc \notin {"input", "data"}
  <2>1. toDev[i] \in Reqs
    BY <1>1, ElementOfSeq
  <2>2. toDev[i].id \in {"LIST", "STAT", "RECV", "SEND", "DATA", "DONE", "QUIT"}
    BY <2>1, ReqFacts
  <2>. QED  BY <2>2 DEF Queued
<1>3. form \notin Pushes => toDev = <<>>
  <2>1. Len(toDev) # 0 => 1 \in 1 .. Len(toDev)
    BY <1>1
  <2>2. form \notin Pushes => Len(toDev) = 0
    BY <1>2, <2>1
  <2>. QED  BY <1>1, <2>2, EmptyLen
<1>. QED  BY <1>2, <1>3 DEF OnlyBlocks

\* What the device may be doing for the call.
DeviceSound ==
  /\ dev.st = "draining" => dev.failed
  /\ dev.failed => dev.st \in {"draining", "gone"}
  /\ dev.st = "listing" => form = "list"
  /\ dev.st = "sending" => form \in Pulls
  /\ dev.st \in {"storing", "draining"} => form \in Pushes
  /\ pc \in {"input", "data"} \/ toDev # <<>> => dev.st \in {"storing", "draining"}
  /\ OnlyBlocks(toDev)

\* What the device's state allows to be on its way is what the host has written (Serve).
LEMMA QueuedDevice ==
  ASSUME DeviceSound', toDev' \in Seq(Reqs)
  PROVE  Queued'
<1>1. ASSUME NEW i \in 1 .. Len(toDev')
      PROVE  /\ toDev'[i].id \in {"DATA", "DONE"} /\ form' \in Pushes
             /\ toDev'[i].id = "DONE" => i = Len(toDev') /\ pc' \notin {"input", "data"}
             /\ dev'.st \in {"storing", "draining"}
  <2>1. toDev' # <<>>
    <3>1. Len(toDev') # 0
      <4>1. Len(toDev') \in Nat
        BY LenProperties
      <4>. QED  BY <4>1
    <3>. QED  BY <3>1, EmptyLen
  <2>. QED  BY <2>1 DEF DeviceSound, OnlyBlocks
<1>. QED  BY <1>1 DEF Queued, DeviceSound

\* It takes a request and what it owes stays the same.
LEMMA TakesOn ==
  ASSUME SyncInv, DeviceLeaves, UNCHANGED <<toHost, remote>>, toDev' \in Seq(Reqs),
         dev' \in Devs, dev'.rest \in RestOf(form),
         Answer' = Answer, DeviceSound', Ok => ~dev'.failed, Pushing',
         \A n \in 0 .. Total : DeviceAt(n) => DeviceAt(n)', Flushed'
  PROVE  SyncInv'
<1>t. /\ SyncTypeOK /\ Copied /\ Progress /\ Finished
      /\ Framed(toHost, form, Answer) /\ Place(toHost, pc, last, form, Answer)
      /\ Ok => toHost = <<>> /\ Answer = "over"
  BY DEF SyncInv, Conversation
<1>1. /\ UNCHANGED <<call, form, codec, pc, last, result, entries, errored, found, dest, sent, local, dec, up>>
      /\ Modes' /\ NoEntriesStart'
      /\ (Ok' <=> Ok) /\ (Transferring' <=> Transferring)
  BY LeavesHost
<1>2. SyncTypeOK'
  BY <1>1, <1>t DEF SyncTypeOK, Devs
<1>3. Conversation'
  <2>1. Queued'
    BY QueuedDevice
  <2>. QED  BY <1>1, <1>t, <2>1 DEF Conversation
<1>4. Copied'
  BY <1>1, <1>t DEF Copied, Run
<1>5. Progress'
  <2>1. CASE Transferring
    <3>1. \A n \in 0 .. Total : HostAt(n) => HostAt(n)'
      BY <1>1, HostAtSame
    <3>. QED  BY <1>1, <1>t, <2>1, <3>1, ProgressBetween
  <2>2. CASE ~Transferring
    BY <1>1, <2>2 DEF Progress
  <2>. QED  BY <2>1, <2>2
<1>6. Finished'
  <2>p. PICK n : n = Total
    OBVIOUS
  <2>1. Total' = n
    BY <1>1, <2>p, CountingSame
  <2>2. TakenUpTo(n) => TakenUpTo(n)'
    BY <1>1, TakenSame
  <2>3. form \in {"list"} \cup Pulls /\ (pc = "quit" \/ Ok) => TakenUpTo(n)
    BY <1>t, <2>p DEF Finished
  <2>. QED  BY <1>1, <2>1, <2>2, <2>3 DEF Finished, TakenUpTo, ListedUpTo, PulledUpTo
<1>. QED  BY <1>1, <1>2, <1>3, <1>4, <1>5, <1>6 DEF SyncInv

\* It writes a frame.
LEMMA EmitsOn ==
  ASSUME SyncInv, DeviceLeaves, Answer = "owed", toDev' \in Seq(Reqs),
         dev' \in Devs, dev'.rest \in RestOf(form),
         remote' \in [path : [kind : Kinds, data : Blocks], inside : [kind : Kinds, data : Blocks]],
         NEW t \in Seq(Fields), t # <<>>, t[1].k = "id", toHost' = toHost \o t,
         Framed(t, form, Answer'), DeviceSound', Pushing', Copied', Progress', Flushed'
  PROVE  SyncInv'
<1>t. /\ SyncTypeOK /\ Framed(toHost, form, "owed") /\ Place(toHost, pc, last, form, "owed")
      /\ ~Ok
  BY DEF SyncInv, Conversation
<1>1. /\ UNCHANGED <<call, form, codec, pc, last, result, entries, errored, found, dest, sent, local, dec, up>>
      /\ Modes' /\ NoEntriesStart'
      /\ (Ok' <=> Ok) /\ (Transferring' <=> Transferring)
  BY LeavesHost
<1>p. PICK s, a : s = toHost /\ a = Answer'
  OBVIOUS
<1>2. s \in Seq(Fields) /\ s \o t \in Seq(Fields) /\ Len(s) \in Nat /\ \A i \in 1 .. Len(s) : (s \o t)[i] = s[i]
  BY <1>p, <1>t, Joined DEF SyncTypeOK
<1>2l. Len(s \o t) = Len(s) + Len(t) /\ Len(t) \in Nat
  BY <1>2, Joined
<1>3. SyncTypeOK'
  <2>1. toHost' \in Seq(Fields)
    BY <1>2, <1>p
  <2>. QED  BY <1>1, <1>t, <2>1 DEF SyncTypeOK, Devs
<1>4. Framed(s \o t, form, a)
  BY <1>2, <1>p, <1>t, FramedJoined
<1>5. Place(s \o t, pc, last, form, a)
  <2>1. 1 \in 1 .. Len(s) + 1 /\ (Len(s) >= 1 => 2 \in 1 .. Len(s) + 1)
    BY <1>2
  <2>2. /\ AtFrame(s, 1, "owed") => AtFrame(s \o t, 1, a)
        /\ \A v : Rest(s, 1, v, form, "owed") => Rest(s \o t, 1, v, form, a)
    BY <1>2, <2>1, RestBefore
  <2>3. Len(s) >= 1 /\ AtFrame(s, 2, "owed") => AtFrame(s \o t, 2, a)
    BY <1>2, <2>1, RestBefore
  <2>4. Len(s) >= 1 => Len(s \o t) >= 1 /\ (s \o t)[1] = s[1]
    BY <1>2, <1>2l
  <2>5. pc \notin {"reason", "request", "quit", "start", "open"}
    BY <1>t DEF Place
  <2>6. Place(s, pc, last, form, "owed")
    BY <1>p, <1>t
  <2>. QED  BY <2>2, <2>3, <2>4, <2>5, <2>6 DEF Place
<1>6. Conversation'
  <2>1. Queued'
    BY QueuedDevice
  <2>2. toHost' = s \o t /\ Answer' = a /\ form' = form /\ pc' = pc /\ last' = last /\ ~Ok'
    BY <1>1, <1>p, <1>t
  <2>. QED  BY <1>4, <1>5, <2>1, <2>2 DEF Conversation
<1>7. Finished'
  <2>1. pc' # "quit" /\ ~Ok'
    BY <1>1, <1>t DEF Place
  <2>. QED  BY <2>1 DEF Finished
<1>. QED  BY <1>1, <1>3, <1>6, <1>7 DEF SyncInv


\* A sequence is one over a larger set.
LEMMA SeqWider ==
  ASSUME NEW S, NEW T, S \subseteq T, NEW s \in Seq(S)
  PROVE  s \in Seq(T)
<1>1. PICK n \in Nat : s \in [1 .. n -> S]
  BY SeqDef
<1>2. s \in [1 .. n -> T]
  BY <1>1
<1>. QED  BY <1>2, SeqDef

\* The first request is the one of the call's form, a block or QUIT.
LEMMA FirstRequest ==
  ASSUME SyncInv, toDev # <<>>, NEW r, r = toDev[1]
  PROVE  /\ r \in Reqs /\ Head(toDev) = r
         /\ r.id \in {"LIST", "STAT", "RECV", "SEND"} => dev.st = "ready" /\ r.id = RequestOf(form) /\ form # "none"
         /\ r.id = "RECV" => r.v = codec
         /\ r.id = "SEND" => r.v = dest
         /\ r.id \in {"DATA", "DONE"} => form \in Pushes /\ dev.st \in {"storing", "draining"}
         /\ r.id = "DONE" => Tail(toDev) = <<>> /\ pc \notin {"input", "data"}
         /\ r.id = "QUIT" => Tail(toDev) = <<>> /\ dev.st = "ready" /\ pc \notin {"input", "data"}
<1>t. SyncTypeOK /\ Queued
  BY DEF SyncInv, Conversation
<1>1. /\ Tail(toDev) \in Seq(Reqs) /\ Len(toDev) \in Nat /\ Len(Tail(toDev)) = Len(toDev) - 1
      /\ Head(toDev) = toDev[1] /\ toDev[1] \in Reqs /\ 1 \in 1 .. Len(toDev)
  BY <1>t, TakenBlocks
<1>2. Len(toDev) = 1 => Tail(toDev) = <<>>
  <2>1. Len(toDev) = 1 => Len(Tail(toDev)) = 0
    BY <1>1
  <2>. QED  BY <1>1, <2>1, EmptyLen
<1>3. /\ r.id \in {"LIST", "STAT", "RECV", "SEND"} => dev.st = "ready" /\ r.id = RequestOf(form) /\ form # "none"
      /\ r.id = "RECV" => r.v = codec
      /\ r.id = "SEND" => r.v = dest
      /\ r.id \in {"DATA", "DONE"} => form \in Pushes /\ (1 > 1 \/ dev.st \in {"storing", "draining"})
      /\ r.id = "DONE" => 1 = Len(toDev) /\ pc \notin {"input", "data"}
      /\ r.id = "QUIT" => Len(toDev) = 1 /\ dev.st = "ready"
  BY <1>1, <1>t DEF Queued
<1>4. ~(1 > 1)
  OBVIOUS
<1>5. r.id = "QUIT" => pc \notin {"input", "data"}
  BY <1>3, <1>t DEF Queued
<1>. QED  BY <1>1, <1>2, <1>3, <1>4, <1>5, Zenon

\* While an answer is owed the host is waiting for it or not yet.
LEMMA OwedAt ==
  ASSUME SyncInv, Answer = "owed"
  PROVE  pc \notin {"reason", "request", "quit", "start", "open", "okay", "length"} /\ ~Ok
<1>1. Place(toHost, pc, last, form, Answer) /\ (Ok => Answer = "over")
  BY DEF SyncInv, Conversation
<1>. QED  BY <1>1 DEF Place, Rest

\* A push that is not owed an answer and has none.
LEMMA PushingLater ==
  ASSUME Pushing, UNCHANGED <<form, pc, sent>>, pc # "request" \/ dev'.rest = dev.rest,
         Answer' \notin {"owed", "done"}, Ok' => Ok /\ UNCHANGED <<call, remote, dest>>
  PROVE  Pushing'
<1>1. Ok' => Ok /\ Stored' = Stored
  BY DEF Stored
<1>. QED  BY <1>1 DEF Pushing

\* No field is written: only the device's own flag counts.
LEMMA FlushedTakes ==
  ASSUME Flushed, UNCHANGED <<form, codec, pc, last, result, dec, toHost>>,
         dev'.st = "sending" => (form = "pull" => ~dev'.tail) /\ (form = "pull_v2" => dev'.tail)
  PROVE  Flushed'
<1>1. /\ HeldBack' = HeldBack /\ (Ok' <=> Ok) /\ (Transferring' <=> Transferring)
  BY DEF HeldBack, Ok, Left, Transferring
<1>2. \A i : FlushedBefore(i) => FlushedBefore(i)'
  BY <1>1 DEF FlushedBefore
<1>3. form' = "pull_v2" /\ Transferring' =>
        \A i \in 1 .. Len(toHost') : toHost'[i].k = "id" /\ toHost'[i].v = "DONE" => FlushedBefore(i)'
  BY <1>1, <1>2 DEF Flushed
<1>4. form' = "pull_v2" /\ ((pc' = "size" /\ last' = "DONE") \/ pc' = "quit" \/ Ok') =>
        (codec' # "brotli" => dec'.held = <<>>)
  BY <1>1 DEF Flushed
<1>. QED  BY <1>3, <1>4 DEF Flushed

\* What the device is doing, in words it has changed to.
LEMMA SoundNow ==
  ASSUME UNCHANGED <<form, pc>>, NEW q, toDev' = q, OnlyBlocks(q),
         dev'.st = "draining" => dev'.failed,
         dev'.failed => dev'.st \in {"draining", "gone"},
         dev'.st = "listing" => form = "list",
         dev'.st = "sending" => form \in Pulls,
         dev'.st \in {"storing", "draining"} => form \in Pushes,
         pc \in {"input", "data"} \/ q # <<>> => dev'.st \in {"storing", "draining"}
  PROVE  DeviceSound'
<1>1. OnlyBlocks(toDev)'
  BY DEF OnlyBlocks
<1>. QED  BY <1>1 DEF DeviceSound

\* LIST.
LEMMA TakesList ==
  ASSUME SyncInv, DeviceLeaves, toDev # <<>>, toDev' = Tail(toDev), toDev[1].id = "LIST",
         dev' = [dev EXCEPT !.st = "listing", !.rest = call.entries], UNCHANGED <<toHost, remote>>
  PROVE  SyncInv'
<1>t. SyncTypeOK /\ Queued /\ Pushing /\ Flushed
  BY DEF SyncInv, Conversation
<1>1. /\ UNCHANGED <<call, form, codec, pc, last, result, entries, errored, found, dest, sent, local, dec, up>>
  BY LeavesHost
<1>2. dev.st = "ready" /\ RequestOf(form) = "LIST" /\ form # "none"
  BY FirstRequest
<1>3. form = "list"
  BY <1>2 DEF RequestOf
<1>4. form \notin Pushes /\ form \notin Pulls /\ Total = Len(call.entries)
  BY <1>3, ListFacts
<1>5. toDev' = <<>> /\ toDev' \in Seq(Reqs) /\ OnlyBlocks(<<>>)
  BY <1>4, <1>t, TakenBlocks
<1>6. Answer = "owed" /\ ~Ok /\ pc \notin {"input", "data"}
  <2>1. Answer = "owed"
    BY <1>2 DEF Answer
  <2>2. pc \notin {"input", "data"}
    BY <1>4, <1>t DEF Queued, SyncInv, Modes
  <2>. QED  BY <2>1, <2>2, OwedAt
<1>7. dev \in Devs /\ dev.failed = FALSE
  BY <1>2, <1>t DEF SyncTypeOK, Devs, Queued
<1>8. /\ dev' \in Devs /\ dev'.st = "listing" /\ dev'.rest = call.entries /\ dev'.failed = FALSE
      /\ dev'.rest \in RestOf(form)
  <2>1. call.entries \in Seq(Nat \cup Entries)
    <3>1. call.entries \in Seq(Entries)
      BY <1>t, CallFacts DEF SyncTypeOK
    <3>. QED  BY <3>1, SeqWider
  <2>2. call.entries \in RestOf(form)
    BY <1>3, <1>t, CallFacts DEF SyncTypeOK, RestOf
  <2>. QED  BY <1>7, <2>1, <2>2 DEF Devs
<1>9. Answer' = Answer
  BY <1>6, <1>8 DEF Answer
<1>10. DeviceSound'
  BY <1>1, <1>3, <1>5, <1>6, <1>8, SoundNow
<1>11. Pushing'
  BY <1>1, <1>4, <1>t, PushingNothing
<1>12. \A n \in 0 .. Total : DeviceAt(n) => DeviceAt(n)'
  <2>. SUFFICES ASSUME NEW n \in 0 .. Total, DeviceAt(n) PROVE DeviceAt(n)'
    OBVIOUS
  <2>1. n = 0
    BY <1>2, <1>6 DEF DeviceAt
  <2>2. Total' = Len(call.entries) /\ Total \in Nat
    BY <1>1, <1>4, <1>t, CountingSame, TotalNat
  <2>3. n + Len(dev'.rest) = Total'
    BY <1>4, <1>8, <2>1, <2>2
  <2>4. \A j \in 1 .. Len(dev'.rest) : dev'.rest[j] = call'.entries[n + j]
    <3>1. \A j \in 1 .. Len(call.entries) : 0 + j = j
      OBVIOUS
    <3>. QED  BY <1>1, <1>8, <2>1, <3>1
  <2>. QED  BY <1>8, <2>3, <2>4 DEF DeviceAt
<1>13. Flushed'
  BY <1>1, <1>8, <1>t, FlushedTakes
<1>. QED  BY <1>3, <1>5, <1>6, <1>8, <1>9, <1>10, <1>11, <1>12, <1>13, TakesOn

\* RECV of a file.
LEMMA TakesRecv ==
  ASSUME SyncInv, DeviceLeaves, toDev # <<>>, toDev' = Tail(toDev), toDev[1].id = "RECV",
         remote.path.kind = "file",
         dev' = [dev EXCEPT !.st = "sending", !.rest = remote.path.data, !.tail = toDev[1].v # NoCodec],
         UNCHANGED <<toHost, remote>>
  PROVE  SyncInv'
<1>t. SyncTypeOK /\ Queued /\ Pushing /\ Flushed /\ Copied
  BY DEF SyncInv, Conversation
<1>1. /\ UNCHANGED <<call, form, codec, pc, last, result, entries, errored, found, dest, sent, local, dec, up>>
  BY LeavesHost
<1>2. dev.st = "ready" /\ RequestOf(form) = "RECV" /\ form # "none" /\ toDev[1].v = codec
  BY FirstRequest
<1>3. form \in Pulls
  BY <1>2 DEF RequestOf
<1>4. /\ form \notin Pushes /\ form \notin {"list", "stat", "none"} /\ Total = Len(remote.path.data)
      /\ call.op = "pull" /\ (form = "pull_v2" => codec \in Codecs) /\ (form = "pull" => codec = NoCodec)
  BY <1>3, PullFacts
<1>5. toDev' = <<>> /\ toDev' \in Seq(Reqs) /\ OnlyBlocks(<<>>)
  BY <1>4, <1>t, TakenBlocks
<1>6. Answer = "owed" /\ ~Ok /\ pc \notin {"input", "data"}
  <2>1. Answer = "owed"
    BY <1>2 DEF Answer
  <2>2. pc \notin {"input", "data"}
    BY <1>4, <1>t DEF Queued, SyncInv, Modes
  <2>. QED  BY <2>1, <2>2, OwedAt
<1>7. dev \in Devs /\ dev.failed = FALSE
  BY <1>2, <1>t DEF SyncTypeOK, Devs, Queued
<1>8. /\ dev' \in Devs /\ dev'.st = "sending" /\ dev'.rest = remote.path.data /\ dev'.failed = FALSE
      /\ dev'.tail = (toDev[1].v # NoCodec) /\ dev'.rest \in RestOf(form)
  <2>1. remote.path.data \in Seq(Nat \cup Entries)
    <3>1. remote.path.data \in Seq(Nat)
      BY <1>t DEF SyncTypeOK, Blocks
    <3>. QED  BY <3>1, SeqWider
  <2>2. remote.path.data \in RestOf(form)
    BY <1>4, <1>t DEF SyncTypeOK, RestOf
  <2>. QED  BY <1>7, <2>1, <2>2 DEF Devs
<1>9. Answer' = Answer
  BY <1>6, <1>8 DEF Answer
<1>10. DeviceSound'
  BY <1>1, <1>3, <1>4, <1>5, <1>6, <1>8, SoundNow
<1>11. Pushing'
  BY <1>1, <1>4, <1>t, PushingNothing
<1>12. \A n \in 0 .. Total : DeviceAt(n) => DeviceAt(n)'
  <2>. SUFFICES ASSUME NEW n \in 0 .. Total, DeviceAt(n) PROVE DeviceAt(n)'
    OBVIOUS
  <2>1. n = 0
    BY <1>2, <1>6 DEF DeviceAt
  <2>2. Total' = Len(remote.path.data) /\ Total \in Nat
    BY <1>1, <1>4, <1>t, CountingSame, TotalNat
  <2>3. n + Len(dev'.rest) = Total'
    BY <1>4, <1>8, <2>1, <2>2
  <2>4. Run(dev'.rest, n)
    BY <1>4, <1>8, <1>t, <2>1 DEF Copied
  <2>. QED  BY <1>8, <2>3, <2>4 DEF DeviceAt
<1>13. Flushed'
  <2>1. /\ form = "pull" => ~dev'.tail
        /\ form = "pull_v2" => dev'.tail
    BY <1>2, <1>4, <1>8 DEF Codecs, NoCodec
  <2>. QED  BY <1>1, <1>t, <2>1, FlushedTakes
<1>. QED  BY <1>5, <1>6, <1>8, <1>9, <1>10, <1>11, <1>12, <1>13, TakesOn

\* QUIT.
LEMMA TakesQuit ==
  ASSUME SyncInv, DeviceLeaves, toDev # <<>>, toDev' = Tail(toDev), toDev[1].id = "QUIT",
         dev' = [dev EXCEPT !.st = "gone"], UNCHANGED <<toHost, remote>>
  PROVE  SyncInv'
<1>t. SyncTypeOK /\ Queued /\ Pushing /\ Flushed
  BY DEF SyncInv, Conversation
<1>1. /\ UNCHANGED <<call, form, codec, pc, last, result, entries, errored, found, dest, sent, local, dec, up>>
      /\ (Ok' <=> Ok)
  BY LeavesHost
<1>2. dev.st = "ready" /\ toDev' = <<>> /\ pc \notin {"input", "data"}
  BY FirstRequest
<1>5. toDev' \in Seq(Reqs) /\ OnlyBlocks(toDev')
  BY <1>t, TakenBlocks
<1>7. dev \in Devs /\ dev.failed = FALSE
  BY <1>2, <1>t DEF SyncTypeOK, Devs, Queued
<1>8. /\ dev' \in Devs /\ dev'.st = "gone" /\ dev'.rest = dev.rest /\ dev'.failed = FALSE
      /\ dev'.rest \in RestOf(form)
  BY <1>7, <1>t DEF Devs, SyncTypeOK
<1>9. Answer' = "over" /\ Answer = "over"
  BY <1>2, <1>7, <1>8 DEF Answer
<1>10. DeviceSound'
  <2>1. PICK q : q = toDev'
    OBVIOUS
  <2>. QED  BY <1>1, <1>2, <1>5, <1>8, <2>1, SoundNow
<1>11. Pushing'
  BY <1>1, <1>8, <1>9, <1>t, PushingLater
<1>12. \A n \in 0 .. Total : DeviceAt(n) => DeviceAt(n)'
  BY <1>8 DEF DeviceAt
<1>13. Flushed'
  BY <1>1, <1>8, <1>t, FlushedTakes
<1>. QED  BY <1>5, <1>8, <1>9, <1>10, <1>11, <1>12, <1>13, TakesOn


\* A push is none of the host's other business.
LEMMA PushOnly ==
  ASSUME SyncInv, DeviceLeaves, form \in Pushes
  PROVE  Copied' /\ Progress' /\ Flushed' /\ call.op = "push" /\ form \notin {"none", "list", "stat"} /\ form \notin Pulls
<1>1. call.op = "push" /\ form \notin {"none", "list", "stat"} /\ form \notin Pulls
  BY PushFacts
<1>2. UNCHANGED <<call, form>>
  BY LeavesHost
<1>. QED  BY <1>1, <1>2, CopiedNothing, TransferringNothing

\* SEND to a path that takes it.
LEMMA TakesSend ==
  ASSUME SyncInv, DeviceLeaves, toDev # <<>>, toDev' = Tail(toDev), toDev[1].id = "SEND",
         dev' = [dev EXCEPT !.st = "storing", !.to = toDev[1].v], UNCHANGED <<toHost, remote>>
  PROVE  SyncInv'
<1>t. SyncTypeOK /\ Queued /\ Pushing
  BY DEF SyncInv, Conversation
<1>1. /\ UNCHANGED <<call, form, codec, pc, last, result, entries, errored, found, dest, sent, local, dec, up>>
      /\ (Ok' <=> Ok)
  BY LeavesHost
<1>2. dev.st = "ready" /\ RequestOf(form) = "SEND" /\ form # "none" /\ toDev[1].v = dest
  BY FirstRequest
<1>3. form \in Pushes
  BY <1>2, <1>t DEF RequestOf, SyncTypeOK
<1>4. form \notin Pulls /\ form # "list" /\ Flushed'
  BY <1>3, PushOnly
<1>5. toDev' \in Seq(Reqs) /\ OnlyBlocks(Tail(toDev))
  BY <1>t, TakenBlocks
<1>6. Answer = "owed" /\ ~Ok /\ pc # "request" /\ pc # "open"
  <2>1. Answer = "owed"
    BY <1>2 DEF Answer
  <2>. QED  BY <2>1, OwedAt
<1>7. dev \in Devs /\ dev.failed = FALSE /\ dest \in {"path", "inside"}
  BY <1>2, <1>t DEF SyncTypeOK, Devs, Queued
<1>8. /\ dev' \in Devs /\ dev'.st = "storing" /\ dev'.rest = dev.rest /\ dev'.failed = FALSE /\ dev'.to = dest
      /\ dev'.rest \in RestOf(form)
  BY <1>2, <1>7, <1>t DEF Devs, SyncTypeOK
<1>9. Answer' = "owed"
  BY <1>8 DEF Answer
<1>10. DeviceSound'
  BY <1>1, <1>3, <1>5, <1>8, SoundNow
<1>11. Pushing'
  <2>1. CASE pc \in {"input", "data", "id"}
    <3>1. /\ dev.rest = <<>>
          /\ \A i \in 1 .. Len(toDev) :
               /\ toDev[i].id = "DATA" => toDev[i].v = <<Base + i>>
               /\ toDev[i].id = "DONE" => Base + i = call.size + 1
          /\ pc \in {"input", "data"} => Base + Len(toDev) = sent
          /\ pc = "input" => sent = 0
      BY <1>2, <1>3, <1>6, <1>t, <2>1 DEF Pushing
    <3>2. Len(dev.rest) = 0 /\ Base = 0 - 1 /\ Base' = 0
      <4>1. Len(dev.rest) = 0
        BY <3>1, EmptySeq
      <4>. QED  BY <1>2, <1>8, <4>1 DEF Base
    <3>3. PICK q : q = Tail(toDev)
      OBVIOUS
    <3>4. /\ Len(toDev) \in Nat /\ Len(q) = Len(toDev) - 1 /\ toDev' = q
          /\ \A i \in 1 .. Len(q) : i + 1 \in 1 .. Len(toDev) /\ q[i] = toDev[i + 1]
      BY <1>t, <3>3, TakenBlocks
    <3>5. ASSUME NEW i \in 1 .. Len(q)
          PROVE  /\ q[i].id = "DATA" => q[i].v = <<0 + i>>
                 /\ q[i].id = "DONE" => 0 + i = call.size + 1
      <4>1. PICK k : k = i + 1
        OBVIOUS
      <4>2. k \in 1 .. Len(toDev) /\ q[i] = toDev[k] /\ (0 - 1) + k = 0 + i
        BY <3>4, <4>1
      <4>. QED  BY <3>1, <3>2, <4>2
    <3>6. pc \in {"input", "data"} => 0 + Len(q) = sent
      <4>1. (0 - 1) + Len(toDev) = 0 + Len(q)
        BY <3>4
      <4>. QED  BY <3>1, <3>2, <4>1
    <3>7. \A j \in 1 .. Len(dev'.rest) : dev'.rest[j] = j
      BY <1>8, <3>2
    <3>8. /\ \A i \in 1 .. Len(toDev') :
               /\ toDev'[i].id = "DATA" => toDev'[i].v = <<Base' + i>>
               /\ toDev'[i].id = "DONE" => Base' + i = call'.size + 1
          /\ pc' \in {"input", "data"} => Base' + Len(toDev') = sent'
          /\ pc' = "input" => sent' = 0
      BY <1>1, <3>1, <3>2, <3>4, <3>5, <3>6
    <3>. QED  BY <1>1, <1>3, <1>6, <1>8, <1>9, <2>1, <3>7, <3>8 DEF Pushing
  <2>2. CASE pc \notin {"input", "data", "id"}
    BY <1>1, <1>3, <1>6, <1>9, <2>2 DEF Pushing
  <2>. QED  BY <2>1, <2>2
<1>12. \A n \in 0 .. Total : DeviceAt(n) => DeviceAt(n)'
  BY <1>8 DEF DeviceAt
<1>. QED  BY <1>4, <1>5, <1>6, <1>8, <1>9, <1>10, <1>11, <1>12, TakesOn

\* A block, stored.
LEMMA TakesBlock ==
  ASSUME SyncInv, DeviceLeaves, toDev # <<>>, toDev' = Tail(toDev), toDev[1].id = "DATA", dev.st = "storing",
         dev' = [dev EXCEPT !.rest = @ \o toDev[1].v], UNCHANGED <<toHost, remote>>
  PROVE  SyncInv'
<1>t. SyncTypeOK /\ Queued /\ Pushing
  BY DEF SyncInv, Conversation
<1>1. /\ UNCHANGED <<call, form, codec, pc, last, result, entries, errored, found, dest, sent, local, dec, up>>
      /\ (Ok' <=> Ok)
  BY LeavesHost
<1>p. PICK r : r = toDev[1]
  OBVIOUS
<1>2. form \in Pushes /\ r \in Reqs /\ r.id = "DATA"
  BY <1>p, FirstRequest
<1>3. r.v \in Blocks
  BY <1>2, ReqFacts
<1>4. form \notin Pulls /\ form # "list" /\ Flushed'
  BY <1>2, PushOnly
<1>5. toDev' \in Seq(Reqs) /\ OnlyBlocks(Tail(toDev)) /\ 1 \in 1 .. Len(toDev)
  BY <1>t, TakenBlocks
<1>6. Answer = "owed" /\ ~Ok /\ pc # "request" /\ pc # "open"
  <2>1. Answer = "owed"
    BY DEF Answer
  <2>. QED  BY <2>1, OwedAt
<1>7. dev \in Devs /\ dev.failed = FALSE
  BY <1>t DEF SyncTypeOK, Devs, Queued
<1>8. /\ dev' \in Devs /\ dev'.st = "storing" /\ dev'.rest = dev.rest \o r.v /\ dev'.failed = FALSE /\ dev'.to = dev.to
      /\ dev'.rest \in RestOf(form)
  <2>0. dev.rest \o r.v \in Blocks
    <3>1. dev.rest \in Blocks
      BY <1>2, <1>t DEF SyncTypeOK, RestOf, Pushes
    <3>. QED  BY <1>3, <3>1, Joined DEF Blocks
  <2>1. dev.rest \in Seq(Nat \cup Entries) /\ r.v \in Seq(Nat \cup Entries)
    <3>1. r.v \in Seq(Nat)
      BY <1>3 DEF Blocks
    <3>. QED  BY <1>7, <3>1, SeqWider DEF Devs
  <2>2. dev.rest \o r.v \in Seq(Nat \cup Entries)
    BY <2>1, Joined
  <2>3. Blocks = RestOf(form)
    BY <1>2 DEF RestOf, Pushes
  <2>. QED  BY <1>7, <1>p, <2>0, <2>2, <2>3 DEF Devs
<1>9. Answer' = "owed"
  BY <1>8 DEF Answer
<1>10. DeviceSound'
  BY <1>1, <1>2, <1>5, <1>8, SoundNow
<1>11. Pushing'
  <2>1. CASE pc \in {"input", "data", "id"}
    <3>1. /\ dev.to = dest
          /\ \A j \in 1 .. Len(dev.rest) : dev.rest[j] = j
          /\ \A i \in 1 .. Len(toDev) :
               /\ toDev[i].id = "DATA" => toDev[i].v = <<Base + i>>
               /\ toDev[i].id = "DONE" => Base + i = call.size + 1
          /\ pc \in {"input", "data"} => Base + Len(toDev) = sent
          /\ pc = "input" => sent = 0
      BY <1>2, <1>6, <1>t, <2>1 DEF Pushing
    <3>2. PICK m : m = Len(dev.rest)
      OBVIOUS
    <3>3. /\ m \in Nat /\ Base = m
      <4>1. dev.rest \in Seq(Nat \cup Entries)
        BY <1>7 DEF Devs
      <4>2. m \in Nat
        BY <3>2, <4>1, LenProperties
      <4>. QED  BY <3>2, <4>2 DEF Base
    <3>4. r.v = <<m + 1>>
      BY <1>2, <1>5, <1>p, <3>1, <3>3
    <3>5. /\ Len(dev'.rest) = m + 1
          /\ \A j \in 1 .. Len(dev'.rest) : dev'.rest[j] = j
      <4>1. dev.rest \in Seq(Nat \cup Entries) /\ <<m + 1>> \in Seq(Nat \cup Entries) /\ Len(<<m + 1>>) = 1 /\ <<m + 1>>[1] = m + 1
        BY <1>7, <3>3 DEF Devs
      <4>2. PICK x : x = <<m + 1>>
        OBVIOUS
      <4>3. /\ Len(dev.rest \o x) = m + Len(x)
            /\ \A i \in 1 .. m : (dev.rest \o x)[i] = dev.rest[i]
            /\ \A i \in 1 .. Len(x) : (dev.rest \o x)[m + i] = x[i]
        BY <3>2, <4>1, <4>2, Joined
      <4>4. dev'.rest = dev.rest \o x
        BY <1>8, <3>4, <4>2
      <4>5. Len(dev'.rest) = m + 1 /\ dev'.rest[m + 1] = m + 1
        <5>1. Len(x) = 1 /\ x[1] = m + 1 /\ 1 \in 1 .. 1
          BY <4>1, <4>2
        <5>2. (dev.rest \o x)[m + 1] = x[1] /\ Len(dev.rest \o x) = m + 1
          BY <4>3, <5>1
        <5>. QED  BY <4>4, <5>1, <5>2
      <4>6. \A j \in 1 .. m : dev'.rest[j] = j
        BY <3>1, <3>2, <4>3, <4>4
      <4>7. \A j \in 1 .. m + 1 : j \in 1 .. m \/ j = m + 1
        BY <3>3
      <4>. QED  BY <4>5, <4>6, <4>7
    <3>6. Base' = m + 1
      <4>1. Base' = Len(dev'.rest) - 0
        BY <1>8 DEF Base
      <4>2. (m + 1) - 0 = m + 1
        BY <3>3
      <4>. QED  BY <3>5, <4>1, <4>2
    <3>7. PICK q : q = Tail(toDev)
      OBVIOUS
    <3>8. /\ Len(toDev) \in Nat /\ Len(q) = Len(toDev) - 1 /\ toDev' = q
          /\ \A i \in 1 .. Len(q) : i + 1 \in 1 .. Len(toDev) /\ q[i] = toDev[i + 1]
      BY <1>t, <3>7, TakenBlocks
    <3>9. ASSUME NEW i \in 1 .. Len(q)
          PROVE  /\ q[i].id = "DATA" => q[i].v = <<(m + 1) + i>>
                 /\ q[i].id = "DONE" => (m + 1) + i = call.size + 1
      <4>1. PICK k : k = i + 1
        OBVIOUS
      <4>2. k \in 1 .. Len(toDev) /\ q[i] = toDev[k] /\ m + k = (m + 1) + i
        BY <3>3, <3>8, <4>1
      <4>. QED  BY <3>1, <3>3, <4>2
    <3>10. pc \in {"input", "data"} => (m + 1) + Len(q) = sent
      <4>1. m + Len(toDev) = (m + 1) + Len(q)
        BY <3>3, <3>8
      <4>. QED  BY <3>1, <3>3, <4>1
    <3>11. /\ \A i \in 1 .. Len(toDev') :
                /\ toDev'[i].id = "DATA" => toDev'[i].v = <<Base' + i>>
                /\ toDev'[i].id = "DONE" => Base' + i = call'.size + 1
           /\ pc' \in {"input", "data"} => Base' + Len(toDev') = sent'
           /\ pc' = "input" => sent' = 0
      BY <1>1, <3>1, <3>6, <3>8, <3>9, <3>10
    <3>. QED  BY <1>1, <1>2, <1>6, <1>8, <1>9, <2>1, <3>1, <3>5, <3>11 DEF Pushing
  <2>2. CASE pc \notin {"input", "data", "id"}
    BY <1>1, <1>2, <1>6, <1>9, <2>2 DEF Pushing
  <2>. QED  BY <2>1, <2>2
<1>12. \A n \in 0 .. Total : DeviceAt(n) => DeviceAt(n)'
  BY <1>8 DEF DeviceAt
<1>. QED  BY <1>4, <1>5, <1>6, <1>8, <1>9, <1>10, <1>11, <1>12, TakesOn

\* What a device that gave up still takes: blocks and DONE.
LEMMA TakesDropped ==
  ASSUME SyncInv, DeviceLeaves, toDev # <<>>, toDev' = Tail(toDev), dev.st = "draining",
         \/ toDev[1].id = "DATA" /\ dev' = dev
         \/ toDev[1].id = "DONE" /\ dev' = [dev EXCEPT !.st = "gone"],
         UNCHANGED <<toHost, remote>>
  PROVE  SyncInv'
<1>t. SyncTypeOK /\ Queued /\ Pushing /\ (Ok => Answer = "over")
  BY DEF SyncInv, Conversation
<1>1. /\ UNCHANGED <<call, form, codec, pc, last, result, entries, errored, found, dest, sent, local, dec, up>>
      /\ (Ok' <=> Ok)
  BY LeavesHost
<1>2. form \in Pushes /\ (toDev[1].id = "DONE" => Tail(toDev) = <<>> /\ pc \notin {"input", "data"})
  BY FirstRequest
<1>4. form \notin Pulls /\ form # "list" /\ Flushed'
  BY <1>2, PushOnly
<1>5. toDev' \in Seq(Reqs) /\ OnlyBlocks(Tail(toDev))
  BY <1>t, TakenBlocks
<1>7. dev \in Devs /\ dev.failed = TRUE
  BY <1>t DEF SyncTypeOK, Devs, Queued
<1>8. /\ dev' \in Devs /\ dev'.rest = dev.rest /\ dev'.failed = TRUE /\ dev'.st \in {"draining", "gone"}
      /\ dev'.st = "gone" => Tail(toDev) = <<>> /\ pc \notin {"input", "data"}
      /\ dev'.rest \in RestOf(form)
  <2>1. dev.rest \in RestOf(form)
    BY <1>t DEF SyncTypeOK
  <2>2. CASE toDev[1].id = "DATA" /\ dev' = dev
    BY <1>7, <2>1, <2>2
  <2>3. CASE toDev[1].id = "DONE" /\ dev' = [dev EXCEPT !.st = "gone"]
    <3>1. dev' \in Devs /\ dev'.rest = dev.rest /\ dev'.failed = dev.failed /\ dev'.st = "gone"
      BY <1>7, <2>3 DEF Devs
    <3>. QED  BY <1>2, <1>7, <2>1, <2>3, <3>1
  <2>. QED  BY <2>2, <2>3
<1>9. Answer' = "failed" /\ Answer = "failed" /\ ~Ok
  <2>1. Answer' = "failed" /\ Answer = "failed"
    BY <1>7, <1>8 DEF Answer
  <2>. QED  BY <1>t, <2>1
<1>10. DeviceSound'
  BY <1>1, <1>2, <1>4, <1>5, <1>8, SoundNow
<1>11. Pushing'
  BY <1>1, <1>8, <1>9, <1>t, PushingLater
<1>12. \A n \in 0 .. Total : DeviceAt(n) => DeviceAt(n)'
  BY <1>8 DEF DeviceAt
<1>. QED  BY <1>4, <1>5, <1>8, <1>9, <1>10, <1>11, <1>12, TakesOn


-----------------------------------------------------------------------------
(* The device's answers.                                                    *)

\* A frame of two fields.
LEMMA FramedPair ==
  ASSUME NEW x \in Fields, NEW y \in Fields, NEW s, s = <<x, y>>, x.k = "id", y.k # "id",
         NEW f, NEW a, Rest(s, 2, x.v, f, a)
  PROVE  Framed(s, f, a)
<1>1. Len(s) = 2 /\ s[1] = x /\ s[2] = y
  OBVIOUS
<1>2. \A i \in 1 .. 2 : i = 1 \/ i = 2
  OBVIOUS
<1>3. 1 + 1 = 2
  OBVIOUS
<1>. QED  BY <1>1, <1>2, <1>3 DEF Framed

\* And of three.
LEMMA FramedTriple ==
  ASSUME NEW x \in Fields, NEW y \in Fields, NEW z \in Fields, NEW s, s = <<x, y, z>>,
         x.k = "id", y.k # "id", z.k # "id",
         NEW f, NEW a, Rest(s, 2, x.v, f, a)
  PROVE  Framed(s, f, a)
<1>1. Len(s) = 3 /\ s[1] = x /\ s[2] = y /\ s[3] = z
  OBVIOUS
<1>2. \A i \in 1 .. 3 : i = 1 \/ i = 2 \/ i = 3
  OBVIOUS
<1>3. 1 + 1 = 2
  OBVIOUS
<1>. QED  BY <1>1, <1>2, <1>3 DEF Framed

\* The two fields of a DONE, of STAT's answer and of an OKAY (Serve, DeviceAnswers).
LEMMA FieldPair ==
  ASSUME NEW x \in Fields, NEW y \in Fields, NEW s, s = <<x, y>>
  PROVE  s \in Seq(Fields) /\ s # <<>> /\ Len(s) = 2 /\ s[1] = x /\ s[2] = y
<1>1. s \in Seq(Fields) /\ Len(s) = 2 /\ s[1] = x /\ s[2] = y
  OBVIOUS
<1>. QED  BY <1>1, EmptyLen

\* The three fields of a DENT, of a DATA and of a FAIL (Serve, DeviceAnswers).
LEMMA FieldTriple ==
  ASSUME NEW x \in Fields, NEW y \in Fields, NEW z \in Fields, NEW s, s = <<x, y, z>>
  PROVE  s \in Seq(Fields) /\ s # <<>> /\ Len(s) = 3 /\ s[1] = x /\ s[2] = y /\ s[3] = z
<1>1. s \in Seq(Fields) /\ Len(s) = 3 /\ s[1] = x /\ s[2] = y /\ s[3] = z
  OBVIOUS
<1>. QED  BY <1>1, EmptyLen

\* FAIL and its reason.
LEMMA FailFrame ==
  /\ Fail \in Seq(Fields) /\ Fail # <<>> /\ Fail[1].k = "id" /\ Len(Fail) = 3
  /\ \A i \in 1 .. Len(Fail) : Fail[i].k = "id" => Fail[i].v = "FAIL"
  /\ \A f : f # "stat" => Framed(Fail, f, "failed")
  /\ \A n : Behind(Fail, n, 0)
<1>1. PICK x, y, z : x = Field("id", "FAIL") /\ y = Field("length", 0) /\ z = Field("reason", 0)
  OBVIOUS
<1>2. x \in Fields /\ y \in Fields /\ z \in Fields
  BY <1>1, FieldTypes DEF Ids
<1>3. x.k = "id" /\ x.v = "FAIL" /\ y.k = "length" /\ z.k = "reason"
  BY <1>1, FieldParts
<1>4. Fail = <<x, y, z>>
  BY <1>1 DEF Fail
<1>5. Fail \in Seq(Fields) /\ Fail # <<>> /\ Len(Fail) = 3 /\ Fail[1] = x /\ Fail[2] = y /\ Fail[3] = z
  BY <1>2, <1>4, FieldTriple
<1>6. \A i \in 1 .. 3 : i = 1 \/ i = 2 \/ i = 3
  OBVIOUS
<1>7. ASSUME NEW f, f # "stat" PROVE Framed(Fail, f, "failed")
  <2>1. Rest(Fail, 2, "FAIL", f, "failed")
    BY <1>3, <1>5, <1>7 DEF Rest, Ids
  <2>. QED  BY <1>2, <1>3, <1>4, <2>1, FramedTriple
<1>8. ASSUME NEW n PROVE Behind(Fail, n, 0)
  BY <1>3, <1>5, <1>6 DEF Behind, Weight, Counted
<1>. QED  BY <1>3, <1>5, <1>6, <1>7, <1>8

\* A frame is written: what was flushed before it still is.
LEMMA FlushedEmit ==
  ASSUME SyncTypeOK, Flushed, UNCHANGED <<form, codec, pc, last, result, dec>>,
         NEW t \in Seq(Fields), t # <<>>, toHost' = toHost \o t,
         \A i \in 1 .. Len(t) : t[i].k = "id" /\ t[i].v = "DONE" => i = 1 /\ dev.st = "sending" /\ ~dev.tail,
         form = "pull" /\ dev'.st = "sending" => ~dev'.tail,
         form = "pull_v2" /\ dev'.st = "sending" /\ ~dev'.tail =>
           dev'.rest = <<>> /\ t[Len(t)].k = "chunk" /\ t[Len(t)].v = << <<>> >>
  PROVE  Flushed'
<1>p. PICK s, m, l : s = toHost /\ m = Len(s) /\ l = Len(t)
  OBVIOUS
<1>1. /\ m \in Nat /\ l \in Nat /\ l >= 1 /\ Len(toHost') = m + l
      /\ \A i \in 1 .. m : toHost'[i] = s[i]
      /\ \A i \in 1 .. l : toHost'[m + i] = t[i]
  <2>1. s \in Seq(Fields)
    BY <1>p DEF SyncTypeOK
  <2>2. l \in Nat /\ l # 0
    BY <1>p, EmptyLen
  <2>3. l >= 1
    BY <2>2
  <2>4. /\ m \in Nat /\ Len(s \o t) = m + l
        /\ \A i \in 1 .. m : (s \o t)[i] = s[i]
        /\ \A i \in 1 .. l : (s \o t)[m + i] = t[i]
    BY <1>p, <2>1, Joined
  <2>. QED  BY <1>p, <2>2, <2>3, <2>4
<1>2. HeldBack' = HeldBack /\ (Ok' <=> Ok) /\ (Transferring' <=> Transferring)
  BY DEF HeldBack, Ok, Left, Transferring
<1>3. ASSUME NEW i \in 1 .. m + 1, FlushedBefore(i) PROVE FlushedBefore(i)'
  <2>1. i > 1 => i - 1 \in 1 .. m
    BY <1>1
  <2>2. i > 1 => toHost'[i - 1] = toHost[i - 1]
    BY <1>1, <1>p, <2>1
  <2>. QED  BY <1>2, <1>3, <2>2 DEF FlushedBefore
<1>4. ASSUME form = "pull_v2", Transferring, NEW i \in 1 .. Len(toHost'), toHost'[i].k = "id", toHost'[i].v = "DONE"
      PROVE  FlushedBefore(i)'
  <2>1. CASE i \in 1 .. m
    <3>1. toHost[i].k = "id" /\ toHost[i].v = "DONE" /\ i \in 1 .. Len(toHost) /\ i \in 1 .. m + 1
      BY <1>1, <1>4, <1>p, <2>1
    <3>2. FlushedBefore(i)
      BY <1>4, <3>1 DEF Flushed
    <3>. QED  BY <1>3, <3>1, <3>2
  <2>2. CASE i \notin 1 .. m
    <3>1. PICK j : j = i - m
      OBVIOUS
    <3>2. j \in 1 .. l /\ i = m + j
      BY <1>1, <2>2, <3>1
    <3>3. t[j].k = "id" /\ t[j].v = "DONE"
      BY <1>1, <1>4, <3>2
    <3>4. j = 1 /\ dev.st = "sending" /\ ~dev.tail
      BY <1>p, <3>2, <3>3
    <3>5. i = m + 1 /\ i \in 1 .. m + 1
      BY <1>1, <3>2, <3>4
    <3>6. FlushedBefore(m + 1)
      BY <1>4, <1>p, <3>4 DEF Flushed
    <3>. QED  BY <1>3, <3>5, <3>6
  <2>. QED  BY <2>1, <2>2
<1>5. ASSUME form = "pull_v2", dev'.st = "sending", ~dev'.tail
      PROVE  dev'.rest = <<>> /\ FlushedBefore(Len(toHost) + 1)'
  <2>1. t[l].k = "chunk" /\ t[l].v = << <<>> >> /\ dev'.rest = <<>>
    BY <1>5, <1>p
  <2>2. toHost'[m + l] = t[l]
    <3>1. l \in 1 .. l
      BY <1>1
    <3>. QED  BY <1>1, <3>1
  <2>3. (m + l) + 1 > 1 /\ ((m + l) + 1) - 1 = m + l
    BY <1>1
  <2>. QED  BY <1>1, <2>1, <2>2, <2>3 DEF FlushedBefore
<1>6. form' = "pull_v2" /\ ((pc' = "size" /\ last' = "DONE") \/ pc' = "quit" \/ Ok') =>
        (codec' # "brotli" => dec'.held = <<>>)
  BY <1>2 DEF Flushed
<1>. QED  BY <1>2, <1>4, <1>5, <1>6 DEF Flushed


\* The local file does not change with the device.
LEMMA CopiedDevice ==
  ASSUME SyncInv, DeviceLeaves, UNCHANGED remote
  PROVE  Copied'
<1>1. /\ UNCHANGED <<call, form, codec, pc, last, result, entries, errored, found, dest, sent, local, dec, up>>
      /\ (Ok' <=> Ok)
  BY LeavesHost
<1>2. Copied
  BY DEF SyncInv
<1>. QED  BY <1>1, <1>2 DEF Copied, Run

\* The device gives up, before it began or half way.
LEMMA GivesUp ==
  ASSUME SyncInv, DeviceLeaves, Answer = "owed", form # "stat", UNCHANGED remote,
         toDev' \in Seq(Reqs), OnlyBlocks(toDev'), toDev' # <<>> => form \in Pushes,
         toHost' = toHost \o Fail, dev' \in Devs, dev'.failed, dev'.rest = dev.rest,
         dev'.st = IF form \in Pushes THEN "draining" ELSE "gone"
  PROVE  SyncInv'
<1>t. SyncTypeOK /\ Modes /\ Pushing /\ Progress /\ Flushed
  BY DEF SyncInv
<1>1. /\ UNCHANGED <<call, form, codec, pc, last, result, entries, errored, found, dest, sent, local, dec, up>>
      /\ (Ok' <=> Ok) /\ (Transferring' <=> Transferring)
  BY LeavesHost
<1>2. pc # "request" /\ ~Ok
  BY OwedAt
<1>3. Answer' = "failed"
  BY DEF Answer
<1>4. DeviceSound'
  <2>1. pc \in {"input", "data"} => form \in Pushes
    BY <1>t DEF Modes
  <2>2. PICK q : q = toDev'
    OBVIOUS
  <2>. QED  BY <1>1, <2>1, <2>2, SoundNow
<1>5. Pushing'
  BY <1>1, <1>2, <1>3, <1>t, PushingLater
<1>6. Progress'
  <2>1. CASE Transferring
    <3>1. Total \in Nat
      BY <1>t, TotalNat
    <3>2. ASSUME NEW n \in 0 .. Total
          PROVE  n + 0 <= Total /\ DeviceAt(n + 0)' /\ Behind(Fail, n, 0)
      <4>1. n + 0 <= Total
        BY <3>1
      <4>2. dev'.st \notin {"ready", "sending", "listing"}
        OBVIOUS
      <4>. QED  BY <4>1, <4>2, FailFrame DEF DeviceAt
    <3>3. 0 \in Nat
      OBVIOUS
    <3>. QED  BY <1>t, <2>1, <3>2, <3>3, FailFrame, ProgressEmit
  <2>2. CASE ~Transferring
    BY <1>1, <2>2 DEF Progress
  <2>. QED  BY <2>1, <2>2
<1>7. Flushed'
  <2>1. dev'.st # "sending"
    OBVIOUS
  <2>2. \A i \in 1 .. Len(Fail) : ~(Fail[i].k = "id" /\ Fail[i].v = "DONE")
    BY FailFrame
  <2>. QED  BY <1>1, <1>t, <2>1, <2>2, FailFrame, FlushedEmit
<1>8. /\ remote' \in [path : [kind : Kinds, data : Blocks], inside : [kind : Kinds, data : Blocks]]
      /\ dev'.rest \in RestOf(form)
  BY <1>t DEF SyncTypeOK
<1>9. Copied'
  BY CopiedDevice
<1>10. Framed(Fail, form, Answer')
  BY <1>3, FailFrame
<1>. QED  BY <1>4, <1>5, <1>6, <1>7, <1>8, <1>9, <1>10, FailFrame, EmitsOn

\* RECV of what is no file, and SEND to a path that does not take it.
LEMMA TakesRefused ==
  ASSUME SyncInv, DeviceLeaves, toDev # <<>>, toDev' = Tail(toDev), UNCHANGED remote, toHost' = toHost \o Fail,
         \/ toDev[1].id = "RECV" /\ dev' = [dev EXCEPT !.st = "gone", !.failed = TRUE]
         \/ toDev[1].id = "SEND" /\ dev' = [dev EXCEPT !.st = "draining", !.failed = TRUE]
  PROVE  SyncInv'
<1>t. SyncTypeOK /\ Queued
  BY DEF SyncInv, Conversation
<1>1. dev.st = "ready" /\ RequestOf(form) = toDev[1].id /\ form # "none"
  BY FirstRequest
<1>2. toDev[1].id = "RECV" <=> form \in Pulls
  BY <1>1 DEF RequestOf, Pulls
<1>3. form # "stat" /\ form # "list" /\ (form \in Pulls \/ form \in Pushes)
  BY <1>1, <1>t DEF RequestOf, SyncTypeOK
<1>4. ~(form \in Pulls /\ form \in Pushes)
  BY DEF Pulls, Pushes
<1>5. Answer = "owed"
  BY <1>1, <1>3 DEF Answer
<1>6. toDev' \in Seq(Reqs) /\ OnlyBlocks(toDev') /\ (toDev' # <<>> => form \in Pushes)
  BY <1>t, TakenBlocks
<1>7. dev \in Devs
  BY <1>t DEF SyncTypeOK, Devs
<1>8. dev' \in Devs /\ dev'.failed /\ dev'.rest = dev.rest /\ dev'.st = IF form \in Pushes THEN "draining" ELSE "gone"
  BY <1>2, <1>3, <1>4, <1>7 DEF Devs
<1>. QED  BY <1>3, <1>5, <1>6, <1>8, GivesUp

\* It gives up half way.
LEMMA DeviceRejectsStep ==
  ASSUME SyncInv, DeviceRejects
  PROVE  SyncInv'
<1>t. SyncTypeOK /\ Queued
  BY DEF SyncInv, Conversation
<1>1. /\ dev.st \in {"listing", "sending", "storing"} /\ toHost' = toHost \o Fail /\ DeviceLeaves
      /\ dev' = [dev EXCEPT !.st = IF dev.st = "storing" THEN "draining" ELSE "gone", !.failed = TRUE]
      /\ UNCHANGED <<toDev, remote>>
  BY DEF DeviceRejects, Emit
<1>2. Answer = "owed"
  BY <1>1 DEF Answer
<1>3. /\ dev.st = "storing" <=> form \in Pushes
      /\ form # "stat"
  <2>1. /\ dev.st = "listing" => form = "list"
        /\ dev.st = "sending" => form \in Pulls
        /\ dev.st = "storing" => form \in Pushes
    BY <1>t DEF Queued
  <2>. QED  BY <1>1, <2>1 DEF Pulls, Pushes
<1>4. toDev' \in Seq(Reqs) /\ OnlyBlocks(toDev') /\ (toDev' # <<>> => form \in Pushes)
  BY <1>1, <1>t, KeptBlocks DEF SyncTypeOK
<1>5. dev \in Devs
  BY <1>t DEF SyncTypeOK, Devs
<1>6. dev' \in Devs /\ dev'.failed /\ dev'.rest = dev.rest /\ dev'.st = IF form \in Pushes THEN "draining" ELSE "gone"
  BY <1>1, <1>3, <1>5 DEF Devs
<1>. QED  BY <1>1, <1>2, <1>3, <1>4, <1>6, GivesUp

\* STAT is answered at once.
LEMMA TakesStat ==
  ASSUME SyncInv, DeviceLeaves, toDev # <<>>, toDev' = Tail(toDev), toDev[1].id = "STAT",
         toHost' = toHost \o <<Field("id", "STAT"), Field("body", remote.path.kind)>>, UNCHANGED <<dev, remote>>
  PROVE  SyncInv'
<1>t. SyncTypeOK /\ Modes /\ Queued /\ Pushing
  BY DEF SyncInv, Conversation
<1>1. /\ UNCHANGED <<call, form, codec, pc, last, result, entries, errored, found, dest, sent, local, dec, up>>
  BY LeavesHost
<1>2. dev.st = "ready" /\ RequestOf(form) = "STAT" /\ form # "none"
  BY FirstRequest
<1>3. form = "stat" /\ form \notin Pushes /\ form \notin {"list"} \cup Pulls
  BY <1>2 DEF RequestOf, Pulls, Pushes
<1>4. toDev' = <<>> /\ toDev' \in Seq(Reqs) /\ OnlyBlocks(<<>>)
  BY <1>3, <1>t, TakenBlocks
<1>5. Answer = "owed" /\ Answer' = "done" /\ dev.failed = FALSE
  <2>1. dev.failed = FALSE
    BY <1>2, <1>t DEF Queued, SyncTypeOK
  <2>. QED  BY <1>2, <1>4, <2>1 DEF Answer
<1>6. PICK x, y, t : x = Field("id", "STAT") /\ y = Field("body", remote.path.kind) /\ t = <<x, y>>
  OBVIOUS
<1>7. x \in Fields /\ y \in Fields /\ x.k = "id" /\ x.v = "STAT" /\ y.k = "body"
  <2>1. remote.path.kind \in Kinds
    BY <1>t DEF SyncTypeOK
  <2>. QED  BY <1>6, <2>1, FieldTypes, FieldParts DEF Ids
<1>8. t \in Seq(Fields) /\ t # <<>> /\ Len(t) = 2 /\ t[1] = x /\ t[2] = y
  BY <1>6, <1>7, FieldPair
<1>9. Framed(t, form, Answer')
  <2>1. Rest(t, 2, "STAT", form, Answer')
    BY <1>3, <1>5, <1>7, <1>8 DEF Rest, Ids
  <2>. QED  BY <1>6, <1>7, <2>1, FramedPair
<1>10. DeviceSound'
  <2>1. pc \notin {"input", "data"}
    BY <1>3, <1>t DEF Modes
  <2>. QED  BY <1>1, <1>2, <1>4, <1>5, <2>1, SoundNow
<1>11. Pushing'
  BY <1>1, <1>3, <1>t, PushingNothing
<1>12. Copied' /\ Progress' /\ Flushed'
  BY <1>1, <1>3, CopiedDevice, TransferringNothing
<1>13. /\ dev' \in Devs /\ dev'.rest \in RestOf(form)
       /\ remote' \in [path : [kind : Kinds, data : Blocks], inside : [kind : Kinds, data : Blocks]]
  BY <1>t DEF SyncTypeOK, Devs
<1>14. toHost' = toHost \o t /\ t[1].k = "id"
  BY <1>6, <1>7, <1>8
<1>. QED  BY <1>4, <1>5, <1>8, <1>9, <1>10, <1>11, <1>12, <1>13, <1>14, EmitsOn


\* DONE: the file is where the request said, whole.
LEMMA TakesDone ==
  ASSUME SyncInv, DeviceLeaves, toDev # <<>>, toDev' = Tail(toDev), toDev[1].id = "DONE", dev.st = "storing",
         remote' = IF dev.to = "path" THEN [remote EXCEPT !.path = File(dev.rest)]
                   ELSE [path |-> Dir, inside |-> File(dev.rest)],
         toHost' = toHost \o <<Field("id", "OKAY"), Field("length", 0)>>,
         dev' = [dev EXCEPT !.st = "ready", !.rest = <<>>]
  PROVE  SyncInv'
<1>t. SyncTypeOK /\ Modes /\ Queued /\ Pushing
  BY DEF SyncInv, Conversation
<1>1. /\ UNCHANGED <<call, form, codec, pc, last, result, entries, errored, found, dest, sent, local, dec, up>>
      /\ (Ok' <=> Ok)
  BY LeavesHost
<1>2. form \in Pushes /\ toDev' = <<>> /\ pc \notin {"input", "data"}
  BY FirstRequest
<1>3. form \notin Pulls /\ form # "list" /\ form # "none" /\ Copied' /\ Progress' /\ Flushed'
  BY <1>2, PushOnly
<1>4. toDev' \in Seq(Reqs) /\ OnlyBlocks(<<>>) /\ 1 \in 1 .. Len(toDev)
  BY <1>2, <1>t, TakenBlocks
<1>5. Answer = "owed" /\ ~Ok /\ pc \notin {"request", "quit", "okay", "open"}
  <2>1. Answer = "owed"
    BY DEF Answer
  <2>. QED  BY <2>1, OwedAt
<1>6. dev \in Devs /\ dev.failed = FALSE /\ dev.rest \in Blocks
  BY <1>3, <1>t DEF SyncTypeOK, Devs, Queued, RestOf
<1>7. dev' \in Devs /\ dev'.st = "ready" /\ dev'.failed = FALSE /\ dev'.rest \in RestOf(form)
  <2>1. <<>> \in Seq(Nat \cup Entries)
    BY EmptySeq
  <2>2. <<>> \in RestOf(form)
    BY <1>3, RunEmpty DEF RestOf
  <2>. QED  BY <1>6, <2>1, <2>2 DEF Devs
<1>8. Answer' = "done"
  BY <1>2, <1>7 DEF Answer
<1>9. remote' \in [path : [kind : Kinds, data : Blocks], inside : [kind : Kinds, data : Blocks]]
  <2>1. File(dev.rest) \in [kind : Kinds, data : Blocks] /\ Dir \in [kind : Kinds, data : Blocks]
    <3>1. <<>> \in Blocks
      BY RunEmpty
    <3>. QED  BY <1>6, <3>1 DEF File, Dir, Kinds
  <2>2. remote \in [path : [kind : Kinds, data : Blocks], inside : [kind : Kinds, data : Blocks]]
    BY <1>t DEF SyncTypeOK
  <2>. QED  BY <2>1, <2>2
<1>10. pc = "id" => Stored'
  <2>. SUFFICES ASSUME pc = "id" PROVE Stored'
    OBVIOUS
  <2>1. /\ dev.to = dest
        /\ \A j \in 1 .. Len(dev.rest) : dev.rest[j] = j
        /\ Base + 1 = call.size + 1
    BY <1>2, <1>4, <1>5, <1>t DEF Pushing
  <2>2. Len(dev.rest) \in Nat /\ call.size \in Nat
    BY <1>6, <1>t, LenProperties, CallFacts DEF SyncTypeOK, Blocks
  <2>3. Base = Len(dev.rest)
    BY <2>2 DEF Base
  <2>4. Len(dev.rest) = call.size
    BY <2>1, <2>2, <2>3
  <2>5. dev.rest = Data(call.size)
    <3>1. dev.rest \in Seq(Nat)
      BY <1>6 DEF Blocks
    <3>2. dev.rest = [j \in 1 .. Len(dev.rest) |-> dev.rest[j]]
      BY <3>1, LenProperties
    <3>. QED  BY <2>1, <2>4, <3>2 DEF Data
  <2>6. dest \in {"path", "inside"} /\ remote \in [path : [kind : Kinds, data : Blocks], inside : [kind : Kinds, data : Blocks]]
    BY <1>t DEF SyncTypeOK
  <2>7. remote'[dest] = File(dev.rest)
    BY <2>1, <2>6
  <2>. QED  BY <1>1, <2>5, <2>7 DEF Stored
<1>11. Pushing'
  BY <1>1, <1>2, <1>5, <1>8, <1>10 DEF Pushing
<1>12. PICK x, y, t : x = Field("id", "OKAY") /\ y = Field("length", 0) /\ t = <<x, y>>
  OBVIOUS
<1>13. x \in Fields /\ y \in Fields /\ x.k = "id" /\ x.v = "OKAY" /\ y.k = "length"
  <2>1. "OKAY" \in Ids /\ "length" \in {"name", "size", "length", "reason"} /\ 0 \in Nat
    BY DEF Ids
  <2>2. x \in Fields /\ y \in Fields
    BY <1>12, <2>1, FieldTypes
  <2>3. x.k = "id" /\ x.v = "OKAY" /\ y.k = "length"
    BY <1>12, FieldParts
  <2>. QED  BY <2>2, <2>3
<1>14. t \in Seq(Fields) /\ t # <<>> /\ Len(t) = 2 /\ t[1] = x /\ t[2] = y
  BY <1>12, <1>13, FieldPair
<1>15. Framed(t, form, Answer')
  <2>1. Rest(t, 2, "OKAY", form, Answer')
    BY <1>2, <1>8, <1>13, <1>14 DEF Rest, Ids
  <2>. QED  BY <1>12, <1>13, <2>1, FramedPair
<1>16. DeviceSound'
  BY <1>1, <1>2, <1>3, <1>4, <1>7, SoundNow
<1>17. toHost' = toHost \o t /\ t[1].k = "id"
  BY <1>12, <1>13, <1>14
<1>. QED  BY <1>3, <1>4, <1>5, <1>7, <1>9, <1>11, <1>14, <1>15, <1>16, <1>17, EmitsOn


\* Every request.
LEMMA DeviceTakesStep ==
  ASSUME SyncInv, DeviceTakes
  PROVE  SyncInv'
<1>1. /\ toDev # <<>> /\ toDev' = Tail(toDev) /\ DeviceLeaves /\ Serve(Head(toDev))
  BY DEF DeviceTakes
<1>2. PICK r : r = toDev[1]
  OBVIOUS
<1>3. /\ r \in Reqs /\ Head(toDev) = r
      /\ r.id \in {"DATA", "DONE"} => dev.st \in {"storing", "draining"}
  BY <1>1, <1>2, FirstRequest
<1>4. r.id \in {"LIST", "STAT", "RECV", "SEND", "DATA", "DONE", "QUIT"}
  BY <1>3, ReqFacts
<1>5. Serve(r)
  BY <1>1, <1>3
<1>6. CASE r.id = "LIST"
  <2>1. dev' = [dev EXCEPT !.st = "listing", !.rest = call.entries] /\ UNCHANGED <<toHost, remote>>
    BY <1>5, <1>6 DEF Serve
  <2>. QED  BY <1>1, <1>2, <1>6, <2>1, TakesList
<1>7. CASE r.id = "STAT"
  <2>1. /\ toHost' = toHost \o <<Field("id", "STAT"), Field("body", remote.path.kind)>>
        /\ UNCHANGED <<dev, remote>>
    BY <1>5, <1>7 DEF Serve, Emit
  <2>. QED  BY <1>1, <1>2, <1>7, <2>1, TakesStat
<1>8. CASE r.id = "RECV"
  <2>1. /\ UNCHANGED remote
        /\ IF remote.path.kind = "file"
           THEN /\ dev' = [dev EXCEPT !.st = "sending", !.rest = remote.path.data, !.tail = r.v # NoCodec]
                /\ UNCHANGED toHost
           ELSE dev' = [dev EXCEPT !.st = "gone", !.failed = TRUE] /\ toHost' = toHost \o Fail
    BY <1>5, <1>8 DEF Serve, Emit
  <2>2. CASE remote.path.kind = "file"
    BY <1>1, <1>2, <1>8, <2>1, <2>2, TakesRecv
  <2>3. CASE remote.path.kind # "file"
    BY <1>1, <1>2, <1>8, <2>1, <2>3, TakesRefused
  <2>. QED  BY <2>2, <2>3
<1>9. CASE r.id = "SEND"
  <2>1. /\ UNCHANGED remote
        /\ \/ dev' = [dev EXCEPT !.st = "draining", !.failed = TRUE] /\ toHost' = toHost \o Fail
           \/ dev' = [dev EXCEPT !.st = "storing", !.to = r.v] /\ UNCHANGED toHost
    BY <1>5, <1>9 DEF Serve, Emit
  <2>2. CASE dev' = [dev EXCEPT !.st = "draining", !.failed = TRUE] /\ toHost' = toHost \o Fail
    BY <1>1, <1>2, <1>9, <2>1, <2>2, TakesRefused
  <2>3. CASE dev' = [dev EXCEPT !.st = "storing", !.to = r.v] /\ UNCHANGED toHost
    BY <1>1, <1>2, <1>9, <2>1, <2>3, TakesSend
  <2>. QED  BY <2>1, <2>2, <2>3
<1>10. CASE r.id = "DATA"
  <2>1. /\ dev' = IF dev.st = "storing" THEN [dev EXCEPT !.rest = @ \o r.v] ELSE dev
        /\ UNCHANGED <<toHost, remote>>
    BY <1>5, <1>10 DEF Serve
  <2>2. CASE dev.st = "storing"
    BY <1>1, <1>2, <1>10, <2>1, <2>2, TakesBlock
  <2>3. CASE dev.st = "draining"
    BY <1>1, <1>2, <1>10, <2>1, <2>3, TakesDropped
  <2>. QED  BY <1>3, <1>10, <2>2, <2>3
<1>11. CASE r.id = "DONE"
  <2>1. IF dev.st = "storing"
        THEN /\ remote' = IF dev.to = "path" THEN [remote EXCEPT !.path = File(dev.rest)]
                          ELSE [path |-> Dir, inside |-> File(dev.rest)]
             /\ toHost' = toHost \o <<Field("id", "OKAY"), Field("length", 0)>>
             /\ dev' = [dev EXCEPT !.st = "ready", !.rest = <<>>]
        ELSE dev' = [dev EXCEPT !.st = "gone"] /\ UNCHANGED <<toHost, remote>>
    BY <1>5, <1>11 DEF Serve, Emit
  <2>2. CASE dev.st = "storing"
    BY <1>1, <1>2, <1>11, <2>1, <2>2, TakesDone
  <2>3. CASE dev.st = "draining"
    BY <1>1, <1>2, <1>11, <2>1, <2>3, TakesDropped
  <2>. QED  BY <1>3, <1>11, <2>2, <2>3
<1>12. CASE r.id = "QUIT"
  <2>1. dev' = [dev EXCEPT !.st = "gone"] /\ UNCHANGED <<toHost, remote>>
    BY <1>5, <1>12 DEF Serve
  <2>. QED  BY <1>1, <1>2, <1>12, <2>1, TakesQuit
<1>. QED  BY <1>4, <1>6, <1>7, <1>8, <1>9, <1>10, <1>11, <1>12

\* Answers of a listing or a file: what each of them shows.
LEMMA AnswersOn ==
  ASSUME SyncInv, DeviceLeaves, dev.st \in {"listing", "sending"}, UNCHANGED <<toDev, remote>>,
         NEW t \in Seq(Fields), t # <<>>, t[1].k = "id", toHost' = toHost \o t,
         dev' \in Devs, dev'.rest \in RestOf(form), dev'.failed = FALSE,
         dev'.st \in {"ready", dev.st},
         Framed(t, form, IF dev'.st = "ready" THEN "done" ELSE "owed"),
         NEW w \in Nat,
         \A n \in 0 .. Total : DeviceAt(n) => n + w <= Total /\ DeviceAt(n + w)' /\ Behind(t, n, w),
         Flushed'
  PROVE  SyncInv'
<1>t. SyncTypeOK /\ Modes /\ Queued /\ Pushing /\ Progress
  BY DEF SyncInv, Conversation
<1>1. /\ UNCHANGED <<call, form, codec, pc, last, result, entries, errored, found, dest, sent, local, dec, up>>
      /\ (Transferring' <=> Transferring)
  BY LeavesHost
<1>2. Answer = "owed"
  BY DEF Answer
<1>3. /\ dev.st = "listing" => form = "list"
      /\ dev.st = "sending" => form \in Pulls
      /\ form \notin Pushes
  <2>1. /\ dev.st = "listing" => form = "list"
        /\ dev.st = "sending" => form \in Pulls
    BY <1>t DEF Queued
  <2>. QED  BY <2>1 DEF Pulls, Pushes
<1>4. toDev = <<>> /\ OnlyBlocks(<<>>) /\ toDev' \in Seq(Reqs)
  <2>1. OnlyBlocks(toDev) /\ toDev = <<>>
    BY <1>3, <1>t, KeptBlocks
  <2>. QED  BY <1>t, <2>1 DEF SyncTypeOK
<1>5. Answer' = IF dev'.st = "ready" THEN "done" ELSE "owed"
  BY <1>4 DEF Answer
<1>6. DeviceSound'
  <2>1. pc \notin {"input", "data"}
    BY <1>3, <1>t DEF Modes
  <2>2. toDev' = <<>> /\ (dev'.st = "listing" => form = "list") /\ (dev'.st = "sending" => form \in Pulls)
        /\ dev'.st \notin {"storing", "draining"}
    BY <1>3, <1>4
  <2>. QED  BY <1>1, <1>4, <2>1, <2>2, SoundNow
<1>7. Pushing'
  BY <1>1, <1>3, <1>t, PushingNothing
<1>8. Progress'
  <2>1. CASE Transferring
    BY <1>t, <2>1, ProgressEmit
  <2>2. CASE ~Transferring
    BY <1>1, <2>2 DEF Progress
  <2>. QED  BY <2>1, <2>2
<1>9. Copied' /\ remote' \in [path : [kind : Kinds, data : Blocks], inside : [kind : Kinds, data : Blocks]]
  BY <1>t, CopiedDevice DEF SyncTypeOK
<1>10. Framed(t, form, Answer')
  BY <1>5
<1>. QED  BY <1>2, <1>4, <1>6, <1>7, <1>8, <1>9, <1>10, EmitsOn


\* Part of a file is counted on from where it begins.
LEMMA RunPart ==
  ASSUME NEW s \in Blocks, NEW n \in Nat, NEW a \in Nat, NEW b \in Nat, a <= b, b <= Len(s)
  PROVE  /\ SubSeq(s, a + 1, b) \in Blocks /\ Len(SubSeq(s, a + 1, b)) = b - a
         /\ Run(s, n) => Run(SubSeq(s, a + 1, b), n + a)
<1>1. Len(s) \in Nat /\ s \in Seq(Nat) /\ \A i \in 1 .. Len(s) : s[i] \in Nat
  BY LenProperties, ElementOfSeq DEF Blocks
<1>2. a + 1 \in Int /\ b \in Int /\ \A i \in a + 1 .. b : i \in 1 .. Len(s)
  BY <1>1
<1>3. \A i \in a + 1 .. b : s[i] \in Nat
  BY <1>1, <1>2
<1>4. PICK q : q = SubSeq(s, a + 1, b)
  OBVIOUS
<1>5. /\ q \in Seq(Nat) /\ Len(q) = IF a + 1 <= b THEN b - (a + 1) + 1 ELSE 0
      /\ \A i \in 1 .. b - (a + 1) + 1 : q[i] = s[a + 1 + i - 1]
  BY <1>2, <1>3, <1>4, SubSeqProperties
<1>6. Len(q) = b - a
  <2>1. b - (a + 1) + 1 = b - a /\ (~(a + 1 <= b) => b - a = 0)
    OBVIOUS
  <2>. QED  BY <1>5, <2>1
<1>7. ASSUME Run(s, n), NEW i \in 1 .. b - a PROVE q[i] = (n + a) + i
  <2>1. i \in 1 .. b - (a + 1) + 1 /\ a + 1 + i - 1 = a + i /\ a + i \in 1 .. Len(s) /\ n + (a + i) = (n + a) + i
    BY <1>1
  <2>2. q[i] = s[a + i]
    BY <1>5, <2>1
  <2>3. s[a + i] = n + (a + i)
    BY <1>7, <2>1 DEF Run
  <2>. QED  BY <2>1, <2>2, <2>3
<1>8. Run(s, n) => Run(q, n + a)
  BY <1>6, <1>7 DEF Run
<1>. QED  BY <1>4, <1>5, <1>6, <1>8 DEF Blocks

\* A chunk is the next blocks, in order, and not more than a read may take.
LEMMA ChunkFacts ==
  ASSUME NEW s \in Blocks, s # <<>>, NEW c \in Chunks(s)
  PROVE  /\ c \in Seq(Blocks) /\ Len(c) \in 1 .. 2 /\ (codec = NoCodec => Len(c) = 1)
         /\ Expand(c) \in Blocks /\ Len(Expand(c)) \in 1 .. Len(s) /\ Len(s) \in Nat
         /\ \A n \in Nat : Run(s, n) => Run(Expand(c), n)
<1>1. Len(s) \in Nat /\ Len(s) >= 1
  <2>1. Len(s) \in Nat /\ Len(s) # 0
    BY EmptyLen DEF Blocks
  <2>. QED  BY <2>1
<1>2. ASSUME NEW k \in 1 .. Len(s), c = <<SubSeq(s, 1, k)>>
      PROVE  /\ c \in Seq(Blocks) /\ Len(c) = 1 /\ Expand(c) \in Blocks /\ Len(Expand(c)) = k
             /\ \A n \in Nat : Run(s, n) => Run(Expand(c), n)
  <2>1. 0 \in Nat /\ k \in Nat /\ 0 <= k /\ k <= Len(s) /\ 0 + 1 = 1 /\ k - 0 = k
    BY <1>1
  <2>2. PICK x : x = SubSeq(s, 1, k)
    OBVIOUS
  <2>3. ASSUME NEW n \in Nat PROVE x \in Blocks /\ Len(x) = k /\ (Run(s, n) => Run(x, n))
    <3>1. n + 0 = n
      OBVIOUS
    <3>2. /\ SubSeq(s, 0 + 1, k) \in Blocks /\ Len(SubSeq(s, 0 + 1, k)) = k - 0
          /\ Run(s, n) => Run(SubSeq(s, 0 + 1, k), n + 0)
      BY <2>1, RunPart
    <3>. QED  BY <2>1, <2>2, <3>1, <3>2
  <2>4. x \in Blocks /\ Len(x) = k
    BY <2>1, <2>3
  <2>5. c = <<x>>
    BY <1>2, <2>2
  <2>6. c \in Seq(Blocks) /\ Len(c) = 1 /\ c[1] = x
    BY <2>4, <2>5
  <2>7. Expand(c) = x
    BY <2>6, Expanded
  <2>. QED  BY <2>3, <2>4, <2>6, <2>7
<1>3. CASE \E k \in 1 .. Len(s) : c = <<SubSeq(s, 1, k)>>
  <2>1. PICK k \in 1 .. Len(s) : c = <<SubSeq(s, 1, k)>>
    BY <1>3
  <2>2. /\ c \in Seq(Blocks) /\ Len(c) = 1 /\ Expand(c) \in Blocks /\ Len(Expand(c)) = k
        /\ \A n \in Nat : Run(s, n) => Run(Expand(c), n)
    BY <1>2, <2>1
  <2>. QED  BY <1>1, <2>2
<1>4. CASE codec # NoCodec /\ ~(Len(s) < 2) /\ c = <<SubSeq(s, 1, 1), SubSeq(s, 2, 2)>>
  <2>1. 0 \in Nat /\ 1 \in Nat /\ 2 \in Nat /\ 0 <= 1 /\ 1 <= 2 /\ 1 <= Len(s) /\ 2 <= Len(s) /\ 0 + 1 = 1 /\ 1 + 1 = 2
        /\ 1 - 0 = 1 /\ 2 - 1 = 1
    BY <1>1, <1>4
  <2>2. PICK x, y : x = SubSeq(s, 1, 1) /\ y = SubSeq(s, 2, 2)
    OBVIOUS
  <2>3. ASSUME NEW n \in Nat
        PROVE  x \in Blocks /\ Len(x) = 1 /\ y \in Blocks /\ Len(y) = 1 /\ (Run(s, n) => Run(x, n) /\ Run(y, n + 1))
    <3>1. n + 0 = n
      OBVIOUS
    <3>2. /\ SubSeq(s, 0 + 1, 1) \in Blocks /\ Len(SubSeq(s, 0 + 1, 1)) = 1 - 0
          /\ Run(s, n) => Run(SubSeq(s, 0 + 1, 1), n + 0)
      BY <2>1, RunPart
    <3>3. /\ SubSeq(s, 1 + 1, 2) \in Blocks /\ Len(SubSeq(s, 1 + 1, 2)) = 2 - 1
          /\ Run(s, n) => Run(SubSeq(s, 1 + 1, 2), n + 1)
      BY <2>1, RunPart
    <3>. QED  BY <2>1, <2>2, <3>1, <3>2, <3>3
  <2>4. x \in Blocks /\ Len(x) = 1 /\ y \in Blocks /\ Len(y) = 1
    BY <2>1, <2>3
  <2>5. c = <<x, y>>
    BY <1>4, <2>2
  <2>6. c \in Seq(Blocks) /\ Len(c) = 2 /\ c[1] = x /\ c[2] = y
    BY <2>4, <2>5
  <2>7. Expand(c) = x \o y
    BY <2>6, Expanded
  <2>8. ASSUME NEW n \in Nat
        PROVE  x \o y \in Blocks /\ Len(x \o y) = 1 + 1 /\ (Run(s, n) => Run(x \o y, n))
    <3>1. /\ x \o y \in Blocks /\ Len(x \o y) = Len(x) + Len(y)
          /\ Run(x \o y, n) <=> Run(x, n) /\ Run(y, n + Len(x))
      BY <2>4, RunJoined
    <3>. QED  BY <2>3, <2>4, <3>1
  <2>9. Expand(c) \in Blocks /\ Len(Expand(c)) = 2 /\ \A n \in Nat : Run(s, n) => Run(Expand(c), n)
    BY <2>1, <2>7, <2>8
  <2>10. 2 \in 1 .. Len(s) /\ 2 \in 1 .. 2
    BY <1>1, <1>4
  <2>. QED  BY <1>1, <1>4, <2>6, <2>9, <2>10
<1>. QED
  <2>1. CASE codec = NoCodec
    <3>1. c = <<SubSeq(s, 1, 1)>> /\ 1 \in 1 .. Len(s)
      BY <1>1, <2>1 DEF Chunks
    <3>. QED  BY <1>3, <3>1
  <2>2. CASE codec # NoCodec
    BY <1>3, <1>4, <2>2, Zenon DEF Chunks
  <2>. QED  BY <2>1, <2>2

\* A DATA frame of a pull.
IsData(t, c) ==
  /\ c \in Seq(Blocks) /\ Len(c) \in 1 .. 2 /\ form \in Pulls /\ (form = "pull" => Len(c) = 1)
  /\ t = <<Field("id", "DATA"), Field("size", Len(c)), Field("chunk", c)>>

\* It carries the blocks after n.
LEMMA DataFrame ==
  ASSUME NEW c, NEW t, IsData(t, c)
  PROVE  /\ t \in Seq(Fields) /\ t # <<>> /\ t[1].k = "id" /\ Len(t) = 3
         /\ \A i \in 1 .. Len(t) : t[i].k = "id" => t[i].v = "DATA"
         /\ t[3].k = "chunk" /\ t[3].v = c
         /\ Framed(t, form, "owed")
         /\ \A n : Run(Expand(c), n) => Behind(t, n, Len(Expand(c)))
<1>0. /\ c \in Seq(Blocks) /\ Len(c) \in 1 .. 2 /\ form \in Pulls /\ (form = "pull" => Len(c) = 1)
      /\ t = <<Field("id", "DATA"), Field("size", Len(c)), Field("chunk", c)>>
  BY DEF IsData
<1>1. PICK x, y, z : x = Field("id", "DATA") /\ y = Field("size", Len(c)) /\ z = Field("chunk", c)
  OBVIOUS
<1>2. x \in Fields /\ y \in Fields /\ z \in Fields
  <2>1. Len(c) \in Nat
    BY <1>0, LenProperties
  <2>. QED  BY <1>0, <1>1, <2>1, FieldTypes DEF Ids
<1>3. x.k = "id" /\ x.v = "DATA" /\ y.k = "size" /\ y.v = Len(c) /\ z.k = "chunk" /\ z.v = c
  BY <1>1, FieldParts
<1>4. t = <<x, y, z>>
  BY <1>0, <1>1
<1>5. t \in Seq(Fields) /\ t # <<>> /\ Len(t) = 3 /\ t[1] = x /\ t[2] = y /\ t[3] = z
  BY <1>2, <1>4, FieldTriple
<1>6. \A i \in 1 .. 3 : i = 1 \/ i = 2 \/ i = 3
  OBVIOUS
<1>7. Framed(t, form, "owed")
  <2>1. AtFrame(t, 2 + 2, "owed")
    BY <1>5 DEF AtFrame
  <2>2. Rest(t, 2, "DATA", form, "owed")
    <3>1. 2 + 1 = 3 /\ 3 <= 3
      OBVIOUS
    <3>. QED  BY <1>0, <1>3, <1>5, <2>1, <3>1 DEF Rest, Ids
  <2>. QED  BY <1>2, <1>3, <1>4, <2>2, FramedTriple
<1>8. ASSUME NEW n, Run(Expand(c), n) PROVE Behind(t, n, Len(Expand(c)))
  <2>1. Weight(x) = 0 /\ Weight(y) = 0 /\ Weight(z) = Len(Expand(c))
    BY <1>3 DEF Weight
  <2>2. Counted(t, 1, n) /\ Counted(t, 2, n) /\ Counted(t, 3, n)
    BY <1>0, <1>3, <1>5, <1>8 DEF Counted
  <2>. QED  BY <1>5, <1>6, <2>1, <2>2 DEF Behind
<1>. QED  BY <1>3, <1>5, <1>6, <1>7, <1>8


\* What every answer of a listing or a file begins from.
LEMMA AnsweringFacts ==
  ASSUME SyncInv, DeviceLeaves, dev.st \in {"listing", "sending"}
  PROVE  /\ SyncTypeOK /\ Flushed /\ dev \in Devs /\ dev.failed = FALSE /\ toDev = <<>>
         /\ dev.st = "listing" => form = "list" /\ dev.rest \in Seq(Entries)
         /\ dev.st = "sending" => form \in Pulls /\ dev.rest \in Blocks
         /\ Total' = Total \/ remote'.path # remote.path
         /\ Total \in Nat
         /\ UNCHANGED <<call, form, codec, pc, last, result, dec>>
<1>t. SyncTypeOK /\ Flushed /\ Queued
  BY DEF SyncInv, Conversation
<1>1. UNCHANGED <<call, form, codec, pc, last, result, dec>>
  BY LeavesHost
<1>2. /\ dev.st = "listing" => form = "list"
      /\ dev.st = "sending" => form \in Pulls
      /\ dev.failed = FALSE /\ dev \in Devs /\ dev.rest \in RestOf(form)
  BY <1>t DEF Queued, SyncTypeOK, Devs
<1>3. form \notin Pushes
  BY <1>2 DEF Pulls, Pushes
<1>4. toDev = <<>>
  BY <1>3, <1>t, KeptBlocks
<1>5. Total \in Nat /\ (Total' = Total \/ remote'.path # remote.path)
  BY <1>1, <1>t, TotalNat, CountingSame
<1>6. /\ dev.st = "listing" => dev.rest \in Seq(Entries)
      /\ dev.st = "sending" => dev.rest \in Blocks
  BY <1>2 DEF RestOf, Pulls
<1>. QED  BY <1>t, <1>1, <1>2, <1>4, <1>5, <1>6

\* An entry of a listing.
LEMMA SendsEntry ==
  ASSUME SyncInv, DeviceLeaves, dev.st = "listing", dev.rest # <<>>, UNCHANGED <<toDev, remote>>,
         toHost' = toHost \o <<Field("id", "DENT"), Field("body", Head(dev.rest).error),
                               Field("name", Head(dev.rest).name)>>,
         dev' = [dev EXCEPT !.rest = Tail(@)]
  PROVE  SyncInv'
<1>1. /\ SyncTypeOK /\ dev \in Devs /\ dev.failed = FALSE /\ form = "list" /\ dev.rest \in Seq(Entries)
      /\ Total' = Total /\ Total \in Nat /\ UNCHANGED <<call, form>>
  BY AnsweringFacts
<1>2. PICK s, e : s = dev.rest /\ e = Head(dev.rest)
  OBVIOUS
<1>3. /\ Len(s) \in Nat /\ Len(s) >= 1 /\ e \in Entries /\ e = s[1]
      /\ Tail(s) \in Seq(Entries) /\ Len(Tail(s)) = Len(s) - 1
      /\ \A i \in 1 .. Len(s) - 1 : Tail(s)[i] = s[i + 1]
  BY <1>1, <1>2, TailOf
<1>4. e.name \in Nat /\ e.error \in BOOLEAN
  BY <1>3 DEF Entries
<1>5. PICK x, y, z, t : x = Field("id", "DENT") /\ y = Field("body", e.error) /\ z = Field("name", e.name) /\ t = <<x, y, z>>
  OBVIOUS
<1>6. /\ x \in Fields /\ y \in Fields /\ z \in Fields
      /\ x.k = "id" /\ x.v = "DENT" /\ y.k = "body" /\ y.v = e.error /\ z.k = "name" /\ z.v = e.name
  BY <1>4, <1>5, FieldTypes, FieldParts DEF Ids
<1>7. t \in Seq(Fields) /\ t # <<>> /\ Len(t) = 3 /\ t[1] = x /\ t[2] = y /\ t[3] = z
  BY <1>5, <1>6, FieldTriple
<1>8. Framed(t, form, "owed")
  <2>1. AtFrame(t, 2 + 2, "owed")
    BY <1>7 DEF AtFrame
  <2>2. 2 + 1 = 3 /\ 3 <= 3
    OBVIOUS
  <2>3. Rest(t, 2, "DENT", form, "owed")
    BY <1>1, <1>6, <1>7, <2>1, <2>2 DEF Rest, Ids
  <2>. QED  BY <1>5, <1>6, <2>3, FramedTriple
<1>9. dev' \in Devs /\ dev'.st = "listing" /\ dev'.rest = Tail(s) /\ dev'.failed = FALSE /\ dev'.rest \in RestOf(form)
  <2>1. Tail(s) \in Seq(Nat \cup Entries)
    BY <1>3, SeqWider
  <2>. QED  BY <1>1, <1>2, <1>3, <2>1 DEF Devs, RestOf
<1>10. ASSUME NEW n \in 0 .. Total, DeviceAt(n)
       PROVE  n + 1 <= Total /\ DeviceAt(n + 1)' /\ Behind(t, n, 1)
  <2>1. n + Len(s) = Total /\ \A j \in 1 .. Len(s) : s[j] = call.entries[n + j]
    BY <1>2, <1>10 DEF DeviceAt
  <2>2. n + 1 <= Total /\ (n + 1) + (Len(s) - 1) = Total /\ 1 \in 1 .. Len(s) /\ n + 1 \in 1 .. Total
    BY <1>1, <1>3, <2>1
  <2>3. e = call.entries[n + 1]
    BY <1>3, <2>1, <2>2
  <2>4. e.name = n + 1
    <3>1. \A i \in 1 .. Len(call.entries) : call.entries[i].name = i
      BY <1>1, CallFacts DEF SyncTypeOK
    <3>2. Total = Len(call.entries)
      BY <1>1, ListFacts
    <3>. QED  BY <2>2, <2>3, <3>1, <3>2
  <2>5. ASSUME NEW j \in 1 .. Len(s) - 1 PROVE Tail(s)[j] = call.entries[(n + 1) + j]
    <3>1. j + 1 \in 1 .. Len(s) /\ n + (j + 1) = (n + 1) + j
      BY <1>3
    <3>2. Tail(s)[j] = s[j + 1]
      BY <1>3
    <3>3. s[j + 1] = call.entries[n + (j + 1)]
      BY <2>1, <3>1
    <3>. QED  BY <3>1, <3>2, <3>3
  <2>6. DeviceAt(n + 1)'
    BY <1>1, <1>3, <1>9, <2>2, <2>5 DEF DeviceAt
  <2>7. Behind(t, n, 1)
    <3>1. Weight(x) = 0 /\ Weight(y) = 0 /\ Weight(z) = 1
      BY <1>6 DEF Weight
    <3>2. Counted(t, 1, n) /\ Counted(t, 2, n) /\ Counted(t, 3, n)
      BY <1>6, <1>7, <2>3, <2>4 DEF Counted
    <3>3. \A i \in 1 .. 3 : i = 1 \/ i = 2 \/ i = 3
      OBVIOUS
    <3>. QED  BY <1>7, <3>1, <3>2, <3>3 DEF Behind
  <2>. QED  BY <2>2, <2>6, <2>7
<1>11. Flushed'
  BY <1>1 DEF Flushed
<1>12. toHost' = toHost \o t /\ t[1].k = "id" /\ 1 \in Nat /\ Framed(t, form, IF dev'.st = "ready" THEN "done" ELSE "owed")
  BY <1>2, <1>5, <1>6, <1>7, <1>8, <1>9
<1>. QED  BY <1>7, <1>9, <1>10, <1>11, <1>12, AnswersOn

\* DONE, after the last entry or the last block.
LEMMA SendsDone ==
  ASSUME SyncInv, DeviceLeaves, dev.st \in {"listing", "sending"}, dev.rest = <<>>, UNCHANGED <<toDev, remote>>,
         NEW y \in Fields, y.k = (IF form = "list" THEN "body" ELSE "size"),
         toHost' = toHost \o <<Field("id", "DONE"), y>>,
         dev.st = "sending" => ~dev.tail,
         dev' = [dev EXCEPT !.st = "ready"]
  PROVE  SyncInv'
<1>1. /\ SyncTypeOK /\ Flushed /\ dev \in Devs /\ dev.failed = FALSE /\ toDev = <<>> /\ dev.rest \in RestOf(form)
      /\ Total' = Total /\ Total \in Nat /\ UNCHANGED <<call, form, codec, pc, last, result, dec>>
      /\ dev.st = "listing" => form = "list"
      /\ dev.st = "sending" => form \in Pulls
  BY AnsweringFacts DEF SyncTypeOK
<1>2. PICK x, t : x = Field("id", "DONE") /\ t = <<x, y>>
  OBVIOUS
<1>3. x \in Fields /\ x.k = "id" /\ x.v = "DONE" /\ y.k # "id" /\ y.k \in {"body", "size"}
  BY <1>2, FieldTypes, FieldParts DEF Ids
<1>4. t \in Seq(Fields) /\ t # <<>> /\ Len(t) = 2 /\ t[1] = x /\ t[2] = y
  BY <1>2, <1>3, FieldPair
<1>5. Framed(t, form, "done")
  <2>1. Rest(t, 2, "DONE", form, "done")
    BY <1>1, <1>3, <1>4 DEF Rest, Ids
  <2>. QED  BY <1>2, <1>3, <2>1, FramedPair
<1>6. dev' \in Devs /\ dev'.st = "ready" /\ dev'.rest = dev.rest /\ dev'.failed = FALSE /\ dev'.rest \in RestOf(form)
  BY <1>1 DEF Devs
<1>7. Answer' = "done"
  BY <1>1, <1>6 DEF Answer
<1>8. ASSUME NEW n \in 0 .. Total, DeviceAt(n)
      PROVE  n + 0 <= Total /\ DeviceAt(n + 0)' /\ Behind(t, n, 0)
  <2>1. n + Len(dev.rest) = Total /\ Len(dev.rest) = 0
    BY <1>8, EmptySeq DEF DeviceAt
  <2>2. n = Total /\ n + 0 <= Total
    BY <1>1, <2>1
  <2>3. DeviceAt(n + 0)'
    BY <1>6, <1>7 DEF DeviceAt
  <2>4. Behind(t, n, 0)
    <3>1. Weight(x) = 0 /\ Weight(y) = 0
      BY <1>3 DEF Weight
    <3>2. Counted(t, 1, n) /\ Counted(t, 2, n)
      BY <1>3, <1>4, <2>2 DEF Counted
    <3>3. \A i \in 1 .. 2 : i = 1 \/ i = 2
      OBVIOUS
    <3>. QED  BY <1>4, <3>1, <3>2, <3>3 DEF Behind
  <2>. QED  BY <2>2, <2>3, <2>4
<1>9. toHost' = toHost \o t /\ t[1].k = "id" /\ 0 \in Nat /\ Framed(t, form, IF dev'.st = "ready" THEN "done" ELSE "owed")
  BY <1>2, <1>3, <1>4, <1>5, <1>6
<1>10. Flushed'
  <2>1. CASE form = "list"
    BY <1>1, <2>1 DEF Flushed
  <2>2. CASE form # "list"
    <3>1. \A i \in 1 .. Len(t) : t[i].k = "id" /\ t[i].v = "DONE" => i = 1 /\ dev.st = "sending" /\ ~dev.tail
      <4>1. \A i \in 1 .. 2 : i = 1 \/ i = 2
        OBVIOUS
      <4>. QED  BY <1>1, <1>3, <1>4, <2>2, <4>1
    <3>. QED  BY <1>1, <1>4, <1>6, <1>9, <3>1, FlushedEmit
  <2>. QED  BY <2>1, <2>2
<1>. QED  BY <1>4, <1>6, <1>8, <1>9, <1>10, AnswersOn


\* The next blocks of a file.
LEMMA SendsChunk ==
  ASSUME SyncInv, DeviceLeaves, dev.st = "sending", dev.rest # <<>>, UNCHANGED <<toDev, remote>>,
         NEW c \in Chunks(dev.rest), EmitChunk(c),
         dev' = [dev EXCEPT !.rest = SubSeq(@, Len(Expand(c)) + 1, Len(@))]
  PROVE  SyncInv'
<1>1. /\ SyncTypeOK /\ Flushed /\ dev \in Devs /\ dev.failed = FALSE /\ form \in Pulls /\ dev.rest \in Blocks
      /\ Total' = Total /\ Total \in Nat /\ UNCHANGED <<call, form, codec, pc, last, result, dec>>
  BY AnsweringFacts
<1>2. PICK s, k : s = dev.rest /\ k = Len(Expand(c))
  OBVIOUS
<1>3. /\ c \in Seq(Blocks) /\ Len(c) \in 1 .. 2 /\ (codec = NoCodec => Len(c) = 1)
      /\ k \in 1 .. Len(s) /\ Len(s) \in Nat
      /\ \A n \in Nat : Run(s, n) => Run(Expand(c), n)
  BY <1>1, <1>2, ChunkFacts
<1>4. form = "pull" => Len(c) = 1
  BY <1>1, <1>3, PullFacts
<1>5. PICK t : t = <<Field("id", "DATA"), Field("size", Len(c)), Field("chunk", c)>>
  OBVIOUS
<1>6. /\ t \in Seq(Fields) /\ t # <<>> /\ t[1].k = "id" /\ Len(t) = 3
      /\ \A i \in 1 .. Len(t) : t[i].k = "id" => t[i].v = "DATA"
      /\ Framed(t, form, "owed")
      /\ \A n : Run(Expand(c), n) => Behind(t, n, k)
  <2>1. IsData(t, c)
    BY <1>1, <1>3, <1>4, <1>5 DEF IsData
  <2>2. /\ t \in Seq(Fields) /\ t # <<>> /\ t[1].k = "id" /\ Len(t) = 3
        /\ \A i \in 1 .. Len(t) : t[i].k = "id" => t[i].v = "DATA"
        /\ Framed(t, form, "owed")
        /\ \A n : Run(Expand(c), n) => Behind(t, n, Len(Expand(c)))
    BY <2>1, DataFrame
  <2>. QED  BY <1>2, <2>2
<1>7. PICK q : q = SubSeq(s, k + 1, Len(s))
  OBVIOUS
<1>8. ASSUME NEW n \in Nat
      PROVE  q \in Blocks /\ Len(q) = Len(s) - k /\ (Run(s, n) => Run(q, n + k))
  <2>1. k \in Nat /\ k <= Len(s) /\ Len(s) <= Len(s)
    BY <1>3
  <2>. QED  BY <1>1, <1>2, <1>3, <1>7, <2>1, RunPart
<1>9. q \in Blocks /\ Len(q) = Len(s) - k
  <2>1. 0 \in Nat
    OBVIOUS
  <2>. QED  BY <1>8, <2>1
<1>10. /\ dev' \in Devs /\ dev'.st = "sending" /\ dev'.rest = q /\ dev'.failed = FALSE /\ dev'.rest \in RestOf(form)
       /\ dev'.tail = dev.tail
  <2>1. q \in Seq(Nat \cup Entries)
    BY <1>9, SeqWider DEF Blocks
  <2>2. q \in RestOf(form)
    BY <1>1, <1>9 DEF RestOf, Pulls
  <2>. QED  BY <1>1, <1>2, <1>7, <2>1, <2>2 DEF Devs
<1>11. ASSUME NEW n \in 0 .. Total, DeviceAt(n)
       PROVE  n + k <= Total /\ DeviceAt(n + k)' /\ Behind(t, n, k)
  <2>1. n + Len(s) = Total /\ Run(s, n) /\ n \in Nat
    BY <1>1, <1>2, <1>11 DEF DeviceAt
  <2>2. n + k <= Total /\ (n + k) + (Len(s) - k) = Total
    BY <1>3, <2>1
  <2>3. Run(q, n + k)
    BY <1>8, <2>1
  <2>4. DeviceAt(n + k)'
    <3>1. (n + k) + Len(dev'.rest) = Total' /\ Run(dev'.rest, n + k)
      BY <1>1, <1>9, <1>10, <2>2, <2>3
    <3>. QED  BY <1>10, <3>1 DEF DeviceAt
  <2>5. Behind(t, n, k)
    BY <1>3, <1>6, <2>1
  <2>. QED  BY <2>2, <2>4, <2>5
<1>12. toHost' = toHost \o t /\ k \in Nat /\ Framed(t, form, IF dev'.st = "ready" THEN "done" ELSE "owed")
  <2>1. toHost' = toHost \o t
    BY <1>5 DEF EmitChunk, Emit
  <2>2. k \in Nat
    BY <1>3
  <2>. QED  BY <1>6, <1>10, <2>1, <2>2
<1>13. Flushed'
  <2>1. /\ form = "pull" => ~dev.tail
        /\ form = "pull_v2" => dev.tail
    BY <1>1 DEF Flushed, Devs
  <2>2. \A i \in 1 .. Len(t) : ~(t[i].k = "id" /\ t[i].v = "DONE")
    BY <1>6
  <2>. QED  BY <1>1, <1>6, <1>10, <1>12, <2>1, <2>2, FlushedEmit
<1>. QED  BY <1>6, <1>10, <1>11, <1>12, <1>13, AnswersOn

\* The end of the codec's frame.
LEMMA SendsTail ==
  ASSUME SyncInv, DeviceLeaves, dev.st = "sending", dev.rest = <<>>, dev.tail, UNCHANGED <<toDev, remote>>,
         EmitChunk(<< <<>> >>), dev' = [dev EXCEPT !.tail = FALSE]
  PROVE  SyncInv'
<1>1. /\ SyncTypeOK /\ Flushed /\ dev \in Devs /\ dev.failed = FALSE /\ form \in Pulls /\ dev.rest \in RestOf(form)
      /\ Total' = Total /\ Total \in Nat /\ UNCHANGED <<call, form, codec, pc, last, result, dec>>
  BY AnsweringFacts DEF SyncTypeOK
<1>2. PICK c : c = << <<>> >>
  OBVIOUS
<1>3. c \in Seq(Blocks) /\ Len(c) = 1 /\ c[1] = <<>>
  <2>1. <<>> \in Blocks
    BY RunEmpty
  <2>. QED  BY <1>2, <2>1
<1>4. Expand(c) = <<>> /\ Len(Expand(c)) = 0 /\ Len(c) \in 1 .. 2
  <2>1. Expand(c) = <<>>
    BY <1>3, Expanded
  <2>. QED  BY <1>3, <2>1, EmptySeq
<1>5. PICK t : t = <<Field("id", "DATA"), Field("size", Len(c)), Field("chunk", c)>>
  OBVIOUS
<1>6. /\ t \in Seq(Fields) /\ t # <<>> /\ t[1].k = "id" /\ Len(t) = 3
      /\ \A i \in 1 .. Len(t) : t[i].k = "id" => t[i].v = "DATA"
      /\ t[3].k = "chunk" /\ t[3].v = c
      /\ Framed(t, form, "owed")
      /\ \A n : Run(Expand(c), n) => Behind(t, n, 0)
  <2>1. IsData(t, c)
    BY <1>1, <1>3, <1>4, <1>5 DEF IsData
  <2>2. /\ t \in Seq(Fields) /\ t # <<>> /\ t[1].k = "id" /\ Len(t) = 3
        /\ \A i \in 1 .. Len(t) : t[i].k = "id" => t[i].v = "DATA"
        /\ t[3].k = "chunk" /\ t[3].v = c
        /\ Framed(t, form, "owed")
        /\ \A n : Run(Expand(c), n) => Behind(t, n, Len(Expand(c)))
    BY <2>1, DataFrame
  <2>. QED  BY <1>4, <2>2
<1>7. /\ dev' \in Devs /\ dev'.st = "sending" /\ dev'.rest = <<>> /\ dev'.failed = FALSE /\ dev'.rest \in RestOf(form)
      /\ dev'.tail = FALSE
  BY <1>1 DEF Devs
<1>8. ASSUME NEW n \in 0 .. Total, DeviceAt(n)
      PROVE  n + 0 <= Total /\ DeviceAt(n + 0)' /\ Behind(t, n, 0)
  <2>1. n + Len(dev.rest) = Total /\ Run(dev.rest, n) /\ n \in Nat
    BY <1>1, <1>8 DEF DeviceAt
  <2>2. n + 0 <= Total /\ n + 0 = n
    BY <1>1
  <2>3. DeviceAt(n + 0)'
    BY <1>1, <1>7, <2>1, <2>2 DEF DeviceAt
  <2>4. Behind(t, n, 0)
    BY <1>4, <1>6, RunEmpty
  <2>. QED  BY <2>2, <2>3, <2>4
<1>9. toHost' = toHost \o t /\ 0 \in Nat /\ Framed(t, form, IF dev'.st = "ready" THEN "done" ELSE "owed")
  BY <1>2, <1>5, <1>6, <1>7 DEF EmitChunk, Emit
<1>10. Flushed'
  <2>1. \A i \in 1 .. Len(t) : ~(t[i].k = "id" /\ t[i].v = "DONE")
    BY <1>6
  <2>2. t[Len(t)].k = "chunk" /\ t[Len(t)].v = << <<>> >> /\ dev'.rest = <<>> /\ ~dev'.tail
    BY <1>2, <1>6, <1>7
  <2>. QED  BY <1>1, <1>6, <1>9, <2>1, <2>2, FlushedEmit
<1>. QED  BY <1>6, <1>7, <1>8, <1>9, <1>10, AnswersOn

\* Every answer.
LEMMA DeviceAnswersStep ==
  ASSUME SyncInv, DeviceAnswers
  PROVE  SyncInv'
<1>1. UNCHANGED <<toDev, remote>> /\ DeviceLeaves
  BY DEF DeviceAnswers
<1>2. CASE /\ dev.st = "listing" /\ dev.rest # <<>>
           /\ Emit(<<Field("id", "DENT"), Field("body", Head(dev.rest).error), Field("name", Head(dev.rest).name)>>)
           /\ dev' = [dev EXCEPT !.rest = Tail(@)]
  BY <1>1, <1>2, SendsEntry DEF Emit
<1>3. CASE /\ dev.st = "listing" /\ dev.rest = <<>>
           /\ Emit(<<Field("id", "DONE"), Field("body", FALSE)>>)
           /\ dev' = [dev EXCEPT !.st = "ready"]
  <2>1. PICK y : y = Field("body", FALSE)
    OBVIOUS
  <2>2. y \in Fields /\ y.k = "body" /\ form = "list" /\ toHost' = toHost \o <<Field("id", "DONE"), y>>
    BY <1>1, <1>3, <2>1, FieldTypes, FieldParts, AnsweringFacts DEF Emit
  <2>. QED  BY <1>1, <1>3, <2>2, SendsDone
<1>4. CASE /\ dev.st = "sending" /\ dev.rest # <<>>
           /\ \E c \in Chunks(dev.rest) :
                /\ EmitChunk(c)
                /\ dev' = [dev EXCEPT !.rest = SubSeq(@, Len(Expand(c)) + 1, Len(@))]
  BY <1>1, <1>4, SendsChunk
<1>5. CASE /\ dev.st = "sending" /\ dev.rest = <<>> /\ dev.tail
           /\ EmitChunk(<< <<>> >>)
           /\ dev' = [dev EXCEPT !.tail = FALSE]
  BY <1>1, <1>5, SendsTail
<1>6. CASE /\ dev.st = "sending" /\ dev.rest = <<>> /\ ~dev.tail
           /\ Emit(<<Field("id", "DONE"), Field("size", 0)>>)
           /\ dev' = [dev EXCEPT !.st = "ready"]
  <2>1. PICK y : y = Field("size", 0)
    OBVIOUS
  <2>2. y \in Fields /\ y.k = "size" /\ form # "list" /\ toHost' = toHost \o <<Field("id", "DONE"), y>>
    <3>1. form \in Pulls
      BY <1>1, <1>6, AnsweringFacts
    <3>. QED  BY <1>6, <2>1, <3>1, FieldTypes, FieldParts DEF Emit, Pulls
  <2>. QED  BY <1>1, <1>6, <2>2, SendsDone
<1>. QED  BY <1>2, <1>3, <1>4, <1>5, <1>6, Zenon DEF DeviceAnswers

-----------------------------------------------------------------------------
(* The step of the whole.                                                   *)

Others == <<callVars, pc, last, result, listVars, pushVars, local, dec, toDev, toHost, dev, remote>>

\* The state of the connection alone is no part of the invariant but of its type:
\* a failing connection is seen by the next read or write (StreamFails).
LEMMA SameButUp ==
  ASSUME SyncInv, UNCHANGED Others, up' \in BOOLEAN
  PROVE  SyncInv'
<1>1. UNCHANGED <<call, form, codec, pc, last, result, entries, errored, found, dest, sent, local, dec,
                  toDev, toHost, dev, remote>>
  BY DEF Others, callVars, listVars, pushVars
<1>t. SyncTypeOK /\ Modes /\ Conversation /\ Pushing /\ Copied /\ Progress /\ Finished /\ Flushed /\ NoEntriesStart
  BY DEF SyncInv
<1>2. (Left' <=> Left) /\ (Ok' <=> Ok) /\ (Transferring' <=> Transferring) /\ Answer' = Answer
  BY <1>1, AnswerSame DEF Left, Ok, Transferring
<1>3. SyncTypeOK'
  BY <1>1, <1>t DEF SyncTypeOK
<1>4. Modes'
  <2>1. Destination' = Destination /\ (Available(codec) <=> Available(codec)')
    BY <1>1 DEF Destination, Available, Has
  <2>. QED  BY <1>1, <1>2, <1>t, <2>1 DEF Modes
<1>5. Conversation'
  <2>1. Queued'
    BY <1>1, <1>t DEF Conversation, Queued
  <2>. QED  BY <1>1, <1>2, <1>t, <2>1 DEF Conversation
<1>6. Pushing'
  <2>1. Base' = Base /\ (Stored' <=> Stored)
    BY <1>1 DEF Base, Stored
  <2>. QED  BY <1>1, <1>2, <1>t, <2>1 DEF Pushing
<1>7. Copied'
  BY <1>1, <1>2, <1>t DEF Copied, Run
<1>8. ASSUME NEW n, HostAt(n)
      PROVE  HostAt(n)'
  BY <1>1, <1>8, HostAtSame
<1>9. ASSUME NEW n, DeviceAt(n)
      PROVE  DeviceAt(n)'
  <2>1. Total' = Total
    BY <1>1 DEF Total
  <2>. QED  BY <1>1, <1>2, <1>9, <2>1 DEF DeviceAt, Run
<1>10. Progress'
  <2>1. CASE Transferring
    BY <1>1, <1>t, <1>8, <1>9, <2>1, ProgressBetween
  <2>2. CASE ~Transferring
    BY <1>2, <2>2 DEF Progress
  <2>. QED  BY <2>1, <2>2
<1>11. Finished'
  <2>1. PICK n : n = Total
    OBVIOUS
  <2>2. Total' = n
    BY <1>1, <2>1 DEF Total
  <2>3. TakenUpTo(n) => TakenUpTo(n)'
    BY <1>1, TakenSame
  <2>. QED  BY <1>1, <1>2, <1>t, <2>1, <2>2, <2>3 DEF Finished
<1>12. Flushed'
  <2>1. HeldBack' <=> HeldBack
    BY <1>1 DEF HeldBack
  <2>2. \A i : FlushedBefore(i)' <=> FlushedBefore(i)
    BY <1>1, <2>1 DEF FlushedBefore
  <2>. QED  BY <1>1, <1>2, <1>t, <2>2 DEF Flushed
<1>13. NoEntriesStart'
  BY <1>1, <1>t DEF NoEntriesStart
<1>. QED  BY <1>3, <1>4, <1>5, <1>6, <1>7, <1>10, <1>11, <1>12, <1>13 DEF SyncInv

\* Another program that makes or removes the directory between push's two streams
\* leaves the push where it was (OthersChange).
LEMMA OthersChangeStep ==
  ASSUME SyncInv, OthersChange
  PROVE  SyncInv'
<1>1. /\ DeviceLeaves /\ UNCHANGED <<toDev, toHost, dev>> /\ pc = "request" /\ form \in Pushes
      /\ remote' = [remote EXCEPT !.path = IF remote.path.kind = "dir" THEN Nothing ELSE Dir]
  BY DEF OthersChange, Pushes
<1>t. SyncTypeOK /\ Modes /\ Conversation /\ Pushing /\ NoEntriesStart
  BY DEF SyncInv
<1>2. /\ UNCHANGED <<call, form, codec, pc, last, result, entries, errored, found, dest, sent, local, dec, up>>
      /\ Modes' /\ NoEntriesStart' /\ (Ok' <=> Ok)
  BY <1>1, LeavesHost
<1>3. Answer' = Answer /\ ~Ok
  BY <1>1, AnswerSame DEF Ok, Left
<1>4. SyncTypeOK'
  <2>1. remote' \in [path : [kind : Kinds, data : Blocks], inside : [kind : Kinds, data : Blocks]]
    <3>1. Nothing \in [kind : Kinds, data : Blocks] /\ Dir \in [kind : Kinds, data : Blocks]
      <4>1. <<>> \in Blocks
        BY RunEmpty
      <4>. QED  BY <4>1 DEF Nothing, Dir, Kinds
    <3>2. PICK p \in [kind : Kinds, data : Blocks] : remote' = [remote EXCEPT !.path = p]
      BY <1>1, <3>1
    <3>3. remote \in [path : [kind : Kinds, data : Blocks], inside : [kind : Kinds, data : Blocks]]
      BY <1>t DEF SyncTypeOK
    <3>. QED  BY <3>2, <3>3
  <2>. QED  BY <1>1, <1>2, <1>t, <2>1 DEF SyncTypeOK
<1>5. Conversation'
  <2>1. Queued'
    BY <1>1, <1>2, <1>t, QueuedSame DEF Conversation
  <2>. QED  BY <1>1, <1>2, <1>3, <1>t, <2>1 DEF Conversation
<1>6. Pushing'
  BY <1>1, <1>2, <1>3, <1>t DEF Pushing
<1>7. Copied' /\ Progress' /\ Flushed' /\ form \notin {"list"} \cup Pulls
  BY <1>1, PushOnly
<1>8. Finished'
  BY <1>2, <1>7, TransferringNothing
<1>. QED  BY <1>2, <1>4, <1>5, <1>6, <1>7, <1>8 DEF SyncInv

\* A call begins in the invariant: nothing is opened, asked or copied (Init).
LEMMA InitInv ==
  Init => SyncInv
<1>. SUFFICES ASSUME Init PROVE SyncInv
  OBVIOUS
<1>1. /\ call \in Calls /\ pc = "start" /\ form = "none" /\ codec = NoCodec /\ last = "none" /\ result = "none"
      /\ entries = <<>> /\ dest = "path" /\ sent = 0
      /\ local = [file |-> OldData, open |-> FALSE, buf |-> <<>>, lost |-> <<>>]
      /\ dec = [in |-> <<>>, out |-> <<>>, held |-> <<>>]
      /\ up = TRUE /\ toDev = <<>> /\ toHost = <<>>
      /\ dev = [st |-> "gone", rest |-> <<>>, tail |-> FALSE, to |-> "path", failed |-> FALSE]
  BY DEF Init
<1>2. PICK p \in {Nothing, Dir, File(Data(call.size))} :
        (call.op = "pull" => p # Dir) /\ remote = [path |-> p, inside |-> Nothing]
  BY DEF Init
<1>3. call.size \in Nat /\ <<>> \in Blocks /\ OldData \in Blocks
  BY <1>1, CallFacts, RunEmpty DEF OldData, Blocks
<1>4. Data(call.size) \in Blocks /\ Len(Data(call.size)) = call.size /\ Run(Data(call.size), 0)
  <2>1. PICK n \in Nat : n = call.size
    BY <1>3
  <2>2. Data(n) \in Blocks /\ Len(Data(n)) = n
    BY DEF Data, Blocks
  <2>3. Run(Data(n), 0)
    BY <2>2 DEF Run, Data
  <2>. QED  BY <2>1, <2>2, <2>3
<1>5. p \in [kind : Kinds, data : Blocks] /\ Run(p.data, 0) /\ Nothing \in [kind : Kinds, data : Blocks]
      /\ (p.kind = "file" => p.data = Data(call.size)) /\ (p # Dir => p.kind # "dir")
  BY <1>2, <1>3, <1>4, RunEmpty DEF Nothing, Dir, File, Kinds
<1>6. SyncTypeOK
  <2>1. <<>> \in Seq(Blocks) /\ <<>> \in Seq(Reqs) /\ <<>> \in Seq(Fields) /\ <<>> \in Seq(Nat)
        /\ <<>> \in Seq(Nat \cup Entries)
    BY EmptySeq
  <2>2. remote \in [path : [kind : Kinds, data : Blocks], inside : [kind : Kinds, data : Blocks]]
    BY <1>2, <1>5
  <2>3. local \in [file : Blocks, open : BOOLEAN, buf : Blocks, lost : Blocks]
        /\ dec \in [in : Seq(Blocks), out : Blocks, held : Blocks]
    BY <1>1, <1>3, <2>1
  <2>4. dev \in [st : {"ready", "listing", "sending", "storing", "draining", "gone"},
                 rest : Seq(Nat \cup Entries), tail : BOOLEAN, to : {"path", "inside"}, failed : BOOLEAN]
        /\ dev.rest \in RestOf(form)
    BY <1>1, <2>1 DEF RestOf
  <2>. QED  BY <1>1, <2>1, <2>2, <2>3, <2>4 DEF SyncTypeOK
<1>7. Modes
  BY <1>1 DEF Modes, Left, Pulls, Pushes
<1>8. Conversation
  <2>1. Answer = "over"
    BY <1>1 DEF Answer
  <2>2. Framed(toHost, form, Answer)
    BY <1>1, FramedEmpty
  <2>3. Place(toHost, pc, last, form, Answer)
    BY <1>1, <2>1 DEF Place
  <2>4. Queued
    BY <1>1 DEF Queued
  <2>. QED  BY <1>1, <2>2, <2>3, <2>4 DEF Conversation, Ok, Left
<1>9. Pushing
  BY <1>1 DEF Pushing, Pushes
<1>10. Copied
  BY <1>1, <1>2, <1>5 DEF Copied, Ok, Left
<1>11. Progress /\ Finished /\ Flushed /\ NoEntriesStart
  BY <1>1 DEF Progress, Transferring, Finished, Flushed, NoEntriesStart, Pulls
<1>. QED  BY <1>6, <1>7, <1>8, <1>9, <1>10, <1>11 DEF SyncInv

\* Every step of the call, of the device and of the world keeps the invariant.
LEMMA NextInv ==
  SyncInv /\ [Next]_vars => SyncInv'
<1>. SUFFICES ASSUME SyncInv, [Next]_vars PROVE SyncInv'
  OBVIOUS
<1>1. CASE HostStep
  <2>1. CASE ListRequest \/ StatRequest \/ PullRequest \/ PullV2Request \/ PushRequest \/ PushV2Request
    <3>1. pc = "request"
      BY <2>1 DEF ListRequest, StatRequest, PullRequest, PullV2Request, PushRequest, PushV2Request
    <3>. QED  BY <2>1, <3>1, RequestsStep
  <2>2. CASE ZstdDecode \/ Lz4Decode \/ BrotliDecode
    <3>1. DecodeLoop
      BY <2>2 DEF ZstdDecode, Lz4Decode, BrotliDecode
    <3>. QED  BY <3>1, DecodeStep
  <2>3. CASE FailRead \/ ListId \/ ListBody \/ ListName \/ StatId \/ StatBody
    BY <2>3, FailReadStep, ListIdStep, ListBodyStep, ListNameStep, StatIdStep, StatBodyStep
  <2>4. CASE OpenLocal \/ PullId \/ PullSize \/ PullV2Size \/ PullChunk \/ PullV2Chunk
    BY <2>4, OpenLocalStep, PullIdStep, PullSizeStep, PullChunkStep, PullV2ChunkStep
  <2>5. CASE PushChoose \/ OpenInput \/ PushData \/ PushV2Data \/ ReadStatus
    BY <2>5, PushChooseStep, OpenInputStep, PushDataStep, ReadStatusStep
  <2>6. CASE Start \/ OpenSync \/ WriteQuit \/ Drop \/ StreamFails
    BY <2>6, StartStep, OpenSyncStep, WriteQuitStep, DropStep, StreamFailsStep
  <2>. QED  BY <1>1, <2>1, <2>2, <2>3, <2>4, <2>5, <2>6 DEF HostStep
<1>2. CASE DeviceStep
  BY <1>2, DeviceTakesStep, DeviceAnswersStep DEF DeviceStep
<1>3. CASE DeviceRejects
  BY <1>3, DeviceRejectsStep
<1>4. CASE OthersChange
  BY <1>4, OthersChangeStep
<1>5. CASE LinkFails
  <2>1. UNCHANGED Others /\ up' \in BOOLEAN
    BY <1>5 DEF LinkFails, Others
  <2>. QED  BY <2>1, SameButUp
<1>6. CASE UNCHANGED vars
  <2>1. UNCHANGED Others /\ up' \in BOOLEAN
    BY <1>6 DEF vars, linkVars, Others, SyncInv, SyncTypeOK
  <2>. QED  BY <2>1, SameButUp
<1>. QED  BY <1>1, <1>2, <1>3, <1>4, <1>5, <1>6 DEF Next

-----------------------------------------------------------------------------
(* The theorems.                                                            *)

\* The invariant of a call: the answer that is under way is the one the host
\* reads next, and what it has taken is what the device has sent (list, stat,
\* pull, push and their v2 forms).
THEOREM SyncInvariance == Spec => []SyncInv
BY InitInv, NextInv, PTL DEF Spec

\* The host never takes a field for another one, and a call that worked leaves
\* nothing unread in its stream (the read loops of list, stat, pull and push).
THEOREM ReadsInStep == Spec => []InStep
<1>1. SyncInv => InStep
  BY DEF SyncInv, SyncTypeOK, Conversation, Ok, Left, InStep
<1>. QED  BY <1>1, SyncInvariance, PTL

\* The codec a call uses was not ruled out by what the caller named (choose_codec).
Named ==
  codec # NoCodec => /\ call.compression # "None"
                     /\ call.compression \in Codecs => Available(call.compression)

\* Only the two steps that call choose_codec set the codec.
LEMMA NamedStep ==
  Named /\ [Next]_vars => Named'
<1>. SUFFICES ASSUME Named, [Next]_vars PROVE Named'
  OBVIOUS
<1>1. ASSUME UNCHANGED <<call, codec>> PROVE Named'
  BY <1>1 DEF Named, Available, Has
<1>2. ASSUME call' = call, codec' = codec \/ (CodecAllowed(call.compression) /\ codec' = ChosenCodec)
      PROVE  Named'
  BY <1>2 DEF Named, Available, Has, CodecAllowed, ChosenCodec
<1>3. CASE Start \/ PushChoose
  BY <1>2, <1>3 DEF Start, PushChoose, Choose
<1>4. CASE ListRequest \/ StatRequest \/ PullRequest \/ PullV2Request \/ PushRequest \/ PushV2Request
  BY <1>1, <1>4 DEF ListRequest, StatRequest, PullRequest, PullV2Request, PushRequest, PushV2Request, Write, callVars
<1>5. CASE FailRead \/ ListId \/ ListBody \/ ListName \/ StatId \/ StatBody
  <2>1. UNCHANGED callVars
    BY Zenon, <1>5 DEF FailRead, ListId, ListBody, ListName, StatId, StatBody, ReadId, Read
  <2>. QED  BY <1>1, <2>1 DEF callVars
<1>6. CASE PullId \/ PullSize \/ PullV2Size \/ PullChunk \/ PullV2Chunk \/ ReadStatus
  <2>1. UNCHANGED callVars
    BY Zenon, <1>6 DEF PullId, PullSize, PullV2Size, PullChunk, PullV2Chunk, ReadStatus, ReadId, Read
  <2>. QED  BY <1>1, <2>1 DEF callVars
<1>7. CASE OpenSync \/ OpenLocal \/ ZstdDecode \/ Lz4Decode \/ BrotliDecode \/ OpenInput
  BY <1>1, <1>7 DEF OpenSync, OpenLocal, ZstdDecode, Lz4Decode, BrotliDecode, DecodeLoop, OpenInput, callVars
<1>8. CASE PushData \/ PushV2Data \/ WriteQuit \/ Drop \/ StreamFails
  <2>1. UNCHANGED callVars
    BY Zenon, <1>8 DEF PushData, PushV2Data, WriteQuit, Drop, StreamFails, PushBlock, Write
  <2>. QED  BY <1>1, <2>1 DEF callVars
<1>9. CASE DeviceStep \/ DeviceRejects \/ OthersChange \/ LinkFails \/ UNCHANGED vars
  <2>1. UNCHANGED callVars
    BY Zenon, <1>9 DEF DeviceStep, DeviceTakes, DeviceAnswers, DeviceRejects, OthersChange, LinkFails, DeviceLeaves, vars
  <2>. QED  BY <1>1, <2>1 DEF callVars
<1>. QED  BY <1>3, <1>4, <1>5, <1>6, <1>7, <1>8, <1>9 DEF Next, HostStep

\* A transfer that names a codec runs in a v2 form and only when both sides have
\* that codec, and the codec used is one both sides have.  Which one is used among
\* those both have is not part of it (choose_codec).
THEOREM NamedNeverUncompressed == Spec => []NeverUncompressed
<1>1. SyncInv /\ Named => NeverUncompressed
  <2>. SUFFICES ASSUME SyncInv, Named PROVE NeverUncompressed
    OBVIOUS
  <2>1. form \in {"none", "stat", "list"} \cup Pulls \cup Pushes /\ Modes
    BY DEF SyncInv, SyncTypeOK
  <2>2. codec # NoCodec => codec \in call.build \cap call.features
    BY <2>1 DEF Modes, Available, Has
  <2>3. codec # NoCodec => /\ call.compression # "None"
                           /\ call.compression \in Codecs => call.compression \in call.build \cap call.features
    BY DEF Named, Available, Has
  <2>4. ASSUME pc = "ret", call.op \in {"pull", "push"}, result = "ok", call.compression \in Codecs
        PROVE  form \in {"pull_v2", "push_v2"}
    BY <2>1, <2>4 DEF Modes, Left, Pulls, Pushes
  <2>. QED  BY <2>2, <2>3, <2>4 DEF NeverUncompressed
<1>2. Init => Named
  BY DEF Init, Named
<1>. QED  BY <1>1, <1>2, NamedStep, SyncInvariance, PTL DEF Spec

\* No call reports success after the device's FAIL, and none passes the end of the
\* stream off for it (sync_fail, read_status).
THEOREM RejectionsReported == Spec => []RejectionReported
<1>1. SyncInv => RejectionReported
  BY DEF SyncInv, SyncTypeOK, Conversation, Ok, Left, RejectionReported
<1>. QED  BY <1>1, SyncInvariance, PTL

\* Two runs of one length from one number are one sequence.
LEMMA RunsEqual ==
  ASSUME NEW s \in Blocks, NEW t \in Blocks, Run(s, 0), Run(t, 0), Len(s) = Len(t)
  PROVE  s = t
<1>1. \A j \in 1 .. Len(s) : s[j] = t[j]
  BY DEF Run
<1>. QED  BY <1>1, SeqEqual DEF Blocks

\* A run that is no longer than another one begins it (pull: the local file).
LEMMA RunPrefix ==
  ASSUME NEW s \in Blocks, NEW t \in Blocks, Run(s, 0), Run(t, 0), Len(s) <= Len(t)
  PROVE  IsPrefix(s, t)
<1>0. Len(s) \in Nat /\ Len(t) \in Nat
  BY LenProperties DEF Blocks
<1>1. ASSUME NEW m \in Nat, NEW x \in Blocks, Run(x, 0), m <= Len(x)
      PROVE  SubSeq(x, 1, m) \in Blocks /\ Len(SubSeq(x, 1, m)) = m /\ Run(SubSeq(x, 1, m), 0)
  <2>1. 0 \in Nat /\ 0 <= m /\ 0 + 1 = 1 /\ 0 + 0 = 0 /\ m - 0 = m
    OBVIOUS
  <2>2. /\ SubSeq(x, 0 + 1, m) \in Blocks /\ Len(SubSeq(x, 0 + 1, m)) = m - 0
        /\ Run(x, 0) => Run(SubSeq(x, 0 + 1, m), 0 + 0)
    BY <1>1, <2>1, RunPart
  <2>. QED  BY <1>1, <2>1, <2>2
<1>2. SubSeq(s, 1, Len(s)) = SubSeq(t, 1, Len(s))
  <2>1. PICK m \in Nat : m = Len(s)
    BY <1>0
  <2>2. /\ SubSeq(s, 1, m) \in Blocks /\ Len(SubSeq(s, 1, m)) = m /\ Run(SubSeq(s, 1, m), 0)
        /\ SubSeq(t, 1, m) \in Blocks /\ Len(SubSeq(t, 1, m)) = m /\ Run(SubSeq(t, 1, m), 0)
    BY <1>0, <1>1, <2>1
  <2>. QED  BY <2>1, <2>2, RunsEqual
<1>. QED  BY <1>2 DEF IsPrefix

\* However a pull ends, the local file is the old one or the beginning of the
\* device's (pull, pull_v2).
THEOREM PartialsArePrefixes == Spec => []PartialIsPrefix
<1>1. SyncInv => PartialIsPrefix
  <2>. SUFFICES ASSUME SyncInv, Returned("pull"), local.open \/ local.file # OldData
                PROVE  local.open /\ IsPrefix(local.file, remote.path.data)
    BY DEF PartialIsPrefix, SyncInv, SyncTypeOK
  <2>1. /\ Copied /\ call.op = "pull"
        /\ local.file \in Blocks /\ local.buf \in Blocks /\ local.lost \in Blocks /\ remote.path.data \in Blocks
    BY DEF SyncInv, SyncTypeOK, Returned
  <2>2. local.open /\ Run(local.file, 0) /\ Run(remote.path.data, 0)
        /\ Len(local.file) + Len(local.buf) + Len(local.lost) <= Len(remote.path.data)
    BY <2>1 DEF Copied
  <2>3. Len(local.file) \in Nat /\ Len(local.buf) \in Nat /\ Len(local.lost) \in Nat /\ Len(remote.path.data) \in Nat
    BY <2>1, LenProperties DEF Blocks
  <2>4. Len(local.file) <= Len(remote.path.data)
    <3>1. \A f, b, l, d \in Nat : f + b + l <= d => f <= d
      OBVIOUS
    <3>. QED  BY <2>2, <2>3, <3>1
  <2>. QED  BY <2>1, <2>2, <2>4, RunPrefix
<1>. QED  BY <1>1, SyncInvariance, PTL

\* A call that worked ran in the form its operation has (Start, PushChoose).
LEMMA FormOfOp ==
  ASSUME SyncInv, NEW op, Worked(op)
  PROVE  /\ call.op = op /\ Ok /\ pc = "ret" /\ local.buf = <<>>
         /\ op = "list" => form = "list"
         /\ op = "pull" => form \in Pulls
         /\ op = "push" => form \in Pushes
<1>1. SyncTypeOK /\ Modes /\ pc = "ret" /\ call.op = op /\ result = "ok" /\ Left
  BY DEF SyncInv, Worked, Returned, Left
<1>2. form \in {"none", "stat", "list"} \cup Pulls \cup Pushes
  BY <1>1 DEF SyncTypeOK
<1>. QED  BY <1>1, <1>2 DEF Modes, Ok

\* A pull that worked has all of the device's file but what the ofstream lost and
\* the brotli decoder held back (pull, pull_v2, decode).
LEMMA PulledAll ==
  ASSUME SyncInv
  PROVE  PullExact
<1>. SUFFICES ASSUME Worked("pull")
              PROVE  /\ local.file \o local.lost \o dec.held = remote.path.data
                     /\ codec # "brotli" => dec.held = <<>>
  BY DEF PullExact
<1>1. call.op = "pull" /\ Ok /\ pc = "ret" /\ local.buf = <<>> /\ form \in Pulls
  BY FormOfOp
<1>2. Total = Len(remote.path.data) /\ form # "list"
  BY <1>1, PullFacts
<1>t. SyncTypeOK /\ Copied /\ Finished /\ Flushed
  BY DEF SyncInv
<1>3. PICK f, l, h, d : f = local.file /\ l = local.lost /\ h = dec.held /\ d = remote.path.data
  OBVIOUS
<1>4. f \in Blocks /\ l \in Blocks /\ h \in Blocks /\ d \in Blocks /\ dec.in \in Seq(Blocks)
  BY <1>3, <1>t DEF SyncTypeOK
<1>5. local.open /\ Run(f, 0) /\ Run(l, Len(f)) /\ Run(d, 0)
  BY <1>1, <1>3, <1>t DEF Copied
<1>6. Len(f) \in Nat /\ Len(l) \in Nat /\ Len(h) \in Nat /\ Len(d) \in Nat
  BY <1>4, LenProperties DEF Blocks
<1>7. InFile = Len(f) + Len(l)
  <2>1. Len(local.buf) = 0
    BY <1>1, RunEmpty
  <2>2. InFile = Len(f) + 0 + Len(l)
    BY <1>3, <1>5, <2>1 DEF InFile
  <2>. QED  BY <1>6, <2>2
<1>8. PulledUpTo(Len(d)) /\ Out = <<>> /\ Len(Out) = 0
  BY <1>1, <1>2, <1>3, <1>t, RunEmpty DEF Finished, TakenUpTo, Out
<1>9. dec.in = <<>> /\ Expand(dec.in) = <<>> /\ Len(Expand(dec.in)) = 0
  <2>1. dec.in = <<>>
    BY <1>1, <1>8 DEF PulledUpTo
  <2>. QED  BY <2>1, Expanded, RunEmpty
<1>10. Run(h, Len(f) + Len(l)) /\ Len(d) = (Len(f) + Len(l)) + Len(h)
  <2>1. Run(h, InFile + Len(Out)) /\ Len(d) = InFile + Len(Out) + Len(h) + Len(Expand(dec.in))
    BY <1>3, <1>8 DEF PulledUpTo
  <2>2. InFile + Len(Out) = Len(f) + Len(l)
    BY <1>6, <1>7, <1>8
  <2>. QED  BY <1>6, <1>7, <1>8, <1>9, <2>1, <2>2
<1>11. f \o l \in Blocks /\ Run(f \o l, 0) /\ Len(f \o l) = Len(f) + Len(l)
  <2>1. 0 + Len(f) = Len(f)
    BY <1>6
  <2>. QED  BY <1>4, <1>5, <2>1, RunJoined
<1>12. (f \o l) \o h \in Blocks /\ Run((f \o l) \o h, 0) /\ Len((f \o l) \o h) = Len(d)
  <2>1. PICK g \in Blocks : g = f \o l
    BY <1>11
  <2>2. Run(g, 0) /\ Run(h, 0 + Len(g)) /\ Len(d) = Len(g) + Len(h)
    <3>1. 0 + Len(g) = Len(f) + Len(l) /\ Len(g) = Len(f) + Len(l)
      BY <1>6, <1>11, <2>1
    <3>. QED  BY <1>10, <1>11, <2>1, <3>1
  <2>3. g \o h \in Blocks /\ Run(g \o h, 0) /\ Len(g \o h) = Len(g) + Len(h)
    BY <1>4, <2>2, RunJoined
  <2>. QED  BY <2>1, <2>2, <2>3
<1>13. (f \o l) \o h = d
  BY <1>4, <1>5, <1>12, RunsEqual
<1>14. codec # "brotli" => h = <<>>
  <2>1. CASE form = "pull"
    BY <1>3, <1>8, <2>1 DEF PulledUpTo
  <2>2. CASE form = "pull_v2"
    BY <1>1, <1>3, <1>t, <2>2 DEF Flushed
  <2>. QED  BY <1>1, <2>1, <2>2 DEF Pulls
<1>. QED  BY <1>3, <1>13, <1>14

\* A push that worked has stored the file where stat said it would be (push,
\* push_v2, read_status).
LEMMA PushedAll ==
  ASSUME SyncInv
  PROVE  PushStored
<1>. SUFFICES ASSUME Worked("push")
              PROVE  remote[dest] = File(Data(call.size)) /\ (dest = "inside" <=> found = "dir")
  BY DEF PushStored
<1>1. Ok /\ form \in Pushes /\ Pushing /\ Modes
  BY FormOfOp DEF SyncInv
<1>. QED  BY <1>1 DEF Pushing, Stored, Modes, Destination

\* A listing that worked has the entries the device could stat, in order (list).
LEMMA ListedAll ==
  ASSUME SyncInv
  PROVE  ListExact
<1>. SUFFICES ASSUME Worked("list")
              PROVE  /\ Range(entries) = {n \in DOMAIN call.entries : ~call.entries[n].error}
                     /\ \A i, j \in DOMAIN entries : i < j => entries[i] < entries[j]
  BY DEF ListExact
<1>1. Ok /\ form = "list"
  BY FormOfOp
<1>2. Total = Len(call.entries) /\ Finished /\ entries \in Seq(Nat) /\ call.entries \in Seq(Entries)
  BY <1>1, ListFacts, CallFacts DEF SyncInv, SyncTypeOK
<1>3. ListedUpTo(Len(call.entries))
  BY <1>1, <1>2 DEF Finished, TakenUpTo
<1>4. DOMAIN entries = 1 .. Len(entries) /\ DOMAIN call.entries = 1 .. Len(call.entries)
  BY <1>2
<1>5. \A i, j \in DOMAIN entries : i < j => entries[i] < entries[j]
  BY <1>3, <1>4 DEF ListedUpTo
<1>6. \A n \in Range(entries) : n \in DOMAIN call.entries /\ ~call.entries[n].error
  BY <1>3, <1>4 DEF ListedUpTo, Range
<1>7. \A n \in DOMAIN call.entries : ~call.entries[n].error => n \in Range(entries)
  BY <1>3, <1>4 DEF ListedUpTo, Range
<1>. QED  BY <1>5, <1>6, <1>7

\* A push that reports success has stored the file, a listing is complete, and a pull
\* is short only by what the ofstream's destructor failed to flush (local.lost) and
\* what the brotli decoder held back at DONE (dec.held): no block is skipped, repeated
\* or out of place, whatever the sizes, the chunks, the codec and the faults.  That a
\* pull may be short like this is what brotli_truncates shows and README.md says
\* (pull, push, list and their v2 forms).
THEOREM DoneIsAsReported == Spec => []DoneAsReported
<1>1. SyncInv => DoneAsReported
  BY PulledAll, PushedAll, ListedAll DEF DoneAsReported
<1>. QED  BY <1>1, SyncInvariance, PTL

=============================================================================
