--------------------------- MODULE AdbStreamProofs ---------------------------
(***************************************************************************)
(* Proofs about AdbStream, for every number of handles, streams, bytes and *)
(* for every choice of faults.                                             *)
(***************************************************************************)
EXTENDS AdbStreamInv, SequenceTheorems, TLAPS

-----------------------------------------------------------------------------
(* Facts about the pieces the actions are built from.                       *)

\* Updating one place keeps a function's type, also when the place is not one of
\* the function's.
LEMMA UpdateType ==
  ASSUME NEW S, NEW T, NEW f \in [S -> T], NEW x, NEW v, x \in S => v \in T
  PROVE  [f EXCEPT ![x] = v] \in [S -> T]
OBVIOUS

\* Least is the smaller of two numbers, so a read never takes more than is
\* buffered nor more than is wanted.
LEMMA LeastBounds ==
  ASSUME NEW m \in Nat, NEW n \in Nat
  PROVE  /\ Least(m, n) \in Nat
         /\ Least(m, n) <= m
         /\ Least(m, n) <= n
         /\ Least(m, n) = m \/ Least(m, n) = n
BY DEF Least

\* The bytes of a payload are a sequence of that length.
LEMMA BytesOfType ==
  ASSUME NEW src \in {0} \cup LocalIds, NEW at \in Nat, NEW n \in Nat
  PROVE  /\ BytesOf(src, at, n) \in Seq(Bytes)
         /\ Len(BytesOf(src, at, n)) = n
         /\ \A i \in 1 .. n : BytesOf(src, at, n)[i] = <<src, at + i - 1>>
<1>1. \A i \in 1 .. n : <<src, at + i - 1>> \in Bytes
  BY DEF Bytes
<1>2. BytesOf(src, at, n) \in [1 .. n -> Bytes]
  BY <1>1 DEF BytesOf
<1>3. BytesOf(src, at, n) \in Seq(Bytes)
  BY <1>2, SeqDef
<1>4. Len(BytesOf(src, at, n)) = n
  BY <1>2, <1>3, LenProperties
<1>. QED  BY <1>3, <1>4 DEF BytesOf

\* An empty message is a frame.
LEMMA EmptyMessageType ==
  ASSUME NEW cmd \in {"OPEN", "OKAY", "WRTE", "CLSE", "SYNC"},
         NEW arg0 \in Nat, NEW arg1 \in Nat
  PROVE  make_empty_message(cmd, arg0, arg1) \in Frames
BY DEF make_empty_message, Frame, Frames

\* Sending keeps the channel a sequence of frames.
LEMMA SendType ==
  ASSUME toDevice \in Seq(Frames), NEW f \in Frames, Send(f)
  PROVE  toDevice' \in Seq(Frames)
BY DEF Send

-----------------------------------------------------------------------------
(* Type correctness.                                                        *)

\* TypeOK alone is not inductive: ReceiveWrte tags the bytes it takes with the
\* id of the stream the call is on, so a call must have a Stream object.
CallHasObject == call.op # "none" => call.h \in Handles

TypeInv == TypeOK /\ CallHasObject

\* The initial state is of the type.
LEMMA TypeInit == Init => TypeInv
<1>. SUFFICES ASSUME Init PROVE TypeInv
  OBVIOUS
<1>1. NoStream \in Streams
  BY DEF NoStream, Streams, Buffers, NoData
<1>2. Idle \in Calls
  BY DEF Idle, Calls
<1>3. DeviceTypeOK
  BY DEF Init, DeviceInit, DeviceTypeOK
<1>. QED  BY <1>1, <1>2, <1>3 DEF Init, TypeInv, TypeOK, CallHasObject, LinkTypeOK, Idle

\* The device takes the next frame, and replies, within the frame type.
LEMMA DeviceTakesType ==
  ASSUME NEW cmd, toDevice \in Seq(Frames), DeviceHead(cmd)
  PROVE  /\ Head(toDevice) \in Frames
         /\ Tail(toDevice) \in Seq(Frames)
         /\ Head(toDevice).arg0 \in Nat
         /\ Head(toDevice).arg1 \in Nat
         /\ Head(toDevice).len \in Nat
<1>1. toDevice # <<>>
  BY DEF DeviceHead
<1>2. Head(toDevice) \in Frames /\ Tail(toDevice) \in Seq(Frames)
  BY <1>1, HeadTailProperties
<1>. QED  BY <1>2 DEF Frames

\* A reply of the device is a frame.
LEMMA ReplyType ==
  ASSUME toHost \in Seq(Frames), NEW f \in Frames, Reply(f)
  PROVE  toHost' \in Seq(Frames)
BY DEF Reply

\* The device's steps keep the types.
LEMMA DeviceStepType ==
  ASSUME LinkTypeOK, DeviceTypeOK, DeviceStep
  PROVE  LinkTypeOK' /\ DeviceTypeOK'
<1>q. toDevice \in Seq(Frames) /\ toHost \in Seq(Frames)
  BY DEF LinkTypeOK
<1>l. \A l \in LocalIds : l \in Nat
  BY DEF LocalIds
<1>1. CASE DeviceAccept
  <2>1. DeviceHead("OPEN") /\ toDevice' = Tail(toDevice)
    BY <1>1 DEF DeviceAccept
  <2>2. make_empty_message("OKAY", nextRid, Head(toDevice).arg0) \in Frames
    BY <1>q, <2>1, DeviceTakesType, EmptyMessageType DEF DeviceTypeOK
  <2>3. LinkTypeOK'
    BY <1>1, <1>q, <2>1, <2>2, DeviceTakesType, ReplyType DEF DeviceAccept, LinkTypeOK
  <2>4. Head(toDevice).arg1 \in Nat
    BY <1>q, <2>1, DeviceTakesType
  <2>5. credit' \in [LocalIds -> Nat]
    BY <1>1, <2>4, UpdateType DEF DeviceAccept, DeviceTypeOK
  <2>6. rid' \in [LocalIds -> Nat] /\ nextRid' \in Nat \ {0}
    BY <1>1, UpdateType DEF DeviceAccept, DeviceTypeOK
  <2>. QED  BY <1>1, <2>3, <2>5, <2>6 DEF DeviceAccept, DeviceTypeOK
<1>2. CASE DeviceRefuse
  <2>1. DeviceHead("OPEN") /\ toDevice' = Tail(toDevice)
    BY <1>2 DEF DeviceRefuse
  <2>2. make_empty_message("CLSE", 0, Head(toDevice).arg0) \in Frames
    BY <1>q, <2>1, DeviceTakesType, EmptyMessageType
  <2>3. LinkTypeOK'
    BY <1>2, <1>q, <2>1, <2>2, DeviceTakesType, ReplyType DEF DeviceRefuse, LinkTypeOK
  <2>. QED  BY <1>2, <2>3 DEF DeviceRefuse, DeviceTypeOK
<1>3. CASE DeviceGetsWrte
  <2>. DEFINE f == Head(toDevice)
  <2>1. DeviceHead("WRTE") /\ toDevice' = Tail(toDevice) /\ UNCHANGED link
    BY <1>3 DEF DeviceGetsWrte
  <2>2. ASSUME Addressed(f)
        PROVE  make_empty_message("OKAY", rid[f.arg0], f.arg0) \in Frames
    BY <1>q, <2>1, <2>2, DeviceTakesType, EmptyMessageType DEF Addressed
  <2>3. toHost' \in Seq(Frames)
    BY <1>3, <1>q, <2>2, ReplyType DEF DeviceGetsWrte
  <2>4. LinkTypeOK'
    BY <1>q, <2>1, <2>3, DeviceTakesType DEF LinkTypeOK
  <2>5. f.arg0 \in LocalIds => acked[f.arg0] + 1 \in Nat
    BY DEF DeviceTypeOK
  <2>6. acked' \in [LocalIds -> Nat]
    BY <1>3, <2>5, UpdateType DEF DeviceGetsWrte, DeviceTypeOK
  <2>. QED  BY <1>3, <2>4, <2>6 DEF DeviceGetsWrte, DeviceTypeOK
<1>4. CASE DeviceGetsOkay
  <2>1. /\ DeviceHead("OKAY") /\ toDevice' = Tail(toDevice)
        /\ UNCHANGED <<link, toHost>>
    BY <1>4 DEF DeviceGetsOkay
  <2>2. Release(Head(toDevice)) \in Nat
    BY <1>q, <2>1, DeviceTakesType DEF Release
  <2>3. LinkTypeOK'
    BY <1>q, <2>1, DeviceTakesType DEF LinkTypeOK
  <2>. DEFINE l == Head(toDevice).arg0
  <2>4. l \in LocalIds => credit[l] + Release(Head(toDevice)) \in Nat
    BY <2>2 DEF DeviceTypeOK
  <2>5. credit' \in [LocalIds -> Nat]
    BY <1>4, <2>4, UpdateType DEF DeviceGetsOkay, DeviceTypeOK
  <2>. QED  BY <1>4, <2>3, <2>5 DEF DeviceGetsOkay, DeviceTypeOK
<1>5. CASE DeviceGetsClse
  <2>. DEFINE f == Head(toDevice)
  <2>1. DeviceHead("CLSE") /\ toDevice' = Tail(toDevice) /\ UNCHANGED link
    BY <1>5 DEF DeviceGetsClse
  <2>2. ASSUME Addressed(f)
        PROVE  make_empty_message("CLSE", rid[f.arg0], f.arg0) \in Frames
    BY <1>q, <2>1, <2>2, DeviceTakesType, EmptyMessageType DEF Addressed
  <2>3. toHost' \in Seq(Frames)
    BY <1>5, <1>q, <2>2, ReplyType DEF DeviceGetsClse
  <2>4. LinkTypeOK'
    BY <1>q, <2>1, <2>3, DeviceTakesType DEF LinkTypeOK
  <2>. QED  BY <1>5, <2>4 DEF DeviceGetsClse, DeviceTypeOK
<1>6. ASSUME NEW l \in LocalIds, NEW n \in 1 .. MaxChunk, DeviceWrite(l, n)
      PROVE  LinkTypeOK' /\ DeviceTypeOK'
  <2>1. n \in Nat
    BY DeviceAssumption
  <2>2. Frame("WRTE", rid[l], l, sent[l] + 1, n) \in Frames
    BY <1>l, <2>1 DEF Frame, Frames, DeviceTypeOK
  <2>3. LinkTypeOK'
    BY <1>6, <1>q, <2>2, ReplyType DEF DeviceWrite, LinkTypeOK
  <2>. QED  BY <1>6, <2>1, <2>3 DEF DeviceWrite, DeviceTypeOK, Cost
<1>7. ASSUME NEW l \in LocalIds, DeviceClose(l) \/ DeviceClosesAgain(l)
      PROVE  LinkTypeOK' /\ DeviceTypeOK'
  <2>1. make_empty_message("CLSE", rid[l], l) \in Frames
    BY <1>l, EmptyMessageType DEF DeviceTypeOK
  <2>2. LinkTypeOK'
    BY <1>7, <1>q, <2>1, ReplyType DEF DeviceClose, DeviceClosesAgain, LinkTypeOK
  <2>. QED  BY <1>7, <2>2 DEF DeviceClose, DeviceClosesAgain, DeviceTypeOK
<1>8. ASSUME NEW l \in LocalIds, DeviceStray(l)
      PROVE  LinkTypeOK' /\ DeviceTypeOK'
  <2>1. make_empty_message("SYNC", 0, l) \in Frames
    BY <1>l, EmptyMessageType
  <2>2. LinkTypeOK'
    BY <1>8, <1>q, <2>1, ReplyType DEF DeviceStray, LinkTypeOK
  <2>. QED  BY <1>8, <2>2 DEF DeviceStray, DeviceTypeOK, devVars
<1>. QED
  BY <1>1, <1>2, <1>3, <1>4, <1>5, <1>6, <1>7, <1>8 DEF DeviceStep, DeviceHandles

\* The frame at the head of toHost is of the frame type.
LEMMA FrameReadyType ==
  ASSUME toHost \in Seq(Frames), FrameReady
  PROVE  /\ Head(toHost) \in Frames
         /\ Tail(toHost) \in Seq(Frames)
         /\ Head(toHost).arg0 \in Nat
         /\ Head(toHost).at \in Nat
         /\ Head(toHost).len \in Nat
<1>1. toHost # <<>>
  BY DEF FrameReady
<1>2. Head(toHost) \in Frames /\ Tail(toHost) \in Seq(Frames)
  BY <1>1, HeadTailProperties
<1>. QED  BY <1>2 DEF Frames

\* Counting a close keeps the type of the counts.
LEMMA ClosesType ==
  ASSUME closes \in [LocalIds -> Nat], NEW l
  PROVE  [closes EXCEPT ![l] = @ + 1] \in [LocalIds -> Nat]
<1>1. l \in LocalIds => closes[l] + 1 \in Nat
  OBVIOUS
<1>. QED  BY <1>1, UpdateType

\* close_now sends a frame (Stream::close_now).
LEMMA CloseNowType ==
  ASSUME TypeOK, NEW h \in Handles, close_now(h)
  PROVE  toDevice' \in Seq(Frames) /\ closes' \in [LocalIds -> Nat]
<1>1. stream[h].local \in Nat /\ stream[h].remote \in Nat
  BY DEF TypeOK, Streams, LocalIds
<1>2. make_empty_message("CLSE", stream[h].local, stream[h].remote) \in Frames
  BY <1>1, EmptyMessageType
<1>3. toDevice' \in Seq(Frames)
  BY <1>2, SendType DEF close_now, TypeOK, LinkTypeOK
<1>4. closes' \in [LocalIds -> Nat]
  BY ClosesType DEF close_now, TypeOK
<1>. QED  BY <1>3, <1>4

\* An open that fails sends a frame and leaves no call (Stream::open).
LEMMA AbandonOpenType ==
  ASSUME TypeOK, NEW l \in {0} \cup LocalIds, AbandonOpen(l)
  PROVE  /\ toDevice' \in Seq(Frames)
         /\ closes' \in [LocalIds -> Nat]
         /\ call' \in Calls
         /\ call'.op = "none"
<1>1. l \in Nat
  BY DEF LocalIds
<1>2. make_empty_message("CLSE", l, 0) \in Frames
  BY <1>1, EmptyMessageType
<1>3. toDevice' \in Seq(Frames)
  BY <1>2, SendType DEF AbandonOpen, TypeOK, LinkTypeOK
<1>4. closes' \in [LocalIds -> Nat]
  BY ClosesType DEF AbandonOpen, TypeOK
<1>5. call' \in Calls /\ call'.op = "none"
  BY DEF AbandonOpen, Idle, Calls
<1>. QED  BY <1>3, <1>4, <1>5

\* A move leaves Stream objects (the moves).
LEMMA TakeOverType ==
  ASSUME TypeOK, NEW a \in Handles, NEW b \in Handles, TakeOver(a, b)
  PROVE  stream' \in [Handles -> Streams]
<1>1. MovedFrom(stream[a]) \in Streams
  BY ZenonT(30) DEF TypeOK, MovedFrom, Streams, Buffers, NoData
<1>. QED  BY <1>1 DEF TypeOK, TakeOver

\* What read leaves of a buffer is a buffer (Stream::read).
LEMMA RemainingType ==
  ASSUME NEW buf \in Buffers, NEW k \in Nat, k <= buf.len
  PROVE  Remaining(buf, k) \in Buffers
BY DEF Remaining, Buffers

\* What the calls hand out stays a sequence of bytes (Stream::read, read_all).
LEMMA DeliveredType ==
  ASSUME delivered \in [LocalIds -> Seq(Bytes)], NEW l, NEW b \in Seq(Bytes),
         delivered' = delivered \/ delivered' = [delivered EXCEPT ![l] = @ \o b]
  PROVE  delivered' \in [LocalIds -> Seq(Bytes)]
<1>1. l \in LocalIds => delivered[l] \o b \in Seq(Bytes)
  BY ConcatProperties
<1>2. [delivered EXCEPT ![l] = @ \o b] \in [LocalIds -> Seq(Bytes)]
  BY <1>1, UpdateType
<1>. QED  BY <1>2

\* A call that fails leaves no call (Stream::read, read_all).
LEMMA FailCallType ==
  ASSUME TypeOK, FailCall
  PROVE  call' \in Calls /\ call'.op = "none" /\ lost' \in [LocalIds -> BOOLEAN]
<1>1. call' \in Calls /\ call'.op = "none"
  BY DEF FailCall, Idle, Calls
<1>2. lost' \in [LocalIds -> BOOLEAN]
  BY UpdateType DEF FailCall, TypeOK
<1>. QED  BY <1>1, <1>2

\* Every step keeps the types.
LEMMA TypeStep ==
  ASSUME TypeInv, [Next]_vars
  PROVE  TypeInv'
<1>. USE DEF TypeInv, CallHasObject
<1>t. TypeOK /\ toDevice \in Seq(Frames) /\ toHost \in Seq(Frames)
  BY DEF TypeOK, LinkTypeOK
<1>l. \A l \in {0} \cup LocalIds : l \in Nat
  BY DEF LocalIds
<1>n. NoStream \in Streams /\ NoData \in Buffers /\ Idle \in Calls /\ Idle.op = "none"
  BY DEF NoStream, NoData, Streams, Buffers, Idle, Calls
<1>1. ASSUME NEW h \in Handles, Destroy(h) PROVE TypeInv'
  <2>1. toDevice' \in Seq(Frames) /\ closes' \in [LocalIds -> Nat]
    BY <1>1, <1>t, CloseNowType DEF Destroy
  <2>2. stream' \in [Handles -> Streams]
    BY <1>1, <1>t, <1>n DEF Destroy, TypeOK
  <2>. QED  BY <1>1, <1>t, <2>1, <2>2 DEF Destroy, TypeOK, LinkTypeOK, DeviceTypeOK, devVars, dataVars
<1>2. ASSUME NEW a \in Handles, NEW b \in Handles, MoveConstruct(a, b) PROVE TypeInv'
  <2>1. stream' \in [Handles -> Streams]
    BY <1>2, <1>t, TakeOverType DEF MoveConstruct
  <2>. QED  BY <1>2, <1>t, <2>1 DEF MoveConstruct, TypeOK, LinkTypeOK, DeviceTypeOK, devVars, dataVars, histVars
<1>3. ASSUME NEW a \in Handles, NEW b \in Handles, MoveAssign(a, b) PROVE TypeInv'
  <2>1. toDevice' \in Seq(Frames) /\ closes' \in [LocalIds -> Nat]
    BY <1>3, <1>t, CloseNowType DEF MoveAssign
  <2>2. stream' \in [Handles -> Streams]
    BY <1>3, <1>t, TakeOverType DEF MoveAssign
  <2>. QED  BY <1>3, <1>t, <2>1, <2>2 DEF MoveAssign, TypeOK, LinkTypeOK, DeviceTypeOK, devVars, dataVars
<1>4. ASSUME NEW h \in Handles, OpenCall(h) PROVE TypeInv'
  <2>. DEFINE l == next_local_id
  <2>1. l \in LocalIds /\ l \in Nat
    BY <1>4, <1>t, <1>l DEF OpenCall
  <2>2. make_empty_message("OPEN", l, IF DelayedAck THEN Window ELSE 0) \in Frames
    BY <2>1, HostAssumption, EmptyMessageType
  <2>3. toDevice' \in Seq(Frames)
    BY <1>4, <1>t, <2>2, SendType DEF OpenCall
  <2>4. call' \in Calls /\ (call'.op # "none" => call'.h \in Handles)
    BY <1>4, <1>n, <2>1 DEF OpenCall, Calls, Idle
  <2>5. closes' \in [LocalIds -> Nat]
    <3>1. closes' = closes \/ closes' = [closes EXCEPT ![l] = @ + 1]
      BY <1>4 DEF OpenCall
    <3>2. closes \in [LocalIds -> Nat]
      BY <1>t DEF TypeOK
    <3>. QED  BY <3>1, <3>2, ClosesType
  <2>6. fate' \in [LocalIds -> {"none", "opening", "open", "refused", "failed"}]
    BY <1>4, <1>t DEF OpenCall, TypeOK
  <2>7. next_local_id' \in Nat /\ next_local_id' >= 2
    BY <1>4, <1>t DEF OpenCall, TypeOK
  <2>. QED
    BY <1>4, <1>t, <2>3, <2>4, <2>5, <2>6, <2>7
       DEF OpenCall, TypeOK, LinkTypeOK, DeviceTypeOK, devVars, dataVars
<1>5. ASSUME OpenSkip PROVE TypeInv'
  BY <1>5, <1>t, FrameReadyType
     DEF OpenSkip, TypeOK, LinkTypeOK, DeviceTypeOK, devVars, dataVars, histVars, hostVars
<1>6. ASSUME OpenAccepted PROVE TypeInv'
  <2>1. toHost' \in Seq(Frames) /\ Head(toHost).arg0 \in Nat
    BY <1>6, <1>t, FrameReadyType DEF OpenAccepted
  <2>2. NewStream(call.id, Head(toHost).arg0) \in Streams
    BY <1>t, <1>n, <2>1 DEF NewStream, Streams, TypeOK, Calls
  <2>3. stream' \in [Handles -> Streams]
    BY <1>6, <1>t, <2>2 DEF OpenAccepted, TypeOK
  <2>4. fate' \in [LocalIds -> {"none", "opening", "open", "refused", "failed"}]
    BY <1>6, <1>t DEF OpenAccepted, TypeOK
  <2>. QED
    BY <1>6, <1>t, <1>n, <2>1, <2>3, <2>4
       DEF OpenAccepted, TypeOK, LinkTypeOK, DeviceTypeOK, devVars, dataVars
<1>7. ASSUME OpenRefused PROVE TypeInv'
  <2>1. toHost' \in Seq(Frames)
    BY <1>7, <1>t, FrameReadyType DEF OpenRefused
  <2>2. call.id \in {0} \cup LocalIds
    BY <1>t DEF TypeOK, Calls
  <2>3. /\ toDevice' \in Seq(Frames) /\ closes' \in [LocalIds -> Nat]
        /\ call' \in Calls /\ call'.op = "none"
    BY <1>7, <1>t, <2>2, AbandonOpenType DEF OpenRefused
  <2>4. fate' \in [LocalIds -> {"none", "opening", "open", "refused", "failed"}]
    BY <1>7, <1>t DEF OpenRefused, TypeOK
  <2>. QED
    BY <1>7, <1>t, <2>1, <2>3, <2>4
       DEF OpenRefused, TypeOK, LinkTypeOK, DeviceTypeOK, devVars, dataVars
<1>8. ASSUME OpenReceiveFails PROVE TypeInv'
  <2>2. call.id \in {0} \cup LocalIds
    BY <1>t DEF TypeOK, Calls
  <2>3. /\ toDevice' \in Seq(Frames) /\ closes' \in [LocalIds -> Nat]
        /\ call' \in Calls /\ call'.op = "none"
    BY <1>8, <1>t, <2>2, AbandonOpenType DEF OpenReceiveFails
  <2>4. fate' \in [LocalIds -> {"none", "opening", "open", "refused", "failed"}]
    BY <1>8, <1>t DEF OpenReceiveFails, TypeOK
  <2>. QED
    BY <1>8, <1>t, <2>3, <2>4
       DEF OpenReceiveFails, TypeOK, LinkTypeOK, DeviceTypeOK, devVars, dataVars
<1>9. ASSUME NEW h \in Handles, Write(h) PROVE TypeInv'
  <2>1. stream[h].local \in Nat /\ stream[h].remote \in Nat
    BY <1>t, <1>l DEF TypeOK, Streams
  <2>2. make_empty_message("WRTE", stream[h].local, stream[h].remote) \in Frames
    BY <2>1, EmptyMessageType
  <2>3. toDevice' \in Seq(Frames)
    BY <1>9, <1>t, <2>2, SendType DEF Write
  <2>4. wrote' \in [LocalIds -> Nat]
    <3>. DEFINE l == stream[h].local
    <3>1. wrote' = [wrote EXCEPT ![l] = IF link = "up" THEN @ + 1 ELSE @]
      BY <1>9 DEF Write
    <3>2. l \in LocalIds => (IF link = "up" THEN wrote[l] + 1 ELSE wrote[l]) \in Nat
      BY <1>t DEF TypeOK
    <3>. QED  BY <1>t, <3>1, <3>2, UpdateType DEF TypeOK
  <2>. QED
    BY <1>9, <1>t, <2>3, <2>4
       DEF Write, TypeOK, LinkTypeOK, DeviceTypeOK, devVars, dataVars, hostVars
<1>10. ASSUME NEW h \in Handles, NEW n \in 1 .. MaxRead, ReadCall(h, n) PROVE TypeInv'
  <2>. DEFINE s == stream[h]
              k == TakeCount(s.buf, n)
              b == BytesOf(s.buf.src, s.buf.at, k)
  <2>1. /\ s.local \in {0} \cup LocalIds /\ s.buf \in Buffers /\ n \in Nat
        /\ s.buf.src \in {0} \cup LocalIds /\ s.buf.at \in Nat /\ s.buf.len \in Nat
    BY <1>t, HostAssumption DEF TypeOK, Streams, Buffers
  <2>2. k \in Nat /\ k <= s.buf.len /\ k <= n
    BY <2>1, LeastBounds DEF TakeCount
  <2>3. b \in Seq(Bytes)
    BY <2>1, <2>2, BytesOfType
  <2>4. Remaining(s.buf, k) \in Buffers
    BY <2>1, <2>2, RemainingType
  <2>5. stream' \in [Handles -> Streams]
    BY <1>10, <1>t, <2>4 DEF ReadCall, TypeOK, Streams
  <2>6. delivered' \in [LocalIds -> Seq(Bytes)]
    <3>1. delivered' = delivered \/ delivered' = [delivered EXCEPT ![s.local] = @ \o b]
      BY <1>10 DEF ReadCall
    <3>2. delivered \in [LocalIds -> Seq(Bytes)]
      BY <1>t DEF TypeOK
    <3>. HIDE DEF b
    <3>. QED  BY <2>3, <3>1, <3>2, DeliveredType
  <2>7. n - k \in Nat
    BY <2>1, <2>2
  <2>8. [op |-> "read", h |-> h, id |-> s.local, want |-> n - k, out |-> b] \in Calls
    BY <2>1, <2>3, <2>7 DEF Calls
  <2>9. call' \in Calls /\ (call'.op # "none" => call'.h \in Handles)
    <3>1. \/ call' = call
          \/ call' = [op |-> "read", h |-> h, id |-> s.local, want |-> n - k, out |-> b]
      BY <1>10 DEF ReadCall
    <3>2. call \in Calls
      BY <1>t DEF TypeOK
    <3>. QED  BY <2>8, <3>1, <3>2
  <2>. QED
    BY <1>10, <1>t, <2>5, <2>6, <2>9
       DEF ReadCall, TypeOK, LinkTypeOK, DeviceTypeOK, devVars
<1>11. ASSUME NEW h \in Handles, ReadAllCall(h) PROVE TypeInv'
  <2>. DEFINE s == stream[h]
  <2>1. /\ s.local \in {0} \cup LocalIds
        /\ s.buf.src \in {0} \cup LocalIds /\ s.buf.at \in Nat /\ s.buf.len \in Nat
    BY <1>t DEF TypeOK, Streams, Buffers
  <2>2. Drained(s.buf) \in Seq(Bytes)
    BY <2>1, BytesOfType DEF Drained
  <2>3. stream' \in [Handles -> Streams]
    BY <1>11, <1>t, <1>n DEF ReadAllCall, TypeOK, Streams
  <2>4. call' \in Calls /\ call'.h \in Handles
    BY <1>11, <2>1, <2>2 DEF ReadAllCall, Calls
  <2>. QED
    BY <1>11, <1>t, <2>3, <2>4
       DEF ReadAllCall, TypeOK, LinkTypeOK, DeviceTypeOK, devVars, dataVars, histVars
<1>12. ASSUME ReceiveSkip PROVE TypeInv'
  BY <1>12, <1>t, FrameReadyType
     DEF ReceiveSkip, TypeOK, LinkTypeOK, DeviceTypeOK, devVars, dataVars, histVars, hostVars
<1>13. ASSUME ReceiveWrte PROVE TypeInv'
  <2>. DEFINE f    == Head(toHost)
              s    == stream[call.h]
              full == [src |-> f.arg1, at |-> f.at, len |-> f.len]
              k    == IF call.op = "read" THEN TakeCount(full, call.want) ELSE f.len
              out  == call.out \o BytesOf(full.src, full.at, k)
  <2>1. toHost' \in Seq(Frames) /\ f.at \in Nat /\ f.len \in Nat
    BY <1>13, <1>t, FrameReadyType DEF ReceiveWrte
  <2>2. call.h \in Handles
    BY <1>13 DEF ReceiveWrte, Reading
  <2>3. s.local \in {0} \cup LocalIds /\ s.remote \in Nat
    BY <1>t, <2>2 DEF TypeOK, Streams
  <2>4. full \in Buffers /\ full.src \in {0} \cup LocalIds
    BY <1>13, <2>1, <2>3 DEF ReceiveWrte, ReadSkips, Buffers
  <2>5. call.want \in Nat /\ call.out \in Seq(Bytes) /\ call.id \in {0} \cup LocalIds
    BY <1>t DEF TypeOK, Calls
  <2>6. k \in Nat /\ k <= full.len /\ (call.op = "read" => k <= call.want)
    BY <2>1, <2>5, LeastBounds, ZenonT(30) DEF TakeCount
  <2>7. out \in Seq(Bytes)
    BY <2>1, <2>4, <2>5, <2>6, BytesOfType, ConcatProperties
  <2>8. make_empty_message("OKAY", s.local, s.remote) \in Frames
    BY <1>l, <2>3, EmptyMessageType
  <2>9. toDevice' \in Seq(Frames)
    BY <1>13, <1>t, <2>8, SendType DEF ReceiveWrte, Acknowledge
  <2>10. taken' \in [LocalIds -> Nat]
    <3>1. taken' = [taken EXCEPT ![call.id] = @ + f.len]
      BY <1>13 DEF ReceiveWrte
    <3>2. call.id \in LocalIds => taken[call.id] + f.len \in Nat
      BY <1>t, <2>1 DEF TypeOK
    <3>. QED  BY <1>t, <3>1, <3>2, UpdateType DEF TypeOK
  <2>11. Remaining(full, k) \in Buffers
    BY <2>4, <2>6, RemainingType
  <2>12. stream' \in [Handles -> Streams]
    <3>1. PICK buf \in Buffers : stream' = [stream EXCEPT ![call.h].buf = buf]
      BY <1>13, <1>n, <2>4, <2>11 DEF ReceiveWrte
    <3>. QED  BY <1>t, <3>1, ZenonT(30) DEF TypeOK, Streams
  <2>13. delivered' \in [LocalIds -> Seq(Bytes)]
    <3>1. delivered' = delivered \/ delivered' = [delivered EXCEPT ![call.id] = @ \o out]
      BY <1>13 DEF ReceiveWrte
    <3>2. delivered \in [LocalIds -> Seq(Bytes)]
      BY <1>t DEF TypeOK
    <3>. HIDE DEF out
    <3>. QED  BY <2>7, <3>1, <3>2, DeliveredType
  <2>14. lost' \in [LocalIds -> BOOLEAN]
    BY <1>13, <1>t, FailCallType DEF ReceiveWrte, TypeOK
  <2>15. call' \in Calls /\ (call'.op # "none" => call'.h \in Handles)
    <3>1. CASE link # "up"
      BY <1>13, <1>t, <3>1, FailCallType DEF ReceiveWrte
    <3>2. CASE link = "up" /\ call.op = "read" /\ k = call.want
      BY <1>13, <1>n, <3>2 DEF ReceiveWrte
    <3>3. CASE link = "up" /\ ~(call.op = "read" /\ k = call.want)
      <4>1. (IF call.op = "read" THEN call.want - k ELSE call.want) \in Nat
        BY <2>5, <2>6
      <4>2. call' = [call EXCEPT !.want = IF call.op = "read" THEN @ - k ELSE @,
                                 !.out = out]
        BY <1>13, <3>3 DEF ReceiveWrte
      <4>. QED  BY <1>t, <2>2, <2>7, <4>1, <4>2 DEF TypeOK, Calls
    <3>. QED  BY <3>1, <3>2, <3>3
  <2>. QED
    BY <1>13, <1>t, <2>1, <2>9, <2>10, <2>12, <2>13, <2>14, <2>15
       DEF ReceiveWrte, TypeOK, LinkTypeOK, DeviceTypeOK, devVars
<1>14. ASSUME ReceiveClse PROVE TypeInv'
  <2>1. toHost' \in Seq(Frames)
    BY <1>14, <1>t, FrameReadyType DEF ReceiveClse
  <2>2. stream' \in [Handles -> Streams]
    BY <1>14, <1>t, ZenonT(30) DEF ReceiveClse, TypeOK, Streams
  <2>3. call.out \in Seq(Bytes)
    BY <1>t DEF TypeOK, Calls
  <2>4. delivered' \in [LocalIds -> Seq(Bytes)]
    <3>1. \/ delivered' = delivered
          \/ delivered' = [delivered EXCEPT ![call.id] = @ \o call.out]
      BY <1>14 DEF ReceiveClse
    <3>2. delivered \in [LocalIds -> Seq(Bytes)]
      BY <1>t DEF TypeOK
    <3>. QED  BY <2>3, <3>1, <3>2, DeliveredType
  <2>5. call' \in Calls /\ call'.op = "none" /\ lost' \in [LocalIds -> BOOLEAN]
    BY <1>14, <1>t, <1>n, FailCallType DEF ReceiveClse, TypeOK
  <2>6. sawClose' \in [LocalIds -> BOOLEAN] /\ finished' \in [LocalIds -> BOOLEAN]
    BY <1>14, <1>t DEF ReceiveClse, TypeOK
  <2>. QED
    BY <1>14, <1>t, <2>1, <2>2, <2>4, <2>5, <2>6
       DEF ReceiveClse, TypeOK, LinkTypeOK, DeviceTypeOK, devVars
<1>15. ASSUME ReceiveUnexpected PROVE TypeInv'
  <2>1. toHost' \in Seq(Frames)
    BY <1>15, <1>t, FrameReadyType DEF ReceiveUnexpected
  <2>2. call' \in Calls /\ call'.op = "none" /\ lost' \in [LocalIds -> BOOLEAN]
    BY <1>15, <1>t, FailCallType DEF ReceiveUnexpected
  <2>. QED
    BY <1>15, <1>t, <2>1, <2>2
       DEF ReceiveUnexpected, TypeOK, LinkTypeOK, DeviceTypeOK, devVars
<1>16. ASSUME ReadReceiveFails PROVE TypeInv'
  <2>2. call' \in Calls /\ call'.op = "none" /\ lost' \in [LocalIds -> BOOLEAN]
    BY <1>16, <1>t, FailCallType DEF ReadReceiveFails
  <2>. QED
    BY <1>16, <1>t, <2>2
       DEF ReadReceiveFails, TypeOK, LinkTypeOK, DeviceTypeOK, devVars
<1>17. ASSUME LinkTypeOK', DeviceTypeOK', UNCHANGED <<hostVars, histVars>> PROVE TypeInv'
  BY <1>17 DEF TypeOK, hostVars, histVars, dataVars
<1>18. ASSUME Quiet(DeviceStep) PROVE TypeInv'
  BY <1>18, <1>17, DeviceStepType DEF Quiet, TypeOK
<1>19. ASSUME Quiet(LinkDown /\ UNCHANGED devVars) PROVE TypeInv'
  <2>1. PICK k \in 0 .. Len(toHost) : toHost' = SubSeq(toHost, 1, k)
    BY <1>19 DEF Quiet, LinkDown
  <2>2. toHost' \in Seq(Frames)
    BY <1>t, <2>1, SubSeqProperties, LenProperties
  <2>3. LinkTypeOK'
    BY <1>19, <2>2 DEF Quiet, LinkDown, LinkTypeOK
  <2>. QED  BY <1>19, <1>17, <2>3 DEF Quiet, TypeOK, DeviceTypeOK, devVars
<1>20. ASSUME Quiet(call = Idle /\ ConnectionClose /\ UNCHANGED devVars) PROVE TypeInv'
  <2>1. LinkTypeOK'
    BY <1>20 DEF Quiet, ConnectionClose, LinkTypeOK
  <2>. QED  BY <1>20, <1>17, <2>1 DEF Quiet, TypeOK, DeviceTypeOK, devVars
<1>21. ASSUME UNCHANGED vars PROVE TypeInv'
  BY <1>21 DEF vars, TypeOK, LinkTypeOK, DeviceTypeOK, hostVars, histVars, dataVars, devVars
<1>. QED
  BY <1>1, <1>2, <1>3, <1>4, <1>5, <1>6, <1>7, <1>8, <1>9, <1>10, <1>11, <1>12, <1>13,
     <1>14, <1>15, <1>16, <1>18, <1>19, <1>20, <1>21
     DEF Next, HostStep, CallerStep, ReceiveStep, FailureStep

\* Every variable of the host, the link and the device keeps its type, whatever
\* the caller does, whatever the device answers and whatever fails; in
\* particular no buffer length and no count of wanted bytes becomes negative.
THEOREM TypeCorrect == Spec => []TypeOK
<1>1. Init => TypeInv
  BY TypeInit
<1>2. TypeInv /\ [Next]_vars => TypeInv'
  BY TypeStep
<1>3. TypeInv => TypeOK
  BY DEF TypeInv
<1>. QED  BY <1>1, <1>2, <1>3, PTL DEF Spec

-----------------------------------------------------------------------------
(* Ownership and closing.                                                   *)

\* OwnerInv holds initially: no object, no call, no id in use.
LEMMA OwnerInit == Init => OwnerInv
<1>. SUFFICES ASSUME Init PROVE OwnerInv
  OBVIOUS
<1>1. \A h \in Handles : ~Live(h)
  BY DEF Init, Live, NoStream
<1>2. call.op = "none"
  BY DEF Init, Idle
<1>3. CallOwns
  BY <1>2 DEF CallOwns, Reading
<1>4. ClosingHistory
  BY DEF Init, ClosingHistory
<1>. QED  BY <1>1, <1>3, <1>4 DEF OwnerInv, OwnsOpenStream, OneOwner

\* With no call in progress, closing the stream of h and taking its object out
\* of circulation keeps the invariant; a and b are what a move leaves behind.
LEMMA OwnerDestroy ==
  ASSUME TypeInv, OwnerInv, NEW h \in Handles, Destroy(h)
  PROVE  OwnerInv'
<1>. DEFINE l == stream[h].local
<1>1. /\ call.op = "none" /\ UNCHANGED <<call, next_local_id, fate, sawClose>>
      /\ stream' = [stream EXCEPT ![h] = NoStream]
  BY DEF Destroy, Idle
<1>t. /\ stream \in [Handles -> Streams] /\ closes \in [LocalIds -> Nat]
      /\ next_local_id \in Nat
  BY DEF TypeInv, TypeOK
<1>2. ~Live(h)' /\ \A g \in Handles \ {h} : stream'[g] = stream[g] /\ (Live(g)' <=> Live(g))
  BY <1>1, <1>t DEF Live, NoStream
<1>3. CASE ~Live(h)
  <2>1. UNCHANGED closes
    BY <1>3 DEF Destroy, close_now, Live
  <2>. QED
    BY <1>1, <1>2, <2>1
       DEF OwnerInv, OwnsOpenStream, OneOwner, CallOwns, ClosingHistory, Reading
<1>4. CASE Live(h)
  <2>1. closes' = [closes EXCEPT ![l] = @ + 1]
    BY <1>4 DEF Destroy, close_now, Live
  <2>2. l \in LocalIds /\ fate[l] = "open" /\ closes[l] = 0 /\ ~sawClose[l]
    BY <1>4 DEF OwnerInv, OwnsOpenStream
  <2>3. closes'[l] = 1 /\ \A m \in LocalIds \ {l} : closes'[m] = closes[m]
    BY <1>t, <2>1, <2>2
  <2>4. \A g \in Handles : Live(g)' => stream'[g] = stream[g] /\ Live(g) /\ stream[g].local # l
    BY <1>2, <1>4 DEF OwnerInv, OneOwner
  <2>5. OwnsOpenStream'
    BY <1>1, <2>3, <2>4 DEF OwnerInv, OwnsOpenStream
  <2>6. OneOwner'
    BY <1>1, <2>4 DEF OwnerInv, OneOwner
  <2>7. CallOwns'
    BY <1>1 DEF CallOwns, Reading
  <2>8. ClosingHistory'
    BY <1>1, <2>2, <2>3 DEF OwnerInv, ClosingHistory
  <2>. QED  BY <2>5, <2>6, <2>7, <2>8 DEF OwnerInv
<1>. QED  BY <1>3, <1>4

\* What a move leaves behind: b is what a was, a owns nothing.
LEMMA OwnerTakeOver ==
  ASSUME stream \in [Handles -> Streams],
         NEW a \in Handles, NEW b \in Handles, a # b, TakeOver(a, b)
  PROVE  /\ ~Live(a)'
         /\ stream'[b] = stream[a]
         /\ Live(b)' <=> Live(a)
         /\ \A g \in Handles \ {a, b} : stream'[g] = stream[g] /\ (Live(g)' <=> Live(g))
<1>1. stream' = [stream EXCEPT ![b] = stream[a], ![a] = MovedFrom(stream[a])]
  BY DEF TakeOver
<1>2. /\ stream'[b] = stream[a] /\ stream'[a] = MovedFrom(stream[a])
      /\ \A g \in Handles \ {a, b} : stream'[g] = stream[g]
  BY <1>1
<1>3. MovedFrom(stream[a]).closed = TRUE
  BY DEF MovedFrom, Streams
<1>. QED  BY <1>2, <1>3 DEF Live

\* The new object owns the stream, the old one none (Stream::Stream(Stream &&)).
LEMMA OwnerMoveConstruct ==
  ASSUME TypeInv, OwnerInv, NEW a \in Handles, NEW b \in Handles, MoveConstruct(a, b)
  PROVE  OwnerInv'
<1>1. /\ call.op = "none" /\ a # b /\ TakeOver(a, b) /\ ~Live(b)
      /\ UNCHANGED <<call, next_local_id, fate, sawClose, closes>>
  BY DEF MoveConstruct, Idle, histVars, Live, NoStream
<1>2. stream \in [Handles -> Streams]
  BY DEF TypeInv, TypeOK
<1>3. /\ ~Live(a)' /\ stream'[b] = stream[a] /\ (Live(b)' <=> Live(a))
      /\ \A g \in Handles \ {a, b} : stream'[g] = stream[g] /\ (Live(g)' <=> Live(g))
  BY <1>1, <1>2, OwnerTakeOver
<1>4. OwnsOpenStream'
  BY <1>1, <1>3 DEF OwnerInv, OwnsOpenStream
<1>5. OneOwner'
  BY <1>1, <1>3 DEF OwnerInv, OneOwner
<1>6. CallOwns' /\ ClosingHistory'
  BY <1>1 DEF OwnerInv, CallOwns, ClosingHistory, Reading
<1>. QED  BY <1>4, <1>5, <1>6 DEF OwnerInv

\* The stream that is assigned over is closed first (Stream::operator=).
LEMMA OwnerMoveAssign ==
  ASSUME TypeInv, OwnerInv, NEW a \in Handles, NEW b \in Handles, MoveAssign(a, b)
  PROVE  OwnerInv'
<1>. DEFINE l == stream[b].local
<1>1. /\ call.op = "none" /\ a # b /\ TakeOver(a, b)
      /\ UNCHANGED <<call, next_local_id, fate, sawClose>>
  BY DEF MoveAssign, Idle
<1>t. stream \in [Handles -> Streams] /\ closes \in [LocalIds -> Nat]
  BY DEF TypeInv, TypeOK
<1>2. /\ ~Live(a)' /\ stream'[b] = stream[a] /\ (Live(b)' <=> Live(a))
      /\ \A g \in Handles \ {a, b} : stream'[g] = stream[g] /\ (Live(g)' <=> Live(g))
  BY <1>1, <1>t, OwnerTakeOver
<1>3. OneOwner'
  BY <1>1, <1>2 DEF OwnerInv, OneOwner
<1>4. CallOwns'
  BY <1>1 DEF CallOwns, Reading
<1>5. CASE ~Live(b)
  <2>1. UNCHANGED closes
    BY <1>5 DEF MoveAssign, close_now, Live
  <2>. QED
    BY <1>1, <1>2, <1>3, <1>4, <2>1 DEF OwnerInv, OwnsOpenStream, ClosingHistory
<1>6. CASE Live(b)
  <2>1. closes' = [closes EXCEPT ![l] = @ + 1]
    BY <1>6 DEF MoveAssign, close_now, Live
  <2>2. l \in LocalIds /\ fate[l] = "open" /\ closes[l] = 0 /\ ~sawClose[l]
    BY <1>6 DEF OwnerInv, OwnsOpenStream
  <2>3. closes'[l] = 1 /\ \A m \in LocalIds \ {l} : closes'[m] = closes[m]
    BY <1>t, <2>1, <2>2
  <2>4. \A g \in Handles : Live(g)' =>
          \E o \in Handles : o # b /\ Live(o) /\ stream'[g] = stream[o] /\ stream[o].local # l
    BY <1>1, <1>2, <1>6 DEF OwnerInv, OneOwner
  <2>5. OwnsOpenStream'
    BY <1>1, <2>3, <2>4 DEF OwnerInv, OwnsOpenStream
  <2>6. ClosingHistory'
    BY <1>1, <2>2, <2>3 DEF OwnerInv, ClosingHistory
  <2>. QED  BY <1>3, <1>4, <2>5, <2>6 DEF OwnerInv
<1>. QED  BY <1>5, <1>6

\* open: a new id comes from next_local_id, which no stream has had.
LEMMA OwnerOpenCall ==
  ASSUME TypeInv, OwnerInv, NEW h \in Handles, OpenCall(h)
  PROVE  OwnerInv'
<1>. DEFINE l == next_local_id
<1>1. /\ call.op = "none" /\ stream[h] = NoStream /\ l \in LocalIds
      /\ next_local_id' = l + 1 /\ UNCHANGED <<stream, sawClose>>
  BY DEF OpenCall, Idle
<1>t. /\ l \in Nat /\ closes \in [LocalIds -> Nat] /\ LocalIds \subseteq Nat
      /\ fate \in [LocalIds -> {"none", "opening", "open", "refused", "failed"}]
  BY DEF TypeInv, TypeOK, LocalIds
<1>2. fate[l] = "none" /\ closes[l] = 0 /\ ~sawClose[l]
  BY <1>1, <1>t DEF OwnerInv, ClosingHistory
<1>3. \A g \in Handles : Live(g) => stream[g].local # l /\ stream[g].local < l /\ stream[g].local \in LocalIds
  BY <1>2 DEF OwnerInv, OwnsOpenStream
<1>4. \A g \in Handles : Live(g)' <=> Live(g)
  BY <1>1 DEF Live
<1>5. OneOwner'
  BY <1>1, <1>4 DEF OwnerInv, OneOwner
<1>6. \A m \in LocalIds : m >= next_local_id' => m >= l /\ m # l
  BY <1>1, <1>t
<1>7. CASE link = "up"
  <2>1. /\ call' = [Idle EXCEPT !.op = "open", !.h = h, !.id = l]
        /\ fate' = [fate EXCEPT ![l] = "opening"] /\ UNCHANGED closes
    BY <1>7 DEF OpenCall
  <2>2. call'.op = "open" /\ call'.h = h /\ call'.id = l
    BY <2>1 DEF Idle
  <2>3. fate'[l] = "opening" /\ \A m \in LocalIds \ {l} : fate'[m] = fate[m]
    BY <1>1, <1>t, <2>1
  <2>4. OwnsOpenStream'
    BY <1>1, <1>3, <1>4, <1>t, <2>1, <2>3 DEF OwnerInv, OwnsOpenStream
  <2>5. CallOwns'
    BY <1>1, <1>t, <2>2, <2>3 DEF CallOwns, Reading
  <2>6. ClosingHistory'
    <3>. SUFFICES ASSUME NEW m \in LocalIds
                  PROVE  /\ fate'[m] = "opening" => call'.op = "open" /\ call'.id = m
                         /\ fate'[m] \in {"none", "opening"} => closes'[m] = 0
                         /\ sawClose'[m] => fate'[m] = "open" /\ closes'[m] = 0
                         /\ m >= next_local_id' => fate'[m] = "none"
                         /\ closes'[m] <= 1
      BY DEF ClosingHistory
    <3>1. CASE m = l
      BY <1>1, <1>2, <1>t, <1>6, <2>1, <2>2, <2>3, <3>1
    <3>2. CASE m # l
      BY <1>1, <1>6, <2>1, <2>3, <3>2 DEF OwnerInv, ClosingHistory
    <3>. QED  BY <3>1, <3>2
  <2>. QED  BY <1>5, <2>4, <2>5, <2>6 DEF OwnerInv
<1>8. CASE link # "up"
  <2>1. /\ call' = Idle /\ fate' = [fate EXCEPT ![l] = "failed"]
        /\ closes' = [closes EXCEPT ![l] = @ + 1]
    BY <1>8 DEF OpenCall
  <2>2. call'.op = "none"
    BY <2>1 DEF Idle
  <2>3. /\ fate'[l] = "failed" /\ closes'[l] = 1
        /\ \A m \in LocalIds \ {l} : fate'[m] = fate[m] /\ closes'[m] = closes[m]
    BY <1>1, <1>2, <1>t, <2>1
  <2>4. OwnsOpenStream'
    <3>. SUFFICES ASSUME NEW g \in Handles, Live(g)'
                  PROVE  /\ stream'[g].local \in LocalIds
                         /\ stream'[g].local < next_local_id'
                         /\ fate'[stream'[g].local] = "open"
                         /\ closes'[stream'[g].local] = 0
                         /\ ~sawClose'[stream'[g].local]
      BY DEF OwnsOpenStream
    <3>1. /\ Live(g) /\ stream'[g] = stream[g] /\ stream[g].local \in LocalIds
          /\ stream[g].local # l /\ stream[g].local < l
      BY <1>1, <1>3, <1>4
    <3>2. fate[stream[g].local] = "open" /\ closes[stream[g].local] = 0 /\ ~sawClose[stream[g].local]
      BY <3>1 DEF OwnerInv, OwnsOpenStream
    <3>3. fate'[stream[g].local] = "open" /\ closes'[stream[g].local] = 0
      BY <2>3, <3>1, <3>2
    <3>4. stream[g].local < next_local_id'
      <4>1. stream[g].local \in Nat
        BY <1>t, <3>1
      <4>. QED  BY <1>1, <1>t, <3>1, <4>1
    <3>5. ~sawClose'[stream[g].local]
      BY <1>1, <3>2
    <3>. QED  BY <3>1, <3>3, <3>4, <3>5
  <2>5. CallOwns'
    BY <2>2 DEF CallOwns, Reading
  <2>6. ClosingHistory'
    <3>. SUFFICES ASSUME NEW m \in LocalIds
                  PROVE  /\ fate'[m] = "opening" => call'.op = "open" /\ call'.id = m
                         /\ fate'[m] \in {"none", "opening"} => closes'[m] = 0
                         /\ sawClose'[m] => fate'[m] = "open" /\ closes'[m] = 0
                         /\ m >= next_local_id' => fate'[m] = "none"
                         /\ closes'[m] <= 1
      BY DEF ClosingHistory
    <3>1. CASE m = l
      BY <1>1, <1>2, <1>t, <1>6, <2>1, <2>3, <3>1
    <3>2. CASE m # l
      BY <1>1, <1>6, <2>1, <2>3, <3>2 DEF OwnerInv, ClosingHistory
    <3>. QED  BY <3>1, <3>2
  <2>. QED  BY <1>5, <2>4, <2>5, <2>6 DEF OwnerInv
<1>. QED  BY <1>7, <1>8

\* open ends well: the stream gets its owner.
LEMMA OwnerOpenAccepted ==
  ASSUME TypeInv, OwnerInv, OpenAccepted
  PROVE  OwnerInv'
<1>. DEFINE l == call.id
            h == call.h
            s == NewStream(l, Head(toHost).arg0)
<1>1. /\ call.op = "open" /\ call' = Idle
      /\ stream' = [stream EXCEPT ![h] = s]
      /\ fate' = [fate EXCEPT ![l] = "open"]
      /\ UNCHANGED <<next_local_id, sawClose, closes>>
  BY DEF OpenAccepted
<1>2. /\ h \in Handles /\ l \in LocalIds /\ l < next_local_id
      /\ stream[h] = NoStream /\ fate[l] = "opening"
  BY <1>1 DEF OwnerInv, CallOwns
<1>t. /\ stream \in [Handles -> Streams] /\ next_local_id \in Nat /\ LocalIds \subseteq Nat
      /\ fate \in [LocalIds -> {"none", "opening", "open", "refused", "failed"}]
  BY DEF TypeInv, TypeOK, LocalIds
<1>3. closes[l] = 0 /\ ~sawClose[l]
  BY <1>2 DEF OwnerInv, ClosingHistory
<1>4. fate'[l] = "open" /\ \A m \in LocalIds \ {l} : fate'[m] = fate[m]
  BY <1>1, <1>2, <1>t
<1>5. /\ stream'[h].local = l
      /\ \A g \in Handles \ {h} : stream'[g] = stream[g] /\ (Live(g)' <=> Live(g))
  BY <1>1, <1>2, <1>t DEF Live, NewStream
<1>6. \A g \in Handles \ {h} : Live(g) => stream[g].local # l /\ stream[g].local \in LocalIds
  BY <1>2 DEF OwnerInv, OwnsOpenStream
<1>7. OwnsOpenStream'
  BY <1>1, <1>2, <1>3, <1>4, <1>5, <1>6 DEF OwnerInv, OwnsOpenStream
<1>8. OneOwner'
  BY <1>2, <1>5, <1>6 DEF OwnerInv, OneOwner
<1>9. CallOwns'
  BY <1>1 DEF CallOwns, Reading, Idle
<1>10. ClosingHistory'
  <2>. SUFFICES ASSUME NEW m \in LocalIds
                PROVE  /\ fate'[m] = "opening" => call'.op = "open" /\ call'.id = m
                       /\ fate'[m] \in {"none", "opening"} => closes'[m] = 0
                       /\ sawClose'[m] => fate'[m] = "open" /\ closes'[m] = 0
                       /\ m >= next_local_id' => fate'[m] = "none"
                       /\ closes'[m] <= 1
    BY DEF ClosingHistory
  <2>1. CASE m = l
    BY <1>1, <1>2, <1>3, <1>4, <1>t, <2>1
  <2>2. CASE m # l
    BY <1>1, <1>4, <2>2 DEF OwnerInv, ClosingHistory
  <2>. QED  BY <2>1, <2>2
<1>. QED  BY <1>7, <1>8, <1>9, <1>10 DEF OwnerInv

\* open fails after the OPEN went out: the id is given up and closed once.
LEMMA OwnerAbandonOpen ==
  ASSUME TypeInv, OwnerInv, call.op = "open", AbandonOpen(call.id),
         NEW v \in {"refused", "failed"}, fate' = [fate EXCEPT ![call.id] = v],
         UNCHANGED <<next_local_id, stream, sawClose>>
  PROVE  OwnerInv'
<1>. DEFINE l == call.id
<1>1. /\ call' = Idle /\ closes' = [closes EXCEPT ![l] = @ + 1]
  BY DEF AbandonOpen
<1>2. l \in LocalIds /\ l < next_local_id /\ fate[l] = "opening"
  BY DEF OwnerInv, CallOwns
<1>t. /\ closes \in [LocalIds -> Nat] /\ next_local_id \in Nat /\ LocalIds \subseteq Nat
      /\ fate \in [LocalIds -> {"none", "opening", "open", "refused", "failed"}]
  BY DEF TypeInv, TypeOK, LocalIds
<1>3. closes[l] = 0 /\ ~sawClose[l]
  BY <1>2 DEF OwnerInv, ClosingHistory
<1>4. /\ fate'[l] = v /\ closes'[l] = 1
      /\ \A m \in LocalIds \ {l} : fate'[m] = fate[m] /\ closes'[m] = closes[m]
  BY <1>1, <1>2, <1>3, <1>t
<1>5. \A g \in Handles : Live(g)' <=> Live(g)
  BY DEF Live
<1>6. \A g \in Handles : Live(g) => stream[g].local # l /\ stream[g].local \in LocalIds
  BY <1>2 DEF OwnerInv, OwnsOpenStream
<1>7. OwnsOpenStream'
  BY <1>4, <1>5, <1>6 DEF OwnerInv, OwnsOpenStream
<1>8. OneOwner'
  BY <1>5 DEF OwnerInv, OneOwner
<1>9. CallOwns'
  BY <1>1 DEF CallOwns, Reading, Idle
<1>10. ClosingHistory'
  <2>. SUFFICES ASSUME NEW m \in LocalIds
                PROVE  /\ fate'[m] = "opening" => call'.op = "open" /\ call'.id = m
                       /\ fate'[m] \in {"none", "opening"} => closes'[m] = 0
                       /\ sawClose'[m] => fate'[m] = "open" /\ closes'[m] = 0
                       /\ m >= next_local_id' => fate'[m] = "none"
                       /\ closes'[m] <= 1
    BY DEF ClosingHistory
  <2>1. CASE m = l
    BY <1>2, <1>3, <1>4, <1>t, <2>1
  <2>2. CASE m # l
    BY <1>4, <2>2 DEF OwnerInv, ClosingHistory
  <2>. QED  BY <2>1, <2>2
<1>. QED  BY <1>7, <1>8, <1>9, <1>10 DEF OwnerInv

\* Steps that change at most the buffer of one object and the call.
LEMMA OwnerBufferStep ==
  ASSUME TypeInv, OwnerInv,
         \A g \in Handles : /\ stream'[g].local = stream[g].local
                            /\ stream'[g].closed = stream[g].closed,
         UNCHANGED <<next_local_id, fate, sawClose, closes>>,
         call.op # "open", CallOwns'
  PROVE  OwnerInv'
<1>1. \A g \in Handles : Live(g)' <=> Live(g)
  BY DEF Live
<1>2. OwnsOpenStream' /\ OneOwner'
  BY <1>1 DEF OwnerInv, OwnsOpenStream, OneOwner
<1>3. ClosingHistory'
  BY DEF OwnerInv, ClosingHistory
<1>. QED  BY <1>2, <1>3 DEF OwnerInv

\* read keeps its object, and waits only when the buffer is used up (Stream::read).
LEMMA OwnerReadCall ==
  ASSUME TypeInv, OwnerInv, NEW h \in Handles, NEW n \in 1 .. MaxRead, ReadCall(h, n)
  PROVE  OwnerInv'
<1>. DEFINE s == stream[h]
            k == TakeCount(s.buf, n)
<1>t. stream \in [Handles -> Streams] /\ n \in Nat /\ s.buf.len \in Nat
  BY HostAssumption DEF TypeInv, TypeOK, Streams, Buffers
<1>1. /\ call.op = "none" /\ Live(h)
      /\ stream' = [stream EXCEPT ![h].buf = Remaining(s.buf, k)]
      /\ UNCHANGED <<next_local_id, fate, sawClose, closes>>
  BY DEF ReadCall, Idle, Usable, Live
<1>2. \A g \in Handles : /\ stream'[g].local = stream[g].local
                         /\ stream'[g].closed = stream[g].closed
  BY <1>1, <1>t DEF Streams
<1>3. stream'[h].buf.len = s.buf.len - k
  BY <1>1, <1>t DEF Remaining, Streams
<1>4. CallOwns'
  <2>1. CASE k = n
    BY <1>1, <2>1 DEF ReadCall, CallOwns, Reading
  <2>2. CASE k # n
    <3>1. call'.op = "read" /\ call'.h = h /\ call'.id = s.local
      BY <2>2 DEF ReadCall
    <3>2. k = s.buf.len
      BY <1>t, <2>2, LeastBounds DEF TakeCount
    <3>3. stream'[h].buf.len = 0
      BY <1>3, <1>t, <3>2
    <3>. QED  BY <1>1, <1>2, <3>1, <3>3 DEF CallOwns, Reading, Live
  <2>. QED  BY <2>1, <2>2
<1>. QED  BY <1>1, <1>2, <1>4, OwnerBufferStep

\* read_all keeps its object and empties its buffer (Stream::read_all).
LEMMA OwnerReadAllCall ==
  ASSUME TypeInv, OwnerInv, NEW h \in Handles, ReadAllCall(h)
  PROVE  OwnerInv'
<1>t. stream \in [Handles -> Streams]
  BY DEF TypeInv, TypeOK
<1>1. /\ call.op = "none" /\ Live(h)
      /\ stream' = [stream EXCEPT ![h].buf = NoData]
      /\ call'.op = "read_all" /\ call'.h = h /\ call'.id = stream[h].local
      /\ UNCHANGED <<next_local_id, fate, sawClose, closes>>
  BY DEF ReadAllCall, Idle, Usable, Live, histVars
<1>2. \A g \in Handles : /\ stream'[g].local = stream[g].local
                         /\ stream'[g].closed = stream[g].closed
  BY <1>1, <1>t DEF Streams
<1>3. stream'[h].buf.len = 0
  BY <1>1, <1>t DEF NoData, Streams
<1>4. CallOwns'
  BY <1>1, <1>2, <1>3 DEF CallOwns, Reading, Live
<1>. QED  BY <1>1, <1>2, <1>4, OwnerBufferStep

\* A WRTE that a call takes closes nothing (receive_more).
LEMMA OwnerReceiveWrte ==
  ASSUME TypeInv, OwnerInv, ReceiveWrte
  PROVE  OwnerInv'
<1>. DEFINE f    == Head(toHost)
            full == [src |-> f.arg1, at |-> f.at, len |-> f.len]
            k    == IF call.op = "read" THEN TakeCount(full, call.want) ELSE f.len
<1>t. /\ stream \in [Handles -> Streams] /\ f.len \in Nat /\ call.want \in Nat /\ call \in Calls
  BY FrameReadyType DEF TypeInv, TypeOK, LinkTypeOK, Calls, ReceiveWrte
<1>1. /\ Reading /\ call.op # "open"
      /\ UNCHANGED <<next_local_id, fate, sawClose, closes>>
  BY DEF ReceiveWrte, Reading
<1>2. call.h \in Handles /\ Live(call.h) /\ stream[call.h].local = call.id
  BY <1>1 DEF OwnerInv, CallOwns
<1>3. PICK buf : stream' = [stream EXCEPT ![call.h].buf = buf]
  BY DEF ReceiveWrte
<1>4. \A g \in Handles : /\ stream'[g].local = stream[g].local
                         /\ stream'[g].closed = stream[g].closed
  BY <1>2, <1>3, <1>t DEF Streams
<1>5. CallOwns'
  <2>1. CASE link # "up" \/ (call.op = "read" /\ k = call.want)
    <3>1. call' = Idle
      BY <2>1 DEF ReceiveWrte, FailCall
    <3>. QED  BY <3>1 DEF CallOwns, Reading, Idle
  <2>2. CASE link = "up" /\ ~(call.op = "read" /\ k = call.want)
    <3>1. call'.op = call.op /\ call'.h = call.h /\ call'.id = call.id
      BY <1>t, <2>2 DEF ReceiveWrte, Calls
    <3>2. stream' = [stream EXCEPT ![call.h].buf =
                       IF call.op = "read" THEN Remaining(full, k) ELSE NoData]
      BY <2>2 DEF ReceiveWrte
    <3>3. call.op = "read" => k = full.len
      BY <1>t, <2>2, LeastBounds DEF TakeCount
    <3>4. (IF call.op = "read" THEN Remaining(full, k) ELSE NoData).len = 0
      BY <1>t, <3>3 DEF Remaining, NoData
    <3>5. stream'[call.h].buf.len = 0
      BY <1>2, <1>t, <3>2, <3>4 DEF Streams
    <3>. QED  BY <1>1, <1>2, <1>4, <3>1, <3>5 DEF CallOwns, Reading, Live
  <2>. QED  BY <2>1, <2>2
<1>. QED  BY <1>1, <1>4, <1>5, OwnerBufferStep

\* The device's CLSE ends the ownership without a CLSE of the host.
LEMMA OwnerReceiveClse ==
  ASSUME TypeInv, OwnerInv, ReceiveClse
  PROVE  OwnerInv'
<1>h. PICK h \in Handles : h = call.h
  BY DEF OwnerInv, CallOwns, ReceiveClse
<1>. DEFINE l == call.id
<1>t. /\ stream \in [Handles -> Streams] /\ sawClose \in [LocalIds -> BOOLEAN]
  BY DEF TypeInv, TypeOK
<1>1. /\ Reading /\ call' = Idle
      /\ stream' = [stream EXCEPT ![h].closed = TRUE]
      /\ sawClose' = [sawClose EXCEPT ![l] = TRUE]
      /\ UNCHANGED <<next_local_id, fate, closes>>
  BY <1>h DEF ReceiveClse, FailCall
<1>2. h \in Handles /\ Live(h) /\ stream[h].local = l
  BY <1>1, <1>h DEF OwnerInv, CallOwns
<1>3. l \in LocalIds /\ fate[l] = "open" /\ closes[l] = 0
  BY <1>2 DEF OwnerInv, OwnsOpenStream
<1>4. ~Live(h)' /\ \A g \in Handles \ {h} : stream'[g] = stream[g] /\ (Live(g)' <=> Live(g))
  <2>1. stream'[h] = [stream[h] EXCEPT !.closed = TRUE]
    BY <1>1, <1>2, <1>t
  <2>2. stream'[h].closed = TRUE
    BY <1>2, <1>t, <2>1 DEF Streams
  <2>3. \A g \in Handles \ {h} : stream'[g] = stream[g]
    BY <1>1, <1>t
  <2>. QED  BY <2>2, <2>3 DEF Live
<1>5. sawClose'[l] = TRUE /\ \A m \in LocalIds \ {l} : sawClose'[m] = sawClose[m]
  BY <1>1, <1>3, <1>t
<1>6. \A g \in Handles \ {h} : Live(g) => stream[g].local # l
  BY <1>2 DEF OwnerInv, OneOwner
<1>7. OneOwner'
  BY <1>4 DEF OwnerInv, OneOwner
<1>10. OwnsOpenStream'
  <2>. SUFFICES ASSUME NEW g \in Handles, Live(g)'
                PROVE  /\ stream'[g].local \in LocalIds
                       /\ stream'[g].local < next_local_id'
                       /\ fate'[stream'[g].local] = "open"
                       /\ closes'[stream'[g].local] = 0
                       /\ ~sawClose'[stream'[g].local]
    BY DEF OwnsOpenStream
  <2>1. g # h /\ Live(g) /\ stream'[g] = stream[g] /\ stream[g].local # l
    BY <1>4, <1>6
  <2>2. /\ stream[g].local \in LocalIds
        /\ stream[g].local < next_local_id
        /\ fate[stream[g].local] = "open"
        /\ closes[stream[g].local] = 0
        /\ ~sawClose[stream[g].local]
    BY <2>1 DEF OwnerInv, OwnsOpenStream
  <2>3. ~sawClose'[stream[g].local]
    BY <1>5, <2>1, <2>2
  <2>. QED  BY <1>1, <2>1, <2>2, <2>3
<1>8. CallOwns'
  BY <1>1 DEF CallOwns, Reading, Idle
<1>9. ClosingHistory'
  BY <1>1, <1>3, <1>5 DEF OwnerInv, ClosingHistory, Reading
<1>. QED  BY <1>7, <1>8, <1>9, <1>10 DEF OwnerInv

\* Every step keeps OwnerInv.
LEMMA OwnerStep ==
  ASSUME TypeInv, OwnerInv, [Next]_vars
  PROVE  OwnerInv'
<1>1. ASSUME UNCHANGED <<hostVars, fate, sawClose, closes>> PROVE OwnerInv'
  BY <1>1
     DEF OwnerInv, OwnsOpenStream, OneOwner, CallOwns, ClosingHistory, Live, Reading, hostVars
<1>2. ASSUME OpenSkip \/ ReceiveSkip \/ \E h \in Handles : Write(h) PROVE OwnerInv'
  BY <1>1, <1>2 DEF OpenSkip, ReceiveSkip, Write, histVars
<1>3. ASSUME OpenRefused PROVE OwnerInv'
  BY <1>3, OwnerAbandonOpen DEF OpenRefused
<1>4. ASSUME OpenReceiveFails PROVE OwnerInv'
  BY <1>4, OwnerAbandonOpen DEF OpenReceiveFails
<1>5. ASSUME ReceiveUnexpected \/ ReadReceiveFails PROVE OwnerInv'
  <2>1. /\ Reading /\ call' = Idle
        /\ UNCHANGED <<next_local_id, stream, fate, sawClose, closes>>
    BY <1>5 DEF ReceiveUnexpected, ReadReceiveFails, FailCall
  <2>2. CallOwns'
    BY <2>1 DEF CallOwns, Reading, Idle
  <2>. QED  BY <2>1, <2>2, OwnerBufferStep DEF Reading
<1>6. ASSUME Quiet(DeviceStep) \/ Quiet(LinkDown /\ UNCHANGED devVars)
             \/ Quiet(call = Idle /\ ConnectionClose /\ UNCHANGED devVars)
             \/ UNCHANGED vars
      PROVE  OwnerInv'
  BY <1>1, <1>6 DEF Quiet, vars, histVars, hostVars
<1>. QED
  BY <1>2, <1>3, <1>4, <1>5, <1>6, OwnerDestroy, OwnerMoveConstruct, OwnerMoveAssign,
     OwnerOpenCall, OwnerOpenAccepted, OwnerReadCall, OwnerReadAllCall, OwnerReceiveWrte,
     OwnerReceiveClse
     DEF Next, HostStep, CallerStep, ReceiveStep, FailureStep

\* The bookkeeping of types and owners holds throughout.
LEMMA OwnerCorrect == Spec => [](TypeInv /\ OwnerInv)
<1>1. Init => TypeInv /\ OwnerInv
  BY TypeInit, OwnerInit
<1>2. TypeInv /\ OwnerInv /\ [Next]_vars => (TypeInv /\ OwnerInv)'
  BY TypeStep, OwnerStep
<1>. QED  BY <1>1, <1>2, PTL DEF Spec

\* However often Stream objects are moved, assigned over and destroyed, and
\* whatever fails, the host sends at most one CLSE for a stream, and none for
\* one the device has closed (Stream::close_now, receive_more).
THEOREM ClosedOnce == Spec => []OneClose
<1>1. OwnerInv => OneClose
  BY DEF OwnerInv, ClosingHistory, OneClose
<1>. QED  BY <1>1, OwnerCorrect, PTL

-----------------------------------------------------------------------------
(* Frames on their way.                                                     *)

\* What a receiver leaves of a channel (Connection::receive).
LEMMA TailFacts ==
  ASSUME NEW q \in Seq(Frames), q # <<>>
  PROVE  /\ Len(q) \in Nat /\ Len(q) >= 1 /\ 1 \in 1 .. Len(q) /\ q[1] \in Frames /\ Head(q) = q[1]
         /\ Tail(q) \in Seq(Frames) /\ Len(Tail(q)) = Len(q) - 1 /\ Len(Tail(q)) \in Nat
         /\ \A i \in 1 .. Len(Tail(q)) : i + 1 \in 1 .. Len(q) /\ i + 1 # 1 /\ Tail(q)[i] = q[i + 1]
<1>1. Len(q) \in Nat /\ Len(q) # 0
  BY EmptySeq, LenProperties
<1>2. q[1] \in Frames /\ Head(q) = q[1] /\ Tail(q) \in Seq(Frames) /\ Len(Tail(q)) = Len(q) - 1
      /\ \A i \in 1 .. Len(q) - 1 : Tail(q)[i] = q[i + 1]
  BY HeadTailProperties
<1>. QED  BY <1>1, <1>2

\* What a sender makes of a channel (Connection::send).
LEMMA AppendFacts ==
  ASSUME NEW q \in Seq(Frames), NEW f \in Frames
  PROVE  /\ Append(q, f) \in Seq(Frames) /\ Len(q) \in Nat /\ Len(Append(q, f)) = Len(q) + 1
         /\ Append(q, f)[Len(q) + 1] = f
         /\ \A i \in 1 .. Len(q) : i \in 1 .. Len(Append(q, f)) /\ Append(q, f)[i] = q[i]
         /\ \A i \in 1 .. Len(Append(q, f)) : i \in 1 .. Len(q) \/ i = Len(q) + 1
<1>1. /\ Append(q, f) \in Seq(Frames) /\ Len(q) \in Nat /\ Len(Append(q, f)) = Len(q) + 1
      /\ Append(q, f)[Len(q) + 1] = f
      /\ \A i \in 1 .. Len(q) : Append(q, f)[i] = q[i]
  BY AppendProperties, LenProperties
<1>. QED  BY <1>1

\* What a failing link leaves of a channel (LinkDown).
LEMMA PrefixFacts ==
  ASSUME NEW q \in Seq(Frames), NEW k \in 0 .. Len(q)
  PROVE  /\ SubSeq(q, 1, k) \in Seq(Frames) /\ Len(q) \in Nat /\ Len(SubSeq(q, 1, k)) = k
         /\ \A i \in 1 .. k : i \in 1 .. Len(q) /\ SubSeq(q, 1, k)[i] = q[i]
<1>1. Len(q) \in Nat
  BY LenProperties
<1>2. \A i \in 1 .. k : i \in 1 .. Len(q) /\ q[i] \in Frames
  BY <1>1, ElementOfSeq
<1>. QED  BY <1>1, <1>2

\* What a step may do to what open has reported: open begins, or it ends as the
\* device's answer says or with a failure.
FateStep(l) ==
  \/ fate'[l] = fate[l]
  \/ fate[l] = "none" /\ fate'[l] \in {"opening", "failed"}
  \/ fate[l] = "opening" /\ fate'[l] = "failed"
  \/ fate[l] = "opening" /\ fate'[l] = "open" /\ Accepted(l)
  \/ fate[l] = "opening" /\ fate'[l] = "refused" /\ dstat[l] = "refused"

FateSteps == \A l \in LocalIds : FateStep(l)

\* A host step leaves the frames to the device sound (Connection::send).
LEMMA HostSends ==
  ASSUME ToDeviceSound, FateTrue, toDevice \in Seq(Frames), UNCHANGED <<dstat, rid>>, FateSteps,
         \/ UNCHANGED toDevice
         \/ \E f \in Frames : /\ toDevice' = Append(toDevice, f) /\ DeviceFrame(f)'
                              /\ f.cmd = "OPEN" => fate[f.arg0] = "none"
  PROVE  ToDeviceSound'
<1>1. \A f \in Frames : DeviceFrame(f) => DeviceFrame(f)'
  BY DEF DeviceFrame, FateSteps, FateStep, Accepted
<1>2. \A i \in 1 .. Len(toDevice) : toDevice[i] \in Frames
  BY ElementOfSeq
<1>3. CASE UNCHANGED toDevice
  <2>1. \A i \in 1 .. Len(toDevice) : DeviceFrame(toDevice[i])'
    <3>. SUFFICES ASSUME NEW i \in 1 .. Len(toDevice) PROVE DeviceFrame(toDevice[i])'
      OBVIOUS
    <3>1. PICK f \in Frames : f = toDevice[i]
      BY <1>2
    <3>2. DeviceFrame(f)'
      BY <1>1, <3>1 DEF ToDeviceSound
    <3>. QED  BY <1>3, <3>1, <3>2
  <2>. QED  BY <1>3, <2>1 DEF ToDeviceSound, SameOpen
<1>4. ASSUME NEW f \in Frames, toDevice' = Append(toDevice, f), DeviceFrame(f)',
             f.cmd = "OPEN" => fate[f.arg0] = "none"
      PROVE  ToDeviceSound'
  <2>1. /\ Len(toDevice) \in Nat /\ Len(toDevice') = Len(toDevice) + 1 /\ toDevice'[Len(toDevice) + 1] = f
        /\ \A i \in 1 .. Len(toDevice) : toDevice'[i] = toDevice[i]
        /\ \A i \in 1 .. Len(toDevice') : i \in 1 .. Len(toDevice) \/ i = Len(toDevice) + 1
    BY <1>4, AppendFacts
  <2>2. \A i \in 1 .. Len(toDevice) : ~SameOpen(toDevice[i], f) /\ ~SameOpen(f, toDevice[i])
    BY <1>4 DEF ToDeviceSound, DeviceFrame, SameOpen
  <2>3. ASSUME NEW i \in 1 .. Len(toDevice') PROVE DeviceFrame(toDevice[i])'
    <3>1. PICK g \in Frames : g = toDevice'[i] /\ (g = f \/ DeviceFrame(g))
      BY <1>2, <1>4, <2>1 DEF ToDeviceSound
    <3>2. DeviceFrame(g)'
      BY <1>1, <1>4, <3>1
    <3>. QED  BY <3>1, <3>2
  <2>4. ASSUME NEW i \in 1 .. Len(toDevice'), NEW j \in 1 .. Len(toDevice'), SameOpen(toDevice'[i], toDevice'[j])
        PROVE  i = j
    BY <2>1, <2>2, <2>4 DEF ToDeviceSound
  <2>. QED  BY <2>3, <2>4 DEF ToDeviceSound
<1>. QED  BY <1>3, <1>4

\* A host step leaves the frames to the host sound (Connection::receive).
LEMMA HostTakes ==
  ASSUME ToHostSound, toHost \in Seq(Frames), UNCHANGED <<dstat, rid>>,
         UNCHANGED toHost \/ (toHost # <<>> /\ toHost' = Tail(toHost))
  PROVE  ToHostSound'
<1>1. \A f \in Frames : HostFrame(f) => HostFrame(f)'
  BY DEF HostFrame, Accepted
<1>2. \A i \in 1 .. Len(toHost) : toHost[i] \in Frames
  BY ElementOfSeq
<1>3. \A i \in 1 .. Len(toHost') : \E j \in 1 .. Len(toHost) : toHost'[i] = toHost[j]
  <2>1. CASE UNCHANGED toHost
    BY <2>1
  <2>2. CASE toHost # <<>> /\ toHost' = Tail(toHost)
    BY <2>2, TailFacts
  <2>. QED  BY <2>1, <2>2
<1>4. ASSUME NEW i \in 1 .. Len(toHost') PROVE HostFrame(toHost[i])'
  <2>1. PICK g \in Frames : g = toHost'[i] /\ HostFrame(g)
    BY <1>2, <1>3 DEF ToHostSound
  <2>2. HostFrame(g)'
    BY <1>1, <2>1
  <2>. QED  BY <2>1, <2>2
<1>. QED  BY <1>4 DEF ToHostSound

\* A host step that takes no frame of the stream being opened leaves its answer the
\* first of its frames (Stream::open).
LEMMA HostLeavesAnswer ==
  ASSUME AnswerFirst, ToHostSound, FateTrue, toHost \in Seq(Frames), UNCHANGED <<dstat, link>>, FateSteps,
         \/ UNCHANGED toHost
         \/ /\ toHost # <<>> /\ toHost' = Tail(toHost)
            /\ \A l \in LocalIds : fate'[l] = "opening" => toHost[1].arg1 # l
  PROVE  AnswerFirst'
<1>. SUFFICES ASSUME NEW l \in LocalIds, fate'[l] = "opening", dstat[l] # "refused"
              PROVE  /\ \A i \in 1 .. Len(toHost') : toHost'[i].arg1 = l => Answered(l, i)'
                     /\ link = "up" /\ Accepted(l) => Answered(l, Len(toHost))'
  BY DEF AnswerFirst, Accepted
<1>1. fate[l] \in {"none", "opening"}
  BY DEF FateSteps, FateStep
<1>2. CASE fate[l] = "none"
  <2>1. ~Accepted(l) /\ dstat[l] = "none"
    BY <1>2 DEF FateTrue, Accepted
  <2>2. \A j \in 1 .. Len(toHost) : toHost[j].arg1 # l
    BY <2>1 DEF ToHostSound, HostFrame
  <2>3. \A i \in 1 .. Len(toHost') : toHost'[i].arg1 # l
    <3>1. CASE UNCHANGED toHost
      BY <2>2, <3>1
    <3>2. CASE toHost # <<>> /\ toHost' = Tail(toHost)
      BY <2>2, <3>2, TailFacts
    <3>. QED  BY <3>1, <3>2
  <2>. QED  BY <2>1, <2>3
<1>3. CASE fate[l] = "opening" /\ UNCHANGED toHost
  BY <1>3 DEF AnswerFirst, Answered
<1>4. CASE fate[l] = "opening" /\ toHost # <<>> /\ toHost' = Tail(toHost) /\ toHost[1].arg1 # l
  <2>1. /\ Len(toHost) \in Nat /\ Len(toHost) >= 1 /\ Len(toHost') = Len(toHost) - 1 /\ Len(toHost') \in Nat
        /\ \A i \in 1 .. Len(toHost') : i + 1 \in 1 .. Len(toHost) /\ toHost'[i] = toHost[i + 1]
    BY <1>4, TailFacts
  <2>2. \A n \in 1 .. Len(toHost) : Answered(l, n) => Answered(l, n - 1)'
    <3>. SUFFICES ASSUME NEW n \in 1 .. Len(toHost), Answered(l, n) PROVE Answered(l, n - 1)'
      OBVIOUS
    <3>1. PICK j \in 1 .. n : Is(toHost[j], "OKAY", l)
      BY DEF Answered
    <3>2. j # 1
      BY <1>4, <3>1 DEF Is
    <3>3. j - 1 \in 1 .. n - 1 /\ j - 1 \in 1 .. Len(toHost') /\ (j - 1) + 1 = j
      BY <2>1, <3>2
    <3>4. toHost'[j - 1] = toHost[j]
      BY <2>1, <3>3
    <3>. QED  BY <3>1, <3>3, <3>4 DEF Answered, Is
  <2>3. ASSUME NEW i \in 1 .. Len(toHost'), toHost'[i].arg1 = l PROVE Answered(l, i)'
    <3>1. i + 1 \in 1 .. Len(toHost) /\ toHost[i + 1].arg1 = l /\ (i + 1) - 1 = i
      BY <2>1, <2>3
    <3>2. Answered(l, i + 1)
      BY <1>4, <3>1 DEF AnswerFirst
    <3>. QED  BY <2>2, <3>1, <3>2
  <2>4. ASSUME link = "up", Accepted(l) PROVE Answered(l, Len(toHost))'
    <3>1. Answered(l, Len(toHost)) /\ Len(toHost) \in 1 .. Len(toHost)
      <4>1. Answered(l, Len(toHost))
        BY <1>4, <2>4 DEF AnswerFirst
      <4>2. Len(toHost) \in 1 .. Len(toHost)
        BY <2>1
      <4>. QED  BY <4>1, <4>2
    <3>2. PICK n \in Nat : n = Len(toHost) - 1 /\ Answered(l, n)'
      BY <2>1, <2>2, <3>1
    <3>. QED  BY <2>1, <3>2 DEF Answered
  <2>. QED  BY <2>3, <2>4
<1>. QED  BY <1>1, <1>2, <1>3, <1>4

\* What a host step must do, and no more, to keep the invariant of the frames.
LEMMA HostWire ==
  ASSUME TypeInv, WireInv, UNCHANGED <<link, devVars>>, FateSteps,
         \/ UNCHANGED toDevice
         \/ \E f \in Frames : /\ toDevice' = Append(toDevice, f) /\ DeviceFrame(f)'
                              /\ f.cmd = "OPEN" => fate[f.arg0] = "none",
         \/ UNCHANGED toHost
         \/ /\ toHost # <<>> /\ toHost' = Tail(toHost)
            /\ \A l \in LocalIds : fate'[l] = "opening" => toHost[1].arg1 # l,
         \A l \in LocalIds : sawClose'[l] => sawClose[l] \/ dstat[l] \in {"closed", "gone"},
         RemoteKnown'
  PROVE  WireInv'
<1>1. toDevice \in Seq(Frames) /\ toHost \in Seq(Frames) /\ UNCHANGED <<dstat, rid, link>>
  BY DEF TypeInv, TypeOK, LinkTypeOK, devVars
<1>2. ToDeviceSound' /\ ToHostSound' /\ AnswerFirst'
  BY <1>1, HostSends, HostTakes, HostLeavesAnswer DEF WireInv
<1>3. FateTrue'
  BY <1>1 DEF WireInv, FateTrue, FateSteps, FateStep, Accepted
<1>. QED  BY <1>2, <1>3 DEF WireInv

\* What a step of the device may do to its stream l: accept or refuse the OPEN
\* it takes, or close a stream that it accepted.
DeviceStepOn(l) ==
  \/ UNCHANGED <<dstat[l], rid[l]>>
  \/ /\ toDevice # <<>> /\ toDevice' = Tail(toDevice) /\ From(toDevice[1], "OPEN", l)
     /\ \/ dstat'[l] = "open" /\ rid'[l] # 0
        \/ dstat'[l] = "refused"
  \/ Accepted(l) /\ dstat'[l] \in {"closed", "gone"} /\ rid'[l] = rid[l]

\* The device takes one frame at most and leaves those to it sound (DeviceHandles).
LEMMA DeviceTakes ==
  ASSUME ToDeviceSound, FateTrue, toDevice \in Seq(Frames), UNCHANGED fate,
         \A l \in LocalIds : DeviceStepOn(l),
         UNCHANGED toDevice \/ (toDevice # <<>> /\ toDevice' = Tail(toDevice))
  PROVE  ToDeviceSound'
<1>2. \A i \in 1 .. Len(toDevice) : toDevice[i] \in Frames
  BY ElementOfSeq
<1>3. /\ \A i \in 1 .. Len(toDevice') : \E k \in 1 .. Len(toDevice) : toDevice'[i] = toDevice[k]
                                           /\ (toDevice' = toDevice \/ k # 1)
      /\ \A i, j \in 1 .. Len(toDevice') : SameOpen(toDevice'[i], toDevice'[j]) => i = j
  <2>1. CASE UNCHANGED toDevice
    BY <2>1 DEF ToDeviceSound
  <2>2. CASE toDevice # <<>> /\ toDevice' = Tail(toDevice)
    <3>1. /\ Len(toDevice) \in Nat
          /\ \A i \in 1 .. Len(toDevice') : i + 1 \in 1 .. Len(toDevice) /\ i + 1 # 1 /\ toDevice'[i] = toDevice[i + 1]
      BY <2>2, TailFacts
    <3>2. \A i, j \in 1 .. Len(toDevice') : SameOpen(toDevice'[i], toDevice'[j]) => i + 1 = j + 1
      BY <3>1 DEF ToDeviceSound
    <3>3. \A i, j \in 1 .. Len(toDevice') : i + 1 = j + 1 => i = j
      OBVIOUS
    <3>. QED  BY <3>1, <3>2, <3>3
  <2>. QED  BY <2>1, <2>2
<1>4. ASSUME NEW i \in 1 .. Len(toDevice') PROVE DeviceFrame(toDevice[i])'
  <2>1. PICK k \in 1 .. Len(toDevice) : toDevice'[i] = toDevice[k] /\ (toDevice' = toDevice \/ k # 1)
    BY <1>3
  <2>2. PICK f \in Frames : f = toDevice[k] /\ DeviceFrame(f)
    BY <1>2 DEF ToDeviceSound
  <2>3. PICK l \in LocalIds : l = f.arg0
    BY <2>2 DEF DeviceFrame
  <2>4. DeviceStepOn(l)
    OBVIOUS
  <2>5. ASSUME UNCHANGED <<dstat[l], rid[l]>> PROVE DeviceFrame(f)'
    BY <2>2, <2>3, <2>5 DEF DeviceFrame
  <2>6. ASSUME toDevice # <<>>, toDevice' = Tail(toDevice), From(toDevice[1], "OPEN", l)
        PROVE  DeviceFrame(f)'
    <3>1. k # 1 /\ 1 \in 1 .. Len(toDevice)
      <4>1. Len(toDevice) >= 1 /\ Len(toDevice) \in Nat /\ Len(toDevice') = Len(toDevice) - 1
        BY <2>6, TailFacts
      <4>. QED  BY <2>1, <4>1
    <3>2. f.cmd # "OPEN" /\ dstat[l] = "none"
      BY <2>2, <2>3, <2>6, <3>1 DEF ToDeviceSound, SameOpen, From, DeviceFrame
    <3>3. fate[l] # "open"
      BY <3>2 DEF FateTrue, Accepted
    <3>. QED  BY <2>2, <2>3, <3>2, <3>3 DEF DeviceFrame
  <2>7. ASSUME Accepted(l), rid'[l] = rid[l] PROVE DeviceFrame(f)'
    BY <2>2, <2>3, <2>7 DEF DeviceFrame, Accepted
  <2>8. DeviceFrame(f)'
    BY <2>4, <2>5, <2>6, <2>7 DEF DeviceStepOn
  <2>. QED  BY <2>1, <2>2, <2>8
<1>. QED  BY <1>3, <1>4 DEF ToDeviceSound

\* What the device did with a stream never goes back to nothing.
LEMMA DeviceOnward ==
  ASSUME ToDeviceSound, FateTrue, toDevice \in Seq(Frames),
         NEW l \in LocalIds, DeviceStepOn(l)
  PROVE  /\ Accepted(l) => Accepted(l)' /\ rid'[l] = rid[l] /\ (dstat[l] # "open" => dstat'[l] # "open")
         /\ dstat[l] = "refused" => dstat'[l] = "refused"
         /\ dstat[l] \in {"closed", "gone"} => dstat'[l] \in {"closed", "gone"}
         /\ Accepted(l)' => rid'[l] # 0
         /\ fate[l] = "none" => dstat'[l] = dstat[l]
<1>1. ASSUME toDevice # <<>>, From(toDevice[1], "OPEN", l)
      PROVE  dstat[l] = "none" /\ fate[l] \in {"opening", "failed"}
  BY <1>1, TailFacts DEF ToDeviceSound, DeviceFrame, From
<1>. QED  BY <1>1 DEF DeviceStepOn, Accepted, FateTrue

\* The device's answers keep the frames to the host sound.
LEMMA DeviceReplies ==
  ASSUME ToDeviceSound, ToHostSound, FateTrue, toDevice \in Seq(Frames), toHost \in Seq(Frames),
         \A l \in LocalIds : DeviceStepOn(l),
         UNCHANGED toHost \/ \E f \in Frames : toHost' = Append(toHost, f) /\ HostFrame(f)'
  PROVE  ToHostSound'
<1>1. \A f \in Frames : HostFrame(f) => HostFrame(f)'
  <2>. SUFFICES ASSUME NEW f \in Frames, HostFrame(f) PROVE HostFrame(f)'
    OBVIOUS
  <2>1. PICK l \in LocalIds : l = f.arg1
    BY DEF HostFrame
  <2>2. /\ Accepted(l) => Accepted(l)' /\ rid'[l] = rid[l] /\ (dstat[l] # "open" => dstat'[l] # "open")
        /\ dstat[l] = "refused" => dstat'[l] = "refused"
    BY DeviceOnward
  <2>. QED  BY <2>1, <2>2 DEF HostFrame, Accepted
<1>2. \A i \in 1 .. Len(toHost) : toHost[i] \in Frames
  BY ElementOfSeq
<1>3. ASSUME NEW i \in 1 .. Len(toHost') PROVE HostFrame(toHost[i])'
  <2>1. PICK g \in Frames : g = toHost'[i] /\ (HostFrame(g) \/ HostFrame(g)')
    <3>1. CASE UNCHANGED toHost
      BY <1>2, <3>1 DEF ToHostSound
    <3>2. ASSUME NEW f \in Frames, toHost' = Append(toHost, f), HostFrame(f)'
          PROVE  \E g \in Frames : g = toHost'[i] /\ (HostFrame(g) \/ HostFrame(g)')
      BY <1>2, <3>2, AppendFacts DEF ToHostSound
    <3>. QED  BY <3>1, <3>2
  <2>2. HostFrame(g)'
    BY <1>1, <2>1
  <2>. QED  BY <2>1, <2>2
<1>. QED  BY <1>3 DEF ToHostSound

\* The frame f, appended to those for the host, answers an OPEN, or is of a stream
\* that has been answered.
Answers(f) ==
  /\ \A l \in LocalIds : f.arg1 = l /\ dstat'[l] # "refused" => Is(f, "OKAY", l) \/ Accepted(l)
  /\ \A l \in LocalIds : Accepted(l)' => Is(f, "OKAY", l) \/ Accepted(l)

\* The device's answer to an OPEN is the first frame it sends on the stream
\* (adbd, as Stream::open relies on it).
LEMMA DeviceKeepsAnswer ==
  ASSUME AnswerFirst, ToDeviceSound, FateTrue, toDevice \in Seq(Frames), toHost \in Seq(Frames),
         UNCHANGED fate, link = "up", \A l \in LocalIds : DeviceStepOn(l),
         \/ UNCHANGED toHost /\ \A l \in LocalIds : Accepted(l)' => Accepted(l)
         \/ \E f \in Frames : toHost' = Append(toHost, f) /\ Answers(f)
  PROVE  AnswerFirst'
<1>. SUFFICES ASSUME NEW l \in LocalIds, fate[l] = "opening", dstat'[l] # "refused"
              PROVE  /\ \A i \in 1 .. Len(toHost') : toHost'[i].arg1 = l => Answered(l, i)'
                     /\ Accepted(l)' => Answered(l, Len(toHost))'
  BY DEF AnswerFirst
<1>1. /\ \A i \in 1 .. Len(toHost) : toHost[i].arg1 = l => Answered(l, i)
      /\ Accepted(l) => Answered(l, Len(toHost))
  <2>1. dstat[l] # "refused"
    BY DeviceOnward
  <2>. QED  BY <2>1 DEF AnswerFirst
<1>2. CASE UNCHANGED toHost /\ (Accepted(l)' => Accepted(l))
  BY <1>1, <1>2 DEF Answered
<1>3. ASSUME NEW f \in Frames, toHost' = Append(toHost, f), Answers(f)
      PROVE  /\ \A i \in 1 .. Len(toHost') : toHost'[i].arg1 = l => Answered(l, i)'
             /\ Accepted(l)' => Answered(l, Len(toHost))'
  <2>1. /\ Len(toHost) \in Nat /\ Len(toHost') = Len(toHost) + 1 /\ toHost'[Len(toHost) + 1] = f
        /\ \A i \in 1 .. Len(toHost) : toHost'[i] = toHost[i]
        /\ \A i \in 1 .. Len(toHost') : i \in 1 .. Len(toHost) \/ i = Len(toHost) + 1
    BY <1>3, AppendFacts
  <2>0. PICK N \in Nat : N = Len(toHost)
    BY <2>1
  <2>2. \A n \in 0 .. Len(toHost) : Answered(l, n) => Answered(l, n)' /\ Answered(l, n + 1)'
    <3>. SUFFICES ASSUME NEW n \in 0 .. Len(toHost), Answered(l, n)
                  PROVE  Answered(l, n)' /\ Answered(l, n + 1)'
      OBVIOUS
    <3>1. PICK j \in 1 .. n : Is(toHost[j], "OKAY", l)
      BY DEF Answered
    <3>2. j \in 1 .. Len(toHost) /\ j \in 1 .. n + 1
      BY <2>1
    <3>3. toHost'[j] = toHost[j]
      BY <2>1, <3>2
    <3>. QED  BY <3>1, <3>2, <3>3 DEF Answered, Is
  <2>3. f.arg1 = l \/ Accepted(l)' => Is(f, "OKAY", l) \/ Accepted(l)
    BY <1>3 DEF Answers
  <2>4. Is(f, "OKAY", l) => Answered(l, N + 1)'
    <3>1. N + 1 \in 1 .. N + 1
      BY <2>1
    <3>. QED  BY <2>0, <2>1, <3>1 DEF Answered, Is
  <2>5. Accepted(l) => Answered(l, N + 1)'
    <3>1. N \in 0 .. Len(toHost) /\ N = Len(toHost)
      BY <2>0, <2>1
    <3>. QED  BY <1>1, <2>2, <3>1
  <2>6. ASSUME NEW i \in 1 .. Len(toHost'), toHost'[i].arg1 = l PROVE Answered(l, i)'
    <3>1. CASE i \in 1 .. Len(toHost)
      <4>1. Answered(l, i) /\ i \in 0 .. Len(toHost)
        BY <1>1, <2>1, <2>6, <3>1
      <4>. QED  BY <2>2, <4>1
    <3>2. CASE i = Len(toHost) + 1
      <4>1. i = N + 1 /\ f.arg1 = l
        BY <2>0, <2>1, <2>6, <3>2
      <4>. QED  BY <2>3, <2>4, <2>5, <4>1
    <3>. QED  BY <2>1, <3>1, <3>2
  <2>7. Accepted(l)' => Answered(l, Len(toHost))'
    <3>1. Accepted(l)' => Answered(l, N + 1)'
      BY <2>3, <2>4, <2>5
    <3>. QED  BY <2>0, <2>1, <3>1 DEF Answered
  <2>. QED  BY <2>6, <2>7
<1>. QED  BY <1>2, <1>3

\* What a device step must do, and no more, to keep the invariant of the frames.
LEMMA DeviceWire ==
  ASSUME TypeInv, OwnerInv, WireInv, UNCHANGED <<hostVars, histVars, link>>, link = "up",
         \A l \in LocalIds : DeviceStepOn(l),
         UNCHANGED toDevice \/ (toDevice # <<>> /\ toDevice' = Tail(toDevice)),
         \/ UNCHANGED toHost /\ \A l \in LocalIds : Accepted(l)' => Accepted(l)
         \/ \E f \in Frames : toHost' = Append(toHost, f) /\ HostFrame(f)' /\ Answers(f)
  PROVE  WireInv'
<1>1. /\ toDevice \in Seq(Frames) /\ toHost \in Seq(Frames)
      /\ UNCHANGED <<fate, sawClose, stream>>
  BY DEF TypeInv, TypeOK, LinkTypeOK, hostVars, histVars
<1>2. ToDeviceSound' /\ ToHostSound' /\ AnswerFirst'
  BY <1>1, DeviceTakes, DeviceReplies, DeviceKeepsAnswer DEF WireInv
<1>3. \A l \in LocalIds :
        /\ Accepted(l) => Accepted(l)' /\ rid'[l] = rid[l] /\ (dstat[l] # "open" => dstat'[l] # "open")
        /\ dstat[l] = "refused" => dstat'[l] = "refused"
        /\ dstat[l] \in {"closed", "gone"} => dstat'[l] \in {"closed", "gone"}
        /\ Accepted(l)' => rid'[l] # 0
        /\ fate[l] = "none" => dstat'[l] = dstat[l]
  BY <1>1, DeviceOnward DEF WireInv
<1>4. FateTrue'
  BY <1>1, <1>3 DEF WireInv, FateTrue
<1>5. RemoteKnown'
  BY <1>1, <1>3 DEF WireInv, FateTrue, RemoteKnown, OwnerInv, OwnsOpenStream, Live
<1>. QED  BY <1>2, <1>4, <1>5 DEF WireInv

\* Every step of the device keeps the invariant of the frames.
LEMMA WireDeviceStep ==
  ASSUME TypeInv, OwnerInv, WireInv, Quiet(DeviceStep)
  PROVE  WireInv'
<1>t. /\ toDevice \in Seq(Frames) /\ toHost \in Seq(Frames) /\ UNCHANGED <<hostVars, histVars>>
      /\ dstat \in [LocalIds -> {"none", "open", "refused", "closed", "gone"}]
      /\ rid \in [LocalIds -> Nat] /\ nextRid \in Nat \ {0} /\ sent \in [LocalIds -> Nat]
      /\ \A l \in LocalIds : l \in Nat
  BY DEF TypeInv, TypeOK, LinkTypeOK, DeviceTypeOK, Quiet, LocalIds
<1>h. ASSUME NEW cmd, DeviceHead(cmd)
      PROVE  /\ toDevice # <<>> /\ Head(toDevice) = toDevice[1] /\ Head(toDevice) \in Frames
             /\ Head(toDevice).cmd = cmd /\ Head(toDevice).arg0 \in LocalIds
             /\ link = "up" /\ DeviceFrame(Head(toDevice))
  <2>1. toDevice # <<>> /\ Head(toDevice).cmd = cmd /\ link = "up"
    BY <1>h DEF DeviceHead
  <2>. QED  BY <1>t, <2>1, TailFacts DEF WireInv, ToDeviceSound, DeviceFrame
<1>1. ASSUME DeviceAccept PROVE WireInv'
  <2>1. PICK g \in Frames : g = Head(toDevice)
    BY <1>1, <1>h DEF DeviceAccept
  <2>2. PICK l \in LocalIds : l = g.arg0
    BY <1>1, <1>h, <2>1 DEF DeviceAccept
  <2>3. /\ toDevice # <<>> /\ toDevice' = Tail(toDevice) /\ From(toDevice[1], "OPEN", l) /\ link = "up"
        /\ dstat' = [dstat EXCEPT ![l] = "open"] /\ rid' = [rid EXCEPT ![l] = nextRid]
        /\ toHost' = Append(toHost, make_empty_message("OKAY", nextRid, l)) /\ UNCHANGED link
    BY <1>1, <1>h, <2>1, <2>2 DEF DeviceAccept, From, Reply
  <2>4. \A m \in LocalIds : DeviceStepOn(m)
    BY <1>t, <2>3 DEF DeviceStepOn
  <2>5. PICK f \in Frames : f = make_empty_message("OKAY", nextRid, l)
    BY <1>t, EmptyMessageType
  <2>6. f.cmd = "OKAY" /\ f.arg0 = nextRid /\ f.arg1 = l
    BY <2>5 DEF make_empty_message, Frame
  <2>7. HostFrame(f)' /\ Answers(f)
    BY <1>t, <2>3, <2>6 DEF HostFrame, Answers, Is, Accepted
  <2>. QED  BY <1>t, <2>3, <2>4, <2>5, <2>7, DeviceWire
<1>2. ASSUME DeviceRefuse PROVE WireInv'
  <2>1. PICK g \in Frames : g = Head(toDevice)
    BY <1>2, <1>h DEF DeviceRefuse
  <2>2. PICK l \in LocalIds : l = g.arg0
    BY <1>2, <1>h, <2>1 DEF DeviceRefuse
  <2>3. /\ toDevice # <<>> /\ toDevice' = Tail(toDevice) /\ From(toDevice[1], "OPEN", l) /\ link = "up"
        /\ dstat' = [dstat EXCEPT ![l] = "refused"] /\ rid' = rid
        /\ toHost' = Append(toHost, make_empty_message("CLSE", 0, l)) /\ UNCHANGED link
    BY <1>2, <1>h, <2>1, <2>2 DEF DeviceRefuse, From, Reply
  <2>4. \A m \in LocalIds : DeviceStepOn(m)
    BY <1>t, <2>3 DEF DeviceStepOn
  <2>5. PICK f \in Frames : f = make_empty_message("CLSE", 0, l)
    BY <1>t, EmptyMessageType
  <2>6. f.cmd = "CLSE" /\ f.arg1 = l
    BY <2>5 DEF make_empty_message, Frame
  <2>7. HostFrame(f)' /\ Answers(f)
    BY <1>t, <2>3, <2>6 DEF HostFrame, Answers, Is, Accepted
  <2>. QED  BY <1>t, <2>3, <2>4, <2>5, <2>7, DeviceWire
<1>3. ASSUME DeviceGetsWrte \/ DeviceGetsOkay PROVE WireInv'
  <2>1. PICK g \in Frames : g = Head(toDevice)
    BY <1>3, <1>h DEF DeviceGetsWrte, DeviceGetsOkay
  <2>2. PICK l \in LocalIds : l = g.arg0
    BY <1>3, <1>h, <2>1 DEF DeviceGetsWrte, DeviceGetsOkay
  <2>3. /\ toDevice # <<>> /\ toDevice' = Tail(toDevice) /\ UNCHANGED <<dstat, rid, link>> /\ link = "up"
        /\ \/ UNCHANGED toHost
           \/ Addressed(g) /\ toHost' = Append(toHost, make_empty_message("OKAY", rid[l], l))
    BY <1>3, <1>h, <2>1, <2>2 DEF DeviceGetsWrte, DeviceGetsOkay, Reply
  <2>4. \A m \in LocalIds : DeviceStepOn(m) /\ (Accepted(m)' => Accepted(m))
    BY <2>3 DEF DeviceStepOn, Accepted
  <2>5. PICK f \in Frames : f = make_empty_message("OKAY", rid[l], l)
    BY <1>t, EmptyMessageType
  <2>6. f.cmd = "OKAY" /\ f.arg0 = rid[l] /\ f.arg1 = l
    BY <2>5 DEF make_empty_message, Frame
  <2>7. Addressed(g) => HostFrame(f)' /\ Answers(f)
    BY <2>2, <2>3, <2>6 DEF HostFrame, Answers, Accepted, Addressed
  <2>. QED  BY <1>t, <2>3, <2>4, <2>5, <2>7, DeviceWire
<1>4. ASSUME NEW l \in LocalIds, dstat[l] \in {"open", "closed"}, dstat'[l] \in {"closed", "gone"},
             \A m \in LocalIds \ {l} : dstat'[m] = dstat[m],
             link = "up", UNCHANGED <<rid, link>>,
             UNCHANGED toDevice \/ (toDevice # <<>> /\ toDevice' = Tail(toDevice)),
             UNCHANGED toHost \/ toHost' = Append(toHost, make_empty_message("CLSE", rid[l], l))
      PROVE  WireInv'
  <2>1. \A m \in LocalIds : DeviceStepOn(m) /\ (Accepted(m)' => Accepted(m))
    BY <1>4 DEF DeviceStepOn, Accepted
  <2>2. PICK f \in Frames : f = make_empty_message("CLSE", rid[l], l)
    BY <1>t, EmptyMessageType
  <2>3. f.cmd = "CLSE" /\ f.arg1 = l
    BY <2>2 DEF make_empty_message, Frame
  <2>4. HostFrame(f)' /\ Answers(f)
    BY <1>4, <2>1, <2>3 DEF HostFrame, Answers, Accepted
  <2>. QED  BY <1>t, <1>4, <2>1, <2>2, <2>4, DeviceWire
<1>5. ASSUME DeviceGetsClse PROVE WireInv'
  <2>1. PICK g \in Frames : g = Head(toDevice)
    BY <1>5, <1>h DEF DeviceGetsClse
  <2>2. PICK l \in LocalIds : l = g.arg0
    BY <1>5, <1>h, <2>1 DEF DeviceGetsClse
  <2>3. /\ toDevice # <<>> /\ toDevice' = Tail(toDevice) /\ UNCHANGED <<rid, link>> /\ link = "up"
        /\ \/ UNCHANGED <<dstat, toHost>>
           \/ /\ Addressed(g) /\ dstat' = [dstat EXCEPT ![l] = "closed"]
              /\ UNCHANGED toHost \/ toHost' = Append(toHost, make_empty_message("CLSE", rid[l], l))
    BY <1>5, <1>h, <2>1, <2>2 DEF DeviceGetsClse, Reply
  <2>4. CASE UNCHANGED <<dstat, toHost>>
    <3>1. \A m \in LocalIds : DeviceStepOn(m) /\ (Accepted(m)' => Accepted(m))
      BY <2>3, <2>4 DEF DeviceStepOn, Accepted
    <3>. QED  BY <1>t, <2>3, <2>4, <3>1, DeviceWire
  <2>5. CASE /\ Addressed(g) /\ dstat' = [dstat EXCEPT ![l] = "closed"]
             /\ UNCHANGED toHost \/ toHost' = Append(toHost, make_empty_message("CLSE", rid[l], l))
    <3>1. /\ dstat[l] = "open" /\ dstat'[l] = "closed"
          /\ \A m \in LocalIds \ {l} : dstat'[m] = dstat[m]
      BY <1>t, <2>2, <2>5 DEF Addressed
    <3>. QED  BY <1>4, <2>3, <2>5, <3>1
  <2>. QED  BY <2>3, <2>4, <2>5
<1>6. ASSUME NEW l \in LocalIds, DeviceClose(l) \/ DeviceClosesAgain(l) PROVE WireInv'
  <2>1. /\ dstat[l] \in {"open", "closed"} /\ dstat'[l] \in {"closed", "gone"}
        /\ \A m \in LocalIds \ {l} : dstat'[m] = dstat[m]
        /\ link = "up" /\ UNCHANGED <<rid, link>> /\ UNCHANGED toDevice
        /\ toHost' = Append(toHost, make_empty_message("CLSE", rid[l], l))
    BY <1>t, <1>6 DEF DeviceClose, DeviceClosesAgain, Reply
  <2>. QED  BY <1>4, <2>1
<1>7. ASSUME NEW l \in LocalIds, NEW n \in 1 .. MaxChunk, DeviceWrite(l, n) PROVE WireInv'
  <2>1. PICK f \in Frames : f = Frame("WRTE", rid[l], l, sent[l] + 1, n)
    <3>1. n \in Nat /\ l \in Nat /\ rid[l] \in Nat /\ sent[l] + 1 \in Nat
      BY <1>t, DeviceAssumption
    <3>2. Frame("WRTE", rid[l], l, sent[l] + 1, n) \in Frames
      BY <3>1 DEF Frame, Frames
    <3>. QED  BY <3>2
  <2>2. f.cmd = "WRTE" /\ f.arg1 = l
    BY <2>1 DEF Frame
  <2>3. /\ link = "up" /\ UNCHANGED <<link, toDevice, dstat, rid>> /\ dstat[l] = "open"
        /\ toHost' = Append(toHost, f)
    BY <1>7, <2>1 DEF DeviceWrite, Reply
  <2>4. \A m \in LocalIds : DeviceStepOn(m)
    BY <2>3 DEF DeviceStepOn
  <2>5. HostFrame(f)' /\ Answers(f)
    BY <2>2, <2>3 DEF HostFrame, Answers, Accepted
  <2>. QED  BY <1>t, <2>3, <2>4, <2>5, DeviceWire
<1>8. ASSUME NEW l \in LocalIds, DeviceStray(l) PROVE WireInv'
  <2>1. PICK f \in Frames : f = make_empty_message("SYNC", 0, l)
    BY <1>t, EmptyMessageType
  <2>2. f.cmd = "SYNC" /\ f.arg1 = l
    BY <2>1 DEF make_empty_message, Frame
  <2>3. /\ link = "up" /\ UNCHANGED <<link, toDevice, dstat, rid>> /\ dstat[l] = "open"
        /\ toHost' = Append(toHost, f)
    BY <1>8, <2>1 DEF DeviceStray, Reply, devVars
  <2>4. \A m \in LocalIds : DeviceStepOn(m)
    BY <2>3 DEF DeviceStepOn
  <2>5. HostFrame(f)' /\ Answers(f)
    BY <2>2, <2>3 DEF HostFrame, Answers, Accepted
  <2>. QED  BY <1>t, <2>3, <2>4, <2>5, DeviceWire
<1>. QED
  BY <1>1, <1>2, <1>3, <1>5, <1>6, <1>7, <1>8 DEF Quiet, DeviceStep, DeviceHandles

\* A link that fails or is closed leaves a beginning of the frames for the host, and
\* none for the device (LinkDown, Connection::close).
LEMMA WireLinkStep ==
  ASSUME TypeInv, WireInv, UNCHANGED <<hostVars, histVars, devVars>>, link' # "up", toDevice' = <<>>,
         NEW k \in 0 .. Len(toHost), toHost' = SubSeq(toHost, 1, k)
  PROVE  WireInv'
<1>1. /\ Len(toHost) \in Nat /\ Len(toHost') = k /\ toHost \in Seq(Frames)
      /\ \A i \in 1 .. k : i \in 1 .. Len(toHost) /\ toHost'[i] = toHost[i]
      /\ UNCHANGED <<dstat, rid, fate, sawClose, stream>>
  BY PrefixFacts DEF TypeInv, TypeOK, LinkTypeOK, devVars, histVars, hostVars
<1>2. ToDeviceSound' /\ Len(toDevice') = 0
  BY EmptySeq DEF ToDeviceSound
<1>3. ToHostSound'
  <2>1. \A i \in 1 .. Len(toHost) : toHost[i] \in Frames
    BY <1>1, ElementOfSeq
  <2>2. ASSUME NEW i \in 1 .. Len(toHost') PROVE HostFrame(toHost[i])'
    <3>1. PICK f \in Frames : f = toHost'[i] /\ HostFrame(f)
      BY <1>1, <2>1 DEF WireInv, ToHostSound
    <3>2. HostFrame(f)'
      BY <1>1, <3>1 DEF HostFrame, Accepted
    <3>. QED  BY <3>1, <3>2
  <2>. QED  BY <2>2 DEF ToHostSound
<1>4. AnswerFirst'
  <2>. SUFFICES ASSUME NEW l \in LocalIds, fate[l] = "opening", dstat[l] # "refused",
                       NEW i \in 1 .. k, toHost[i].arg1 = l
                PROVE  Answered(l, i)'
    BY <1>1 DEF AnswerFirst
  <2>1. PICK j \in 1 .. i : Is(toHost[j], "OKAY", l)
    BY <1>1 DEF WireInv, AnswerFirst, Answered
  <2>2. toHost'[j] = toHost[j]
    BY <1>1
  <2>. QED  BY <2>1, <2>2 DEF Answered, Is
<1>5. FateTrue' /\ RemoteKnown'
  BY <1>1 DEF WireInv, FateTrue, RemoteKnown, Accepted, Live
<1>. QED  BY <1>2, <1>3, <1>4, <1>5 DEF WireInv

\* Connection::send of an empty message appends it, or fails and changes nothing.
LEMMA Sends ==
  ASSUME NEW cmd \in {"OPEN", "OKAY", "WRTE", "CLSE", "SYNC"}, NEW a \in Nat, NEW r \in Nat,
         Send(make_empty_message(cmd, a, r))
  PROVE  \/ link # "up" /\ UNCHANGED toDevice
         \/ link = "up" /\ \E f \in Frames : /\ toDevice' = Append(toDevice, f)
                                             /\ f.cmd = cmd /\ f.arg0 = a /\ f.arg1 = r
<1>1. PICK f \in Frames : f = make_empty_message(cmd, a, r)
  BY EmptyMessageType
<1>2. f.cmd = cmd /\ f.arg0 = a /\ f.arg1 = r
  BY <1>1 DEF make_empty_message, Frame
<1>. QED  BY <1>1, <1>2 DEF Send

\* Every object that owns a stream after the step owned it before, perhaps elsewhere.
SameObjects ==
  \A g \in Handles : Live(g)' =>
    \E o \in Handles : /\ Live(o)
                       /\ stream'[g].local = stream[o].local /\ stream'[g].remote = stream[o].remote

\* Destroying, moving and reading gives no object a stream that none owned (the
\* moves of Stream, ~Stream, read, read_all, receive_more).
LEMMA ObjectsStay ==
  ASSUME TypeInv,
         \/ UNCHANGED stream
         \/ \E h \in Handles : stream' = [stream EXCEPT ![h] = NoStream]
         \/ \E h \in Handles : \E buf : stream' = [stream EXCEPT ![h].buf = buf]
         \/ \E h \in Handles : stream' = [stream EXCEPT ![h].closed = TRUE]
         \/ \E a, b \in Handles : a # b /\ TakeOver(a, b)
  PROVE  SameObjects
<1>t. stream \in [Handles -> Streams]
  BY DEF TypeInv, TypeOK
<1>1. ASSUME NEW h \in Handles, stream' = [stream EXCEPT ![h] = NoStream] PROVE SameObjects
  BY <1>t, <1>1 DEF SameObjects, Live, NoStream
<1>2. ASSUME NEW h \in Handles, NEW buf, stream' = [stream EXCEPT ![h].buf = buf] PROVE SameObjects
  <2>1. \A g \in Handles : /\ stream'[g].local = stream[g].local /\ stream'[g].remote = stream[g].remote
                           /\ stream'[g].closed = stream[g].closed
    BY <1>t, <1>2 DEF Streams
  <2>. QED  BY <2>1 DEF SameObjects, Live
<1>3. ASSUME NEW h \in Handles, stream' = [stream EXCEPT ![h].closed = TRUE] PROVE SameObjects
  <2>1. \A g \in Handles : /\ stream'[g].local = stream[g].local /\ stream'[g].remote = stream[g].remote
                           /\ ~stream'[g].closed => ~stream[g].closed
    BY <1>t, <1>3 DEF Streams
  <2>. QED  BY <2>1 DEF SameObjects, Live
<1>4. ASSUME NEW a \in Handles, NEW b \in Handles, a # b, TakeOver(a, b) PROVE SameObjects
  <2>1. /\ ~Live(a)' /\ stream'[b] = stream[a] /\ (Live(b)' <=> Live(a))
        /\ \A g \in Handles \ {a, b} : stream'[g] = stream[g] /\ (Live(g)' <=> Live(g))
    BY <1>t, <1>4, OwnerTakeOver
  <2>. QED  BY <2>1 DEF SameObjects
<1>5. UNCHANGED stream => SameObjects
  BY DEF SameObjects, Live
<1>. QED  BY <1>1, <1>2, <1>3, <1>4, <1>5

\* The CLSE of an object that owns a stream (Stream::close_now).
LEMMA CloseNowSends ==
  ASSUME TypeInv, OwnerInv, NEW h \in Handles, close_now(h)
  PROVE  \/ UNCHANGED toDevice /\ (Live(h) => link # "up")
         \/ /\ Live(h) /\ stream[h].local \in LocalIds
            /\ \E f \in Frames : /\ toDevice' = Append(toDevice, f) /\ f.cmd = "CLSE"
                                 /\ f.arg0 = stream[h].local /\ f.arg1 = stream[h].remote
<1>1. CASE ~Live(h)
  BY <1>1 DEF close_now, Live
<1>2. CASE Live(h)
  <2>1. stream[h].local \in Nat /\ stream[h].remote \in Nat /\ stream[h].local \in LocalIds
    BY <1>2 DEF TypeInv, TypeOK, Streams, LocalIds, OwnerInv, OwnsOpenStream
  <2>2. Send(make_empty_message("CLSE", stream[h].local, stream[h].remote))
    BY <1>2 DEF close_now, Live
  <2>. QED  BY <1>2, <2>1, <2>2, Sends
<1>. QED  BY <1>1, <1>2

\* The frame a call takes next is sound.
LEMMA HostFirstFrame ==
  ASSUME TypeInv, WireInv, FrameReady
  PROVE  /\ toHost # <<>> /\ Head(toHost) = toHost[1] /\ toHost[1] \in Frames /\ HostFrame(toHost[1])
         /\ 1 \in 1 .. Len(toHost)
<1>1. toHost \in Seq(Frames) /\ toHost # <<>>
  BY DEF TypeInv, TypeOK, LinkTypeOK, FrameReady
<1>. QED  BY <1>1, TailFacts DEF WireInv, ToHostSound

\* Every step of the host keeps the invariant of the frames.
LEMMA WireHostStep ==
  ASSUME TypeInv, OwnerInv, WireInv, HostStep
  PROVE  WireInv'
<1>t. /\ stream \in [Handles -> Streams] /\ \A l \in LocalIds : l \in Nat
      /\ fate \in [LocalIds -> {"none", "opening", "open", "refused", "failed"}]
      /\ sawClose \in [LocalIds -> BOOLEAN]
  BY DEF TypeInv, TypeOK, LocalIds
<1>o. \A l \in LocalIds : fate[l] = "opening" => call.op = "open" /\ call.id = l
  BY DEF OwnerInv, ClosingHistory
<1>r. SameObjects /\ UNCHANGED rid => RemoteKnown'
  BY DEF SameObjects, WireInv, RemoteKnown
<1>1. ASSUME NEW h \in Handles,
             \/ Destroy(h)
             \/ \E a \in Handles : MoveAssign(a, h)
      PROVE  WireInv'
  <2>1. /\ UNCHANGED <<link, devVars, toHost, fate, sawClose>> /\ close_now(h)
        /\ \/ stream' = [stream EXCEPT ![h] = NoStream]
           \/ \E a \in Handles : a # h /\ TakeOver(a, h)
    BY <1>1 DEF Destroy, MoveAssign
  <2>2. RemoteKnown' /\ FateSteps
    BY <1>r, <2>1, ObjectsStay DEF devVars, FateSteps, FateStep
  <2>3. \/ UNCHANGED toDevice
        \/ \E f \in Frames : toDevice' = Append(toDevice, f) /\ DeviceFrame(f)' /\ f.cmd = "CLSE"
    BY <2>1, CloseNowSends DEF DeviceFrame
  <2>4. \/ UNCHANGED toDevice
        \/ \E f \in Frames : /\ toDevice' = Append(toDevice, f) /\ DeviceFrame(f)'
                             /\ f.cmd = "OPEN" => fate[f.arg0] = "none"
    BY <2>3
  <2>. QED  BY <2>1, <2>2, <2>4, HostWire
<1>2. ASSUME \/ \E a, b \in Handles : MoveConstruct(a, b)
             \/ \E h \in Handles, n \in 1 .. MaxRead : ReadCall(h, n)
             \/ \E h \in Handles : ReadAllCall(h)
             \/ ReadReceiveFails
      PROVE  WireInv'
  <2>1. UNCHANGED <<link, devVars, toDevice, toHost, fate, sawClose>>
    BY <1>2 DEF MoveConstruct, ReadCall, ReadAllCall, ReadReceiveFails, histVars
  <2>2. \/ UNCHANGED stream
        \/ \E h \in Handles : \E buf : stream' = [stream EXCEPT ![h].buf = buf]
        \/ \E a, b \in Handles : a # b /\ TakeOver(a, b)
    BY <1>2 DEF MoveConstruct, ReadCall, ReadAllCall, ReadReceiveFails
  <2>3. RemoteKnown' /\ FateSteps
    BY <1>r, <2>1, <2>2, ObjectsStay DEF devVars, FateSteps, FateStep
  <2>. QED  BY <2>1, <2>3, HostWire
<1>3. ASSUME NEW h \in Handles, OpenCall(h) PROVE WireInv'
  <2>. DEFINE w == IF DelayedAck THEN Window ELSE 0
  <2>1. PICK l \in LocalIds : l = next_local_id
    BY <1>3 DEF OpenCall
  <2>2. /\ UNCHANGED <<link, devVars, toHost, stream, sawClose>> /\ Send(make_empty_message("OPEN", l, w))
        /\ link = "up" => fate' = [fate EXCEPT ![l] = "opening"]
        /\ link # "up" => fate' = [fate EXCEPT ![l] = "failed"]
    BY <1>3, <2>1 DEF OpenCall
  <2>3. fate[l] = "none" /\ dstat[l] = "none"
    BY <1>t, <2>1 DEF OwnerInv, ClosingHistory, WireInv, FateTrue
  <2>4. /\ link = "up" => fate'[l] = "opening"
        /\ FateSteps
    BY <1>t, <2>2, <2>3 DEF FateSteps, FateStep
  <2>5. \/ link # "up" /\ UNCHANGED toDevice
        \/ link = "up" /\ \E f \in Frames : toDevice' = Append(toDevice, f) /\ f.cmd = "OPEN" /\ f.arg0 = l
    <3>1. w \in Nat
      BY HostAssumption
    <3>. QED  BY <1>t, <2>2, <3>1, Sends
  <2>6. \/ UNCHANGED toDevice
        \/ \E f \in Frames : /\ toDevice' = Append(toDevice, f) /\ DeviceFrame(f)'
                             /\ f.cmd = "OPEN" => fate[f.arg0] = "none"
    BY <2>2, <2>3, <2>4, <2>5 DEF DeviceFrame, devVars
  <2>7. RemoteKnown'
    BY <1>r, <2>2, ObjectsStay DEF devVars
  <2>. QED  BY <2>2, <2>4, <2>6, <2>7, HostWire
<1>4. ASSUME OpenSkip \/ ReceiveSkip \/ ReceiveUnexpected PROVE WireInv'
  <2>1. /\ FrameReady /\ toHost' = Tail(toHost)
        /\ UNCHANGED <<link, devVars, toDevice, stream, fate, sawClose>>
        /\ call.op = "open" => Head(toHost).arg1 # call.id
    BY <1>4 DEF OpenSkip, ReceiveSkip, ReceiveUnexpected, Reading, OpenSkips, hostVars, histVars
  <2>2. toHost # <<>> /\ \A l \in LocalIds : fate'[l] = "opening" => toHost[1].arg1 # l
    BY <1>o, <2>1, HostFirstFrame
  <2>3. RemoteKnown' /\ FateSteps
    BY <1>r, <2>1, ObjectsStay DEF devVars, FateSteps, FateStep
  <2>. QED  BY <2>1, <2>2, <2>3, HostWire
<1>5. ASSUME OpenAccepted PROVE WireInv'
  <2>1. PICK l \in LocalIds, h \in Handles : l = call.id /\ h = call.h /\ fate[l] = "opening"
    BY <1>5 DEF OpenAccepted, OwnerInv, CallOwns
  <2>2. /\ FrameReady /\ toHost' = Tail(toHost) /\ UNCHANGED <<link, devVars, toDevice, sawClose>>
        /\ Head(toHost).arg1 = l /\ Head(toHost).cmd = "OKAY"
        /\ stream' = [stream EXCEPT ![h] = NewStream(l, Head(toHost).arg0)]
        /\ fate' = [fate EXCEPT ![l] = "open"]
    BY <1>5, <2>1 DEF OpenAccepted, OpenSkips
  <2>3. PICK f \in Frames : f = toHost[1] /\ f = Head(toHost) /\ HostFrame(f)
    BY <2>2, HostFirstFrame
  <2>4. Accepted(l) /\ f.arg0 = rid[l]
    BY <2>2, <2>3 DEF HostFrame
  <2>5. FateSteps /\ \A m \in LocalIds : fate'[m] # "opening"
    BY <1>t, <1>o, <2>1, <2>2, <2>4 DEF FateSteps, FateStep
  <2>6. RemoteKnown'
    BY <1>t, <2>2, <2>3, <2>4 DEF RemoteKnown, WireInv, Live, NewStream, devVars
  <2>. QED  BY <2>2, <2>5, <2>6, HostFirstFrame, HostWire
<1>6. ASSUME NEW l \in LocalIds, fate[l] = "opening", Send(make_empty_message("CLSE", l, 0)),
             \/ UNCHANGED toHost /\ fate' = [fate EXCEPT ![l] = "failed"]
             \/ /\ toHost # <<>> /\ toHost' = Tail(toHost)
                /\ fate' = [fate EXCEPT ![l] = "refused"] /\ dstat[l] = "refused",
             UNCHANGED <<link, devVars, stream, sawClose>>
      PROVE  WireInv'
  <2>1. FateSteps /\ \A m \in LocalIds : fate'[m] # "opening"
    BY <1>t, <1>o, <1>6 DEF FateSteps, FateStep
  <2>2. \/ UNCHANGED toDevice
        \/ \E f \in Frames : toDevice' = Append(toDevice, f) /\ f.cmd = "CLSE" /\ f.arg0 = l
    BY <1>t, <1>6, Sends
  <2>3. \/ UNCHANGED toDevice
        \/ \E f \in Frames : /\ toDevice' = Append(toDevice, f) /\ DeviceFrame(f)'
                             /\ f.cmd = "OPEN" => fate[f.arg0] = "none"
    BY <2>2 DEF DeviceFrame
  <2>4. RemoteKnown'
    BY <1>r, <1>6, ObjectsStay DEF devVars
  <2>. QED  BY <1>6, <2>1, <2>3, <2>4, HostWire
<1>7. ASSUME OpenRefused PROVE WireInv'
  <2>1. PICK l \in LocalIds : l = call.id /\ fate[l] = "opening"
    BY <1>7 DEF OpenRefused, OwnerInv, CallOwns
  <2>2. /\ FrameReady /\ toHost' = Tail(toHost) /\ UNCHANGED <<link, devVars, stream, sawClose>>
        /\ Head(toHost).arg1 = l /\ Head(toHost).cmd # "OKAY"
        /\ fate' = [fate EXCEPT ![l] = "refused"] /\ Send(make_empty_message("CLSE", l, 0))
    BY <1>7, <2>1 DEF OpenRefused, OpenSkips, AbandonOpen
  <2>3. toHost # <<>> /\ Head(toHost) = toHost[1] /\ 1 \in 1 .. Len(toHost)
    BY <2>2, HostFirstFrame
  <2>4. ~Answered(l, 1)
    BY <2>2, <2>3 DEF Answered, Is
  <2>5. dstat[l] = "refused"
    BY <2>1, <2>2, <2>3, <2>4 DEF WireInv, AnswerFirst
  <2>. QED  BY <1>6, <2>1, <2>2, <2>3, <2>5
<1>8. ASSUME OpenReceiveFails PROVE WireInv'
  <2>1. PICK l \in LocalIds : l = call.id /\ fate[l] = "opening"
    BY <1>8 DEF OpenReceiveFails, OwnerInv, CallOwns
  <2>2. /\ UNCHANGED <<link, devVars, stream, sawClose, toHost>>
        /\ fate' = [fate EXCEPT ![l] = "failed"] /\ Send(make_empty_message("CLSE", l, 0))
    BY <1>8, <2>1 DEF OpenReceiveFails, AbandonOpen
  <2>. QED  BY <1>6, <2>1, <2>2
<1>9. ASSUME NEW h \in Handles, NEW cmd \in {"WRTE", "OKAY"}, Live(h),
             Send(make_empty_message(cmd, stream[h].local, stream[h].remote)),
             UNCHANGED toHost \/ (toHost # <<>> /\ toHost' = Tail(toHost)),
             call.op # "open", SameObjects, UNCHANGED <<link, devVars, fate, sawClose>>
      PROVE  WireInv'
  <2>1. PICK l \in LocalIds : l = stream[h].local /\ fate[l] = "open" /\ stream[h].remote = rid[l]
    BY <1>9 DEF OwnerInv, OwnsOpenStream, WireInv, RemoteKnown
  <2>2. RemoteKnown' /\ FateSteps /\ \A m \in LocalIds : fate'[m] # "opening"
    BY <1>9, <1>r, <1>o DEF devVars, FateSteps, FateStep
  <2>3. \/ UNCHANGED toDevice
        \/ \E f \in Frames : toDevice' = Append(toDevice, f) /\ f.cmd = cmd /\ f.arg0 = l /\ f.arg1 = rid[l]
    <3>1. l \in Nat /\ rid[l] \in Nat
      BY <1>t DEF TypeInv, TypeOK, DeviceTypeOK
    <3>. QED  BY <1>9, <2>1, <3>1, Sends
  <2>4. \/ UNCHANGED toDevice
        \/ \E f \in Frames : /\ toDevice' = Append(toDevice, f) /\ DeviceFrame(f)'
                             /\ f.cmd = "OPEN" => fate[f.arg0] = "none"
    BY <1>9, <2>1, <2>3 DEF DeviceFrame, devVars
  <2>. QED  BY <1>9, <2>2, <2>4, HostWire
<1>10. ASSUME NEW h \in Handles, Write(h) PROVE WireInv'
  <2>1. /\ Live(h) /\ Send(make_empty_message("WRTE", stream[h].local, stream[h].remote))
        /\ call.op # "open" /\ UNCHANGED <<link, devVars, fate, sawClose, toHost, stream>>
    BY <1>10 DEF Write, Usable, Live, hostVars, Idle
  <2>. QED  BY <1>9, <2>1, ObjectsStay
<1>11. ASSUME ReceiveWrte PROVE WireInv'
  <2>1. PICK h \in Handles : h = call.h /\ Live(h)
    BY <1>11 DEF ReceiveWrte, OwnerInv, CallOwns
  <2>2. /\ Send(make_empty_message("OKAY", stream[h].local, stream[h].remote)) /\ FrameReady
        /\ call.op # "open" /\ UNCHANGED <<link, devVars, fate, sawClose>> /\ toHost' = Tail(toHost)
        /\ \E buf : stream' = [stream EXCEPT ![h].buf = buf]
    BY <1>11, <2>1 DEF ReceiveWrte, Acknowledge, Reading
  <2>3. SameObjects
    BY <2>2, ObjectsStay
  <2>. QED  BY <1>9, <2>1, <2>2, <2>3, HostFirstFrame
<1>12. ASSUME ReceiveClse PROVE WireInv'
  <2>1. PICK h \in Handles, l \in LocalIds :
          h = call.h /\ l = call.id /\ Live(h) /\ stream[h].local = l /\ fate[l] = "open"
    BY <1>12 DEF ReceiveClse, OwnerInv, CallOwns, OwnsOpenStream
  <2>2. /\ FrameReady /\ toHost' = Tail(toHost) /\ UNCHANGED <<link, devVars, toDevice, fate>>
        /\ Head(toHost).arg1 = l /\ Head(toHost).cmd = "CLSE" /\ call.op # "open"
        /\ stream' = [stream EXCEPT ![h].closed = TRUE]
        /\ sawClose' = [sawClose EXCEPT ![l] = TRUE]
    BY <1>12, <2>1 DEF ReceiveClse, ReadSkips, Reading
  <2>3. dstat[l] \in {"closed", "gone"}
    <3>1. dstat[l] # "open"
      BY <2>2, HostFirstFrame DEF HostFrame
    <3>. QED  BY <2>1, <3>1 DEF WireInv, FateTrue, Accepted
  <2>4. \A m \in LocalIds : sawClose'[m] => sawClose[m] \/ dstat[m] \in {"closed", "gone"}
    BY <1>t, <2>2, <2>3
  <2>5. RemoteKnown' /\ FateSteps /\ \A m \in LocalIds : fate'[m] # "opening"
    BY <1>r, <1>o, <2>2, ObjectsStay DEF devVars, FateSteps, FateStep
  <2>. QED  BY <2>2, <2>4, <2>5, HostFirstFrame, HostWire
<1>. QED
  BY <1>1, <1>2, <1>3, <1>4, <1>5, <1>7, <1>8, <1>10, <1>11, <1>12
     DEF HostStep, CallerStep, ReceiveStep, FailureStep

\* No frame is on its way initially.
LEMMA WireInit == Init => WireInv
<1>. SUFFICES ASSUME Init PROVE WireInv
  OBVIOUS
<1>1. /\ Len(toDevice) = 0 /\ Len(toHost) = 0 /\ \A h \in Handles : ~Live(h)
      /\ \A l \in LocalIds : fate[l] = "none" /\ dstat[l] = "none" /\ ~sawClose[l]
  BY EmptySeq DEF Init, DeviceInit, Live, NoStream
<1>2. ToDeviceSound /\ ToHostSound
  BY <1>1 DEF ToDeviceSound, ToHostSound
<1>3. FateTrue /\ AnswerFirst /\ RemoteKnown
  BY <1>1 DEF FateTrue, AnswerFirst, RemoteKnown, Accepted
<1>. QED  BY <1>2, <1>3 DEF WireInv

\* Every step keeps the invariant of the frames.
LEMMA WireStep ==
  ASSUME TypeInv, OwnerInv, WireInv, [Next]_vars
  PROVE  WireInv'
<1>1. ASSUME UNCHANGED vars PROVE WireInv'
  BY <1>1 DEF vars, hostVars, histVars, dataVars, devVars, WireInv, ToDeviceSound, ToHostSound, DeviceFrame,
              HostFrame, FateTrue, AnswerFirst, Answered, Accepted, RemoteKnown, Live
<1>2. ASSUME Quiet(LinkDown /\ UNCHANGED devVars) PROVE WireInv'
  BY <1>2, WireLinkStep DEF Quiet, LinkDown
<1>3. ASSUME Quiet(call = Idle /\ ConnectionClose /\ UNCHANGED devVars) PROVE WireInv'
  <2>1. toHost \in Seq(Frames)
    BY DEF TypeInv, TypeOK, LinkTypeOK
  <2>2. Len(toHost) \in Nat
    BY <2>1, LenProperties
  <2>3. PICK k \in 0 .. Len(toHost) : k = 0
    BY <2>2
  <2>4. Len(SubSeq(toHost, 1, k)) = 0 /\ SubSeq(toHost, 1, k) \in Seq(Frames)
    BY <2>1, <2>3, PrefixFacts
  <2>5. SubSeq(toHost, 1, k) = <<>>
    BY <2>4, EmptySeq
  <2>. QED  BY <1>3, <2>3, <2>5, WireLinkStep DEF Quiet, ConnectionClose
<1>. QED
  BY <1>1, <1>2, <1>3, WireHostStep, WireDeviceStep DEF Next

\* The frames on their way, the objects and what open reported agree with the device.
THEOREM WireInvariance == Spec => [](TypeInv /\ OwnerInv /\ WireInv)
<1>1. Init => TypeInv /\ OwnerInv /\ WireInv
  BY TypeInit, OwnerInit, WireInit
<1>2. TypeInv /\ OwnerInv /\ WireInv /\ [Next]_vars => (TypeInv /\ OwnerInv /\ WireInv)'
  BY TypeStep, OwnerStep, WireStep
<1>. QED  BY <1>1, <1>2, PTL DEF Spec

\* However the frames of several streams are interleaved, dropped and left over, a
\* WRTE or an OKAY names a stream the device accepted, under the device's own id
\* (Stream::open, write, receive_more).
THEOREM OnlyAddressed == Spec => []FramesAddressed
<1>1. WireInv => FramesAddressed
  BY DEF WireInv, ToDeviceSound, DeviceFrame, FramesAddressed
<1>. QED  BY <1>1, WireInvariance, PTL

\* open reports a refusal, and a call takes its stream for closed, only when the
\* device refused or closed that very stream, with every fault (Stream::open,
\* receive_more).
THEOREM VerdictsHold == Spec => []VerdictsTrue
<1>1. WireInv => VerdictsTrue
  BY DEF WireInv, FateTrue, VerdictsTrue
<1>. QED  BY <1>1, WireInvariance, PTL

-----------------------------------------------------------------------------
(* A stream that is open at the device has an owner at the host.            *)

\* A step of the host sends one frame at most, and an OKAY only for a WRTE it takes.
LEMMA HostAppends ==
  ASSUME TypeInv, OwnerInv, HostStep
  PROVE  \/ UNCHANGED toDevice
         \/ \E f \in Frames : toDevice' = Append(toDevice, f) /\ (f.cmd = "OKAY" => ReceiveWrte)
<1>t. /\ \A l \in {0} \cup LocalIds : l \in Nat
      /\ \A h \in Handles : stream[h].local \in Nat /\ stream[h].remote \in Nat
  BY DEF TypeInv, TypeOK, Streams, LocalIds
<1>1. ASSUME NEW h \in Handles, close_now(h)
      PROVE  UNCHANGED toDevice \/ \E f \in Frames : toDevice' = Append(toDevice, f) /\ f.cmd # "OKAY"
  <2>1. \/ UNCHANGED toDevice
        \/ \E f \in Frames : toDevice' = Append(toDevice, f) /\ f.cmd = "CLSE"
    BY <1>1, CloseNowSends
  <2>. QED  BY <2>1
<1>2. ASSUME NEW cmd \in {"OPEN", "WRTE", "CLSE"}, NEW a \in Nat, NEW r \in Nat,
             Send(make_empty_message(cmd, a, r))
      PROVE  UNCHANGED toDevice \/ \E f \in Frames : toDevice' = Append(toDevice, f) /\ f.cmd # "OKAY"
  <2>1. \/ UNCHANGED toDevice
        \/ \E f \in Frames : toDevice' = Append(toDevice, f) /\ f.cmd = cmd
    BY <1>2, Sends
  <2>. QED  BY <2>1
<1>3. ASSUME NEW h \in Handles, Destroy(h) \/ \E a \in Handles : MoveAssign(a, h)
      PROVE  UNCHANGED toDevice \/ \E f \in Frames : toDevice' = Append(toDevice, f) /\ f.cmd # "OKAY"
  BY <1>1, <1>3 DEF Destroy, MoveAssign
<1>4. ASSUME NEW h \in Handles, OpenCall(h)
      PROVE  UNCHANGED toDevice \/ \E f \in Frames : toDevice' = Append(toDevice, f) /\ f.cmd # "OKAY"
  <2>1. PICK w \in Nat : Send(make_empty_message("OPEN", next_local_id, w)) /\ next_local_id \in LocalIds
    <3>1. (IF DelayedAck THEN Window ELSE 0) \in Nat
      BY HostAssumption
    <3>. QED  BY <1>4, <3>1 DEF OpenCall
  <2>. QED  BY <1>2, <1>t, <2>1
<1>5. ASSUME OpenRefused \/ OpenReceiveFails
      PROVE  UNCHANGED toDevice \/ \E f \in Frames : toDevice' = Append(toDevice, f) /\ f.cmd # "OKAY"
  <2>1. Send(make_empty_message("CLSE", call.id, 0)) /\ call.id \in {0} \cup LocalIds
    BY <1>5 DEF OpenRefused, OpenReceiveFails, AbandonOpen, TypeInv, TypeOK, Calls
  <2>. QED  BY <1>2, <1>t, <2>1
<1>6. ASSUME NEW h \in Handles, Write(h)
      PROVE  UNCHANGED toDevice \/ \E f \in Frames : toDevice' = Append(toDevice, f) /\ f.cmd # "OKAY"
  BY <1>2, <1>t, <1>6 DEF Write
<1>7. ASSUME ReceiveWrte
      PROVE  UNCHANGED toDevice \/ \E f \in Frames : toDevice' = Append(toDevice, f)
  <2>1. PICK h \in Handles : h = call.h
    BY <1>7 DEF ReceiveWrte, OwnerInv, CallOwns
  <2>2. Send(make_empty_message("OKAY", stream[h].local, stream[h].remote))
    BY <1>7, <2>1 DEF ReceiveWrte, Acknowledge
  <2>. QED  BY <1>t, <2>2, Sends
<1>8. ASSUME \/ \E a, b \in Handles : MoveConstruct(a, b)
             \/ \E h \in Handles, n \in 1 .. MaxRead : ReadCall(h, n)
             \/ \E h \in Handles : ReadAllCall(h)
             \/ OpenSkip \/ OpenAccepted \/ ReceiveSkip \/ ReceiveClse \/ ReceiveUnexpected \/ ReadReceiveFails
      PROVE  UNCHANGED toDevice
  BY <1>8 DEF MoveConstruct, ReadCall, ReadAllCall, OpenSkip, OpenAccepted, ReceiveSkip, ReceiveClse,
              ReceiveUnexpected, ReadReceiveFails
<1>. QED
  BY <1>3, <1>4, <1>5, <1>6, <1>7, <1>8 DEF HostStep, CallerStep, ReceiveStep, FailureStep

\* A CLSE on its way stays there as long as only the host moves (Connection::send).
LEMMA CloseStays ==
  ASSUME toDevice \in Seq(Frames), UNCHANGED rid, NEW l,
         UNCHANGED toDevice \/ \E f \in Frames : toDevice' = Append(toDevice, f)
  PROVE  BeingClosed(l) => BeingClosed(l)'
<1>1. CASE UNCHANGED toDevice
  BY <1>1 DEF BeingClosed
<1>2. ASSUME NEW f \in Frames, toDevice' = Append(toDevice, f) PROVE BeingClosed(l) => BeingClosed(l)'
  <2>1. \A i \in 1 .. Len(toDevice) : i \in 1 .. Len(toDevice') /\ toDevice'[i] = toDevice[i]
    BY <1>2, AppendFacts
  <2>. QED  BY <2>1 DEF BeingClosed, From
<1>. QED  BY <1>1, <1>2

\* An object that owns a stream is destroyed, or assigned over, with a CLSE under the
\* id the device knows the stream by (Stream::close_now).
LEMMA CloseBegins ==
  ASSUME TypeInv, OwnerInv, WireInv, link = "up", UNCHANGED rid, NEW h \in Handles, close_now(h), Live(h),
         NEW l, l = stream[h].local
  PROVE  BeingClosed(l)'
<1>1. PICK f \in Frames : /\ toDevice' = Append(toDevice, f) /\ f.cmd = "CLSE"
                          /\ f.arg0 = l /\ f.arg1 = stream[h].remote
  BY CloseNowSends
<1>2. f.arg1 = rid[l]
  BY <1>1 DEF WireInv, RemoteKnown
<1>3. toDevice \in Seq(Frames)
  BY DEF TypeInv, TypeOK, LinkTypeOK
<1>4. /\ Len(toDevice) \in Nat /\ Len(toDevice') = Len(toDevice) + 1
      /\ toDevice'[Len(toDevice) + 1] = f
  BY <1>1, <1>3, AppendFacts
<1>5. Len(toDevice) + 1 \in 1 .. Len(toDevice')
  BY <1>4
<1>. QED  BY <1>1, <1>2, <1>4, <1>5 DEF BeingClosed, From

\* A step of the host leaves every stream with somebody to close it.
LEMMA OrphanHostStep ==
  ASSUME TypeInv, OwnerInv, WireInv, WireInv', OrphanInv, HostStep
  PROVE  OrphanInv'
<1>. SUFFICES ASSUME link = "up"
              PROVE  \A l \in LocalIds :
                       fate'[l] = "open" /\ dstat'[l] = "open" => Owned(l)' \/ BeingClosed(l)'
  <2>1. UNCHANGED link
    BY DEF HostStep, CallerStep, ReceiveStep, FailureStep, OpenCall, Write, ReadAllCall, Destroy, ReadCall,
           MoveConstruct, MoveAssign, OpenSkip, OpenAccepted, OpenRefused, ReceiveSkip, ReceiveWrte,
           ReceiveClse, ReceiveUnexpected, OpenReceiveFails, ReadReceiveFails
  <2>. QED  BY <2>1 DEF OrphanInv
<1>t. /\ stream \in [Handles -> Streams] /\ toDevice \in Seq(Frames)
      /\ fate \in [LocalIds -> {"none", "opening", "open", "refused", "failed"}]
      /\ sawClose \in [LocalIds -> BOOLEAN]
  BY DEF TypeInv, TypeOK, LinkTypeOK
<1>i. \A l \in LocalIds : fate[l] = "open" /\ dstat[l] = "open" => Owned(l) \/ BeingClosed(l)
  BY DEF OrphanInv
<1>d. UNCHANGED <<dstat, rid>>
  BY DEF HostStep, CallerStep, ReceiveStep, FailureStep, OpenCall, Write, ReadAllCall, Destroy, ReadCall,
         MoveConstruct, MoveAssign, OpenSkip, OpenAccepted, OpenRefused, ReceiveSkip, ReceiveWrte,
         ReceiveClse, ReceiveUnexpected, OpenReceiveFails, ReadReceiveFails, devVars
<1>c. \A l \in LocalIds : BeingClosed(l) => BeingClosed(l)'
  <2>1. UNCHANGED toDevice \/ \E f \in Frames : toDevice' = Append(toDevice, f)
    BY HostAppends
  <2>. QED  BY <1>t, <1>d, <2>1, CloseStays
<1>1. ASSUME UNCHANGED fate, \A l \in LocalIds : dstat[l] = "open" /\ Owned(l) => Owned(l)' \/ BeingClosed(l)'
      PROVE  \A l \in LocalIds :
               fate'[l] = "open" /\ dstat'[l] = "open" => Owned(l)' \/ BeingClosed(l)'
  BY <1>1, <1>i, <1>c, <1>d
<1>2. ASSUME UNCHANGED stream \/ \E h \in Handles : \E buf : stream' = [stream EXCEPT ![h].buf = buf]
      PROVE  \A l \in LocalIds : Owned(l) => Owned(l)'
  <2>1. ASSUME NEW g \in Handles, NEW h \in Handles, NEW buf, stream' = [stream EXCEPT ![h].buf = buf]
        PROVE  stream'[g].local = stream[g].local /\ stream'[g].closed = stream[g].closed
    <3>1. CASE g = h
      <4>1. stream'[g] = [stream[g] EXCEPT !.buf = buf]
        BY <1>t, <2>1, <3>1
      <4>2. stream[g] \in Streams
        BY <1>t
      <4>. QED  BY <4>1, <4>2 DEF Streams
    <3>2. CASE g # h
      BY <1>t, <2>1, <3>2
    <3>. QED  BY <3>1, <3>2
  <2>2. \A h \in Handles : stream'[h].local = stream[h].local /\ stream'[h].closed = stream[h].closed
    BY <1>2, <2>1
  <2>. QED  BY <2>2 DEF Owned, Live
<1>3. ASSUME NEW h \in Handles, Destroy(h)
      PROVE  \A l \in LocalIds : Owned(l) => Owned(l)' \/ BeingClosed(l)'
  <2>1. close_now(h) /\ \A g \in Handles \ {h} : stream'[g] = stream[g]
    BY <1>t, <1>3 DEF Destroy
  <2>2. ASSUME NEW l \in LocalIds, Owned(l) PROVE Owned(l)' \/ BeingClosed(l)'
    <3>1. PICK o \in Handles : Live(o) /\ stream[o].local = l
      BY <2>2 DEF Owned
    <3>2. o = h => BeingClosed(l)'
      BY <1>d, <2>1, <3>1, CloseBegins
    <3>3. o # h => Owned(l)'
      BY <2>1, <3>1 DEF Owned, Live
    <3>. QED  BY <3>2, <3>3
  <2>. QED  BY <2>2
<1>4. ASSUME NEW a \in Handles, NEW b \in Handles, MoveConstruct(a, b) \/ MoveAssign(a, b)
      PROVE  \A l \in LocalIds : Owned(l) => Owned(l)' \/ BeingClosed(l)'
  <2>1. /\ a # b /\ TakeOver(a, b)
        /\ Live(b) => close_now(b)
    BY <1>4 DEF MoveConstruct, MoveAssign, Live, NoStream
  <2>2. /\ stream'[b] = stream[a] /\ (Live(b)' <=> Live(a))
        /\ \A g \in Handles \ {a, b} : stream'[g] = stream[g] /\ (Live(g)' <=> Live(g))
    BY <1>t, <2>1, OwnerTakeOver
  <2>3. ASSUME NEW l \in LocalIds, Owned(l) PROVE Owned(l)' \/ BeingClosed(l)'
    <3>1. PICK o \in Handles : Live(o) /\ stream[o].local = l
      BY <2>3 DEF Owned
    <3>2. o = b => BeingClosed(l)'
      BY <1>d, <2>1, <3>1, CloseBegins
    <3>3. o # b => Owned(l)'
      BY <2>2, <3>1 DEF Owned
    <3>. QED  BY <3>2, <3>3
  <2>. QED  BY <2>3
<1>5. ASSUME NEW h \in Handles, OpenCall(h)
      PROVE  \A l \in LocalIds :
               fate'[l] = "open" /\ dstat'[l] = "open" => Owned(l)' \/ BeingClosed(l)'
  <2>1. UNCHANGED stream /\ fate' = [fate EXCEPT ![next_local_id] = "opening"]
    BY <1>5 DEF OpenCall
  <2>2. \A l \in LocalIds : fate'[l] = "opening" \/ fate'[l] = fate[l]
    BY <1>t, <2>1
  <2>. QED  BY <1>2, <1>c, <1>d, <1>i, <2>1, <2>2
<1>6. ASSUME OpenAccepted
      PROVE  \A l \in LocalIds :
               fate'[l] = "open" /\ dstat'[l] = "open" => Owned(l)' \/ BeingClosed(l)'
  <2>1. PICK h \in Handles, m \in LocalIds : h = call.h /\ m = call.id /\ stream[h] = NoStream
    BY <1>6 DEF OpenAccepted, OwnerInv, CallOwns
  <2>2. /\ stream' = [stream EXCEPT ![h] = NewStream(m, Head(toHost).arg0)]
        /\ fate' = [fate EXCEPT ![m] = "open"]
    BY <1>6, <2>1 DEF OpenAccepted
  <2>3. Live(h)' /\ stream'[h].local = m /\ ~Live(h)
        /\ \A g \in Handles \ {h} : stream'[g] = stream[g]
    BY <1>t, <2>1, <2>2 DEF Live, NewStream, NoStream
  <2>4. \A l \in LocalIds : l # m => fate'[l] = fate[l]
    BY <1>t, <2>2
  <2>5. Owned(m)' /\ \A l \in LocalIds : Owned(l) => Owned(l)'
    BY <2>3 DEF Owned, Live
  <2>6. fate'[m] = "open"
    BY <1>t, <2>2
  <2>. QED  BY <1>c, <1>d, <1>i, <2>4, <2>5, <2>6
<1>7. ASSUME OpenRefused \/ OpenReceiveFails
      PROVE  \A l \in LocalIds :
               fate'[l] = "open" /\ dstat'[l] = "open" => Owned(l)' \/ BeingClosed(l)'
  <2>1. UNCHANGED stream /\ \E verdict \in {"refused", "failed"} : fate' = [fate EXCEPT ![call.id] = verdict]
    BY <1>7 DEF OpenRefused, OpenReceiveFails, AbandonOpen
  <2>2. \A l \in LocalIds : fate'[l] # "open" \/ fate'[l] = fate[l]
    BY <1>t, <2>1
  <2>. QED  BY <1>2, <1>c, <1>d, <1>i, <2>1, <2>2
<1>9. ASSUME ReceiveClse
      PROVE  \A l \in LocalIds : dstat[l] = "open" /\ Owned(l) => Owned(l)'
  <2>1. PICK h \in Handles, m \in LocalIds : h = call.h /\ m = call.id /\ stream[h].local = m
    BY <1>9 DEF ReceiveClse, OwnerInv, CallOwns, OwnsOpenStream
  <2>2. /\ stream' = [stream EXCEPT ![h].closed = TRUE]
        /\ sawClose' = [sawClose EXCEPT ![m] = TRUE]
    BY <1>9, <2>1 DEF ReceiveClse
  <2>3. sawClose'[m] /\ \A g \in Handles \ {h} : stream'[g] = stream[g]
    BY <1>t, <2>2
  <2>4. dstat[m] # "open"
    BY <1>d, <2>3 DEF WireInv, FateTrue
  <2>. QED  BY <2>1, <2>3, <2>4 DEF Owned, Live
<1>10. ASSUME \/ \E h \in Handles : Write(h) \/ ReadAllCall(h)
              \/ \E h \in Handles, n \in 1 .. MaxRead : ReadCall(h, n)
              \/ OpenSkip \/ ReceiveSkip \/ ReceiveWrte \/ ReceiveUnexpected \/ ReadReceiveFails
       PROVE  UNCHANGED fate /\ \A l \in LocalIds : Owned(l) => Owned(l)'
  <2>1. UNCHANGED fate
    BY <1>10 DEF Write, ReadAllCall, ReadCall, OpenSkip, ReceiveSkip, ReceiveWrte, ReceiveUnexpected,
                 ReadReceiveFails, histVars
  <2>2. UNCHANGED stream \/ \E h \in Handles : \E buf : stream' = [stream EXCEPT ![h].buf = buf]
    <3>1. ReceiveWrte => \E h \in Handles : \E buf : stream' = [stream EXCEPT ![h].buf = buf]
      BY DEF ReceiveWrte, OwnerInv, CallOwns
    <3>. QED  BY <1>10, <3>1 DEF Write, ReadAllCall, ReadCall, OpenSkip, ReceiveSkip, ReceiveUnexpected,
                             ReadReceiveFails, hostVars
  <2>. QED  BY <1>2, <2>1, <2>2
<1>11. CASE \/ \E h \in Handles : Destroy(h)
            \/ \E a, b \in Handles : MoveConstruct(a, b) \/ MoveAssign(a, b)
            \/ ReceiveClse
  <2>1. UNCHANGED fate
    BY <1>11 DEF Destroy, MoveConstruct, MoveAssign, ReceiveClse, histVars
  <2>. QED  BY <1>1, <1>3, <1>4, <1>9, <1>11, <2>1
<1>. QED
  BY <1>1, <1>5, <1>6, <1>7, <1>10, <1>11 DEF HostStep, CallerStep, ReceiveStep, FailureStep

\* What a step of the device may do to a stream it has open: when it takes the CLSE
\* for it, it closes it (adbd, as Stream::close_now relies on it).
LEMMA OrphanDeviceStep ==
  ASSUME TypeInv, OwnerInv, WireInv, OrphanInv, Quiet(DeviceStep)
  PROVE  OrphanInv'
<1>t. /\ stream \in [Handles -> Streams] /\ toDevice \in Seq(Frames)
      /\ dstat \in [LocalIds -> {"none", "open", "refused", "closed", "gone"}]
      /\ rid \in [LocalIds -> Nat] /\ UNCHANGED <<stream, fate>>
  BY DEF TypeInv, TypeOK, LinkTypeOK, DeviceTypeOK, Quiet, hostVars, histVars
<1>l. UNCHANGED link
  BY DEF Quiet, DeviceStep, DeviceHandles, DeviceAccept, DeviceRefuse, DeviceGetsWrte, DeviceGetsOkay,
         DeviceGetsClse, DeviceWrite, DeviceClose, DeviceClosesAgain, DeviceStray
<1>. SUFFICES ASSUME link = "up", NEW l \in LocalIds, fate[l] = "open", dstat'[l] = "open"
              PROVE  Owned(l)' \/ BeingClosed(l)'
  BY <1>t, <1>l DEF OrphanInv
<1>o. Owned(l) => Owned(l)'
  BY <1>t DEF Owned, Live
<1>a. Accepted(l) /\ rid[l] # 0
  BY DEF WireInv, FateTrue
<1>1. ASSUME UNCHANGED <<dstat, rid, toDevice>> PROVE Owned(l)' \/ BeingClosed(l)'
  BY <1>1, <1>o DEF OrphanInv, BeingClosed
<1>2. ASSUME NEW m \in LocalIds, dstat'[m] # "open", \A k \in LocalIds \ {m} : dstat'[k] = dstat[k],
             UNCHANGED <<rid, toDevice>>
      PROVE  Owned(l)' \/ BeingClosed(l)'
  BY <1>2, <1>o DEF OrphanInv, BeingClosed
<1>3. ASSUME toDevice # <<>>, toDevice' = Tail(toDevice), UNCHANGED rid, dstat[l] = "open",
             From(toDevice[1], "CLSE", l) /\ toDevice[1].arg1 = rid[l] => dstat'[l] # "open"
      PROVE  Owned(l)' \/ BeingClosed(l)'
  <2>1. CASE Owned(l)
    BY <1>o, <2>1
  <2>2. CASE BeingClosed(l)
    <3>1. PICK i \in 1 .. Len(toDevice) : From(toDevice[i], "CLSE", l) /\ toDevice[i].arg1 = rid[l]
      BY <2>2 DEF BeingClosed
    <3>2. i # 1
      BY <1>3, <3>1
    <3>3. Len(toDevice) \in Nat /\ Len(toDevice') = Len(toDevice) - 1
          /\ \A k \in 1 .. Len(toDevice') : toDevice'[k] = toDevice[k + 1]
      BY <1>t, <1>3, TailFacts
    <3>4. i - 1 \in 1 .. Len(toDevice') /\ (i - 1) + 1 = i
      BY <3>2, <3>3
    <3>5. toDevice'[i - 1] = toDevice[i]
      BY <3>3, <3>4
    <3>. QED  BY <1>3, <3>1, <3>4, <3>5 DEF BeingClosed, From
  <2>. QED  BY <1>3, <2>1, <2>2 DEF OrphanInv
<1>h. ASSUME NEW cmd, DeviceHead(cmd)
      PROVE  /\ toDevice # <<>> /\ Head(toDevice) = toDevice[1] /\ toDevice[1].cmd = cmd
             /\ toDevice[1].arg0 \in LocalIds /\ DeviceFrame(toDevice[1])
  <2>1. toDevice # <<>> /\ Head(toDevice).cmd = cmd
    BY <1>h DEF DeviceHead
  <2>. QED  BY <1>t, <2>1, TailFacts DEF WireInv, ToDeviceSound, DeviceFrame
<1>4. ASSUME DeviceAccept \/ DeviceRefuse PROVE Owned(l)' \/ BeingClosed(l)'
  <2>1. PICK m \in LocalIds : m = toDevice[1].arg0 /\ toDevice[1].cmd = "OPEN" /\ Head(toDevice) = toDevice[1]
    BY <1>4, <1>h DEF DeviceAccept, DeviceRefuse
  <2>2. m # l
    <3>1. dstat[m] = "none"
      BY <1>4, <1>h, <2>1 DEF DeviceAccept, DeviceRefuse, DeviceFrame
    <3>. QED  BY <1>a, <3>1 DEF Accepted
  <2>3. /\ toDevice # <<>> /\ toDevice' = Tail(toDevice) /\ dstat'[l] = dstat[l] /\ rid'[l] = rid[l]
    BY <1>4, <1>h, <1>t, <2>1, <2>2 DEF DeviceAccept, DeviceRefuse
  <2>4. CASE Owned(l)
    BY <1>o, <2>4
  <2>5. CASE BeingClosed(l)
    <3>1. PICK i \in 1 .. Len(toDevice) : From(toDevice[i], "CLSE", l) /\ toDevice[i].arg1 = rid[l]
      BY <2>5 DEF BeingClosed
    <3>2. i # 1
      BY <2>1, <3>1 DEF From
    <3>3. Len(toDevice) \in Nat /\ Len(toDevice') = Len(toDevice) - 1
          /\ \A k \in 1 .. Len(toDevice') : toDevice'[k] = toDevice[k + 1]
      BY <1>t, <2>3, TailFacts
    <3>4. i - 1 \in 1 .. Len(toDevice') /\ (i - 1) + 1 = i
      BY <3>2, <3>3
    <3>5. toDevice'[i - 1] = toDevice[i]
      BY <3>3, <3>4
    <3>. QED  BY <2>3, <3>1, <3>4, <3>5 DEF BeingClosed, From
  <2>. QED  BY <2>3, <2>4, <2>5 DEF OrphanInv
<1>5. ASSUME DeviceGetsWrte \/ DeviceGetsOkay PROVE Owned(l)' \/ BeingClosed(l)'
  <2>1. /\ toDevice # <<>> /\ toDevice' = Tail(toDevice) /\ UNCHANGED <<rid, dstat>>
        /\ toDevice[1].cmd # "CLSE"
    BY <1>5, <1>h DEF DeviceGetsWrte, DeviceGetsOkay
  <2>. QED  BY <1>3, <2>1 DEF From
<1>6. ASSUME DeviceGetsClse PROVE Owned(l)' \/ BeingClosed(l)'
  <2>1. /\ toDevice # <<>> /\ toDevice' = Tail(toDevice) /\ UNCHANGED rid
        /\ Head(toDevice) = toDevice[1] /\ toDevice[1].arg0 \in LocalIds
        /\ IF Addressed(toDevice[1]) THEN dstat' = [dstat EXCEPT ![toDevice[1].arg0] = "closed"]
                                     ELSE UNCHANGED dstat
    BY <1>6, <1>h DEF DeviceGetsClse
  <2>2. dstat[l] = "open"
    BY <1>t, <2>1
  <2>3. From(toDevice[1], "CLSE", l) /\ toDevice[1].arg1 = rid[l] => Addressed(toDevice[1])
    BY <1>a, <2>2 DEF From, Addressed
  <2>4. From(toDevice[1], "CLSE", l) /\ toDevice[1].arg1 = rid[l] => dstat'[l] # "open"
    BY <1>t, <2>1, <2>3 DEF From
  <2>. QED  BY <1>3, <2>1, <2>2, <2>4
<1>7. ASSUME NEW m \in LocalIds, DeviceClose(m) \/ DeviceClosesAgain(m) PROVE Owned(l)' \/ BeingClosed(l)'
  <2>1. /\ dstat'[m] # "open" /\ \A k \in LocalIds \ {m} : dstat'[k] = dstat[k]
        /\ UNCHANGED <<rid, toDevice>>
    BY <1>t, <1>7 DEF DeviceClose, DeviceClosesAgain
  <2>. QED  BY <1>2, <2>1
<1>8. ASSUME NEW m \in LocalIds, DeviceStray(m) \/ \E n \in 1 .. MaxChunk : DeviceWrite(m, n)
      PROVE  Owned(l)' \/ BeingClosed(l)'
  BY <1>1, <1>8 DEF DeviceStray, DeviceWrite, devVars
<1>. QED
  BY <1>4, <1>5, <1>6, <1>7, <1>8 DEF Quiet, DeviceStep, DeviceHandles

\* Every step keeps an owner, or a CLSE on its way, for a stream the device has open.
LEMMA OrphanStep ==
  ASSUME TypeInv, OwnerInv, WireInv, WireInv', OrphanInv, [Next]_vars
  PROVE  OrphanInv'
<1>1. ASSUME UNCHANGED vars PROVE OrphanInv'
  BY <1>1 DEF vars, hostVars, histVars, devVars, OrphanInv, Owned, BeingClosed, Live
<1>2. ASSUME \/ Quiet(LinkDown /\ UNCHANGED devVars)
             \/ Quiet(call = Idle /\ ConnectionClose /\ UNCHANGED devVars)
      PROVE  OrphanInv'
  BY <1>2 DEF Quiet, LinkDown, ConnectionClose, OrphanInv
<1>. QED  BY <1>1, <1>2, OrphanHostStep, OrphanDeviceStep DEF Next

\* Once every frame has been handled, a stream the device has open is owned by an
\* object that will close it, with every fault; the one exception is the stream of an
\* open that failed while the link stayed up, that is, one that timed out (~Stream, the
\* moves, open).
THEOREM NoneOrphaned == Spec => []NoOrphan
<1>1. Init => OrphanInv
  BY DEF Init, OrphanInv
<1>2. TypeInv /\ OwnerInv /\ WireInv /\ WireInv' /\ OrphanInv /\ [Next]_vars => OrphanInv'
  BY OrphanStep
<1>3. TypeInv /\ OwnerInv /\ WireInv /\ OrphanInv => NoOrphan
  <2>. SUFFICES ASSUME TypeInv, OwnerInv, WireInv, OrphanInv, link = "up", call = Idle, toDevice = <<>>,
                       NEW l \in LocalIds, dstat[l] = "open", fate[l] # "failed"
                PROVE  Owned(l)
    BY DEF NoOrphan, Owned, Live
  <2>1. Len(toDevice) = 0
    BY EmptySeq
  <2>2. ~BeingClosed(l)
    BY <2>1 DEF BeingClosed
  <2>3. fate[l] # "none" /\ fate[l] # "refused"
    BY DEF WireInv, FateTrue
  <2>4. fate[l] # "opening"
    BY DEF OwnerInv, ClosingHistory, Idle
  <2>5. fate[l] = "open"
    BY <2>3, <2>4 DEF TypeInv, TypeOK
  <2>. QED  BY <2>2, <2>5 DEF OrphanInv
<1>. QED  BY <1>1, <1>2, <1>3, WireInvariance, PTL DEF Spec

-----------------------------------------------------------------------------
(* Acknowledgements, one at a time.                                         *)

\* What is left of the frames for the host has no new WRTE of l, and what is left of
\* those for the device no new OKAY.
WrtesStay(l) ==
  \E c \in {0, 1} : \A i \in 1 .. Len(toHost') :
    Is(toHost'[i], "WRTE", l) => i + c \in 1 .. Len(toHost) /\ toHost[i + c] = toHost'[i]

OkaysStay(l) ==
  \E c \in {0, 1} : \A i \in 1 .. Len(toDevice') :
    From(toDevice'[i], "OKAY", l) => i + c \in 1 .. Len(toDevice) /\ toDevice[i + c] = toDevice'[i]

\* What steps may do to the frames for the host without a new WRTE of l.
LEMMA WrtesStaying ==
  ASSUME toHost \in Seq(Frames), NEW l,
         \/ UNCHANGED toHost
         \/ toHost # <<>> /\ toHost' = Tail(toHost)
         \/ \E f \in Frames : toHost' = Append(toHost, f) /\ ~Is(f, "WRTE", l)
         \/ \E k \in 0 .. Len(toHost) : toHost' = SubSeq(toHost, 1, k)
         \/ toHost' = <<>>
  PROVE  WrtesStay(l)
<1>0. Len(toHost) \in Nat
  BY LenProperties
<1>1. CASE UNCHANGED toHost
  BY <1>0, <1>1 DEF WrtesStay
<1>2. CASE toHost # <<>> /\ toHost' = Tail(toHost)
  <2>1. \A i \in 1 .. Len(toHost') : i + 1 \in 1 .. Len(toHost) /\ toHost'[i] = toHost[i + 1]
    BY <1>2, TailFacts
  <2>. QED  BY <2>1 DEF WrtesStay
<1>3. ASSUME NEW f \in Frames, toHost' = Append(toHost, f), ~Is(f, "WRTE", l) PROVE WrtesStay(l)
  <2>1. \A i \in 1 .. Len(toHost') : toHost'[i] = f \/ (i \in 1 .. Len(toHost) /\ toHost'[i] = toHost[i])
    BY <1>3, AppendFacts
  <2>2. \A i \in 1 .. Len(toHost') : Is(toHost'[i], "WRTE", l) => i + 0 \in 1 .. Len(toHost) /\ toHost[i + 0] = toHost'[i]
    BY <1>0, <1>3, <2>1
  <2>. QED  BY <2>2 DEF WrtesStay
<1>4. ASSUME NEW k \in 0 .. Len(toHost), toHost' = SubSeq(toHost, 1, k) PROVE WrtesStay(l)
  <2>1. \A i \in 1 .. Len(toHost') : i \in 1 .. Len(toHost) /\ toHost'[i] = toHost[i]
    BY <1>4, PrefixFacts
  <2>2. \A i \in 1 .. Len(toHost') : i + 0 \in 1 .. Len(toHost) /\ toHost[i + 0] = toHost'[i]
    BY <1>0, <2>1
  <2>. QED  BY <2>2 DEF WrtesStay
<1>5. CASE toHost' = <<>>
  BY <1>5, EmptySeq DEF WrtesStay
<1>. QED  BY <1>1, <1>2, <1>3, <1>4, <1>5

\* What steps may do to the frames for the device without a new OKAY of l.
LEMMA OkaysStaying ==
  ASSUME toDevice \in Seq(Frames), NEW l,
         \/ UNCHANGED toDevice
         \/ toDevice # <<>> /\ toDevice' = Tail(toDevice)
         \/ \E f \in Frames : toDevice' = Append(toDevice, f) /\ ~From(f, "OKAY", l)
         \/ toDevice' = <<>>
  PROVE  OkaysStay(l)
<1>0. Len(toDevice) \in Nat
  BY LenProperties
<1>1. CASE UNCHANGED toDevice
  BY <1>0, <1>1 DEF OkaysStay
<1>2. CASE toDevice # <<>> /\ toDevice' = Tail(toDevice)
  <2>1. \A i \in 1 .. Len(toDevice') : i + 1 \in 1 .. Len(toDevice) /\ toDevice'[i] = toDevice[i + 1]
    BY <1>2, TailFacts
  <2>. QED  BY <2>1 DEF OkaysStay
<1>3. ASSUME NEW f \in Frames, toDevice' = Append(toDevice, f), ~From(f, "OKAY", l) PROVE OkaysStay(l)
  <2>1. \A i \in 1 .. Len(toDevice') : toDevice'[i] = f \/ (i \in 1 .. Len(toDevice) /\ toDevice'[i] = toDevice[i])
    BY <1>3, AppendFacts
  <2>2. \A i \in 1 .. Len(toDevice') : From(toDevice'[i], "OKAY", l) => i + 0 \in 1 .. Len(toDevice) /\ toDevice[i + 0] = toDevice'[i]
    BY <1>0, <1>3, <2>1
  <2>. QED  BY <2>2 DEF OkaysStay
<1>5. CASE toDevice' = <<>>
  BY <1>5, EmptySeq DEF OkaysStay
<1>. QED  BY <1>1, <1>2, <1>3, <1>5

\* A step that neither sends, takes nor acknowledges data of l.
LEMMA FlightKept ==
  ASSUME NEW l \in LocalIds, InFlight(l), WrtesStay(l), OkaysStay(l),
         credit'[l] = credit[l], sent'[l] = sent[l], taken'[l] = taken[l],
         Accepted(l) => Accepted(l)', fate[l] = "open" => fate'[l] = "open"
  PROVE  InFlight(l)'
<1>1. PICK c \in {0, 1} : \A i \in 1 .. Len(toHost') :
        WrteAt(l, i)' => i + c \in 1 .. Len(toHost) /\ toHost[i + c] = toHost'[i] /\ WrteAt(l, i + c)
  BY DEF WrtesStay, WrteAt, Is
<1>2. PICK d \in {0, 1} : \A i \in 1 .. Len(toDevice') :
        OkayAt(l, i)' => i + d \in 1 .. Len(toDevice) /\ toDevice[i + d] = toDevice'[i] /\ OkayAt(l, i + d)
  BY DEF OkaysStay, OkayAt, From
<1>3. ASSUME NEW i \in 1 .. Len(toHost'), WrteAt(l, i)'
      PROVE  /\ credit[l] = 0 /\ toHost'[i].at = taken[l] + 1 /\ taken[l] + toHost'[i].len = sent[l]
             /\ \A j \in 1 .. Len(toHost') : WrteAt(l, j)' => j = i
             /\ \A j \in 1 .. Len(toDevice') : ~OkayAt(l, j)'
  <2>1. i + c \in 1 .. Len(toHost) /\ toHost[i + c] = toHost'[i] /\ WrteAt(l, i + c)
    BY <1>1, <1>3
  <2>2. /\ credit[l] = 0 /\ toHost[i + c].at = taken[l] + 1 /\ taken[l] + toHost[i + c].len = sent[l]
        /\ \A j \in 1 .. Len(toHost) : WrteAt(l, j) => j = i + c
        /\ \A j \in 1 .. Len(toDevice) : ~OkayAt(l, j)
    BY <2>1 DEF InFlight
  <2>3. \A j \in 1 .. Len(toHost') : WrteAt(l, j)' => j + c = i + c
    BY <1>1, <2>2
  <2>4. \A j \in 1 .. Len(toHost') : j + c = i + c => j = i
    OBVIOUS
  <2>5. \A j \in 1 .. Len(toDevice') : ~OkayAt(l, j)'
    BY <1>2, <2>2
  <2>. QED  BY <2>1, <2>2, <2>3, <2>4, <2>5
<1>4. ASSUME NEW i \in 1 .. Len(toDevice'), OkayAt(l, i)'
      PROVE  /\ credit[l] = 0 /\ taken[l] = sent[l]
             /\ \A j \in 1 .. Len(toDevice') : OkayAt(l, j)' => j = i
  <2>1. i + d \in 1 .. Len(toDevice) /\ OkayAt(l, i + d)
    BY <1>2, <1>4
  <2>2. /\ credit[l] = 0 /\ taken[l] = sent[l]
        /\ \A j \in 1 .. Len(toDevice) : OkayAt(l, j) => j = i + d
    BY <2>1 DEF InFlight
  <2>3. \A j \in 1 .. Len(toDevice') : OkayAt(l, j)' => j + d = i + d
    BY <1>2, <2>2
  <2>4. \A j \in 1 .. Len(toDevice') : j + d = i + d => j = i
    OBVIOUS
  <2>. QED  BY <2>2, <2>3, <2>4
<1>. QED  BY <1>3, <1>4 DEF InFlight

\* The device sends its WRTE when it has the right to, and gets it back with the OKAY
\* (adbd, as receive_more relies on it).
LEMMA FlightDeviceStep ==
  ASSUME TypeInv, OwnerInv, WireInv, OneInFlight, ~DelayedAck, Quiet(DeviceStep)
  PROVE  OneInFlight'
<1>t. /\ toDevice \in Seq(Frames) /\ toHost \in Seq(Frames) /\ UNCHANGED <<fate, taken>>
      /\ dstat \in [LocalIds -> {"none", "open", "refused", "closed", "gone"}]
      /\ credit \in [LocalIds -> Nat] /\ sent \in [LocalIds -> Nat] /\ taken \in [LocalIds -> Nat]
      /\ rid \in [LocalIds -> Nat] /\ nextRid \in Nat
      /\ \A l \in LocalIds : l \in Nat
  BY DEF TypeInv, TypeOK, LinkTypeOK, DeviceTypeOK, Quiet, histVars, dataVars, LocalIds
<1>h. ASSUME NEW cmd, DeviceHead(cmd)
      PROVE  /\ toDevice # <<>> /\ Head(toDevice) = toDevice[1] /\ toDevice[1].cmd = cmd
             /\ toDevice[1].arg0 \in LocalIds /\ DeviceFrame(toDevice[1]) /\ 1 \in 1 .. Len(toDevice)
  <2>1. toDevice # <<>> /\ Head(toDevice).cmd = cmd
    BY <1>h DEF DeviceHead
  <2>. QED  BY <1>t, <2>1, TailFacts DEF WireInv, ToDeviceSound, DeviceFrame
<1>d. UNCHANGED toDevice \/ (toDevice # <<>> /\ toDevice' = Tail(toDevice))
  BY <1>h DEF Quiet, DeviceStep, DeviceHandles, DeviceAccept, DeviceRefuse, DeviceGetsWrte, DeviceGetsOkay,
              DeviceGetsClse, DeviceWrite, DeviceClose, DeviceClosesAgain, DeviceStray
<1>o. \A l \in LocalIds : OkaysStay(l)
  BY <1>t, <1>d, OkaysStaying
<1>e. ASSUME NEW cmd \in {"OKAY", "CLSE", "SYNC"}, NEW a \in Nat, NEW r \in Nat,
             UNCHANGED toHost \/ toHost' = Append(toHost, make_empty_message(cmd, a, r))
      PROVE  \A l \in LocalIds : WrtesStay(l)
  <2>1. PICK f \in Frames : f = make_empty_message(cmd, a, r)
    BY EmptyMessageType
  <2>2. f.cmd = cmd
    BY <2>1 DEF make_empty_message, Frame
  <2>3. \A l \in LocalIds : ~Is(f, "WRTE", l)
    BY <2>2 DEF Is
  <2>. QED  BY <1>e, <1>t, <2>1, <2>3, WrtesStaying
<1>k. ASSUME NEW l \in LocalIds, WrtesStay(l), credit'[l] = credit[l], sent'[l] = sent[l],
             Accepted(l) => Accepted(l)'
      PROVE  InFlight(l)'
  BY <1>k, <1>o, <1>t, FlightKept DEF OneInFlight
<1>1. ASSUME DeviceAccept PROVE OneInFlight'
  <2>1. PICK m \in LocalIds : /\ m = toDevice[1].arg0 /\ toDevice[1].cmd = "OPEN" /\ Head(toDevice) = toDevice[1]
                              /\ dstat[m] = "none" /\ fate[m] # "open"
    BY <1>1, <1>h DEF DeviceAccept, DeviceFrame
  <2>2. /\ dstat' = [dstat EXCEPT ![m] = "open"] /\ credit' = [credit EXCEPT ![m] = 1] /\ UNCHANGED sent
        /\ toHost' = Append(toHost, make_empty_message("OKAY", nextRid, m))
    BY <1>1, <2>1 DEF DeviceAccept, Reply
  <2>3. \A l \in LocalIds : WrtesStay(l)
    BY <1>e, <1>t, <2>2
  <2>4. \A l \in LocalIds \ {m} : InFlight(l)'
    BY <1>k, <1>t, <2>2, <2>3 DEF Accepted
  <2>5. /\ taken[m] = 0 /\ sent[m] = 0 /\ credit'[m] = 1 /\ Accepted(m)'
    BY <1>t, <2>1, <2>2 DEF OneInFlight, InFlight, Accepted
  <2>6. \A i \in 1 .. Len(toHost) : ~WrteAt(m, i)
    BY <2>1 DEF WireInv, ToHostSound, HostFrame, WrteAt, Is, Accepted
  <2>7. \A i \in 1 .. Len(toDevice) : ~OkayAt(m, i)
    BY <2>1 DEF WireInv, ToDeviceSound, DeviceFrame, OkayAt, From
  <2>8. \A i \in 1 .. Len(toHost') : ~WrteAt(m, i)'
    BY <2>3, <2>6 DEF WrtesStay, WrteAt, Is
  <2>9. \A i \in 1 .. Len(toDevice') : ~OkayAt(m, i)'
    BY <1>o, <2>7 DEF OkaysStay, OkayAt, From
  <2>10. InFlight(m)'
    BY <1>t, <2>2, <2>5, <2>8, <2>9 DEF InFlight
  <2>. QED  BY <2>4, <2>10 DEF OneInFlight
<1>2. ASSUME \/ DeviceRefuse \/ DeviceGetsWrte \/ DeviceGetsClse
             \/ \E l \in LocalIds : DeviceClose(l) \/ DeviceClosesAgain(l) \/ DeviceStray(l)
      PROVE  OneInFlight'
  <2>1. UNCHANGED <<credit, sent>>
    BY <1>2 DEF DeviceRefuse, DeviceGetsWrte, DeviceGetsClse, DeviceClose, DeviceClosesAgain, DeviceStray, devVars
  <2>2. \A l \in LocalIds : Accepted(l) => Accepted(l)'
    <3>1. ASSUME DeviceRefuse PROVE \A l \in LocalIds : Accepted(l) => Accepted(l)'
      <4>1. PICK m \in LocalIds : dstat' = [dstat EXCEPT ![m] = "refused"] /\ dstat[m] = "none"
        BY <3>1, <1>h DEF DeviceRefuse, DeviceFrame
      <4>. QED  BY <1>t, <4>1 DEF Accepted
    <3>2. ASSUME DeviceGetsWrte \/ \E l \in LocalIds : DeviceStray(l)
          PROVE  \A l \in LocalIds : Accepted(l) => Accepted(l)'
      BY <3>2 DEF DeviceGetsWrte, DeviceStray, Accepted, devVars
    <3>3. ASSUME DeviceGetsClse \/ \E l \in LocalIds : DeviceClose(l) \/ DeviceClosesAgain(l)
          PROVE  \A l \in LocalIds : Accepted(l) => Accepted(l)'
      <4>1. UNCHANGED dstat \/ \E m : \E v \in {"closed", "gone"} : dstat' = [dstat EXCEPT ![m] = v]
        BY <3>3 DEF DeviceGetsClse, DeviceClose, DeviceClosesAgain
      <4>. QED  BY <1>t, <4>1 DEF Accepted
    <3>. QED  BY <1>2, <3>1, <3>2, <3>3
  <2>3. \A l \in LocalIds : WrtesStay(l)
    <3>1. ASSUME DeviceRefuse PROVE \A l \in LocalIds : WrtesStay(l)
      <4>1. PICK m \in LocalIds : toHost' = Append(toHost, make_empty_message("CLSE", 0, m))
        BY <3>1, <1>h DEF DeviceRefuse, Reply
      <4>. QED  BY <1>e, <1>t, <4>1
    <3>2. ASSUME DeviceGetsWrte \/ DeviceGetsClse PROVE \A l \in LocalIds : WrtesStay(l)
      <4>1. \E m \in LocalIds : \E cmd \in {"OKAY", "CLSE"} :
              UNCHANGED toHost \/ toHost' = Append(toHost, make_empty_message(cmd, rid[m], m))
        BY <3>2, <1>h DEF DeviceGetsWrte, DeviceGetsClse, Reply
      <4>2. PICK m \in LocalIds, cmd \in {"OKAY", "CLSE"} :
              UNCHANGED toHost \/ toHost' = Append(toHost, make_empty_message(cmd, rid[m], m))
        BY <4>1
      <4>. QED  BY <1>e, <1>t, <4>2
    <3>3. ASSUME NEW m \in LocalIds, DeviceClose(m) \/ DeviceClosesAgain(m) PROVE \A l \in LocalIds : WrtesStay(l)
      <4>1. toHost' = Append(toHost, make_empty_message("CLSE", rid[m], m))
        BY <3>3 DEF DeviceClose, DeviceClosesAgain, Reply
      <4>. QED  BY <1>e, <1>t, <4>1
    <3>4. ASSUME NEW m \in LocalIds, DeviceStray(m) PROVE \A l \in LocalIds : WrtesStay(l)
      <4>1. toHost' = Append(toHost, make_empty_message("SYNC", 0, m))
        BY <3>4 DEF DeviceStray, Reply
      <4>. QED  BY <1>e, <1>t, <4>1
    <3>. QED  BY <1>2, <3>1, <3>2, <3>3, <3>4
  <2>. QED  BY <1>k, <2>1, <2>2, <2>3 DEF OneInFlight
<1>3. ASSUME DeviceGetsOkay PROVE OneInFlight'
  <2>1. PICK m \in LocalIds : /\ m = toDevice[1].arg0 /\ toDevice[1].cmd = "OKAY" /\ Head(toDevice) = toDevice[1]
                              /\ toDevice # <<>> /\ 1 \in 1 .. Len(toDevice)
    BY <1>3, <1>h DEF DeviceGetsOkay
  <2>2. /\ UNCHANGED <<sent, toHost, dstat>> /\ toDevice' = Tail(toDevice)
        /\ UNCHANGED credit \/ credit' = [credit EXCEPT ![m] = @ + 1]
    BY <1>3, <2>1 DEF DeviceGetsOkay, Release
  <2>3. \A l \in LocalIds : WrtesStay(l) /\ (Accepted(l) => Accepted(l)')
    BY <1>t, <2>2, WrtesStaying DEF Accepted
  <2>4. CASE UNCHANGED credit
    BY <1>k, <2>2, <2>3, <2>4 DEF OneInFlight
  <2>5. CASE credit' = [credit EXCEPT ![m] = @ + 1]
    <3>1. \A l \in LocalIds \ {m} : InFlight(l)'
      BY <1>k, <1>t, <2>2, <2>3, <2>5
    <3>2. OkayAt(m, 1)
      BY <2>1 DEF OkayAt, From
    <3>3. /\ credit[m] = 0 /\ taken[m] = sent[m] /\ credit'[m] = 1
          /\ \A j \in 1 .. Len(toDevice) : OkayAt(m, j) => j = 1
          /\ \A i \in 1 .. Len(toHost) : ~WrteAt(m, i)
      BY <1>t, <2>1, <2>5, <3>2 DEF OneInFlight, InFlight
    <3>4. \A i \in 1 .. Len(toDevice') : ~OkayAt(m, i)'
      <4>1. \A i \in 1 .. Len(toDevice') : i + 1 \in 1 .. Len(toDevice) /\ i + 1 # 1 /\ toDevice'[i] = toDevice[i + 1]
        BY <1>t, <2>1, <2>2, TailFacts
      <4>. QED  BY <3>3, <4>1 DEF OkayAt, From
    <3>5. \A i \in 1 .. Len(toHost') : ~WrteAt(m, i)'
      BY <2>2, <3>3 DEF WrteAt, Is
    <3>6. Accepted(m)'
      <4>1. Accepted(m)
        BY <2>1, <1>3, <1>h DEF DeviceGetsOkay, DeviceFrame, WireInv, FateTrue
      <4>. QED  BY <2>3, <4>1
    <3>7. InFlight(m)'
      BY <1>t, <2>2, <3>3, <3>4, <3>5, <3>6 DEF InFlight, OneInFlight
    <3>. QED  BY <3>1, <3>7 DEF OneInFlight
  <2>. QED  BY <2>2, <2>4, <2>5
<1>4. ASSUME NEW m \in LocalIds, NEW n \in 1 .. MaxChunk, DeviceWrite(m, n) PROVE OneInFlight'
  <2>n. n \in Nat /\ m \in Nat /\ rid[m] \in Nat /\ sent[m] + 1 \in Nat
    BY <1>t, DeviceAssumption
  <2>1. PICK f \in Frames : f = Frame("WRTE", rid[m], m, sent[m] + 1, n)
    <3>1. Frame("WRTE", rid[m], m, sent[m] + 1, n) \in Frames
      BY <2>n DEF Frame, Frames
    <3>. QED  BY <3>1
  <2>2. f.cmd = "WRTE" /\ f.arg1 = m /\ f.at = sent[m] + 1 /\ f.len = n
    BY <2>1 DEF Frame
  <2>3. /\ UNCHANGED <<toDevice, dstat>> /\ dstat[m] = "open" /\ toHost' = Append(toHost, f)
        /\ credit[m] >= 1 /\ credit' = [credit EXCEPT ![m] = @ - 1] /\ sent' = [sent EXCEPT ![m] = @ + n]
    BY <1>4, <2>1 DEF DeviceWrite, Reply, Cost
  <2>4. \A l \in LocalIds \ {m} : InFlight(l)'
    <3>1. \A l \in LocalIds \ {m} : WrtesStay(l)
      BY <1>t, <2>2, <2>3, WrtesStaying DEF Is
    <3>. QED  BY <1>k, <1>t, <2>3, <3>1 DEF Accepted
  <2>5. credit[m] = 1
    BY <1>t, <2>3 DEF OneInFlight, InFlight
  <2>6. /\ credit'[m] = 0 /\ taken[m] = sent[m] /\ sent'[m] = sent[m] + n
        /\ \A i \in 1 .. Len(toHost) : ~WrteAt(m, i)
        /\ \A i \in 1 .. Len(toDevice) : ~OkayAt(m, i)
    BY <1>t, <2>3, <2>5 DEF OneInFlight, InFlight
  <2>7. \A i \in 1 .. Len(toDevice') : ~OkayAt(m, i)'
    BY <2>3, <2>6 DEF OkayAt, From
  <2>8. /\ Len(toHost) \in Nat
        /\ \A i \in 1 .. Len(toHost') : WrteAt(m, i)' => i = Len(toHost) + 1 /\ toHost'[i] = f
    <3>1. /\ Len(toHost) \in Nat /\ toHost'[Len(toHost) + 1] = f
          /\ \A i \in 1 .. Len(toHost) : toHost'[i] = toHost[i]
          /\ \A i \in 1 .. Len(toHost') : i \in 1 .. Len(toHost) \/ i = Len(toHost) + 1
      BY <1>t, <2>3, AppendFacts
    <3>. QED  BY <2>6, <3>1 DEF WrteAt, Is
  <2>9. Accepted(m)' /\ (fate'[m] # "open" => taken'[m] = 0)
    BY <1>t, <2>3 DEF Accepted, OneInFlight, InFlight
  <2>10. f.at = taken[m] + 1 /\ taken[m] + f.len = sent'[m]
    BY <2>2, <2>6
  <2>11. InFlight(m)'
    BY <1>t, <2>6, <2>7, <2>8, <2>9, <2>10 DEF InFlight
  <2>. QED  BY <2>4, <2>11 DEF OneInFlight
<1>. QED
  BY <1>1, <1>2, <1>3, <1>4 DEF Quiet, DeviceStep, DeviceHandles

\* A stream that open has opened stays so for its caller.
LEMMA OpenStays ==
  ASSUME TypeInv, OwnerInv, HostStep
  PROVE  \A l \in LocalIds : fate[l] = "open" => fate'[l] = "open"
<1>t. fate \in [LocalIds -> {"none", "opening", "open", "refused", "failed"}]
  BY DEF TypeInv, TypeOK
<1>1. ASSUME NEW m, NEW v, fate' = [fate EXCEPT ![m] = v], v = "open" \/ (m \in LocalIds => fate[m] # "open")
      PROVE  \A l \in LocalIds : fate[l] = "open" => fate'[l] = "open"
  BY <1>t, <1>1
<1>2. ASSUME NEW h \in Handles, OpenCall(h)
      PROVE  \A l \in LocalIds : fate[l] = "open" => fate'[l] = "open"
  <2>1. next_local_id \in LocalIds /\ next_local_id \in Nat
    BY <1>2 DEF OpenCall, TypeInv, TypeOK
  <2>2. fate[next_local_id] = "none"
    BY <2>1 DEF OwnerInv, ClosingHistory
  <2>3. \E v : fate' = [fate EXCEPT ![next_local_id] = v]
    BY <1>2 DEF OpenCall
  <2>. QED  BY <1>1, <2>2, <2>3
<1>3. ASSUME OpenAccepted \/ OpenRefused \/ OpenReceiveFails
      PROVE  \A l \in LocalIds : fate[l] = "open" => fate'[l] = "open"
  <2>1. fate[call.id] = "opening"
    BY <1>3 DEF OpenAccepted, OpenRefused, OpenReceiveFails, OwnerInv, CallOwns
  <2>2. \E v : fate' = [fate EXCEPT ![call.id] = v]
    BY <1>3 DEF OpenAccepted, OpenRefused, OpenReceiveFails
  <2>. QED  BY <1>1, <2>1, <2>2
<1>4. ASSUME \/ \E h \in Handles : Write(h) \/ ReadAllCall(h) \/ Destroy(h)
             \/ \E h \in Handles, n \in 1 .. MaxRead : ReadCall(h, n)
             \/ \E a, b \in Handles : MoveConstruct(a, b) \/ MoveAssign(a, b)
             \/ OpenSkip \/ ReceiveSkip \/ ReceiveWrte \/ ReceiveClse \/ ReceiveUnexpected \/ ReadReceiveFails
      PROVE  UNCHANGED fate
  BY <1>4 DEF Write, ReadAllCall, Destroy, ReadCall, MoveConstruct, MoveAssign, OpenSkip, ReceiveSkip,
              ReceiveWrte, ReceiveClse, ReceiveUnexpected, ReadReceiveFails, histVars
<1>. QED
  BY <1>2, <1>3, <1>4 DEF HostStep, CallerStep, ReceiveStep, FailureStep

\* The step of a call that takes a WRTE of its stream l, the frame f (receive_more).
LEMMA WrteTaken ==
  ASSUME TypeInv, OwnerInv, WireInv, ReceiveWrte
  PROVE  \E h \in Handles, l \in LocalIds, f \in Frames :
           /\ h = call.h /\ l = call.id /\ f = Head(toHost) /\ Live(h) /\ stream[h].local = l /\ fate[l] = "open"
           /\ toHost # <<>> /\ toHost' = Tail(toHost) /\ f = toHost[1] /\ 1 \in 1 .. Len(toHost) /\ Is(f, "WRTE", l)
           /\ taken' = [taken EXCEPT ![l] = @ + f.len]
           /\ \/ UNCHANGED toDevice
              \/ \E g \in Frames : toDevice' = Append(toDevice, g) /\ From(g, "OKAY", l)
<1>1. PICK h \in Handles, l \in LocalIds :
        h = call.h /\ l = call.id /\ Live(h) /\ stream[h].local = l /\ fate[l] = "open"
  BY DEF ReceiveWrte, OwnerInv, CallOwns, OwnsOpenStream
<1>2. FrameReady /\ toHost' = Tail(toHost) /\ taken' = [taken EXCEPT ![l] = @ + Head(toHost).len]
      /\ Head(toHost).arg1 = l /\ Head(toHost).cmd = "WRTE"
      /\ Send(make_empty_message("OKAY", l, stream[h].remote))
  BY <1>1 DEF ReceiveWrte, ReadSkips, Acknowledge
<1>3. l \in Nat /\ stream[h].remote \in Nat
  BY DEF LocalIds, TypeInv, TypeOK, Streams
<1>4. UNCHANGED toDevice \/ \E g \in Frames : toDevice' = Append(toDevice, g) /\ From(g, "OKAY", l)
  <2>1. \/ UNCHANGED toDevice
        \/ \E g \in Frames : toDevice' = Append(toDevice, g) /\ g.cmd = "OKAY" /\ g.arg0 = l
    BY <1>2, <1>3, Sends
  <2>. QED  BY <2>1 DEF From
<1>5. PICK f \in Frames : f = Head(toHost) /\ f = toHost[1] /\ toHost # <<>> /\ 1 \in 1 .. Len(toHost)
  BY <1>2, HostFirstFrame
<1>. QED  BY <1>1, <1>2, <1>4, <1>5 DEF Is

\* A call takes the one WRTE of its stream, and only then acknowledges it.
LEMMA FlightReceiveWrte ==
  ASSUME TypeInv, OwnerInv, WireInv, OneInFlight, ReceiveWrte
  PROVE  OneInFlight'
<1>t. /\ toDevice \in Seq(Frames) /\ toHost \in Seq(Frames)
      /\ credit \in [LocalIds -> Nat] /\ sent \in [LocalIds -> Nat] /\ taken \in [LocalIds -> Nat]
  BY DEF TypeInv, TypeOK, LinkTypeOK, DeviceTypeOK
<1>u. UNCHANGED <<fate, credit, sent, dstat>>
  BY DEF ReceiveWrte, devVars
<1>1. PICK l \in LocalIds, f \in Frames :
           /\ fate[l] = "open"
           /\ toHost # <<>> /\ toHost' = Tail(toHost) /\ f = toHost[1] /\ 1 \in 1 .. Len(toHost) /\ Is(f, "WRTE", l)
           /\ taken' = [taken EXCEPT ![l] = @ + f.len]
           /\ \/ UNCHANGED toDevice
              \/ \E g \in Frames : toDevice' = Append(toDevice, g) /\ From(g, "OKAY", l)
  BY WrteTaken
<1>2. \A m \in LocalIds \ {l} : InFlight(m)'
  <2>1. \A m \in LocalIds \ {l} : WrtesStay(m)
    BY <1>1, <1>t, WrtesStaying
  <2>2. \A m \in LocalIds \ {l} : OkaysStay(m)
    <3>1. \A m \in LocalIds \ {l} :
            UNCHANGED toDevice \/ \E g \in Frames : toDevice' = Append(toDevice, g) /\ ~From(g, "OKAY", m)
      BY <1>1 DEF From
    <3>. QED  BY <1>t, <3>1, OkaysStaying
  <2>. QED  BY <1>1, <1>t, <1>u, <2>1, <2>2, FlightKept DEF OneInFlight, Accepted
<1>3. /\ credit[l] = 0 /\ f.at = taken[l] + 1 /\ taken[l] + f.len = sent[l]
      /\ \A j \in 1 .. Len(toHost) : WrteAt(l, j) => j = 1
      /\ \A j \in 1 .. Len(toDevice) : ~OkayAt(l, j)
  <2>1. WrteAt(l, 1)
    BY <1>1 DEF WrteAt
  <2>. QED  BY <1>1, <2>1 DEF OneInFlight, InFlight
<1>4. \A i \in 1 .. Len(toHost') : ~WrteAt(l, i)'
  <2>1. \A i \in 1 .. Len(toHost') : i + 1 \in 1 .. Len(toHost) /\ i + 1 # 1 /\ toHost'[i] = toHost[i + 1]
    BY <1>1, <1>t, TailFacts
  <2>. QED  BY <1>3, <2>1 DEF WrteAt, Is
<1>5. Len(toDevice) \in Nat /\ \A i \in 1 .. Len(toDevice') : OkayAt(l, i)' => i = Len(toDevice) + 1
  <2>1. CASE UNCHANGED toDevice
    BY <1>3, <1>t, <2>1, LenProperties DEF OkayAt, From
  <2>2. ASSUME NEW g \in Frames, toDevice' = Append(toDevice, g)
        PROVE  Len(toDevice) \in Nat /\ \A i \in 1 .. Len(toDevice') : OkayAt(l, i)' => i = Len(toDevice) + 1
    <3>1. /\ Len(toDevice) \in Nat
          /\ \A i \in 1 .. Len(toDevice) : toDevice'[i] = toDevice[i]
          /\ \A i \in 1 .. Len(toDevice') : i \in 1 .. Len(toDevice) \/ i = Len(toDevice) + 1
      BY <1>t, <2>2, AppendFacts
    <3>. QED  BY <1>3, <3>1 DEF OkayAt, From
  <2>. QED  BY <1>1, <2>1, <2>2
<1>6. taken'[l] = sent[l] /\ credit'[l] = 0 /\ sent'[l] = sent[l] /\ fate'[l] = "open"
  BY <1>1, <1>3, <1>t, <1>u
<1>7. ~Accepted(l)' => sent'[l] = 0
  BY <1>u DEF OneInFlight, InFlight, Accepted
<1>8. InFlight(l)'
  BY <1>4, <1>5, <1>6, <1>7 DEF InFlight
<1>. QED  BY <1>2, <1>8 DEF OneInFlight

\* Every step keeps one WRTE or OKAY in flight at most.
LEMMA FlightStep ==
  ASSUME TypeInv, OwnerInv, WireInv, OneInFlight, ~DelayedAck, [Next]_vars
  PROVE  OneInFlight'
<1>t. toDevice \in Seq(Frames) /\ toHost \in Seq(Frames)
  BY DEF TypeInv, TypeOK, LinkTypeOK
<1>1. ASSUME UNCHANGED vars PROVE OneInFlight'
  BY <1>1 DEF vars, histVars, dataVars, devVars, OneInFlight, InFlight, WrteAt, OkayAt, Accepted
<1>2. ASSUME HostStep, ~ReceiveWrte PROVE OneInFlight'
  <2>1. \A l \in LocalIds : OkaysStay(l)
    <3>1. \/ UNCHANGED toDevice
          \/ \E f \in Frames : toDevice' = Append(toDevice, f) /\ f.cmd # "OKAY"
      BY <1>2, HostAppends
    <3>2. \A l \in LocalIds :
            UNCHANGED toDevice \/ \E f \in Frames : toDevice' = Append(toDevice, f) /\ ~From(f, "OKAY", l)
      BY <3>1 DEF From
    <3>. QED  BY <1>t, <3>2, OkaysStaying
  <2>2. /\ UNCHANGED <<taken, credit, sent, dstat>>
        /\ UNCHANGED toHost \/ (toHost # <<>> /\ toHost' = Tail(toHost))
    BY <1>2 DEF HostStep, CallerStep, ReceiveStep, FailureStep, OpenCall, Write, ReadAllCall, Destroy, ReadCall,
           MoveConstruct, MoveAssign, OpenSkip, OpenAccepted, OpenRefused, ReceiveSkip,
           ReceiveClse, ReceiveUnexpected, OpenReceiveFails, ReadReceiveFails, devVars, dataVars, histVars, FrameReady
  <2>3. \A l \in LocalIds : WrtesStay(l)
    BY <1>t, <2>2, WrtesStaying
  <2>. QED  BY <1>2, <2>1, <2>2, <2>3, OpenStays, FlightKept DEF OneInFlight, Accepted
<1>3. ASSUME \/ Quiet(LinkDown /\ UNCHANGED devVars)
             \/ Quiet(call = Idle /\ ConnectionClose /\ UNCHANGED devVars)
      PROVE  OneInFlight'
  <2>1. /\ UNCHANGED <<taken, credit, sent, dstat, fate>> /\ toDevice' = <<>>
        /\ toHost' = <<>> \/ \E k \in 0 .. Len(toHost) : toHost' = SubSeq(toHost, 1, k)
    BY <1>3 DEF Quiet, LinkDown, ConnectionClose, devVars, histVars, dataVars
  <2>2. \A l \in LocalIds : WrtesStay(l) /\ OkaysStay(l)
    BY <1>t, <2>1, WrtesStaying, OkaysStaying
  <2>. QED  BY <2>1, <2>2, FlightKept DEF OneInFlight, Accepted
<1>. QED  BY <1>1, <1>2, <1>3, FlightReceiveWrte, FlightDeviceStep DEF Next

\* Nothing is in flight initially.
LEMMA FlightInit == Init => OneInFlight
<1>. SUFFICES ASSUME Init PROVE OneInFlight
  OBVIOUS
<1>1. /\ Len(toDevice) = 0 /\ Len(toHost) = 0
      /\ \A l \in LocalIds : credit[l] = 0 /\ sent[l] = 0 /\ taken[l] = 0
  BY EmptySeq DEF Init, DeviceInit
<1>. QED  BY <1>1 DEF OneInFlight, InFlight

\* Without delayed acknowledgements a WRTE is acknowledged once, by the stream it is
\* for, and only when it was taken, so the device sends on only when the host has all it
\* sent so far (receive_more).
THEOREM AcknowledgedWhenTaken == Spec => []AckAfterTake
<1>1. CASE DelayedAck
  BY <1>1, PTL DEF AckAfterTake
<1>2. CASE ~DelayedAck
  <2>1. Init => OneInFlight
    BY FlightInit
  <2>2. TypeInv /\ OwnerInv /\ WireInv /\ OneInFlight /\ [Next]_vars => OneInFlight'
    BY <1>2, FlightStep
  <2>3. TypeInv /\ OneInFlight => AckAfterTake
    BY DEF OneInFlight, InFlight, AckAfterTake
  <2>. QED  BY <2>1, <2>2, <2>3, WireInvariance, PTL DEF Spec
<1>. QED  BY <1>1, <1>2

-----------------------------------------------------------------------------
(* The bytes of a stream, in order.                                         *)

\* A call's output is put behind what the calls before it returned.
LEMMA ConcatBytes ==
  ASSUME NEW a \in Seq(Bytes), NEW b \in Seq(Bytes), NEW l, NEW n \in Nat, NEW m \in Nat,
         BytesFrom(a, l, n), m = n + Len(a), BytesFrom(b, l, m)
  PROVE  /\ BytesFrom(a \o b, l, n) /\ a \o b \in Seq(Bytes)
         /\ Len(a \o b) = Len(a) + Len(b) /\ Len(a) \in Nat /\ Len(b) \in Nat
<1>1. /\ a \o b \in Seq(Bytes) /\ Len(a \o b) = Len(a) + Len(b) /\ Len(a) \in Nat /\ Len(b) \in Nat
      /\ \A i \in 1 .. Len(a) + Len(b) : (a \o b)[i] = IF i <= Len(a) THEN a[i] ELSE b[i - Len(a)]
  BY ConcatProperties, LenProperties
<1>2. ASSUME NEW i \in 1 .. Len(a) + Len(b) PROVE (a \o b)[i] = <<l, n + i>>
  <2>1. CASE i <= Len(a)
    <3>1. i \in 1 .. Len(a)
      BY <1>1, <2>1
    <3>2. a[i] = <<l, n + i>>
      BY <3>1 DEF BytesFrom
    <3>. QED  BY <1>1, <2>1, <3>2
  <2>2. CASE ~(i <= Len(a))
    <3>1. i - Len(a) \in 1 .. Len(b) /\ m + (i - Len(a)) = n + i
      BY <1>1, <2>2
    <3>2. b[i - Len(a)] = <<l, m + (i - Len(a))>>
      BY <3>1 DEF BytesFrom
    <3>. QED  BY <1>1, <2>2, <3>1, <3>2
  <2>. QED  BY <2>1, <2>2
<1>. QED  BY <1>1, <1>2 DEF BytesFrom

\* Every object that owns l after the step owned it before, with the same buffer.
SameBuffers(l) ==
  \A g \in Handles : Live(g)' /\ stream'[g].local = l =>
    \E o \in Handles : Live(o) /\ stream[o].local = l /\ stream'[g].buf = stream[o].buf

\* A step that leaves the bytes of l, its buffer and its call alone.
LEMMA KeptSame ==
  ASSUME NEW l \in LocalIds, Kept(l), SameBuffers(l),
         delivered'[l] = delivered[l], lost'[l] = lost[l], taken'[l] = taken[l],
         fate[l] = "open" => fate'[l] = "open",
         CalledOn(l)' <=> CalledOn(l), CalledOn(l) => call'.out = call.out
  PROVE  Kept(l)'
<1>1. fate'[l] # "open" => delivered'[l] = <<>>
  BY DEF Kept
<1>2. ASSUME ~lost[l]
      PROVE  /\ BytesFrom(delivered[l], l, 0)'
             /\ CalledOn(l)' => /\ BytesFrom(call.out, l, Len(delivered[l]))'
                                /\ taken'[l] = Len(delivered'[l]) + Len(call'.out)
  BY <1>2 DEF Kept, BytesFrom
<1>3. ASSUME ~lost[l], NEW g \in Handles, Live(g)', stream'[g].local = l, ~CalledOn(l)
      PROVE  /\ stream'[g].buf.len > 0 => stream'[g].buf.src = l /\ stream'[g].buf.at = Len(delivered'[l]) + 1
             /\ taken'[l] = Len(delivered'[l]) + stream'[g].buf.len
  <2>1. PICK o \in Handles : Live(o) /\ stream[o].local = l /\ stream'[g].buf = stream[o].buf
    BY <1>3 DEF SameBuffers
  <2>. QED  BY <1>3, <2>1 DEF Kept
<1>. QED  BY <1>1, <1>2, <1>3 DEF Kept

\* The buffers stay with their streams (the moves, ~Stream).
LEMMA BuffersStay ==
  ASSUME TypeInv, NEW l,
         \/ UNCHANGED stream
         \/ \E h \in Handles : stream' = [stream EXCEPT ![h] = NoStream]
         \/ \E a, b \in Handles : a # b /\ TakeOver(a, b)
         \/ \E h \in Handles : stream[h].local # l /\ \E buf : stream' = [stream EXCEPT ![h].buf = buf]
         \/ \E h \in Handles : stream' = [stream EXCEPT ![h].closed = TRUE]
         \/ \E h \in Handles : \E s : stream' = [stream EXCEPT ![h] = s] /\ s.local # l
  PROVE  SameBuffers(l)
<1>t. stream \in [Handles -> Streams]
  BY DEF TypeInv, TypeOK
<1>1. CASE UNCHANGED stream
  BY <1>1 DEF SameBuffers, Live
<1>2. ASSUME NEW h \in Handles, stream' = [stream EXCEPT ![h] = NoStream] PROVE SameBuffers(l)
  BY <1>t, <1>2 DEF SameBuffers, Live, NoStream
<1>3. ASSUME NEW a \in Handles, NEW b \in Handles, a # b, TakeOver(a, b) PROVE SameBuffers(l)
  <2>1. /\ ~Live(a)' /\ stream'[b] = stream[a] /\ (Live(b)' <=> Live(a))
        /\ \A g \in Handles \ {a, b} : stream'[g] = stream[g] /\ (Live(g)' <=> Live(g))
    BY <1>t, <1>3, OwnerTakeOver
  <2>. QED  BY <2>1 DEF SameBuffers
<1>4. ASSUME NEW h \in Handles, stream[h].local # l, NEW buf, stream' = [stream EXCEPT ![h].buf = buf]
      PROVE  SameBuffers(l)
  <2>1. /\ stream'[h].local = stream[h].local /\ \A g \in Handles \ {h} : stream'[g] = stream[g]
    BY <1>t, <1>4 DEF Streams
  <2>. QED  BY <1>4, <2>1 DEF SameBuffers, Live
<1>5. ASSUME NEW h \in Handles, stream' = [stream EXCEPT ![h].closed = TRUE] PROVE SameBuffers(l)
  <2>1. ~Live(h)' /\ \A g \in Handles \ {h} : stream'[g] = stream[g]
    BY <1>t, <1>5 DEF Streams, Live
  <2>. QED  BY <2>1 DEF SameBuffers, Live
<1>6. ASSUME NEW h \in Handles, NEW s, stream' = [stream EXCEPT ![h] = s], s.local # l PROVE SameBuffers(l)
  <2>1. stream'[h].local # l /\ \A g \in Handles \ {h} : stream'[g] = stream[g]
    BY <1>t, <1>6
  <2>. QED  BY <2>1 DEF SameBuffers, Live
<1>. QED  BY <1>1, <1>2, <1>3, <1>4, <1>5, <1>6

\* What is to be shown of a stream whose object h a step has changed.
LEMMA KeptOwner ==
  ASSUME NEW l \in LocalIds, NEW h \in Handles, fate'[l] = "open",
         \A g \in Handles : Live(g)' /\ stream'[g].local = l => g = h,
         ~lost'[l] =>
           /\ BytesFrom(delivered'[l], l, 0)
           /\ CalledOn(l)' => BytesFrom(call'.out, l, Len(delivered'[l])) /\ taken'[l] = Len(delivered'[l]) + Len(call'.out)
           /\ ~CalledOn(l)' /\ Live(h)' =>
                /\ stream'[h].buf.len > 0 => stream'[h].buf.src = l /\ stream'[h].buf.at = Len(delivered'[l]) + 1
                /\ taken'[l] = Len(delivered'[l]) + stream'[h].buf.len
  PROVE  Kept(l)'
BY DEF Kept, BytesFrom

\* read takes its bytes from the buffer, where they follow what was handed out.
LEMMA KeptReadCall ==
  ASSUME TypeInv, OwnerInv, BytesKept, NEW h \in Handles, NEW n \in 1 .. MaxRead, ReadCall(h, n)
  PROVE  BytesKept'
<1>t. /\ stream \in [Handles -> Streams] /\ delivered \in [LocalIds -> Seq(Bytes)] /\ n \in Nat /\ n > 0
      /\ taken \in [LocalIds -> Nat]
  BY HostAssumption DEF TypeInv, TypeOK
<1>1. PICK l \in LocalIds : l = stream[h].local /\ fate[l] = "open" /\ Live(h)
  BY DEF ReadCall, Usable, Live, OwnerInv, OwnsOpenStream
<1>2. PICK buf \in Buffers : buf = stream[h].buf
  BY <1>t DEF Streams
<1>b. buf.src \in {0} \cup LocalIds /\ buf.at \in Nat /\ buf.len \in Nat
  BY DEF Buffers
<1>3. PICK k \in Nat : k = TakeCount(buf, n) /\ k <= buf.len /\ k <= n /\ (k = buf.len \/ k = n)
  BY <1>b, <1>t, LeastBounds DEF TakeCount
<1>4. PICK out \in Seq(Bytes) : out = BytesOf(buf.src, buf.at, k)
  BY <1>b, BytesOfType
<1>5. /\ call = Idle /\ stream' = [stream EXCEPT ![h].buf = Remaining(buf, k)] /\ UNCHANGED <<fate, lost, taken>>
      /\ IF k = n THEN delivered' = [delivered EXCEPT ![l] = @ \o out] /\ UNCHANGED call
                  ELSE UNCHANGED delivered /\ call' = [op |-> "read", h |-> h, id |-> l, want |-> n - k, out |-> out]
  BY <1>1, <1>2, <1>3, <1>4 DEF ReadCall
<1>6. /\ \A m : ~CalledOn(m)
      /\ k = n => \A m : ~CalledOn(m)'
      /\ k # n => CalledOn(l)' /\ call'.out = out /\ \A m : m # l => ~CalledOn(m)'
  BY <1>5 DEF CalledOn, Reading, Idle
<1>7. \A m \in LocalIds \ {l} : Kept(m)'
  <2>1. \A m \in LocalIds \ {l} : SameBuffers(m)
    BY <1>1, <1>5, BuffersStay
  <2>2. \A m \in LocalIds \ {l} : delivered'[m] = delivered[m]
    BY <1>5, <1>t
  <2>. QED  BY <1>5, <1>6, <2>1, <2>2, KeptSame DEF BytesKept
<1>8. /\ stream'[h].local = l /\ stream'[h].buf = Remaining(buf, k)
      /\ \A g \in Handles : Live(g)' /\ stream'[g].local = l => g = h
  <2>1. /\ stream'[h].local = stream[h].local /\ stream'[h].buf = Remaining(buf, k)
        /\ stream'[h].closed = stream[h].closed /\ \A g \in Handles \ {h} : stream'[g] = stream[g]
    BY <1>5, <1>t DEF Streams
  <2>. QED  BY <1>1, <2>1 DEF OwnerInv, OneOwner, Live
<1>9. ASSUME ~lost[l]
      PROVE  /\ BytesFrom(delivered'[l], l, 0)
             /\ CalledOn(l)' => BytesFrom(call'.out, l, Len(delivered'[l])) /\ taken'[l] = Len(delivered'[l]) + Len(call'.out)
             /\ ~CalledOn(l)' =>
                  /\ stream'[h].buf.len > 0 => stream'[h].buf.src = l /\ stream'[h].buf.at = Len(delivered'[l]) + 1
                  /\ taken'[l] = Len(delivered'[l]) + stream'[h].buf.len
  <2>1. PICK d \in Seq(Bytes) : d = delivered[l]
    BY <1>t
  <2>2. Len(d) \in Nat
    BY LenProperties
  <2>3. /\ BytesFrom(d, l, 0) /\ taken[l] = Len(d) + buf.len
        /\ buf.len > 0 => buf.src = l /\ buf.at = Len(d) + 1
    BY <1>1, <1>2, <1>6, <1>9, <2>1 DEF BytesKept, Kept
  <2>4. BytesFrom(out, l, Len(d)) /\ Len(out) = k
    <3>1. k = 0 \/ (buf.src = l /\ buf.at = Len(d) + 1)
      BY <1>3, <1>b, <2>3
    <3>2. Len(out) = k /\ \A i \in 1 .. k : out[i] = <<buf.src, buf.at + i - 1>>
      BY <1>4, <1>b, BytesOfType
    <3>3. \A i \in 1 .. k : buf.src = l /\ buf.at + i - 1 = Len(d) + i
      BY <1>b, <2>2, <3>1
    <3>. QED  BY <3>2, <3>3 DEF BytesFrom
  <2>5. CASE k = n
    <3>1. delivered'[l] = d \o out
      BY <1>5, <1>t, <2>1, <2>5
    <3>2. Len(d) = 0 + Len(d)
      BY <2>2
    <3>3. BytesFrom(d \o out, l, 0) /\ Len(d \o out) = Len(d) + k
      BY <2>2, <2>3, <2>4, <3>2, ConcatBytes
    <3>4. stream'[h].buf.src = buf.src /\ stream'[h].buf.at = buf.at + k /\ stream'[h].buf.len = buf.len - k
      BY <1>8 DEF Remaining
    <3>5. /\ buf.len - k > 0 => buf.src = l /\ buf.at + k = Len(d) + k + 1
          /\ taken[l] = Len(d) + k + (buf.len - k)
      BY <1>3, <1>b, <2>2, <2>3
    <3>. QED  BY <1>5, <1>6, <2>5, <3>1, <3>3, <3>4, <3>5
  <2>6. CASE k # n
    BY <1>3, <1>5, <1>6, <2>1, <2>3, <2>4, <2>6
  <2>. QED  BY <2>5, <2>6
<1>10. Kept(l)'
  BY <1>1, <1>5, <1>8, <1>9, KeptOwner
<1>. QED  BY <1>7, <1>10 DEF BytesKept

\* read_all takes over what a read has left.
LEMMA KeptReadAllCall ==
  ASSUME TypeInv, OwnerInv, BytesKept, NEW h \in Handles, ReadAllCall(h)
  PROVE  BytesKept'
<1>t. /\ stream \in [Handles -> Streams] /\ delivered \in [LocalIds -> Seq(Bytes)]
      /\ taken \in [LocalIds -> Nat]
  BY DEF TypeInv, TypeOK
<1>1. PICK l \in LocalIds : l = stream[h].local /\ fate[l] = "open" /\ Live(h)
  BY DEF ReadAllCall, Usable, Live, OwnerInv, OwnsOpenStream
<1>2. PICK buf \in Buffers : buf = stream[h].buf
  BY <1>t DEF Streams
<1>b. buf.src \in {0} \cup LocalIds /\ buf.at \in Nat /\ buf.len \in Nat
  BY DEF Buffers
<1>4. PICK out \in Seq(Bytes) : out = BytesOf(buf.src, buf.at, buf.len)
  BY <1>b, BytesOfType
<1>5. /\ call = Idle /\ stream' = [stream EXCEPT ![h].buf = NoData] /\ UNCHANGED <<fate, lost, taken, delivered>>
      /\ call' = [op |-> "read_all", h |-> h, id |-> l, want |-> 0, out |-> out]
  BY <1>1, <1>2, <1>4 DEF ReadAllCall, Drained, histVars, dataVars
<1>6. /\ \A m : ~CalledOn(m)
      /\ CalledOn(l)' /\ call'.out = out /\ \A m : m # l => ~CalledOn(m)'
  BY <1>5 DEF CalledOn, Reading, Idle
<1>7. \A m \in LocalIds \ {l} : Kept(m)'
  <2>1. \A m \in LocalIds \ {l} : SameBuffers(m)
    BY <1>1, <1>5, BuffersStay
  <2>. QED  BY <1>5, <1>6, <2>1, KeptSame DEF BytesKept
<1>8. \A g \in Handles : Live(g)' /\ stream'[g].local = l => g = h
  <2>1. /\ stream'[h].local = stream[h].local
        /\ stream'[h].closed = stream[h].closed /\ \A g \in Handles \ {h} : stream'[g] = stream[g]
    BY <1>5, <1>t DEF Streams
  <2>. QED  BY <1>1, <2>1 DEF OwnerInv, OneOwner, Live
<1>9. ASSUME ~lost[l]
      PROVE  BytesFrom(delivered'[l], l, 0) /\ BytesFrom(call'.out, l, Len(delivered'[l]))
             /\ taken'[l] = Len(delivered'[l]) + Len(call'.out)
  <2>1. Len(delivered[l]) \in Nat
    BY <1>t, LenProperties
  <2>3. /\ BytesFrom(delivered[l], l, 0) /\ taken[l] = Len(delivered[l]) + buf.len
        /\ buf.len > 0 => buf.src = l /\ buf.at = Len(delivered[l]) + 1
    BY <1>1, <1>2, <1>6, <1>9 DEF BytesKept, Kept
  <2>4. BytesFrom(out, l, Len(delivered[l])) /\ Len(out) = buf.len
    <3>1. buf.len = 0 \/ (buf.src = l /\ buf.at = Len(delivered[l]) + 1)
      BY <1>b, <2>3
    <3>2. Len(out) = buf.len /\ \A i \in 1 .. buf.len : out[i] = <<buf.src, buf.at + i - 1>>
      BY <1>4, <1>b, BytesOfType
    <3>3. \A i \in 1 .. buf.len : buf.src = l /\ buf.at + i - 1 = Len(delivered[l]) + i
      BY <1>b, <2>1, <3>1
    <3>. QED  BY <3>2, <3>3 DEF BytesFrom
  <2>. QED  BY <1>5, <1>6, <2>3, <2>4
<1>10. Kept(l)'
  BY <1>1, <1>5, <1>6, <1>8, <1>9, KeptOwner
<1>. QED  BY <1>7, <1>10 DEF BytesKept

\* The payload of a WRTE follows what a call has copied so far; what the call does not
\* take stays in the buffer (receive_more, read, read_all).
LEMMA KeptReceiveWrte ==
  ASSUME TypeInv, OwnerInv, WireInv, BytesKept, ReceiveWrte, Head(toHost).at = taken[call.id] + 1
  PROVE  BytesKept'
<1>t. /\ stream \in [Handles -> Streams] /\ delivered \in [LocalIds -> Seq(Bytes)]
      /\ taken \in [LocalIds -> Nat] /\ lost \in [LocalIds -> BOOLEAN]
      /\ call \in Calls /\ \A m \in LocalIds : m \in {0} \cup LocalIds
  BY DEF TypeInv, TypeOK
<1>1. PICK h \in Handles, l \in LocalIds, f \in Frames :
        /\ h = call.h /\ l = call.id /\ f = Head(toHost) /\ Live(h) /\ stream[h].local = l /\ fate[l] = "open"
        /\ f = toHost[1] /\ 1 \in 1 .. Len(toHost) /\ Is(f, "WRTE", l)
        /\ taken' = [taken EXCEPT ![l] = @ + f.len]
  BY WrteTaken
<1>f. f.arg1 = l /\ f.at \in Nat /\ f.len \in Nat
  BY <1>1 DEF Frames, Is
<1>2. PICK full \in Buffers : full = [src |-> f.arg1, at |-> f.at, len |-> f.len]
  BY <1>f DEF Buffers
<1>3. full.src = l /\ full.at = f.at /\ full.len = f.len
  BY <1>2, <1>f
<1>w. call.want \in Nat /\ call.out \in Seq(Bytes)
  BY <1>t DEF Calls
<1>4. PICK k \in Nat : /\ k = (IF call.op = "read" THEN TakeCount(full, call.want) ELSE f.len)
                       /\ k <= f.len /\ (k = f.len \/ (call.op = "read" /\ k = call.want))
  BY <1>3, <1>f, <1>w, LeastBounds DEF TakeCount
<1>5. PICK b \in Seq(Bytes) : /\ b = BytesOf(full.src, full.at, k) /\ Len(b) = k
                              /\ \A i \in 1 .. k : b[i] = <<l, f.at + i - 1>>
  BY <1>3, <1>f, <1>t, BytesOfType
<1>6. PICK out \in Seq(Bytes) : out = call.out \o b
  BY <1>w, ConcatProperties
<1>7. /\ Reading /\ UNCHANGED fate
      /\ \/ /\ link = "up" /\ UNCHANGED lost
            /\ stream' = [stream EXCEPT ![h].buf = IF call.op = "read" THEN Remaining(full, k) ELSE NoData]
            /\ IF call.op = "read" /\ k = call.want
               THEN call' = Idle /\ delivered' = [delivered EXCEPT ![l] = @ \o out]
               ELSE /\ call' = [call EXCEPT !.want = IF call.op = "read" THEN @ - k ELSE @, !.out = out]
                    /\ UNCHANGED delivered
         \/ /\ stream' = [stream EXCEPT ![h].buf = full] /\ UNCHANGED delivered /\ call' = Idle
            /\ lost' = [lost EXCEPT ![l] = @ \/ call.out # <<>>]
  BY <1>1, <1>2, <1>4, <1>5, <1>6 DEF ReceiveWrte, FailCall
<1>8. /\ CalledOn(l) /\ \A m \in LocalIds \ {l} : ~CalledOn(m) /\ ~CalledOn(m)'
  <2>1. call' = Idle \/ call'.id = l
    BY <1>1, <1>7, <1>t DEF Calls
  <2>. QED  BY <1>1, <1>7, <2>1 DEF CalledOn, Reading, Idle
<1>9. PICK buf : stream' = [stream EXCEPT ![h].buf = buf]
  BY <1>7
<1>10. \A m \in LocalIds \ {l} : Kept(m)'
  <2>1. \A m \in LocalIds \ {l} : SameBuffers(m)
    BY <1>1, <1>9, BuffersStay
  <2>2. \A m \in LocalIds \ {l} : delivered'[m] = delivered[m] /\ lost'[m] = lost[m] /\ taken'[m] = taken[m]
    BY <1>1, <1>7, <1>t
  <2>. QED  BY <1>7, <1>8, <2>1, <2>2, KeptSame DEF BytesKept
<1>11. /\ stream'[h].local = l /\ stream'[h].buf = buf
       /\ \A g \in Handles : Live(g)' /\ stream'[g].local = l => g = h
  <2>1. /\ stream'[h].local = stream[h].local /\ stream'[h].buf = buf
        /\ stream'[h].closed = stream[h].closed /\ \A g \in Handles \ {h} : stream'[g] = stream[g]
    BY <1>9, <1>t DEF Streams
  <2>. QED  BY <1>1, <2>1 DEF OwnerInv, OneOwner, Live
<1>12. f.at = taken[l] + 1
  BY <1>1
<1>13. ASSUME ~lost'[l]
       PROVE  /\ BytesFrom(delivered'[l], l, 0)
              /\ CalledOn(l)' => BytesFrom(call'.out, l, Len(delivered'[l])) /\ taken'[l] = Len(delivered'[l]) + Len(call'.out)
              /\ ~CalledOn(l)' =>
                   /\ stream'[h].buf.len > 0 => stream'[h].buf.src = l /\ stream'[h].buf.at = Len(delivered'[l]) + 1
                   /\ taken'[l] = Len(delivered'[l]) + stream'[h].buf.len
  <2>1. PICK d \in Seq(Bytes) : d = delivered[l]
    BY <1>t
  <2>2. PICK o \in Seq(Bytes) : o = call.out
    BY <1>w
  <2>3. Len(d) \in Nat /\ Len(o) \in Nat /\ Len(d) = 0 + Len(d) /\ taken'[l] = taken[l] + f.len
    BY <1>1, <1>t, LenProperties
  <2>4. ~lost[l]
    BY <1>7, <1>13, <1>t
  <2>5. BytesFrom(d, l, 0) /\ BytesFrom(o, l, Len(d)) /\ taken[l] = Len(d) + Len(o)
    BY <1>8, <2>1, <2>2, <2>4 DEF BytesKept, Kept
  <2>m. PICK m \in Nat : m = Len(d) + Len(o)
    BY <2>3
  <2>6. BytesFrom(b, l, m)
    <3>1. \A i \in 1 .. k : f.at + i - 1 = m + i
      BY <1>f, <1>12, <2>3, <2>5, <2>m
    <3>. QED  BY <1>5, <3>1 DEF BytesFrom
  <2>7. BytesFrom(out, l, Len(d)) /\ Len(out) = Len(o) + k
    <3>1. BytesFrom(o \o b, l, Len(d)) /\ Len(o \o b) = Len(o) + Len(b)
      BY <2>3, <2>5, <2>6, <2>m, ConcatBytes
    <3>. QED  BY <1>5, <1>6, <2>2, <3>1
  <2>8. CASE stream' = [stream EXCEPT ![h].buf = IF call.op = "read" THEN Remaining(full, k) ELSE NoData]
             /\ call.op = "read" /\ k = call.want
             /\ call' = Idle /\ delivered' = [delivered EXCEPT ![l] = @ \o out]
    <3>1. delivered'[l] = d \o out /\ ~CalledOn(l)'
      BY <1>t, <2>1, <2>8 DEF CalledOn, Reading, Idle
    <3>2. BytesFrom(d \o out, l, 0) /\ Len(d \o out) = Len(d) + (Len(o) + k)
      BY <2>3, <2>5, <2>7, ConcatBytes
    <3>3. stream'[h].buf = Remaining(full, k)
      BY <1>t, <2>8 DEF Streams
    <3>4. stream'[h].buf.src = l /\ stream'[h].buf.at = f.at + k /\ stream'[h].buf.len = f.len - k
      BY <1>3, <3>3 DEF Remaining
    <3>5. /\ f.at + k = Len(d) + (Len(o) + k) + 1
          /\ taken'[l] = Len(d) + (Len(o) + k) + (f.len - k)
      BY <1>4, <1>12, <1>f, <2>3, <2>5
    <3>. QED  BY <3>1, <3>2, <3>4, <3>5
  <2>9. CASE ~(call.op = "read" /\ k = call.want) /\ UNCHANGED delivered
             /\ call' = [call EXCEPT !.want = IF call.op = "read" THEN @ - k ELSE @, !.out = out]
    <3>1. call'.out = out /\ call'.op = call.op /\ call'.id = l
      BY <1>1, <1>t, <2>9 DEF Calls
    <3>2. CalledOn(l)'
      BY <1>7, <3>1 DEF CalledOn, Reading
    <3>3. k = f.len
      BY <1>4, <2>9
    <3>4. taken'[l] = Len(d) + (Len(o) + k)
      BY <1>f, <2>3, <2>5, <3>3
    <3>. QED  BY <2>1, <2>5, <2>7, <2>9, <3>1, <3>2, <3>4
  <2>10. CASE stream' = [stream EXCEPT ![h].buf = full] /\ UNCHANGED delivered /\ call' = Idle
              /\ lost' = [lost EXCEPT ![l] = @ \/ call.out # <<>>]
    <3>1. o = <<>>
      <4>1. lost'[l] = (lost[l] \/ call.out # <<>>)
        BY <1>t, <2>10
      <4>. QED  BY <1>13, <2>2, <4>1
    <3>2. Len(o) = 0 /\ ~CalledOn(l)'
      BY <2>10, <3>1, EmptySeq DEF CalledOn, Reading, Idle
    <3>3. stream'[h].buf.src = l /\ stream'[h].buf.at = f.at /\ stream'[h].buf.len = f.len
      BY <1>3, <1>t, <2>10 DEF Streams
    <3>4. f.at = Len(d) + 1 /\ taken'[l] = Len(d) + f.len
      BY <1>12, <1>f, <2>3, <2>5, <3>2
    <3>. QED  BY <2>1, <2>5, <2>10, <3>2, <3>3, <3>4
  <2>. QED  BY <1>7, <2>8, <2>9, <2>10
<1>14. Kept(l)'
  BY <1>1, <1>7, <1>11, <1>13, KeptOwner
<1>. QED  BY <1>10, <1>14 DEF BytesKept

\* What a call has copied is handed out when the device closes its stream, or lost
\* (read_all, read).
LEMMA KeptReceiveClse ==
  ASSUME TypeInv, OwnerInv, BytesKept, ReceiveClse
  PROVE  BytesKept'
<1>t. /\ stream \in [Handles -> Streams] /\ delivered \in [LocalIds -> Seq(Bytes)]
      /\ lost \in [LocalIds -> BOOLEAN] /\ call.out \in Seq(Bytes)
  BY DEF TypeInv, TypeOK, Calls
<1>1. PICK h \in Handles, l \in LocalIds :
        h = call.h /\ l = call.id /\ Live(h) /\ stream[h].local = l /\ fate[l] = "open"
  BY DEF ReceiveClse, OwnerInv, CallOwns, OwnsOpenStream
<1>2. /\ Reading /\ call' = Idle /\ stream' = [stream EXCEPT ![h].closed = TRUE] /\ UNCHANGED <<fate, taken>>
      /\ \/ delivered' = [delivered EXCEPT ![l] = @ \o call.out] /\ UNCHANGED lost
         \/ UNCHANGED delivered /\ lost' = [lost EXCEPT ![l] = @ \/ call.out # <<>>]
  BY <1>1 DEF ReceiveClse, FailCall
<1>3. /\ CalledOn(l) /\ \A m \in LocalIds \ {l} : ~CalledOn(m)
      /\ \A m \in LocalIds : ~CalledOn(m)'
  BY <1>1, <1>2 DEF CalledOn, Reading, Idle
<1>4. \A m \in LocalIds \ {l} : Kept(m)'
  <2>1. \A m \in LocalIds : SameBuffers(m)
    BY <1>2, BuffersStay
  <2>2. \A m \in LocalIds \ {l} : delivered'[m] = delivered[m] /\ lost'[m] = lost[m]
    BY <1>2, <1>t
  <2>. QED  BY <1>2, <1>3, <2>1, <2>2, KeptSame DEF BytesKept
<1>5. \A g \in Handles : Live(g)' => stream'[g].local # l
  <2>1. ~Live(h)' /\ \A g \in Handles \ {h} : stream'[g] = stream[g]
    BY <1>2, <1>t DEF Streams, Live
  <2>. QED  BY <1>1, <2>1 DEF OwnerInv, OneOwner, Live
<1>6. ASSUME ~lost'[l] PROVE BytesFrom(delivered'[l], l, 0)
  <2>1. PICK d \in Seq(Bytes), o \in Seq(Bytes) : d = delivered[l] /\ o = call.out
    BY <1>t
  <2>2. ~lost[l]
    BY <1>2, <1>6, <1>t
  <2>3. BytesFrom(d, l, 0) /\ BytesFrom(o, l, Len(d))
    BY <1>3, <2>1, <2>2 DEF BytesKept, Kept
  <2>4. Len(d) \in Nat /\ Len(d) = 0 + Len(d)
    BY LenProperties
  <2>5. BytesFrom(d \o o, l, 0)
    BY <2>3, <2>4, ConcatBytes
  <2>6. delivered'[l] = d \o o \/ delivered'[l] = d
    BY <1>2, <1>t, <2>1
  <2>. QED  BY <2>3, <2>5, <2>6
<1>7. Kept(l)'
  <2>1. fate'[l] = "open" /\ ~CalledOn(l)' /\ ~(Live(h)' /\ stream'[h].local = l) /\ stream'[h].local = l
    <3>1. stream'[h].local = l
      BY <1>1, <1>2, <1>t DEF Streams
    <3>. QED  BY <1>1, <1>2, <1>3, <1>5, <3>1
  <2>2. ~Live(h)'
    BY <2>1
  <2>3. \A g \in Handles : Live(g)' /\ stream'[g].local = l => g = h
    BY <1>5
  <2>4. ~lost'[l] =>
          /\ BytesFrom(delivered'[l], l, 0)
          /\ CalledOn(l)' => BytesFrom(call'.out, l, Len(delivered'[l])) /\ taken'[l] = Len(delivered'[l]) + Len(call'.out)
          /\ ~CalledOn(l)' /\ Live(h)' =>
               /\ stream'[h].buf.len > 0 => stream'[h].buf.src = l /\ stream'[h].buf.at = Len(delivered'[l]) + 1
               /\ taken'[l] = Len(delivered'[l]) + stream'[h].buf.len
    BY <1>6, <2>1, <2>2
  <2>. QED  BY <2>1, <2>3, <2>4, KeptOwner
<1>. QED  BY <1>4, <1>7 DEF BytesKept

\* A call that fails has lost what it copied, and has left nothing in the buffer.
LEMMA KeptFailCall ==
  ASSUME TypeInv, OwnerInv, BytesKept, Reading, FailCall, UNCHANGED <<stream, fate, delivered, taken>>
  PROVE  BytesKept'
<1>t. /\ delivered \in [LocalIds -> Seq(Bytes)] /\ lost \in [LocalIds -> BOOLEAN] /\ call.out \in Seq(Bytes)
      /\ taken \in [LocalIds -> Nat]
  BY DEF TypeInv, TypeOK, Calls
<1>1. PICK h \in Handles, l \in LocalIds :
        h = call.h /\ l = call.id /\ Live(h) /\ stream[h].local = l /\ fate[l] = "open" /\ stream[h].buf.len = 0
  BY DEF OwnerInv, CallOwns, OwnsOpenStream
<1>2. call' = Idle /\ lost' = [lost EXCEPT ![l] = @ \/ call.out # <<>>]
  BY <1>1 DEF FailCall
<1>3. /\ CalledOn(l) /\ \A m \in LocalIds \ {l} : ~CalledOn(m)
      /\ \A m \in LocalIds : ~CalledOn(m)'
  BY <1>1, <1>2 DEF CalledOn, Reading, Idle
<1>4. \A m \in LocalIds \ {l} : Kept(m)'
  <2>1. \A m \in LocalIds : SameBuffers(m)
    BY BuffersStay
  <2>2. \A m \in LocalIds \ {l} : lost'[m] = lost[m]
    BY <1>2, <1>t
  <2>. QED  BY <1>2, <1>3, <2>1, <2>2, KeptSame DEF BytesKept
<1>5. \A g \in Handles : Live(g)' /\ stream'[g].local = l => g = h
  BY <1>1 DEF OwnerInv, OneOwner, Live
<1>6. ASSUME ~lost'[l]
      PROVE  /\ BytesFrom(delivered[l], l, 0)
             /\ taken[l] = Len(delivered[l]) + 0
  <2>1. ~lost[l] /\ call.out = <<>>
    <3>1. lost'[l] = (lost[l] \/ call.out # <<>>)
      BY <1>2, <1>t
    <3>. QED  BY <1>6, <3>1
  <2>2. Len(call.out) = 0
    BY <2>1, EmptySeq
  <2>3. BytesFrom(delivered[l], l, 0) /\ taken[l] = Len(delivered[l]) + Len(call.out)
    BY <1>3, <2>1 DEF BytesKept, Kept
  <2>. QED  BY <2>2, <2>3
<1>7. Kept(l)'
  <2>1. /\ fate'[l] = "open" /\ ~CalledOn(l)' /\ stream'[h].buf.len = 0
        /\ delivered'[l] = delivered[l] /\ taken'[l] = taken[l]
    BY <1>1, <1>3
  <2>2. ~(stream'[h].buf.len > 0)
    BY <2>1
  <2>3. ~lost'[l] =>
          /\ BytesFrom(delivered'[l], l, 0)
          /\ CalledOn(l)' => BytesFrom(call'.out, l, Len(delivered'[l])) /\ taken'[l] = Len(delivered'[l]) + Len(call'.out)
          /\ ~CalledOn(l)' /\ Live(h)' =>
               /\ stream'[h].buf.len > 0 => stream'[h].buf.src = l /\ stream'[h].buf.at = Len(delivered'[l]) + 1
               /\ taken'[l] = Len(delivered'[l]) + stream'[h].buf.len
    BY <1>6, <2>1, <2>2
  <2>. QED  BY <1>5, <2>1, <2>3, KeptOwner
<1>. QED  BY <1>4, <1>7 DEF BytesKept

\* A stream that has just been opened has handed out nothing.
LEMMA KeptOpenAccepted ==
  ASSUME TypeInv, OwnerInv, BytesKept, OpenAccepted, taken[call.id] = 0
  PROVE  BytesKept'
<1>t. /\ stream \in [Handles -> Streams] /\ taken \in [LocalIds -> Nat]
      /\ fate \in [LocalIds -> {"none", "opening", "open", "refused", "failed"}]
  BY DEF TypeInv, TypeOK
<1>1. PICK h \in Handles, l \in LocalIds : h = call.h /\ l = call.id /\ fate[l] = "opening"
  BY DEF OpenAccepted, OwnerInv, CallOwns
<1>2. PICK s : s = NewStream(l, Head(toHost).arg0) /\ s.local = l /\ s.buf = NoData
  <2>1. /\ NewStream(l, Head(toHost).arg0).local = l
        /\ NewStream(l, Head(toHost).arg0).buf = NoData
    BY DEF NewStream
  <2>. QED  BY <2>1
<1>3. /\ call.op = "open" /\ call' = Idle /\ UNCHANGED <<delivered, lost, taken>>
      /\ stream' = [stream EXCEPT ![h] = s] /\ fate' = [fate EXCEPT ![l] = "open"]
  BY <1>1, <1>2 DEF OpenAccepted, dataVars
<1>4. \A m \in LocalIds : ~CalledOn(m) /\ ~CalledOn(m)'
  BY <1>3 DEF CalledOn, Reading, Idle
<1>5. \A m \in LocalIds \ {l} : Kept(m)'
  <2>1. \A m \in LocalIds \ {l} : SameBuffers(m)
    BY <1>2, <1>3, BuffersStay
  <2>2. \A m \in LocalIds \ {l} : fate'[m] = fate[m]
    BY <1>3, <1>t
  <2>. QED  BY <1>3, <1>4, <2>1, <2>2, KeptSame DEF BytesKept
<1>6. /\ fate'[l] = "open" /\ stream'[h].buf.len = 0
      /\ \A g \in Handles : Live(g)' /\ stream'[g].local = l => g = h
  <2>1. stream'[h] = s /\ \A g \in Handles \ {h} : stream'[g] = stream[g]
    BY <1>3, <1>t
  <2>. QED  BY <1>1, <1>2, <1>3, <1>t, <2>1 DEF OwnerInv, OwnsOpenStream, Live, NoData
<1>7. delivered[l] = <<>> /\ taken[l] = 0 /\ Len(delivered[l]) = 0
  BY <1>1, EmptySeq DEF BytesKept, Kept
<1>8. BytesFrom(delivered[l], l, 0)
  BY <1>7 DEF BytesFrom
<1>9. Kept(l)'
  <2>1. ~CalledOn(l)' /\ delivered'[l] = delivered[l] /\ taken'[l] = taken[l] /\ ~(stream'[h].buf.len > 0)
    BY <1>3, <1>4, <1>6
  <2>2. /\ BytesFrom(delivered'[l], l, 0)
        /\ CalledOn(l)' => BytesFrom(call'.out, l, Len(delivered'[l])) /\ taken'[l] = Len(delivered'[l]) + Len(call'.out)
        /\ ~CalledOn(l)' /\ Live(h)' =>
             /\ stream'[h].buf.len > 0 => stream'[h].buf.src = l /\ stream'[h].buf.at = Len(delivered'[l]) + 1
             /\ taken'[l] = Len(delivered'[l]) + stream'[h].buf.len
    BY <1>6, <1>7, <1>8, <2>1
  <2>. QED  BY <1>6, <2>2, KeptOwner
<1>. QED  BY <1>5, <1>9 DEF BytesKept

\* Every step keeps the bytes, if a WRTE that a call takes is the next of its stream.
LEMMA KeptStep ==
  ASSUME TypeInv, OwnerInv, WireInv, BytesKept, [Next]_vars,
         ReceiveWrte => Head(toHost).at = taken[call.id] + 1,
         OpenAccepted => taken[call.id] = 0
  PROVE  BytesKept'
<1>1. ASSUME \A l \in LocalIds : SameBuffers(l), UNCHANGED <<delivered, lost, taken>>,
             \A l \in LocalIds : fate[l] = "open" => fate'[l] = "open",
             UNCHANGED call \/ (call.op \in {"none", "open"} /\ call'.op \in {"none", "open"})
      PROVE  BytesKept'
  <2>1. \A l \in LocalIds : (CalledOn(l)' <=> CalledOn(l)) /\ (CalledOn(l) => call'.out = call.out)
    BY <1>1 DEF CalledOn, Reading
  <2>. QED  BY <1>1, <2>1, KeptSame DEF BytesKept
<1>2. ASSUME \/ \E h \in Handles : Write(h) \/ Destroy(h) \/ OpenCall(h)
             \/ \E a, b \in Handles : MoveConstruct(a, b) \/ MoveAssign(a, b)
             \/ OpenSkip \/ OpenRefused \/ OpenReceiveFails \/ ReceiveSkip
      PROVE  BytesKept'
  <2>1. UNCHANGED <<delivered, lost, taken>>
    BY <1>2 DEF Write, Destroy, OpenCall, MoveConstruct, MoveAssign, OpenSkip, OpenRefused, OpenReceiveFails,
                ReceiveSkip, histVars, dataVars
  <2>2. UNCHANGED call \/ (call.op \in {"none", "open"} /\ call'.op \in {"none", "open"})
    <3>1. ASSUME NEW h \in Handles, OpenCall(h) PROVE call.op \in {"none", "open"} /\ call'.op \in {"none", "open"}
      <4>1. /\ call = Idle
            /\ call' = Idle \/ call' = [Idle EXCEPT !.op = "open", !.h = h, !.id = next_local_id]
        BY <3>1 DEF OpenCall
      <4>2. [Idle EXCEPT !.op = "open", !.h = h, !.id = next_local_id].op = "open" /\ Idle.op = "none"
        BY DEF Idle
      <4>. QED  BY <4>1, <4>2
    <3>. QED  BY <1>2, <3>1 DEF Write, Destroy, MoveConstruct, MoveAssign, OpenSkip, OpenRefused,
                OpenReceiveFails, ReceiveSkip, AbandonOpen, Idle, hostVars
  <2>3. \/ UNCHANGED stream
        \/ \E h \in Handles : stream' = [stream EXCEPT ![h] = NoStream]
        \/ \E a, b \in Handles : a # b /\ TakeOver(a, b)
    BY <1>2 DEF Write, Destroy, OpenCall, MoveConstruct, MoveAssign, OpenSkip, OpenRefused, OpenReceiveFails,
                ReceiveSkip, hostVars
  <2>4. \A l \in LocalIds : SameBuffers(l)
    BY <2>3, BuffersStay
  <2>5. \A l \in LocalIds : fate[l] = "open" => fate'[l] = "open"
    BY <1>2, OpenStays DEF HostStep, CallerStep, ReceiveStep, FailureStep
  <2>. QED  BY <1>1, <2>1, <2>2, <2>4, <2>5
<1>3. ASSUME ReceiveUnexpected \/ ReadReceiveFails PROVE BytesKept'
  BY <1>3, KeptFailCall DEF ReceiveUnexpected, ReadReceiveFails
<1>4. ASSUME UNCHANGED <<hostVars, histVars>> PROVE BytesKept'
  <2>1. UNCHANGED <<stream, call, delivered, lost, taken, fate>>
    BY <1>4 DEF hostVars, histVars, dataVars
  <2>2. \A l \in LocalIds : SameBuffers(l)
    BY <2>1, BuffersStay
  <2>. QED  BY <1>1, <2>1, <2>2
<1>5. ASSUME \/ Quiet(DeviceStep)
             \/ Quiet(LinkDown /\ UNCHANGED devVars)
             \/ Quiet(call = Idle /\ ConnectionClose /\ UNCHANGED devVars)
             \/ UNCHANGED vars
      PROVE  BytesKept'
  BY <1>4, <1>5 DEF Quiet, vars, hostVars
<1>. QED
  BY <1>2, <1>3, <1>5, KeptReadCall, KeptReadAllCall, KeptReceiveWrte, KeptReceiveClse, KeptOpenAccepted
     DEF Next, HostStep, CallerStep, ReceiveStep, FailureStep

-----------------------------------------------------------------------------
(* One Stream object.                                                       *)

\* A frame that is dropped and is no WRTE of l leaves the order of l's frames.
LEMMA FollowsDrop ==
  ASSUME toHost \in Seq(Frames), toHost # <<>>, toHost' = Tail(toHost), NEW l, ~WrteAt(l, 1),
         taken'[l] = taken[l], NEW i \in 1 .. Len(toHost), NEW at, Follows(l, i + 1, at)
  PROVE  Follows(l, i, at)'
<1>1. /\ Len(toHost) \in Nat /\ Len(toHost') = Len(toHost) - 1
      /\ \A j \in 1 .. Len(toHost') : toHost'[j] = toHost[j + 1]
  BY TailFacts
<1>2. \A j \in 1 .. i - 1 : /\ j \in 1 .. Len(toHost') /\ j + 1 \in 1 .. (i + 1) - 1
                            /\ WrteAt(l, j)' <=> WrteAt(l, j + 1)
                            /\ toHost'[j] = toHost[j + 1]
  BY <1>1 DEF WrteAt, Is
<1>3. CASE at = taken[l] + 1 /\ \A j \in 1 .. (i + 1) - 1 : ~WrteAt(l, j)
  BY <1>2, <1>3 DEF Follows
<1>4. ASSUME NEW j \in 1 .. (i + 1) - 1, WrteAt(l, j), at = toHost[j].at + toHost[j].len,
             \A k \in j + 1 .. (i + 1) - 1 : ~WrteAt(l, k)
      PROVE  Follows(l, i, at)'
  <2>1. PICK m \in 1 .. i - 1 : m + 1 = j
    <3>1. j # 1
      BY <1>4
    <3>2. j - 1 \in 1 .. i - 1 /\ (j - 1) + 1 = j
      BY <3>1
    <3>. QED  BY <3>2
  <2>2. WrteAt(l, m)' /\ at = toHost'[m].at + toHost'[m].len
    BY <1>2, <1>4, <2>1
  <2>3. \A k \in m + 1 .. i - 1 : ~WrteAt(l, k)'
    <3>1. \A k \in m + 1 .. i - 1 : k \in 1 .. i - 1 /\ k + 1 \in j + 1 .. (i + 1) - 1
      BY <2>1
    <3>. QED  BY <1>2, <1>4, <3>1
  <2>. QED  BY <2>2, <2>3 DEF Follows
<1>. QED  BY <1>3, <1>4 DEF Follows

\* What comes after a WRTE of l follows it once it is taken (receive_more).
LEMMA FollowsTake ==
  ASSUME toHost \in Seq(Frames), toHost # <<>>, toHost' = Tail(toHost), NEW l, WrteAt(l, 1),
         taken'[l] + 1 = toHost[1].at + toHost[1].len, NEW i \in 1 .. Len(toHost), NEW at, Follows(l, i + 1, at)
  PROVE  Follows(l, i, at)'
<1>1. /\ Len(toHost) \in Nat /\ Len(toHost') = Len(toHost) - 1
      /\ \A j \in 1 .. Len(toHost') : toHost'[j] = toHost[j + 1]
  BY TailFacts
<1>2. \A j \in 1 .. i - 1 : /\ j \in 1 .. Len(toHost') /\ j + 1 \in 1 .. (i + 1) - 1
                            /\ WrteAt(l, j)' <=> WrteAt(l, j + 1)
                            /\ toHost'[j] = toHost[j + 1]
  BY <1>1 DEF WrteAt, Is
<1>3. 1 \in 1 .. (i + 1) - 1
  BY <1>1
<1>4. PICK j \in 1 .. (i + 1) - 1 : /\ WrteAt(l, j) /\ at = toHost[j].at + toHost[j].len
                                    /\ \A k \in j + 1 .. (i + 1) - 1 : ~WrteAt(l, k)
  BY <1>3 DEF Follows
<1>5. CASE j = 1
  <2>1. at = taken'[l] + 1
    BY <1>4, <1>5
  <2>2. \A k \in 1 .. i - 1 : k + 1 \in j + 1 .. (i + 1) - 1
    BY <1>5
  <2>. QED  BY <1>2, <1>4, <2>1, <2>2 DEF Follows
<1>6. CASE j # 1
  <2>1. PICK m \in 1 .. i - 1 : m + 1 = j
    <3>1. j - 1 \in 1 .. i - 1 /\ (j - 1) + 1 = j
      BY <1>6
    <3>. QED  BY <3>1
  <2>2. WrteAt(l, m)' /\ at = toHost'[m].at + toHost'[m].len
    BY <1>2, <1>4, <2>1
  <2>3. \A k \in m + 1 .. i - 1 : ~WrteAt(l, k)'
    <3>1. \A k \in m + 1 .. i - 1 : k \in 1 .. i - 1 /\ k + 1 \in j + 1 .. (i + 1) - 1
      BY <2>1
    <3>. QED  BY <1>2, <1>4, <3>1
  <2>. QED  BY <2>2, <2>3 DEF Follows
<1>. QED  BY <1>5, <1>6

\* Only the frames before a place count.
LEMMA FollowsSame ==
  ASSUME NEW l, NEW i \in Nat, NEW at, taken'[l] = taken[l], Follows(l, i, at),
         Len(toHost) \in Nat, Len(toHost') \in Nat, i <= Len(toHost) + 1, i <= Len(toHost') + 1,
         \A j \in 1 .. i - 1 : toHost'[j] = toHost[j]
  PROVE  Follows(l, i, at)'
<1>1. \A j \in 1 .. i - 1 : (WrteAt(l, j)' <=> WrteAt(l, j)) /\ toHost'[j] = toHost[j]
  <2>1. \A j \in 1 .. i - 1 : j \in 1 .. Len(toHost) /\ j \in 1 .. Len(toHost')
    OBVIOUS
  <2>. QED  BY <2>1 DEF WrteAt, Is
<1>2. CASE at = taken[l] + 1 /\ \A j \in 1 .. i - 1 : ~WrteAt(l, j)
  BY <1>1, <1>2 DEF Follows
<1>3. ASSUME NEW j \in 1 .. i - 1, WrteAt(l, j), at = toHost[j].at + toHost[j].len,
             \A k \in j + 1 .. i - 1 : ~WrteAt(l, k)
      PROVE  Follows(l, i, at)'
  <2>1. \A k \in j + 1 .. i - 1 : k \in 1 .. i - 1
    OBVIOUS
  <2>. QED  BY <1>1, <1>3, <2>1 DEF Follows
<1>. QED  BY <1>2, <1>3 DEF Follows

\* What is to be shown of the frames after a step.
LEMMA StreamedIntro ==
  ASSUME NEW l,
         \A i \in 1 .. Len(toHost') : \A at :
           at = toHost'[i].at /\ Is(toHost'[i], "WRTE", l) => Follows(l, i, at)',
         \A i \in 1 .. Len(toHost') : \A at :
           at = sent'[l] + 1 /\ Is(toHost'[i], "CLSE", l) => Follows(l, i, at)',
         \A i, at : link' = "up" /\ i = Len(toHost') + 1 /\ at = sent'[l] + 1 => Follows(l, i, at)'
  PROVE  Streamed(l)'
<1>1. ASSUME NEW i \in 1 .. Len(toHost')
      PROVE  (Is(toHost[i], "WRTE", l) => Follows(l, i, toHost[i].at))'
             /\ (Is(toHost[i], "CLSE", l) => Follows(l, i, sent[l] + 1))'
  BY DEF Is
<1>2. (link = "up" => Follows(l, Len(toHost) + 1, sent[l] + 1))'
  OBVIOUS
<1>. QED  BY <1>1, <1>2 DEF Streamed

\* The first frame for the host is dropped, or is a WRTE of l that is taken.
LEMMA StreamedDrop ==
  ASSUME toHost \in Seq(Frames), NEW l, Streamed(l), UNCHANGED link, toHost # <<>>, toHost' = Tail(toHost),
         \/ ~WrteAt(l, 1) /\ taken'[l] = taken[l]
         \/ WrteAt(l, 1) /\ taken'[l] + 1 = toHost[1].at + toHost[1].len,
         sent'[l] = sent[l]
  PROVE  Streamed(l)'
<1>1. /\ Len(toHost) \in Nat /\ Len(toHost') = Len(toHost) - 1 /\ Len(toHost) >= 1
      /\ \A j \in 1 .. Len(toHost') : j + 1 \in 1 .. Len(toHost) /\ toHost'[j] = toHost[j + 1]
  BY TailFacts
<1>2. ASSUME NEW i \in 1 .. Len(toHost), NEW at, Follows(l, i + 1, at) PROVE Follows(l, i, at)'
  BY <1>2, FollowsDrop, FollowsTake
<1>3. ASSUME NEW i \in 1 .. Len(toHost'), NEW at
      PROVE  /\ at = toHost'[i].at /\ Is(toHost'[i], "WRTE", l) => Follows(l, i, at)'
             /\ at = sent'[l] + 1 /\ Is(toHost'[i], "CLSE", l) => Follows(l, i, at)'
  <2>1. i \in 1 .. Len(toHost) /\ i + 1 \in 1 .. Len(toHost) /\ toHost'[i] = toHost[i + 1]
    BY <1>1
  <2>2. /\ Is(toHost[i + 1], "WRTE", l) => Follows(l, i + 1, toHost[i + 1].at)
        /\ Is(toHost[i + 1], "CLSE", l) => Follows(l, i + 1, sent[l] + 1)
    BY <2>1 DEF Streamed
  <2>. QED  BY <1>2, <2>1, <2>2
<1>4. ASSUME NEW i, NEW at, link' = "up", i = Len(toHost') + 1, at = sent'[l] + 1 PROVE Follows(l, i, at)'
  <2>1. i \in 1 .. Len(toHost) /\ i = Len(toHost) /\ link = "up"
    BY <1>1, <1>4
  <2>2. Follows(l, i + 1, at)
    BY <1>4, <2>1 DEF Streamed
  <2>. QED  BY <1>2, <2>1, <2>2
<1>. QED  BY <1>3, <1>4, StreamedIntro

\* Fewer frames from the end of a link that is down.
LEMMA StreamedCut ==
  ASSUME toHost \in Seq(Frames), NEW l, Streamed(l), link' # "up",
         NEW k \in 0 .. Len(toHost), toHost' = SubSeq(toHost, 1, k), taken'[l] = taken[l], sent'[l] = sent[l]
  PROVE  Streamed(l)'
<1>1. /\ Len(toHost) \in Nat /\ Len(toHost') = k
      /\ \A i \in 1 .. k : i \in 1 .. Len(toHost) /\ toHost'[i] = toHost[i]
  BY PrefixFacts
<1>2. ASSUME NEW i \in 1 .. Len(toHost'), NEW at, Follows(l, i, at) PROVE Follows(l, i, at)'
  <2>1. /\ i \in Nat /\ i <= Len(toHost) + 1 /\ i <= Len(toHost') + 1 /\ Len(toHost') \in Nat
        /\ \A j \in 1 .. i - 1 : toHost'[j] = toHost[j]
    BY <1>1
  <2>. QED  BY <1>1, <1>2, <2>1, FollowsSame
<1>3. ASSUME NEW i \in 1 .. Len(toHost'), NEW at
      PROVE  /\ at = toHost'[i].at /\ Is(toHost'[i], "WRTE", l) => Follows(l, i, at)'
             /\ at = sent'[l] + 1 /\ Is(toHost'[i], "CLSE", l) => Follows(l, i, at)'
  BY <1>1, <1>2 DEF Streamed
<1>. QED  BY <1>3, StreamedIntro

\* The device sends a frame; a WRTE of l is the next one in order.
LEMMA StreamedAppend ==
  ASSUME toHost \in Seq(Frames), NEW l, Streamed(l), link = "up", NEW f \in Frames, toHost' = Append(toHost, f),
         taken'[l] = taken[l],
         IF Is(f, "WRTE", l) THEN f.at = sent[l] + 1 /\ sent'[l] + 1 = f.at + f.len ELSE sent'[l] = sent[l],
         sent[l] = sent'[l] \/ \A i \in 1 .. Len(toHost) : ~Is(toHost[i], "CLSE", l)
  PROVE  Streamed(l)'
<1>1. /\ Len(toHost) \in Nat /\ Len(toHost') = Len(toHost) + 1 /\ toHost'[Len(toHost) + 1] = f
      /\ \A i \in 1 .. Len(toHost) : toHost'[i] = toHost[i]
      /\ \A i \in 1 .. Len(toHost') : i \in 1 .. Len(toHost) \/ i = Len(toHost) + 1
  BY AppendFacts
<1>2. ASSUME NEW i \in 1 .. Len(toHost) + 1, NEW at, Follows(l, i, at) PROVE Follows(l, i, at)'
  <2>1. /\ i \in Nat /\ i <= Len(toHost) + 1 /\ i <= Len(toHost') + 1 /\ Len(toHost') \in Nat
        /\ \A j \in 1 .. i - 1 : toHost'[j] = toHost[j]
    BY <1>1
  <2>. QED  BY <1>1, <1>2, <2>1, FollowsSame
<1>3. \A i : i = Len(toHost) + 1 => Follows(l, i, sent[l] + 1)
  BY DEF Streamed
<1>4. ASSUME NEW i \in 1 .. Len(toHost'), NEW at
      PROVE  /\ at = toHost'[i].at /\ Is(toHost'[i], "WRTE", l) => Follows(l, i, at)'
             /\ at = sent'[l] + 1 /\ Is(toHost'[i], "CLSE", l) => Follows(l, i, at)'
  <2>1. CASE i \in 1 .. Len(toHost)
    <3>1. /\ Is(toHost[i], "WRTE", l) => Follows(l, i, toHost[i].at)
          /\ Is(toHost[i], "CLSE", l) => Follows(l, i, sent[l] + 1) /\ sent'[l] = sent[l]
          /\ toHost'[i] = toHost[i]
      BY <1>1, <2>1 DEF Streamed
    <3>2. i \in 1 .. Len(toHost) + 1
      BY <1>1
    <3>. QED  BY <1>2, <3>1, <3>2
  <2>2. CASE i = Len(toHost) + 1
    <3>1. toHost'[i] = f /\ i \in 1 .. Len(toHost) + 1 /\ Follows(l, i, sent[l] + 1)
      BY <1>1, <1>3, <2>2
    <3>2. Is(f, "WRTE", l) => f.at = sent[l] + 1
      OBVIOUS
    <3>3. Is(f, "CLSE", l) => sent'[l] = sent[l]
      BY DEF Is
    <3>. QED  BY <1>2, <3>1, <3>2, <3>3
  <2>. QED  BY <1>1, <2>1, <2>2
<1>5. ASSUME NEW i, NEW at, i = Len(toHost') + 1, at = sent'[l] + 1 PROVE Follows(l, i, at)'
  <2>1. CASE Is(f, "WRTE", l)
    <3>1. PICK m : m = Len(toHost) + 1 /\ m \in 1 .. i - 1 /\ m \in 1 .. Len(toHost') /\ toHost'[m] = f
      BY <1>1, <1>5
    <3>2. WrteAt(l, m)'
      BY <2>1, <3>1 DEF WrteAt, Is
    <3>3. \A k : k \notin m + 1 .. i - 1
      BY <1>1, <1>5, <3>1
    <3>4. at = toHost'[m].at + toHost'[m].len
      BY <1>5, <2>1, <3>1
    <3>. QED  BY <3>1, <3>2, <3>3, <3>4 DEF Follows
  <2>2. CASE ~Is(f, "WRTE", l)
    <3>1. PICK m \in 1 .. Len(toHost) + 1 : m = Len(toHost) + 1 /\ i = m + 1 /\ i - 1 = m /\ m \in Nat
      BY <1>1, <1>5
    <3>2. Follows(l, m, at)'
      BY <1>2, <1>3, <1>5, <2>2, <3>1
    <3>3. ~WrteAt(l, m)'
      BY <1>1, <2>2, <3>1 DEF WrteAt, Is
    <3>4. \A j : j \in 1 .. i - 1 => j \in 1 .. m - 1 \/ j = m
      BY <3>1
    <3>5. \A j : j \in 1 .. m - 1 => j \in 1 .. i - 1
      BY <3>1
    <3>6. \A j \in 1 .. m - 1 : \A k \in j + 1 .. i - 1 : k \in j + 1 .. m - 1 \/ k = m
      BY <3>1
    <3>. QED  BY <3>2, <3>3, <3>4, <3>5, <3>6 DEF Follows
  <2>. QED  BY <2>1, <2>2
<1>. QED  BY <1>4, <1>5, StreamedIntro

\* A step that leaves the frames for the host, and what was taken and sent of l.
LEMMA StreamedSame ==
  ASSUME NEW l, Streamed(l), UNCHANGED toHost, taken'[l] = taken[l], sent'[l] = sent[l],
         link' = "up" => link = "up"
  PROVE  Streamed(l)'
<1>1. \A i, at : Follows(l, i, at) => Follows(l, i, at)'
  BY DEF Follows, WrteAt, Is
<1>. QED  BY <1>1, StreamedIntro DEF Streamed

\* Of the device and the link a step of the host sees the frames only, and only a WRTE it
\* takes counts as taken.
LEMMA HostLeaves ==
  ASSUME HostStep
  PROVE  UNCHANGED <<link, sent, dstat>> /\ (~ReceiveWrte => UNCHANGED taken)
<1>1. ASSUME NEW h \in Handles, OpenCall(h) PROVE UNCHANGED <<link, sent, dstat, taken>>
  BY <1>1 DEF OpenCall, devVars, dataVars
<1>2. ASSUME NEW h \in Handles, Write(h) \/ ReadAllCall(h) \/ Destroy(h) \/ \E n \in 1 .. MaxRead : ReadCall(h, n)
      PROVE  UNCHANGED <<link, sent, dstat, taken>>
  BY <1>2 DEF Write, ReadAllCall, Destroy, ReadCall, devVars, dataVars, histVars
<1>3. ASSUME NEW a \in Handles, NEW b \in Handles, MoveConstruct(a, b) \/ MoveAssign(a, b)
      PROVE  UNCHANGED <<link, sent, dstat, taken>>
  BY <1>3 DEF MoveConstruct, MoveAssign, devVars, dataVars, histVars
<1>4. ASSUME OpenSkip \/ OpenAccepted \/ OpenRefused \/ OpenReceiveFails PROVE UNCHANGED <<link, sent, dstat, taken>>
  BY <1>4 DEF OpenSkip, OpenAccepted, OpenRefused, OpenReceiveFails, devVars, dataVars, histVars
<1>5. ASSUME ReceiveSkip \/ ReceiveClse \/ ReceiveUnexpected \/ ReadReceiveFails
      PROVE  UNCHANGED <<link, sent, dstat, taken>>
  BY <1>5 DEF ReceiveSkip, ReceiveClse, ReceiveUnexpected, ReadReceiveFails, devVars, dataVars, histVars
<1>6. ASSUME ReceiveWrte PROVE UNCHANGED <<link, sent, dstat>>
  BY <1>6 DEF ReceiveWrte, devVars
<1>. QED
  BY <1>1, <1>2, <1>3, <1>4, <1>5, <1>6 DEF HostStep, CallerStep, ReceiveStep, FailureStep

\* With one object, a call in progress is on the only stream that is awaited.
LEMMA AwaitedCall ==
  ASSUME OwnerInv, OneHandle, call.op = "open" \/ Reading, NEW l \in LocalIds, Awaited(l)
  PROVE  l = call.id /\ (Reading => stream[call.h].local = l)
<1>1. CASE fate[l] = "opening"
  BY <1>1 DEF OwnerInv, ClosingHistory, Reading
<1>2. CASE Owned(l)
  <2>1. PICK g \in Handles : Live(g) /\ stream[g].local = l /\ stream[g] # NoStream
    BY <1>2 DEF Owned, Live, NoStream
  <2>2. call.h \in Handles /\ (call.op = "open" => stream[call.h] = NoStream)
        /\ (Reading => stream[call.h].local = call.id)
    BY DEF OwnerInv, CallOwns
  <2>3. g = call.h
    BY <2>1, <2>2 DEF OneHandle
  <2>. QED  BY <2>1, <2>2, <2>3
<1>. QED  BY <1>1, <1>2 DEF Awaited

\* A stream is awaited when it is opened, and until it is closed or given up.
LEMMA AwaitedStays ==
  ASSUME TypeInv, OwnerInv, HostStep, NEW l \in LocalIds, Awaited(l)',
         \A h \in Handles : OpenCall(h) => l # next_local_id
  PROVE  Awaited(l)
<1>t. /\ stream \in [Handles -> Streams]
      /\ fate \in [LocalIds -> {"none", "opening", "open", "refused", "failed"}]
  BY DEF TypeInv, TypeOK
<1>1. ASSUME SameObjects, fate'[l] = "opening" => fate[l] = "opening" PROVE Awaited(l)
  BY <1>1 DEF Awaited, Owned, SameObjects
<1>2. ASSUME NEW h \in Handles, OpenCall(h) PROVE Awaited(l)
  <2>0. UNCHANGED stream
    BY <1>2 DEF OpenCall
  <2>1. \E v : fate' = [fate EXCEPT ![next_local_id] = v]
    BY <1>2 DEF OpenCall
  <2>2. fate'[l] = fate[l]
    BY <1>t, <1>2, <2>1
  <2>. QED  BY <1>1, <2>0, <2>2, ObjectsStay
<1>3. ASSUME OpenAccepted PROVE Awaited(l)
  <2>1. PICK h \in Handles, m \in LocalIds : h = call.h /\ m = call.id /\ fate[m] = "opening"
    BY <1>3 DEF OpenAccepted, OwnerInv, CallOwns
  <2>2. PICK s : s = NewStream(m, Head(toHost).arg0) /\ s.local = m
    <3>1. NewStream(m, Head(toHost).arg0).local = m
      BY DEF NewStream
    <3>. QED  BY <3>1
  <2>3. stream' = [stream EXCEPT ![h] = s] /\ fate' = [fate EXCEPT ![m] = "open"]
    BY <1>3, <2>1, <2>2 DEF OpenAccepted
  <2>4. CASE l = m
    BY <2>1, <2>4 DEF Awaited
  <2>5. CASE l # m
    <3>1. fate'[l] = fate[l]
      BY <1>t, <2>3, <2>5
    <3>2. stream'[h].local = m /\ \A g \in Handles \ {h} : stream'[g] = stream[g]
      BY <1>t, <2>2, <2>3
    <3>. QED  BY <2>5, <3>1, <3>2 DEF Awaited, Owned, Live
  <2>. QED  BY <2>4, <2>5
<1>4. ASSUME OpenRefused \/ OpenReceiveFails PROVE Awaited(l)
  <2>1. UNCHANGED stream /\ \E v \in {"refused", "failed"} : fate' = [fate EXCEPT ![call.id] = v]
    BY <1>4 DEF OpenRefused, OpenReceiveFails
  <2>2. fate'[l] = "opening" => fate[l] = "opening"
    BY <1>t, <2>1
  <2>. QED  BY <1>1, <2>1, <2>2, ObjectsStay
<1>5. ASSUME \/ \E h \in Handles : Write(h) \/ ReadAllCall(h) \/ Destroy(h)
             \/ \E h \in Handles, n \in 1 .. MaxRead : ReadCall(h, n)
             \/ \E a, b \in Handles : MoveConstruct(a, b) \/ MoveAssign(a, b)
      PROVE  Awaited(l)
  <2>1. UNCHANGED fate
    BY <1>5 DEF Write, ReadAllCall, Destroy, ReadCall, MoveConstruct, MoveAssign, histVars
  <2>2. \/ UNCHANGED stream
        \/ \E h \in Handles : stream' = [stream EXCEPT ![h] = NoStream]
        \/ \E h \in Handles : \E buf : stream' = [stream EXCEPT ![h].buf = buf]
        \/ \E a, b \in Handles : a # b /\ TakeOver(a, b)
    BY <1>5 DEF Write, ReadAllCall, Destroy, ReadCall, MoveConstruct, MoveAssign, hostVars
  <2>. QED  BY <1>1, <2>1, <2>2, ObjectsStay
<1>6. ASSUME OpenSkip \/ ReceiveSkip \/ ReceiveWrte \/ ReceiveClse \/ ReceiveUnexpected \/ ReadReceiveFails
      PROVE  Awaited(l)
  <2>1. UNCHANGED fate
    BY <1>6 DEF OpenSkip, ReceiveSkip, ReceiveWrte, ReceiveClse, ReceiveUnexpected, ReadReceiveFails, histVars
  <2>2. ReceiveWrte => \E h \in Handles : \E buf : stream' = [stream EXCEPT ![h].buf = buf]
    BY DEF ReceiveWrte, OwnerInv, CallOwns
  <2>3. ReceiveClse => \E h \in Handles : stream' = [stream EXCEPT ![h].closed = TRUE]
    BY DEF ReceiveClse, OwnerInv, CallOwns
  <2>4. \/ UNCHANGED stream
        \/ \E h \in Handles : \E buf : stream' = [stream EXCEPT ![h].buf = buf]
        \/ \E h \in Handles : stream' = [stream EXCEPT ![h].closed = TRUE]
    BY <1>6, <2>2, <2>3 DEF OpenSkip, ReceiveSkip, ReceiveUnexpected, ReadReceiveFails, hostVars
  <2>. QED  BY <1>1, <2>1, <2>4, ObjectsStay
<1>. QED
  BY <1>2, <1>3, <1>4, <1>5, <1>6 DEF HostStep, CallerStep, ReceiveStep, FailureStep

\* A stream that is opened has no frames on their way yet (Connection::allocate_local_id).
LEMMA StreamedOpen ==
  ASSUME TypeInv, OwnerInv, WireInv, StreamedInv, NEW h \in Handles, OpenCall(h),
         NEW l \in LocalIds, l = next_local_id
  PROVE  Streamed(l)'
<1>1. fate[l] = "none" /\ dstat[l] = "none"
  BY DEF OwnerInv, ClosingHistory, WireInv, FateTrue, TypeInv, TypeOK
<1>2. /\ taken[l] = 0 /\ sent[l] = 0 /\ UNCHANGED <<toHost, taken, sent>>
  BY <1>1 DEF StreamedInv, Accepted, OpenCall, devVars, dataVars
<1>3. /\ \A i \in 1 .. Len(toHost) : toHost[i].arg1 # l
      /\ Len(toHost) \in Nat
  BY <1>1, LenProperties DEF WireInv, ToHostSound, HostFrame, Accepted, TypeInv, TypeOK, LinkTypeOK
<1>4. \A i \in 1 .. Len(toHost') : ~Is(toHost'[i], "WRTE", l) /\ ~Is(toHost'[i], "CLSE", l)
  BY <1>2, <1>3 DEF Is
<1>5. ASSUME NEW i, NEW at, i = Len(toHost') + 1, at = sent'[l] + 1 PROVE Follows(l, i, at)'
  <2>1. at = taken'[l] + 1
    BY <1>2, <1>5
  <2>2. \A j \in 1 .. i - 1 : ~WrteAt(l, j)'
    BY <1>4 DEF WrteAt, Is
  <2>. QED  BY <2>1, <2>2 DEF Follows
<1>. QED  BY <1>4, <1>5, StreamedIntro

\* Every step of the host keeps the order: a call drops only frames that nobody awaits,
\* and takes the first WRTE of its stream.
LEMMA StreamedHostStep ==
  ASSUME TypeInv, OwnerInv, WireInv, OneHandle, StreamedInv, HostStep
  PROVE  StreamedInv'
<1>t. /\ toHost \in Seq(Frames) /\ taken \in [LocalIds -> Nat] /\ sent \in [LocalIds -> Nat]
      /\ LocalIds \subseteq Nat /\ next_local_id \in Nat
  BY DEF TypeInv, TypeOK, LinkTypeOK, DeviceTypeOK, LocalIds
<1>u. UNCHANGED <<link, sent, dstat>> /\ (~ReceiveWrte => UNCHANGED taken)
  BY HostLeaves
<1>1. ASSUME NEW l \in LocalIds, Awaited(l)', ~ReceiveWrte PROVE Streamed(l)'
  <2>1. ASSUME Awaited(l), toHost # <<>>, toHost' = Tail(toHost), ~Is(Head(toHost), "WRTE", l) PROVE Streamed(l)'
    <3>1. ~WrteAt(l, 1) /\ Streamed(l)
      BY <1>t, <2>1, TailFacts DEF WrteAt, StreamedInv
    <3>. QED  BY <1>1, <1>t, <1>u, <2>1, <3>1, StreamedDrop
  <2>2. ASSUME NEW h \in Handles, OpenCall(h) PROVE Streamed(l)'
    <3>1. CASE l = next_local_id
      BY <2>2, <3>1, StreamedOpen
    <3>2. CASE l # next_local_id
      <4>1. Awaited(l)
        BY <1>1, <3>2, AwaitedStays
      <4>. QED  BY <1>1, <1>u, <2>2, <4>1, StreamedSame DEF OpenCall, StreamedInv
    <3>. QED  BY <3>1, <3>2
  <2>3. ASSUME \A h \in Handles : ~OpenCall(h) PROVE Awaited(l)
    BY <1>1, <2>3, AwaitedStays
  <2>4. ASSUME OpenSkip \/ OpenAccepted \/ OpenRefused \/ ReceiveSkip \/ ReceiveClse \/ ReceiveUnexpected
        PROVE  Streamed(l)'
    <3>0. /\ toHost # <<>> /\ toHost' = Tail(toHost)
          /\ call.op = "open" \/ Reading
      BY <2>4 DEF OpenSkip, OpenAccepted, OpenRefused, ReceiveSkip, ReceiveClse, ReceiveUnexpected, FrameReady
    <3>1. /\ toHost # <<>> /\ toHost' = Tail(toHost) /\ \A h \in Handles : ~OpenCall(h)
          /\ call.op = "open" \/ Reading
      <4>1. call.op # "none"
        BY <3>0 DEF Reading
      <4>2. \A h \in Handles : OpenCall(h) => call.op = "none"
        BY DEF OpenCall, Idle
      <4>. QED  BY <3>0, <4>1, <4>2
    <3>2. Awaited(l)
      BY <2>3, <3>1
    <3>3. l = call.id /\ (Reading => stream[call.h].local = l)
      BY <3>1, <3>2, AwaitedCall
    <3>4. CASE ~OpenRefused
      <4>1. ~Is(Head(toHost), "WRTE", l)
        BY <2>4, <3>3, <3>4 DEF Is, OpenSkip, OpenSkips, OpenAccepted, ReceiveSkip, ReadSkips, ReceiveClse, ReceiveUnexpected
      <4>. QED  BY <2>1, <3>1, <3>2, <4>1
    <3>5. CASE OpenRefused
      <4>1. fate' = [fate EXCEPT ![l] = "refused"] /\ UNCHANGED stream /\ call.op = "open"
        BY <3>3, <3>5 DEF OpenRefused
      <4>2. fate'[l] # "opening" /\ fate[l] = "opening"
        BY <3>3, <4>1 DEF TypeInv, TypeOK, OwnerInv, CallOwns
      <4>3. ~Owned(l)
        BY <4>2 DEF Owned, OwnerInv, OwnsOpenStream
      <4>. QED  BY <1>1, <4>1, <4>2, <4>3 DEF Awaited, Owned, Live
    <3>. QED  BY <3>4, <3>5
  <2>5. ASSUME \/ \E h \in Handles : Write(h) \/ ReadAllCall(h) \/ Destroy(h)
               \/ \E h \in Handles, n \in 1 .. MaxRead : ReadCall(h, n)
               \/ \E a, b \in Handles : MoveConstruct(a, b) \/ MoveAssign(a, b)
               \/ OpenReceiveFails \/ ReadReceiveFails
        PROVE  Streamed(l)'
    <3>1. CASE \E h \in Handles : OpenCall(h)
      BY <2>2, <3>1
    <3>2. CASE \A h \in Handles : ~OpenCall(h)
      <4>1. Awaited(l)
        BY <2>3, <3>2
      <4>2. UNCHANGED toHost
        BY <2>5 DEF Write, ReadAllCall, Destroy, ReadCall, MoveConstruct, MoveAssign, OpenReceiveFails, ReadReceiveFails
      <4>. QED  BY <1>1, <1>u, <4>1, <4>2, StreamedSame DEF StreamedInv
    <3>. QED  BY <3>1, <3>2
  <2>. QED  BY <1>1, <2>2, <2>4, <2>5 DEF HostStep, CallerStep, ReceiveStep, FailureStep
<1>2. ASSUME ReceiveWrte
      PROVE  \A l \in LocalIds : (Awaited(l)' => Streamed(l)') /\ (fate[l] # "open" => taken'[l] = taken[l])
  <2>1. PICK m \in LocalIds, f \in Frames :
          /\ m = call.id /\ fate[m] = "open" /\ f.len \in Nat /\ f.at \in Nat
          /\ toHost # <<>> /\ toHost' = Tail(toHost) /\ f = toHost[1] /\ 1 \in 1 .. Len(toHost) /\ Is(f, "WRTE", m)
          /\ taken' = [taken EXCEPT ![m] = @ + f.len]
    BY <1>2, WrteTaken DEF Frames
  <2>2. \A l \in LocalIds \ {m} : taken'[l] = taken[l]
    BY <1>t, <2>1
  <2>3. \A h \in Handles : ~OpenCall(h)
    BY <1>2 DEF ReceiveWrte, Reading, OpenCall, Idle
  <2>4. ASSUME NEW l \in LocalIds, Awaited(l)' PROVE Streamed(l)'
    <3>1. Awaited(l) /\ Streamed(l) /\ call.op # "none" /\ Reading
      BY <1>2, <2>3, <2>4, AwaitedStays DEF StreamedInv, ReceiveWrte, Reading
    <3>2. l = m
      BY <2>1, <3>1, AwaitedCall
    <3>3. WrteAt(l, 1)
      BY <2>1, <3>2 DEF WrteAt
    <3>4. f.at = taken[l] + 1
      <4>1. Follows(l, 1, f.at)
        BY <2>1, <3>1, <3>2 DEF Streamed
      <4>. QED  BY <4>1 DEF Follows
    <3>5. taken'[l] + 1 = f.at + f.len
      <4>1. taken'[l] = taken[l] + f.len
        BY <1>t, <2>1, <3>2
      <4>2. taken[l] \in Nat
        BY <1>t
      <4>. QED  BY <2>1, <3>4, <4>1, <4>2
    <3>. QED  BY <1>t, <1>u, <2>1, <3>1, <3>3, <3>5, StreamedDrop
  <2>. QED  BY <2>1, <2>2, <2>4
<1>3. \A l \in LocalIds : fate'[l] # "open" => taken'[l] = 0
  BY <1>2, <1>u, OpenStays DEF StreamedInv
<1>. QED  BY <1>1, <1>2, <1>3, <1>u DEF StreamedInv, Accepted

\* Every step of the device keeps the order: a WRTE it sends is the next one, and it sends
\* none after its CLSE.
LEMMA StreamedDeviceStep ==
  ASSUME TypeInv, OwnerInv, WireInv, StreamedInv, Quiet(DeviceStep)
  PROVE  StreamedInv'
<1>t. /\ toDevice \in Seq(Frames) /\ toHost \in Seq(Frames) /\ UNCHANGED <<stream, fate, taken>>
      /\ dstat \in [LocalIds -> {"none", "open", "refused", "closed", "gone"}]
      /\ sent \in [LocalIds -> Nat] /\ rid \in [LocalIds -> Nat] /\ nextRid \in Nat
      /\ \A l \in LocalIds : l \in Nat
  BY DEF TypeInv, TypeOK, LinkTypeOK, DeviceTypeOK, Quiet, hostVars, histVars, dataVars, LocalIds
<1>l. UNCHANGED link
  BY DEF Quiet, DeviceStep, DeviceHandles, DeviceAccept, DeviceRefuse, DeviceGetsWrte, DeviceGetsOkay,
         DeviceGetsClse, DeviceWrite, DeviceClose, DeviceClosesAgain, DeviceStray
<1>h. ASSUME NEW cmd, DeviceHead(cmd)
      PROVE  link = "up" /\ toDevice # <<>> /\ Head(toDevice) = toDevice[1]
             /\ toDevice[1].arg0 \in LocalIds /\ DeviceFrame(toDevice[1]) /\ toDevice[1].cmd = cmd
  <2>1. toDevice # <<>> /\ Head(toDevice).cmd = cmd /\ link = "up"
    BY <1>h DEF DeviceHead
  <2>. QED  BY <1>t, <2>1, TailFacts DEF WireInv, ToDeviceSound, DeviceFrame
<1>a. \A l \in LocalIds : Awaited(l)' <=> Awaited(l)
  BY <1>t DEF Awaited, Owned, Live
<1>1. ASSUME UNCHANGED sent, \A l \in LocalIds : Accepted(l) => Accepted(l)',
             \/ UNCHANGED toHost
             \/ link = "up" /\ \E cmd \in {"OKAY", "CLSE", "SYNC"}, a \in Nat, r \in Nat :
                                 toHost' = Append(toHost, make_empty_message(cmd, a, r))
      PROVE  StreamedInv'
  <2>1. ASSUME NEW l \in LocalIds, Awaited(l)' PROVE Streamed(l)'
    <3>1. Streamed(l)
      BY <1>a, <2>1 DEF StreamedInv
    <3>2. CASE UNCHANGED toHost
      BY <1>1, <1>l, <1>t, <3>1, <3>2, StreamedSame
    <3>3. ASSUME link = "up", NEW cmd \in {"OKAY", "CLSE", "SYNC"}, NEW a \in Nat, NEW r \in Nat,
                 toHost' = Append(toHost, make_empty_message(cmd, a, r))
          PROVE  Streamed(l)'
      <4>1. PICK f \in Frames : f = make_empty_message(cmd, a, r)
        BY EmptyMessageType
      <4>2. f.cmd = cmd
        BY <4>1 DEF make_empty_message, Frame
      <4>3. ~Is(f, "WRTE", l)
        BY <4>2 DEF Is
      <4>. QED  BY <1>1, <1>t, <3>1, <3>3, <4>1, <4>3, StreamedAppend
    <3>. QED  BY <1>1, <3>2, <3>3
  <2>. QED  BY <1>1, <1>t, <2>1 DEF StreamedInv
<1>2. ASSUME DeviceAccept \/ DeviceRefuse PROVE StreamedInv'
  <2>1. PICK m \in LocalIds : m = toDevice[1].arg0 /\ Head(toDevice) = toDevice[1] /\ dstat[m] = "none" /\ link = "up"
    BY <1>2, <1>h DEF DeviceAccept, DeviceRefuse, DeviceFrame
  <2>2. UNCHANGED sent /\ \E v : dstat' = [dstat EXCEPT ![m] = v]
    BY <1>2, <2>1 DEF DeviceAccept, DeviceRefuse
  <2>3. \A l \in LocalIds : Accepted(l) => Accepted(l)'
    BY <1>t, <2>1, <2>2 DEF Accepted
  <2>4. \/ toHost' = Append(toHost, make_empty_message("OKAY", nextRid, m))
        \/ toHost' = Append(toHost, make_empty_message("CLSE", 0, m))
    BY <1>2, <2>1 DEF DeviceAccept, DeviceRefuse, Reply
  <2>. QED  BY <1>1, <1>t, <2>1, <2>2, <2>3, <2>4
<1>3. ASSUME DeviceGetsWrte \/ DeviceGetsOkay \/ DeviceGetsClse PROVE StreamedInv'
  <2>1. PICK m \in LocalIds : m = toDevice[1].arg0 /\ Head(toDevice) = toDevice[1] /\ link = "up"
    BY <1>3, <1>h DEF DeviceGetsWrte, DeviceGetsOkay, DeviceGetsClse
  <2>2. UNCHANGED sent /\ (UNCHANGED dstat \/ dstat' = [dstat EXCEPT ![m] = "closed"])
    BY <1>3, <2>1 DEF DeviceGetsWrte, DeviceGetsOkay, DeviceGetsClse
  <2>3. \A l \in LocalIds : Accepted(l) => Accepted(l)'
    BY <1>t, <2>2 DEF Accepted
  <2>4. \/ UNCHANGED toHost
        \/ toHost' = Append(toHost, make_empty_message("OKAY", rid[m], m))
        \/ toHost' = Append(toHost, make_empty_message("CLSE", rid[m], m))
    BY <1>3, <2>1 DEF DeviceGetsWrte, DeviceGetsOkay, DeviceGetsClse, Reply
  <2>. QED  BY <1>1, <1>t, <2>1, <2>2, <2>3, <2>4
<1>4. ASSUME NEW m \in LocalIds, DeviceClose(m) \/ DeviceClosesAgain(m) \/ DeviceStray(m) PROVE StreamedInv'
  <2>1. link = "up" /\ UNCHANGED sent /\ (UNCHANGED dstat \/ \E v \in {"closed", "gone"} : dstat' = [dstat EXCEPT ![m] = v])
    BY <1>4 DEF DeviceClose, DeviceClosesAgain, DeviceStray, devVars
  <2>2. \A l \in LocalIds : Accepted(l) => Accepted(l)'
    BY <1>t, <2>1 DEF Accepted
  <2>3. \/ toHost' = Append(toHost, make_empty_message("CLSE", rid[m], m))
        \/ toHost' = Append(toHost, make_empty_message("SYNC", 0, m))
    BY <1>4 DEF DeviceClose, DeviceClosesAgain, DeviceStray, Reply
  <2>. QED  BY <1>1, <1>t, <2>1, <2>2, <2>3
<1>5. ASSUME NEW m \in LocalIds, NEW n \in 1 .. MaxChunk, DeviceWrite(m, n) PROVE StreamedInv'
  <2>n. n \in Nat /\ m \in Nat /\ rid[m] \in Nat /\ sent[m] + 1 \in Nat /\ sent[m] \in Nat
    BY <1>t, DeviceAssumption
  <2>1. PICK f \in Frames : f = Frame("WRTE", rid[m], m, sent[m] + 1, n)
    <3>1. Frame("WRTE", rid[m], m, sent[m] + 1, n) \in Frames
      BY <2>n DEF Frame, Frames
    <3>. QED  BY <3>1
  <2>2. f.cmd = "WRTE" /\ f.arg1 = m /\ f.at = sent[m] + 1 /\ f.len = n
    BY <2>1 DEF Frame
  <2>3. /\ link = "up" /\ UNCHANGED dstat /\ dstat[m] = "open" /\ toHost' = Append(toHost, f)
        /\ sent' = [sent EXCEPT ![m] = @ + n]
    BY <1>5, <2>1 DEF DeviceWrite, Reply
  <2>4. sent'[m] = sent[m] + n /\ \A l \in LocalIds \ {m} : sent'[l] = sent[l]
    BY <1>t, <2>3
  <2>5. \A i \in 1 .. Len(toHost) : ~Is(toHost[i], "CLSE", m)
    BY <2>3 DEF WireInv, ToHostSound, HostFrame, Is
  <2>6. ASSUME NEW l \in LocalIds, Awaited(l)' PROVE Streamed(l)'
    <3>1. Streamed(l)
      BY <1>a, <2>6 DEF StreamedInv
    <3>2. IF Is(f, "WRTE", l) THEN f.at = sent[l] + 1 /\ sent'[l] + 1 = f.at + f.len ELSE sent'[l] = sent[l]
      BY <2>2, <2>4, <2>n DEF Is
    <3>. QED  BY <1>t, <2>3, <2>4, <2>5, <3>1, <3>2, StreamedAppend
  <2>7. \A l \in LocalIds : ~Accepted(l)' => sent'[l] = 0
    BY <2>3, <2>4 DEF Accepted, StreamedInv
  <2>. QED  BY <1>t, <2>6, <2>7 DEF StreamedInv
<1>. QED
  BY <1>2, <1>3, <1>4, <1>5 DEF Quiet, DeviceStep, DeviceHandles

\* Every step keeps the order of the frames that are awaited.
LEMMA StreamedStep ==
  ASSUME TypeInv, OwnerInv, WireInv, OneHandle, StreamedInv, [Next]_vars
  PROVE  StreamedInv'
<1>t. toHost \in Seq(Frames)
  BY DEF TypeInv, TypeOK, LinkTypeOK
<1>1. ASSUME UNCHANGED <<stream, fate, taken, sent, dstat>>, \A l \in LocalIds : Streamed(l) => Streamed(l)'
      PROVE  StreamedInv'
  <2>1. \A l \in LocalIds : Awaited(l)' <=> Awaited(l)
    BY <1>1 DEF Awaited, Owned, Live
  <2>. QED  BY <1>1, <2>1 DEF StreamedInv, Accepted
<1>2. ASSUME UNCHANGED vars PROVE StreamedInv'
  <2>1. UNCHANGED <<stream, fate, taken, sent, dstat, toHost, link>>
    BY <1>2 DEF vars, hostVars, histVars, dataVars, devVars
  <2>. QED  BY <1>1, <2>1, StreamedSame
<1>3. ASSUME Quiet(LinkDown /\ UNCHANGED devVars) PROVE StreamedInv'
  <2>1. /\ UNCHANGED <<stream, fate, taken, sent, dstat>> /\ link' = "down"
        /\ \E k \in 0 .. Len(toHost) : toHost' = SubSeq(toHost, 1, k)
    BY <1>3 DEF Quiet, LinkDown, hostVars, devVars, histVars, dataVars
  <2>. QED  BY <1>1, <1>t, <2>1, StreamedCut
<1>4. ASSUME Quiet(call = Idle /\ ConnectionClose /\ UNCHANGED devVars) PROVE StreamedInv'
  <2>1. /\ UNCHANGED <<stream, fate, taken, sent, dstat>> /\ link' = "closed" /\ toHost' = <<>>
    BY <1>4 DEF Quiet, ConnectionClose, hostVars, devVars, histVars, dataVars
  <2>2. \A i \in 1 .. Len(toHost') : FALSE
    BY <2>1, EmptySeq
  <2>3. \A l \in LocalIds : Streamed(l)'
    BY <2>1, <2>2, StreamedIntro
  <2>. QED  BY <1>1, <2>1, <2>3
<1>. QED  BY <1>2, <1>3, <1>4, StreamedHostStep, StreamedDeviceStep DEF Next

\* Once the device has closed a stream, nothing is added to what it sent or to what
\* read_all has returned; and the CLSE comes behind everything it sent (read_all).
LEMMA FinishedStep ==
  ASSUME TypeInv, OwnerInv, WireInv, OneHandle, StreamedInv, BytesKept, FinishedInv, [Next]_vars
  PROVE  FinishedInv'
<1>t. /\ delivered \in [LocalIds -> Seq(Bytes)] /\ lost \in [LocalIds -> BOOLEAN] /\ sent \in [LocalIds -> Nat]
      /\ sawClose \in [LocalIds -> BOOLEAN] /\ finished \in [LocalIds -> BOOLEAN] /\ taken \in [LocalIds -> Nat]
      /\ call.out \in Seq(Bytes)
  BY DEF TypeInv, TypeOK, DeviceTypeOK, Calls
<1>f. \A l \in LocalIds : finished[l] =>
        /\ sawClose[l] /\ dstat[l] # "open"
        /\ \A h \in Handles : Live(h) => stream[h].local # l
        /\ ~lost[l] => Len(delivered[l]) = sent[l]
  BY DEF FinishedInv, AllDelivered, WireInv, FateTrue, OwnerInv, OwnsOpenStream
<1>1. ASSUME \A l \in LocalIds : finished'[l] =>
               /\ finished[l] /\ sawClose'[l] /\ (lost[l] => lost'[l])
               /\ delivered'[l] = delivered[l] /\ sent'[l] = sent[l]
      PROVE  FinishedInv'
  BY <1>1, <1>f DEF FinishedInv, AllDelivered
<1>c. ASSUME Reading
      PROVE  \E h \in Handles, m \in LocalIds :
               h = call.h /\ m = call.id /\ Live(h) /\ stream[h].local = m /\ fate[m] = "open"
  BY <1>c DEF OwnerInv, CallOwns, OwnsOpenStream
<1>2. ASSUME NEW h \in Handles, NEW n \in 1 .. MaxRead, ReadCall(h, n) PROVE FinishedInv'
  <2>1. Live(h) /\ UNCHANGED <<finished, sawClose, lost, sent>>
    BY <1>2 DEF ReadCall, Usable, Live, devVars
  <2>2. UNCHANGED delivered \/ \E b : delivered' = [delivered EXCEPT ![stream[h].local] = b]
    BY <1>2 DEF ReadCall
  <2>3. \A l \in LocalIds : finished[l] => delivered'[l] = delivered[l]
    BY <1>f, <1>t, <2>1, <2>2
  <2>. QED  BY <1>1, <1>f, <2>1, <2>3
<1>3. ASSUME ReceiveWrte PROVE FinishedInv'
  <2>1. PICK h \in Handles, m \in LocalIds : h = call.h /\ m = call.id /\ Live(h) /\ stream[h].local = m
    BY <1>3, <1>c DEF ReceiveWrte
  <2>2. /\ UNCHANGED <<finished, sawClose, sent>>
        /\ UNCHANGED lost \/ lost' = [lost EXCEPT ![m] = @ \/ call.out # <<>>]
    BY <1>3, <2>1 DEF ReceiveWrte, FailCall, devVars
  <2>3. UNCHANGED delivered \/ \E b : delivered' = [delivered EXCEPT ![m] = b]
    BY <1>3, <2>1 DEF ReceiveWrte
  <2>4. \A l \in LocalIds : finished[l] => delivered'[l] = delivered[l] /\ lost'[l] = lost[l]
    BY <1>f, <1>t, <2>1, <2>2, <2>3
  <2>. QED  BY <1>1, <1>f, <2>2, <2>4
<1>4. ASSUME ReceiveClse PROVE FinishedInv'
  <2>1. PICK h \in Handles, m \in LocalIds :
          h = call.h /\ m = call.id /\ Live(h) /\ stream[h].local = m /\ fate[m] = "open"
    BY <1>4, <1>c DEF ReceiveClse
  <2>2. /\ FrameReady /\ Is(Head(toHost), "CLSE", m) /\ sawClose' = [sawClose EXCEPT ![m] = TRUE] /\ UNCHANGED sent
        /\ \/ /\ delivered' = [delivered EXCEPT ![m] = @ \o call.out]
              /\ finished' = [finished EXCEPT ![m] = TRUE] /\ UNCHANGED lost
           \/ /\ UNCHANGED <<delivered, finished>> /\ lost' = [lost EXCEPT ![m] = @ \/ call.out # <<>>]
    BY <1>4, <2>1 DEF ReceiveClse, ReadSkips, FailCall, Is, devVars
  <2>3. ~finished[m] /\ \A l \in LocalIds : finished[l] => l # m
    BY <1>f, <2>1
  <2>4. \A l \in LocalIds \ {m} : /\ delivered'[l] = delivered[l] /\ lost'[l] = lost[l]
                                  /\ finished'[l] = finished[l] /\ sawClose'[l] = sawClose[l]
    BY <1>t, <2>2
  <2>5. sawClose'[m]
    BY <1>t, <2>2
  <2>6. CASE delivered' = [delivered EXCEPT ![m] = @ \o call.out] /\ UNCHANGED lost
    <3>1. taken[m] = sent[m]
      <4>1. toHost[1] = Head(toHost) /\ 1 \in 1 .. Len(toHost)
        BY <2>2, HostFirstFrame
      <4>2. Streamed(m)
        BY <2>1 DEF StreamedInv, Awaited, Owned
      <4>3. Follows(m, 1, sent[m] + 1)
        BY <2>2, <4>1, <4>2 DEF Streamed
      <4>4. sent[m] + 1 = taken[m] + 1
        BY <4>3 DEF Follows
      <4>. QED  BY <1>t, <4>4
    <3>2. CalledOn(m)
      BY <1>4, <2>1 DEF ReceiveClse, CalledOn
    <3>3. ~lost[m] => taken[m] = Len(delivered[m]) + Len(call.out)
      BY <3>2 DEF BytesKept, Kept
    <3>4. delivered'[m] = delivered[m] \o call.out
      BY <1>t, <2>6
    <3>5. Len(delivered'[m]) = Len(delivered[m]) + Len(call.out)
      <4>1. delivered[m] \in Seq(Bytes)
        BY <1>t
      <4>. QED  BY <1>t, <3>4, <4>1, ConcatProperties
    <3>6. ~lost'[m] => Len(delivered'[m]) = sent'[m]
      BY <2>2, <2>6, <3>1, <3>3, <3>5
    <3>7. \A l \in LocalIds \ {m} : finished'[l] => sawClose'[l] /\ (~lost'[l] => Len(delivered'[l]) = sent'[l])
      BY <1>f, <2>2, <2>4
    <3>. QED  BY <2>5, <3>6, <3>7 DEF FinishedInv, AllDelivered
  <2>7. CASE UNCHANGED <<delivered, finished>>
    <3>1. \A l \in LocalIds : finished'[l] => finished[l] /\ l # m
      BY <2>3, <2>7
    <3>. QED  BY <1>1, <1>f, <2>2, <2>4, <2>7, <3>1
  <2>. QED  BY <2>2, <2>6, <2>7
<1>5. ASSUME ReceiveUnexpected \/ ReadReceiveFails PROVE FinishedInv'
  <2>1. /\ UNCHANGED <<finished, sawClose, delivered, sent>>
        /\ lost' = [lost EXCEPT ![call.id] = @ \/ call.out # <<>>]
    BY <1>5 DEF ReceiveUnexpected, ReadReceiveFails, FailCall, devVars
  <2>2. \A l \in LocalIds : lost[l] => lost'[l]
    BY <1>t, <2>1
  <2>. QED  BY <1>1, <1>f, <2>1, <2>2
<1>6. ASSUME \/ \E h \in Handles : OpenCall(h) \/ Write(h) \/ ReadAllCall(h) \/ Destroy(h)
             \/ \E a, b \in Handles : MoveConstruct(a, b) \/ MoveAssign(a, b)
             \/ OpenSkip \/ OpenAccepted \/ OpenRefused \/ ReceiveSkip \/ OpenReceiveFails
      PROVE  FinishedInv'
  <2>1. UNCHANGED <<dataVars, sawClose>>
    BY <1>6 DEF OpenCall, Write, ReadAllCall, Destroy, MoveConstruct, MoveAssign, OpenSkip, OpenAccepted,
                OpenRefused, ReceiveSkip, OpenReceiveFails, histVars
  <2>2. UNCHANGED sent
    BY <1>6, HostLeaves DEF HostStep, CallerStep, ReceiveStep, FailureStep
  <2>. QED  BY <1>1, <1>f, <2>1, <2>2 DEF dataVars
<1>7. ASSUME Quiet(DeviceStep) PROVE FinishedInv'
  <2>1. UNCHANGED <<delivered, lost, finished, sawClose>>
    BY <1>7 DEF Quiet, histVars, dataVars
  <2>2. UNCHANGED sent \/ \E m \in LocalIds : \E v : dstat[m] = "open" /\ sent' = [sent EXCEPT ![m] = v]
    BY <1>7 DEF Quiet, DeviceStep, DeviceHandles, DeviceAccept, DeviceRefuse, DeviceGetsWrte, DeviceGetsOkay,
                DeviceGetsClse, DeviceWrite, DeviceClose, DeviceClosesAgain, DeviceStray, devVars
  <2>3. \A l \in LocalIds : finished[l] => sent'[l] = sent[l]
    BY <1>f, <1>t, <2>2
  <2>. QED  BY <1>1, <1>f, <2>1, <2>3
<1>8. ASSUME \/ Quiet(LinkDown /\ UNCHANGED devVars)
             \/ Quiet(call = Idle /\ ConnectionClose /\ UNCHANGED devVars)
             \/ UNCHANGED vars
      PROVE  FinishedInv'
  <2>1. UNCHANGED <<delivered, lost, finished, sawClose, sent>>
    BY <1>8 DEF Quiet, vars, histVars, dataVars, devVars
  <2>. QED  BY <1>1, <1>f, <2>1
<1>. QED
  BY <1>2, <1>3, <1>4, <1>5, <1>6, <1>7, <1>8 DEF Next, HostStep, CallerStep, ReceiveStep, FailureStep

\* Nothing is handed out, sent or taken initially.
LEMMA BytesInit == Init => BytesKept /\ StreamedInv /\ FinishedInv
<1>. SUFFICES ASSUME Init PROVE BytesKept /\ StreamedInv /\ FinishedInv
  OBVIOUS
<1>1. /\ \A h \in Handles : ~Live(h)
      /\ \A l \in LocalIds : delivered[l] = <<>> /\ ~CalledOn(l)
  BY DEF Init, Live, NoStream, CalledOn, Reading, Idle
<1>2. \A l \in LocalIds : Len(delivered[l]) = 0
  BY <1>1, EmptySeq
<1>3. \A l \in LocalIds : BytesFrom(delivered[l], l, 0)
  BY <1>2 DEF BytesFrom
<1>4. \A l \in LocalIds : sent[l] = 0 /\ taken[l] = 0 /\ ~Awaited(l) /\ ~finished[l]
  BY <1>1 DEF Init, DeviceInit, Awaited, Owned
<1>. QED
  BY <1>1, <1>3, <1>4 DEF BytesKept, Kept, StreamedInv, FinishedInv, AllDelivered

\* With one object, whatever the window, the first WRTE of its stream is the next one.
LEMMA OneStep ==
  ASSUME TypeInv, OwnerInv, WireInv, OneHandle, StreamedInv, BytesKept, FinishedInv, [Next]_vars
  PROVE  StreamedInv' /\ BytesKept' /\ FinishedInv'
<1>1. ASSUME ReceiveWrte PROVE Head(toHost).at = taken[call.id] + 1
  <2>1. PICK h \in Handles, l \in LocalIds, f \in Frames :
          /\ h = call.h /\ l = call.id /\ f = Head(toHost) /\ Live(h) /\ stream[h].local = l
          /\ f = toHost[1] /\ 1 \in 1 .. Len(toHost) /\ Is(f, "WRTE", l)
    BY <1>1, WrteTaken
  <2>2. Streamed(l)
    BY <2>1 DEF StreamedInv, Awaited, Owned
  <2>3. Follows(l, 1, f.at)
    BY <2>1, <2>2 DEF Streamed
  <2>4. f.at = taken[l] + 1
    BY <2>3 DEF Follows
  <2>. QED  BY <2>1, <2>4
<1>2. ASSUME OpenAccepted PROVE taken[call.id] = 0
  BY <1>2 DEF OpenAccepted, OwnerInv, CallOwns, StreamedInv
<1>. QED  BY <1>1, <1>2, StreamedStep, KeptStep, FinishedStep

\* With one object at a time, as shell, sync and app use it, read_all returns all that the
\* device's service wrote, with every fault and any window (Stream::read_all).  With
\* several objects it need not: a call drops what it meets of another stream.
THEOREM ReadAllComplete == OneHandle => (Spec => []AllDelivered)
<1>. SUFFICES ASSUME OneHandle PROVE Spec => []AllDelivered
  OBVIOUS
<1>1. TypeInv /\ OwnerInv /\ WireInv /\ StreamedInv /\ BytesKept /\ FinishedInv /\ [Next]_vars
      => (StreamedInv /\ BytesKept /\ FinishedInv)'
  BY OneStep
<1>2. FinishedInv => AllDelivered
  BY DEF FinishedInv
<1>. QED  BY <1>1, <1>2, BytesInit, WireInvariance, PTL DEF Spec

\* Without delayed acknowledgements, or with one object, what the calls on a stream hand
\* out is what the device's service wrote on it, in order and without a gap or a repeat,
\* whatever streams, moves, failed calls and faults come between (read, read_all,
\* receive_more).  With both a window and several objects a call on one stream may drop a
\* WRTE of another whose sender does not wait.
THEOREM ReadInOrder == ~DelayedAck \/ OneHandle => (Spec => []InOrder)
<1>1. TypeInv /\ BytesKept => InOrder
  <2>. SUFFICES ASSUME TypeInv, BytesKept, NEW l \in LocalIds, ~lost[l], NEW i \in 1 .. Len(delivered[l])
                PROVE  delivered[l][i] = <<l, i>>
    BY DEF InOrder
  <2>1. Len(delivered[l]) \in Nat
    BY LenProperties DEF TypeInv, TypeOK
  <2>2. delivered[l][i] = <<l, 0 + i>>
    BY DEF BytesKept, Kept, BytesFrom
  <2>. QED  BY <2>1, <2>2
<1>2. ASSUME ~DelayedAck PROVE Spec => []InOrder
  <2>1. TypeInv /\ OwnerInv /\ WireInv /\ OneInFlight /\ BytesKept /\ [Next]_vars => (OneInFlight /\ BytesKept)'
    <3>. SUFFICES ASSUME TypeInv, OwnerInv, WireInv, OneInFlight, BytesKept, [Next]_vars
                  PROVE  OneInFlight' /\ BytesKept'
      OBVIOUS
    <3>1. ASSUME ReceiveWrte PROVE Head(toHost).at = taken[call.id] + 1
      <4>1. PICK l \in LocalIds, f \in Frames :
              l = call.id /\ f = Head(toHost) /\ f = toHost[1] /\ 1 \in 1 .. Len(toHost) /\ Is(f, "WRTE", l)
        BY <3>1, WrteTaken
      <4>2. WrteAt(l, 1)
        BY <4>1 DEF WrteAt
      <4>. QED  BY <4>1, <4>2 DEF OneInFlight, InFlight
    <3>2. ASSUME OpenAccepted PROVE taken[call.id] = 0
      BY <3>2 DEF OpenAccepted, OwnerInv, CallOwns, OneInFlight, InFlight
    <3>. QED  BY <1>2, <3>1, <3>2, FlightStep, KeptStep
  <2>. QED  BY <1>1, <2>1, FlightInit, BytesInit, WireInvariance, PTL DEF Spec
<1>3. ASSUME OneHandle PROVE Spec => []InOrder
  <2>1. TypeInv /\ OwnerInv /\ WireInv /\ StreamedInv /\ BytesKept /\ FinishedInv /\ [Next]_vars
        => (StreamedInv /\ BytesKept /\ FinishedInv)'
    BY <1>3, OneStep
  <2>. QED  BY <1>1, <2>1, BytesInit, WireInvariance, PTL DEF Spec
<1>. QED  BY <1>2, <1>3

=============================================================================
