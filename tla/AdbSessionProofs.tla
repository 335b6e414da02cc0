--------------------------- MODULE AdbSessionProofs ---------------------------
(***************************************************************************)
(* Proofs about AdbSession: framing over a transport that moves bytes, for *)
(* any size of headers and payloads, any number of frames, any sizes of    *)
(* reads and any choice of faults.                                         *)
(***************************************************************************)
EXTENDS AdbSession, SequenceTheorems, TLAPS

-----------------------------------------------------------------------------
(* Byte streams.  A stream of frames 1 .. Len(sz), where frame n has sz[n]   *)
(* bytes, has been read from the front and added to at the end.             *)

BytesOfFrames == [n : Nat, i : Nat]

Byte(n, i) == [n |-> n, i |-> i]

Sizes == Seq(Nat \ {0})

\* s is what is left of such a stream.  Everything is said of any two places at
\* once, so that reading and adding many bytes is one step.
Whole(s, sz) ==
  \A j \in 1 .. Len(s) :
    LET n == s[j].n  i == s[j].i IN
      /\ n \in 1 .. Len(sz) /\ i \in 1 .. sz[n]
      /\ \A m \in 1 .. sz[n] :
           j + m - i >= 1 => j + m - i <= Len(s) /\ s[j + m - i] = Byte(n, m)
      /\ i = sz[n] => \/ n = Len(sz) /\ j = Len(s)
                      \/ n < Len(sz) /\ j < Len(s) /\ s[j + 1] = Byte(n + 1, 1)
      /\ \A l \in j .. Len(s) : n <= s[l].n

\* The next byte to be read, which may be one that is yet to come.
At(s, end) == IF s = <<>> THEN end ELSE s[1]

-----------------------------------------------------------------------------
(* The inductive invariant.                                                 *)

Calls == [kind : {"none", "receive", "send"}, by : Objects \cup {0},
          phase : {"header", "payload"}, n : Nat, got : Seq(BytesOfFrames)]

\* Type correctness of the session, the two directions and the device.
SessionTypeOK ==
  /\ session \in [Objects -> {"none", "open", "closed"}]
  /\ transport \in {"open", "closed"}
  /\ op \in Calls
  /\ wire \in Seq(BytesOfFrames) /\ out \in Seq(BytesOfFrames)
  /\ offered \in Seq(DeviceFrames) /\ submitted \in Seq(HostFrames)
  /\ received \in Seq(Nat) /\ handled \in Seq(Nat)
  /\ dev \in [phase : {"header", "payload", "lost"}, n : Nat]
  /\ torn \in BOOLEAN /\ byCaller \in BOOLEAN

\* One object at most is open, and it is the one that has the transport and the
\* call in progress.
OneOwner ==
  /\ \A a, b \in Objects : session[a] = "open" /\ session[b] = "open" => a = b
  /\ TransportHeld
  /\ op.kind = "none" => op = Idle
  /\ op.kind # "none" => op.by \in Objects /\ session[op.by] = "open"
  /\ op.kind = "send" => /\ op.n = Len(submitted) /\ op.n > 0 /\ op.got = <<>>
                         /\ op.phase = "payload" => Size(op.n) > 0

wireSizes == [n \in 1 .. Len(offered) |-> HeaderSize + offered[n].len]

wireAt == At(wire, Byte(Len(offered) + 1, 1))

InHeader == op.kind = "receive" /\ op.phase = "header" /\ op.got # <<>>

InPayload == op.kind = "receive" /\ op.phase = "payload"

\* The frame that receive is in, or the one it will look at next.
Current == IF InPayload THEN op.n ELSE IF InHeader THEN op.got[1].n ELSE wireAt.n

\* receive stands in the stream where it thinks it does, once it has seen the
\* beginning of a frame.
ReadPosition ==
  /\ Whole(wire, wireSizes)
  /\ Current <= wireAt.n
  /\ \A r \in 1 .. Len(received) : received[r] < Current
  /\ InHeader => /\ op.got[1].n \in 1 .. Len(offered) /\ Len(op.got) < HeaderSize
                 /\ op.got[1].i = 1 => wireAt = Byte(op.got[1].n, Len(op.got) + 1)
  /\ InPayload => /\ op.n \in 1 .. Len(offered) /\ Len(op.got) < offered[op.n].len
                  /\ offered[op.n].magic /\ LengthValid(op.n)
                  /\ wireAt = Byte(op.n, HeaderSize + Len(op.got) + 1)

\* Until a read has failed in the middle of a frame the session looks at every
\* frame from its first byte on.
InStep ==
  ~torn /\ transport = "open" =>
    /\ Current = Len(received) + 1
    /\ InHeader => op.got[1].i = 1
    /\ ~InHeader /\ ~InPayload => wireAt.i = 1

Pending(phase) == op.kind = "send" /\ op.phase = phase

\* The frames of which something has been written.
Started == IF Pending("header") THEN Len(submitted) - 1 ELSE Len(submitted)

outSizes ==
  [n \in 1 .. Started |->
     IF Pending("payload") /\ n = op.n THEN HeaderSize ELSE HeaderSize + Size(n)]

outAt == At(out, IF Pending("payload") THEN Byte(op.n, HeaderSize + 1) ELSE Byte(Started + 1, 1))

\* The device stands where it thinks it does.
DevicePosition ==
  /\ Whole(out, outSizes)
  /\ \/ dev.phase = "header" /\ outAt = Byte(Len(handled) + 1, 1)
     \/ /\ dev.phase = "payload" /\ dev.n = Len(handled) + 1
        /\ dev.n \in 1 .. Len(submitted) /\ Size(dev.n) > 0
        /\ outAt = Byte(dev.n, HeaderSize + 1)

SessionInv ==
  /\ SessionTypeOK
  /\ OneOwner
  /\ ReadPosition
  /\ InStep
  /\ ClosedForCause
  /\ "write" \notin Faults => DevicePosition

-----------------------------------------------------------------------------
(* Facts about byte streams.                                                *)

\* What is left after k bytes were read.
LEMMA RestOf ==
  ASSUME NEW T, NEW s \in Seq(T), NEW k \in 0 .. Len(s)
  PROVE  /\ SubSeq(s, k + 1, Len(s)) \in Seq(T)
         /\ Len(SubSeq(s, k + 1, Len(s))) = Len(s) - k
         /\ \A j \in 1 .. Len(s) - k : SubSeq(s, k + 1, Len(s))[j] = s[j + k]
<1>1. Len(s) \in Nat /\ \A j \in 1 .. Len(s) : s[j] \in T
  BY ElementOfSeq, LenProperties
<1>. QED  BY <1>1, SubSeqProperties

\* The first k bytes.
LEMMA FirstOf ==
  ASSUME NEW T, NEW s \in Seq(T), NEW k \in 0 .. Len(s)
  PROVE  /\ SubSeq(s, 1, k) \in Seq(T)
         /\ Len(SubSeq(s, 1, k)) = k
         /\ \A j \in 1 .. k : SubSeq(s, 1, k)[j] = s[j]
<1>1. Len(s) \in Nat /\ \A j \in 1 .. Len(s) : s[j] \in T
  BY ElementOfSeq, LenProperties
<1>. QED  BY <1>1, SubSeqProperties

\* Bytes added at the end.
LEMMA Added ==
  ASSUME NEW T, NEW s \in Seq(T), NEW t \in Seq(T)
  PROVE  /\ s \o t \in Seq(T)
         /\ Len(s) \in Nat /\ Len(t) \in Nat
         /\ Len(s \o t) = Len(s) + Len(t)
         /\ \A j \in 1 .. Len(s) : (s \o t)[j] = s[j]
         /\ \A j \in Len(s) + 1 .. Len(s) + Len(t) : (s \o t)[j] = t[j - Len(s)]
BY ConcatProperties, LenProperties

\* A sequence is empty when its length is zero.
LEMMA EmptyIff ==
  ASSUME NEW T, NEW s \in Seq(T)
  PROVE  Len(s) \in Nat /\ (s = <<>> <=> Len(s) = 0)
BY EmptySeq, LenProperties

\* Reading from the front leaves a stream.
LEMMA WholeRest ==
  ASSUME NEW s \in Seq(BytesOfFrames), NEW sz \in Sizes, Whole(s, sz), NEW k \in 0 .. Len(s)
  PROVE  Whole(SubSeq(s, k + 1, Len(s)), sz)
<1>. DEFINE t == SubSeq(s, k + 1, Len(s))
<1>1. Len(s) \in Nat /\ Len(t) = Len(s) - k /\ \A j \in 1 .. Len(t) : t[j] = s[j + k]
  BY RestOf, LenProperties
<1>. HIDE DEF t
<1>2. SUFFICES ASSUME NEW j \in 1 .. Len(t)
      PROVE  LET n == t[j].n  i == t[j].i IN
               /\ n \in 1 .. Len(sz) /\ i \in 1 .. sz[n]
               /\ \A m \in 1 .. sz[n] :
                    j + m - i >= 1 => j + m - i <= Len(t) /\ t[j + m - i] = Byte(n, m)
               /\ i = sz[n] => \/ n = Len(sz) /\ j = Len(t)
                               \/ n < Len(sz) /\ j < Len(t) /\ t[j + 1] = Byte(n + 1, 1)
               /\ \A l \in j .. Len(t) : n <= t[l].n
  BY DEF t, Whole
<1>. DEFINE n == s[j + k].n  i == s[j + k].i
<1>3. t[j] = s[j + k] /\ j + k \in 1 .. Len(s)
  BY <1>1
<1>4. /\ n \in 1 .. Len(sz) /\ i \in 1 .. sz[n]
      /\ \A m \in 1 .. sz[n] :
           j + k + m - i >= 1 => j + k + m - i <= Len(s) /\ s[j + k + m - i] = Byte(n, m)
      /\ i = sz[n] => \/ n = Len(sz) /\ j + k = Len(s)
                      \/ n < Len(sz) /\ j + k < Len(s) /\ s[j + k + 1] = Byte(n + 1, 1)
      /\ \A l \in j + k .. Len(s) : n <= s[l].n
  BY <1>3 DEF Whole
<1>5. sz[n] \in Nat /\ Len(sz) \in Nat
  BY <1>4, ElementOfSeq, LenProperties DEF Sizes
<1>. HIDE DEF n, i
<1>6. ASSUME NEW m \in 1 .. sz[n], j + m - i >= 1
      PROVE  j + m - i <= Len(t) /\ t[j + m - i] = Byte(n, m)
  <2>1. j + k + m - i >= 1 /\ (j + m - i) + k = j + k + m - i
    BY <1>1, <1>4, <1>5, <1>6
  <2>2. j + k + m - i <= Len(s) /\ s[j + k + m - i] = Byte(n, m)
    BY <1>4, <2>1
  <2>3. j + m - i \in 1 .. Len(t)
    BY <1>1, <1>4, <1>5, <1>6, <2>2
  <2>. QED  BY <1>1, <2>1, <2>2, <2>3
<1>7. i = sz[n] => \/ n = Len(sz) /\ j = Len(t)
                   \/ n < Len(sz) /\ j < Len(t) /\ t[j + 1] = Byte(n + 1, 1)
  <2>1. ASSUME j + k < Len(s) PROVE j < Len(t) /\ t[j + 1] = s[j + k + 1]
    <3>1. j + 1 \in 1 .. Len(t) /\ (j + 1) + k = j + k + 1
      BY <1>1, <2>1
    <3>. QED  BY <1>1, <3>1
  <2>. QED  BY <1>1, <1>4, <2>1
<1>8. \A l \in j .. Len(t) : n <= t[l].n
  BY <1>1, <1>4, SMTT(30)
<1>. QED  BY <1>3, <1>4, <1>6, <1>7, <1>8 DEF n, i

\* The values of a byte.
LEMMA ByteFields ==
  ASSUME NEW n \in Nat, NEW i \in Nat
  PROVE  Byte(n, i) \in BytesOfFrames /\ Byte(n, i).n = n /\ Byte(n, i).i = i
BY DEF Byte, BytesOfFrames

\* Reading along a frame: the bytes come in order, and after the last one comes the
\* first byte of the next frame.
LEMMA AlongFrame ==
  ASSUME NEW s \in Seq(BytesOfFrames), NEW sz \in Sizes, Whole(s, sz), Len(s) > 0,
         NEW n \in Nat, NEW i \in Nat, s[1] = Byte(n, i),
         NEW k \in Nat, i + k <= sz[n] + 1
  PROVE  /\ n \in 1 .. Len(sz) /\ i \in 1 .. sz[n] /\ k <= Len(s)
         /\ \A j \in 1 .. k : s[j] = Byte(n, i + j - 1)
         /\ i + k <= sz[n] => k < Len(s) /\ s[k + 1] = Byte(n, i + k)
         /\ i + k = sz[n] + 1 => \/ n = Len(sz) /\ k = Len(s)
                                 \/ n < Len(sz) /\ k < Len(s) /\ s[k + 1] = Byte(n + 1, 1)
<1>1. Len(s) \in Nat /\ s[1].n = n /\ s[1].i = i /\ 1 \in 1 .. Len(s)
  BY ByteFields, LenProperties
<1>2. /\ n \in 1 .. Len(sz) /\ i \in 1 .. sz[n]
      /\ \A m \in 1 .. sz[n] : 1 + m - i >= 1 => 1 + m - i <= Len(s) /\ s[1 + m - i] = Byte(n, m)
  BY <1>1 DEF Whole
<1>3. sz[n] \in Nat /\ Len(sz) \in Nat
  BY <1>2, ElementOfSeq, LenProperties DEF Sizes
<1>4. ASSUME NEW j \in Nat \ {0}, i + j <= sz[n] + 1
      PROVE  j <= Len(s) /\ s[j] = Byte(n, i + j - 1)
  <2>1. i + j - 1 \in 1 .. sz[n] /\ 1 + (i + j - 1) - i = j
    BY <1>2, <1>3, <1>4
  <2>. QED  BY <1>2, <2>1
<1>5. \A j \in 1 .. k : s[j] = Byte(n, i + j - 1)
  BY <1>2, <1>3, <1>4
<1>6. k <= Len(s)
  BY <1>1, <1>4
<1>7. i + k <= sz[n] => k < Len(s) /\ s[k + 1] = Byte(n, i + k)
  <2>1. i + (k + 1) - 1 = i + k /\ k + 1 \in Nat \ {0}
    BY <1>2, <1>3
  <2>. QED  BY <1>1, <1>2, <1>3, <1>4, <2>1
<1>8. ASSUME i + k = sz[n] + 1
      PROVE  \/ n = Len(sz) /\ k = Len(s)
             \/ n < Len(sz) /\ k < Len(s) /\ s[k + 1] = Byte(n + 1, 1)
  <2>1. k \in 1 .. Len(s) /\ s[k] = Byte(n, sz[n])
    <3>0. i <= sz[n] /\ sz[n] \in Nat
      BY <1>2, <1>3
    <3>1. k >= 1 /\ i + k - 1 = sz[n]
      BY <3>0, <1>8
    <3>. QED  BY <1>5, <1>6, <3>1
  <2>2. s[k].n = n /\ s[k].i = sz[n]
    BY <1>2, <1>3, <2>1, ByteFields
  <2>. QED  BY <2>1, <2>2 DEF Whole
<1>. QED  BY <1>2, <1>5, <1>6, <1>7, <1>8

\* A stream ends with the last byte of its last frame.
LEMMA LastByte ==
  ASSUME NEW s \in Seq(BytesOfFrames), NEW sz \in Sizes, Whole(s, sz), Len(s) > 0
  PROVE  /\ Len(s) \in 1 .. Len(s) /\ Len(sz) \in Nat \ {0} /\ sz[Len(sz)] \in Nat \ {0}
         /\ s[Len(s)].n = Len(sz) /\ s[Len(s)].i = sz[Len(sz)]
<1>. DEFINE j == Len(s)  n == s[j].n  i == s[j].i
<1>1. j \in Nat /\ j \in 1 .. Len(s)
  BY LenProperties
<1>2. /\ n \in 1 .. Len(sz) /\ i \in 1 .. sz[n]
      /\ \A m \in 1 .. sz[n] : j + m - i >= 1 => j + m - i <= Len(s)
      /\ i = sz[n] => n = Len(sz) \/ j < Len(s)
  BY <1>1 DEF Whole
<1>3. sz[n] \in Nat \ {0} /\ Len(sz) \in Nat
  BY <1>2, ElementOfSeq, LenProperties DEF Sizes
<1>. HIDE DEF n, i
<1>4. i = sz[n]
  <2>. SUFFICES ASSUME i + 1 <= sz[n] PROVE FALSE
    BY <1>2, <1>3
  <2>1. i + 1 \in 1 .. sz[n] /\ j + (i + 1) - i = j + 1
    BY <1>1, <1>2, <1>3
  <2>. QED  BY <1>1, <1>2, <2>1
<1>5. n = Len(sz)
  BY <1>1, <1>2, <1>4
<1>. QED  BY <1>1, <1>2, <1>3, <1>4, <1>5 DEF n, i

\* Adding a new frame of c bytes leaves a stream.
LEMMA WholeFrame ==
  ASSUME NEW s \in Seq(BytesOfFrames), NEW sz \in Sizes, Whole(s, sz), NEW c \in Nat \ {0},
         NEW t \in Seq(BytesOfFrames), Len(t) = c,
         \A x \in 1 .. c : t[x] = Byte(Len(sz) + 1, x)
  PROVE  Append(sz, c) \in Sizes /\ Whole(s \o t, Append(sz, c))
<1>. DEFINE r == s \o t  z == Append(sz, c)  N == Len(sz) + 1
<1>1. /\ Len(s) \in Nat /\ Len(r) = Len(s) + c
      /\ \A j \in 1 .. Len(s) : r[j] = s[j]
      /\ \A j \in Len(s) + 1 .. Len(s) + c : r[j] = t[j - Len(s)]
  BY Added
<1>2. /\ z \in Sizes /\ Len(sz) \in Nat /\ Len(z) = N /\ z[N] = c
      /\ \A n \in 1 .. Len(sz) : z[n] = sz[n] /\ sz[n] \in Nat \ {0}
  BY LenProperties, ElementOfSeq DEF Sizes
<1>3. \A j \in Len(s) + 1 .. Len(s) + c : r[j] = Byte(N, j - Len(s)) /\ r[j].n = N /\ r[j].i = j - Len(s)
  BY <1>1, <1>2, ByteFields
<1>. HIDE DEF r, z
<1>4. ASSUME NEW j \in 1 .. Len(r)
      PROVE  LET n == r[j].n  i == r[j].i IN
               /\ n \in 1 .. Len(z) /\ i \in 1 .. z[n]
               /\ \A m \in 1 .. z[n] :
                    j + m - i >= 1 => j + m - i <= Len(r) /\ r[j + m - i] = Byte(n, m)
               /\ i = z[n] => \/ n = Len(z) /\ j = Len(r)
                              \/ n < Len(z) /\ j < Len(r) /\ r[j + 1] = Byte(n + 1, 1)
               /\ \A l \in j .. Len(r) : n <= r[l].n
  <2>1. CASE j <= Len(s)
    <3>. DEFINE n == s[j].n  i == s[j].i
    <3>1. j \in 1 .. Len(s) /\ r[j] = s[j]
      BY <1>1, <2>1
    <3>2. /\ n \in 1 .. Len(sz) /\ i \in 1 .. sz[n]
          /\ \A m \in 1 .. sz[n] : j + m - i >= 1 => j + m - i <= Len(s) /\ s[j + m - i] = Byte(n, m)
          /\ i = sz[n] => \/ n = Len(sz) /\ j = Len(s)
                          \/ n < Len(sz) /\ j < Len(s) /\ s[j + 1] = Byte(n + 1, 1)
          /\ \A l \in j .. Len(s) : n <= s[l].n
      BY <3>1 DEF Whole
    <3>. HIDE DEF n, i
    <3>3. z[n] = sz[n] /\ sz[n] \in Nat /\ n \in 1 .. Len(z) /\ n < Len(z)
      BY <1>2, <3>2
    <3>4. ASSUME NEW m \in 1 .. sz[n], j + m - i >= 1
          PROVE  j + m - i <= Len(r) /\ r[j + m - i] = Byte(n, m)
      <4>1. j + m - i \in 1 .. Len(s) /\ s[j + m - i] = Byte(n, m)
        BY <3>2, <3>3, <3>4
      <4>. QED  BY <1>1, <4>1
    <3>5. ASSUME i = sz[n]
          PROVE  j < Len(r) /\ r[j + 1] = Byte(n + 1, 1)
      <4>1. CASE n = Len(sz) /\ j = Len(s)
        <5>1. j + 1 \in Len(s) + 1 .. Len(s) + c /\ (j + 1) - Len(s) = 1
          BY <1>1, <4>1
        <5>. QED  BY <1>1, <1>3, <4>1, <5>1
      <4>2. CASE j < Len(s) /\ s[j + 1] = Byte(n + 1, 1)
        <5>1. j + 1 \in 1 .. Len(s)
          BY <1>1, <4>2
        <5>. QED  BY <1>1, <4>2, <5>1
      <4>. QED  BY <3>2, <3>5, <4>1, <4>2
    <3>6. ASSUME NEW l \in j .. Len(r) PROVE n <= r[l].n
      <4>1. CASE l <= Len(s)
        BY <1>1, <3>2, <4>1, SMTT(30)
      <4>2. CASE l > Len(s)
        <5>1. l \in Len(s) + 1 .. Len(s) + c
          BY <1>1, <4>2
        <5>2. n <= N
          BY <1>2, <3>2
        <5>. QED  BY <1>3, <5>1, <5>2
      <4>. QED  BY <1>1, <4>1, <4>2
    <3>. QED  BY <3>1, <3>2, <3>3, <3>4, <3>5, <3>6 DEF n, i
  <2>2. CASE j > Len(s)
    <3>1. j \in Len(s) + 1 .. Len(s) + c /\ r[j].n = N /\ r[j].i = j - Len(s)
      BY <1>1, <1>3, <2>2
    <3>2. N \in 1 .. Len(z) /\ j - Len(s) \in 1 .. c
      BY <1>1, <1>2, <3>1
    <3>3. ASSUME NEW m \in 1 .. c
          PROVE  j + m - (j - Len(s)) <= Len(r) /\ r[j + m - (j - Len(s))] = Byte(N, m)
      <4>1. j + m - (j - Len(s)) = Len(s) + m /\ Len(s) + m \in Len(s) + 1 .. Len(s) + c
            /\ (Len(s) + m) - Len(s) = m
        BY <1>1, <3>1
      <4>. QED  BY <1>1, <1>3, <4>1
    <3>4. j - Len(s) = c => j = Len(r)
      BY <1>1, <3>1
    <3>5. \A l \in j .. Len(r) : N <= r[l].n
      BY <1>1, <1>2, <1>3, <3>1
    <3>. QED  BY <1>2, <3>1, <3>2, <3>3, <3>4, <3>5
  <2>. QED  BY <1>1, <2>1, <2>2
<1>5. Whole(r, z)
  BY <1>4 DEF Whole
<1>. QED  BY <1>2, <1>5 DEF r, z

\* Adding c bytes to the last frame leaves a stream.
LEMMA WholeGrows ==
  ASSUME NEW s \in Seq(BytesOfFrames), NEW sz \in Sizes, Whole(s, sz), Len(sz) > 0,
         NEW c \in Nat \ {0}, NEW t \in Seq(BytesOfFrames), Len(t) = c,
         \A x \in 1 .. c : t[x] = Byte(Len(sz), sz[Len(sz)] + x)
  PROVE  LET z == [sz EXCEPT ![Len(sz)] = @ + c] IN z \in Sizes /\ Whole(s \o t, z)
<1>. DEFINE r == s \o t  N == Len(sz)  h == sz[N]  z == [sz EXCEPT ![N] = h + c]
<1>1. /\ Len(s) \in Nat /\ Len(r) = Len(s) + c
      /\ \A j \in 1 .. Len(s) : r[j] = s[j]
      /\ \A j \in Len(s) + 1 .. Len(s) + c : r[j] = t[j - Len(s)]
  BY Added
<1>2. N \in Nat \ {0} /\ (\A n \in 1 .. N : sz[n] \in Nat \ {0}) /\ h \in Nat \ {0}
  BY LenProperties, ElementOfSeq DEF Sizes
<1>3. z \in Sizes /\ Len(z) = N /\ z[N] = h + c /\ \A n \in 1 .. N : n # N => z[n] = sz[n]
  <2>1. sz \in [1 .. N -> Nat \ {0}]
    BY <1>2, LenProperties DEF Sizes
  <2>2. z \in [1 .. N -> Nat \ {0}]
    BY <1>2, <2>1
  <2>3. z \in Seq(Nat \ {0}) /\ Len(z) = N
    BY <1>2, <2>2, SeqDef, LenProperties
  <2>4. N \in 1 .. N
    BY <1>2
  <2>5. z[N] = h + c /\ \A n \in 1 .. N : n # N => z[n] = sz[n]
    BY <2>1, <2>4
  <2>. QED  BY <2>3, <2>5 DEF Sizes
<1>4. \A j \in Len(s) + 1 .. Len(s) + c :
        /\ r[j] = Byte(N, h + (j - Len(s)))
        /\ r[j].n = N /\ r[j].i = h + (j - Len(s))
  <2>. SUFFICES ASSUME NEW j \in Len(s) + 1 .. Len(s) + c
                PROVE  /\ r[j] = Byte(N, h + (j - Len(s)))
                       /\ r[j].n = N /\ r[j].i = h + (j - Len(s))
    OBVIOUS
  <2>1. j - Len(s) \in 1 .. c
    BY <1>1
  <2>2. t[j - Len(s)] = Byte(N, h + (j - Len(s)))
    BY <2>1
  <2>3. r[j] = t[j - Len(s)]
    BY <1>1
  <2>. HIDE DEF r, h, N
  <2>4. r[j] = Byte(N, h + (j - Len(s)))
    BY <2>2, <2>3
  <2>. QED  BY <2>4 DEF Byte
<1>. HIDE DEF r, z, h
<1>5. ASSUME NEW j \in 1 .. Len(s), s[j].n = N
      PROVE  j + h - s[j].i = Len(s)
  <2>. DEFINE i == s[j].i
  <2>1. /\ i \in 1 .. h
        /\ \A m \in 1 .. h : j + m - i >= 1 => j + m - i <= Len(s) /\ s[j + m - i] = Byte(N, m)
    BY <1>5 DEF Whole, h
  <2>2. h \in 1 .. h /\ j + h - i >= 1
    BY <1>1, <1>2, <2>1
  <2>3. j + h - i \in 1 .. Len(s) /\ s[j + h - i] = Byte(N, h)
    BY <1>1, <1>2, <2>1, <2>2
  <2>4. s[j + h - i].n = N /\ s[j + h - i].i = h
    BY <1>2, <2>3, ByteFields
  <2>. QED  BY <2>3, <2>4 DEF Whole, h
<1>6. ASSUME NEW m \in h + 1 .. h + c
      PROVE  Len(s) + m - h \in 1 .. Len(r) /\ r[Len(s) + m - h] = Byte(N, m)
  <2>1. Len(s) + m - h \in Len(s) + 1 .. Len(s) + c /\ h + ((Len(s) + m - h) - Len(s)) = m
    BY <1>1, <1>2
  <2>. QED  BY <1>1, <1>4, <2>1
<1>7. ASSUME NEW j \in 1 .. Len(r)
      PROVE  LET n == r[j].n  i == r[j].i IN
               /\ n \in 1 .. Len(z) /\ i \in 1 .. z[n]
               /\ \A m \in 1 .. z[n] :
                    j + m - i >= 1 => j + m - i <= Len(r) /\ r[j + m - i] = Byte(n, m)
               /\ i = z[n] => \/ n = Len(z) /\ j = Len(r)
                              \/ n < Len(z) /\ j < Len(r) /\ r[j + 1] = Byte(n + 1, 1)
               /\ \A l \in j .. Len(r) : n <= r[l].n
  <2>1. CASE j <= Len(s)
    <3>. DEFINE n == s[j].n  i == s[j].i
    <3>1. j \in 1 .. Len(s) /\ r[j] = s[j]
      BY <1>1, <2>1
    <3>2. /\ n \in 1 .. Len(sz) /\ i \in 1 .. sz[n]
          /\ \A m \in 1 .. sz[n] : j + m - i >= 1 => j + m - i <= Len(s) /\ s[j + m - i] = Byte(n, m)
          /\ i = sz[n] => \/ n = Len(sz) /\ j = Len(s)
                          \/ n < Len(sz) /\ j < Len(s) /\ s[j + 1] = Byte(n + 1, 1)
          /\ \A l \in j .. Len(s) : n <= s[l].n
          /\ n = N => j + h - i = Len(s)
      BY <1>5, <3>1 DEF Whole
    <3>. HIDE DEF n, i
    <3>3. /\ n \in 1 .. Len(z) /\ sz[n] \in Nat /\ z[n] \in Nat /\ sz[n] <= z[n]
          /\ n # N => z[n] = sz[n]
          /\ n = N => sz[n] = h /\ z[n] = h + c
      BY <1>2, <1>3, <3>2, SMTT(30) DEF h
    <3>4. ASSUME NEW m \in 1 .. z[n], j + m - i >= 1
          PROVE  j + m - i <= Len(r) /\ r[j + m - i] = Byte(n, m)
      <4>1. CASE m <= sz[n]
        <5>1. j + m - i \in 1 .. Len(s) /\ s[j + m - i] = Byte(n, m)
          BY <3>2, <3>3, <3>4, <4>1
        <5>. QED  BY <1>1, <5>1
      <4>2. CASE m > sz[n]
        <5>a. n = N
          BY <3>3, <4>2
        <5>b. m \in h + 1 .. h + c
          BY <1>2, <3>3, <4>2, <5>a
        <5>c. j + h - i = Len(s) /\ i \in Nat
          BY <3>2, <5>a
        <5>d. j \in Nat /\ h \in Nat /\ m \in Nat
          BY <1>2, <5>b
        <5>1. n = N /\ m \in h + 1 .. h + c /\ j + m - i = Len(s) + m - h
          <6>1. j + m - i = Len(s) + m - h
            BY <5>c, <5>d
          <6>. QED  BY <5>a, <5>b, <6>1
        <5>2. Len(s) + m - h \in 1 .. Len(r) /\ r[Len(s) + m - h] = Byte(N, m)
          BY <1>6, <5>1
        <5>. QED  BY <5>1, <5>2, <1>1
      <4>. QED  BY <3>3, <4>1, <4>2
    <3>5. ASSUME i = z[n]
          PROVE  n < Len(z) /\ j < Len(r) /\ r[j + 1] = Byte(n + 1, 1)
      <4>1. n # N /\ i = sz[n]
        BY <1>2, <3>2, <3>3, <3>5
      <4>2. n < Len(sz) /\ j < Len(s) /\ s[j + 1] = Byte(n + 1, 1)
        BY <3>2, <4>1
      <4>3. j + 1 \in 1 .. Len(s)
        BY <1>1, <4>2
      <4>. QED  BY <1>1, <1>3, <4>2, <4>3
    <3>6. ASSUME NEW l \in j .. Len(r) PROVE n <= r[l].n
      <4>1. CASE l <= Len(s)
        BY <1>1, <3>2, <4>1
      <4>2. CASE l > Len(s)
        <5>1. l \in Len(s) + 1 .. Len(s) + c
          BY <1>1, <4>2
        <5>2. n <= N
          BY <1>2, <3>2
        <5>. QED  BY <1>4, <5>1, <5>2
      <4>. QED  BY <1>1, <4>1, <4>2
    <3>7. i \in 1 .. z[n]
      BY <3>2, <3>3, SMTT(30)
    <3>. QED  BY <3>1, <3>3, <3>4, <3>5, <3>6, <3>7 DEF n, i
  <2>2. CASE j > Len(s)
    <3>1. /\ j \in Len(s) + 1 .. Len(s) + c
          /\ r[j].n = N /\ r[j].i = h + (j - Len(s))
      BY <1>1, <1>4, <2>2
    <3>2. N \in 1 .. Len(z) /\ h + (j - Len(s)) \in 1 .. h + c
      BY <1>1, <1>2, <1>3, <3>1
    <3>3. ASSUME NEW m \in 1 .. h + c, j + m - (h + (j - Len(s))) >= 1
          PROVE  /\ j + m - (h + (j - Len(s))) <= Len(r)
                 /\ r[j + m - (h + (j - Len(s)))] = Byte(N, m)
      <4>1. j + m - (h + (j - Len(s))) = Len(s) + m - h
        BY <1>1, <1>2, <3>1
      <4>2. CASE m > h
        <5>1. m \in h + 1 .. h + c
          BY <1>2, <4>2
        <5>2. Len(s) + m - h \in 1 .. Len(r) /\ r[Len(s) + m - h] = Byte(N, m)
          BY <1>6, <5>1
        <5>. QED  BY <4>1, <5>2, <1>1
      <4>3. CASE m <= h
        <5>1. Len(s) + m - h >= 1 /\ Len(s) > 0
          BY <1>1, <1>2, <3>3, <4>1, <4>3
        <5>2. /\ Len(s) \in 1 .. Len(s) /\ s[Len(s)].n = N /\ s[Len(s)].i = h
          BY <5>1, LastByte DEF h
        <5>3. m \in 1 .. sz[N] /\ Len(s) + m - s[Len(s)].i >= 1
          BY <1>2, <4>3, <5>1, <5>2 DEF h
        <5>4. Len(s) + m - h <= Len(s) /\ s[Len(s) + m - h] = Byte(N, m)
          BY <5>2, <5>3 DEF Whole
        <5>5. Len(s) + m - h \in 1 .. Len(s)
          BY <1>1, <1>2, <5>1, <5>4
        <5>. QED  BY <1>1, <4>1, <5>4, <5>5
      <4>. QED  BY <1>2, <4>2, <4>3
    <3>4. h + (j - Len(s)) = h + c => j = Len(r)
      <4>1. Len(s) \in Nat /\ Len(r) = Len(s) + c /\ j \in Nat /\ h \in Nat
        BY <1>1, <1>2
      <4>. QED  BY <4>1
    <3>5. \A l \in j .. Len(r) : N <= r[l].n
      BY <1>1, <1>2, <1>4, <3>1
    <3>. QED  BY <1>3, <3>1, <3>2, <3>3, <3>4, <3>5
  <2>. QED  BY <1>1, <2>1, <2>2
<1>8. Whole(r, z)
  BY <1>7 DEF Whole
<1>9. z = [sz EXCEPT ![Len(sz)] = @ + c]
  BY DEF z, h
<1>. QED  BY <1>3, <1>8, <1>9 DEF r

-----------------------------------------------------------------------------
(* The state at a glance.                                                   *)

\* The bytes of a header and of a payload.
LEMMA FrameBytes ==
  ASSUME NEW n \in Nat, NEW k \in Nat
  PROVE  /\ HeaderOf(n) \in Seq(BytesOfFrames) /\ Len(HeaderOf(n)) = HeaderSize
         /\ \A x \in 1 .. HeaderSize : HeaderOf(n)[x] = Byte(n, x)
         /\ PayloadOf(n, k) \in Seq(BytesOfFrames) /\ Len(PayloadOf(n, k)) = k
         /\ \A x \in 1 .. k : PayloadOf(n, k)[x] = Byte(n, HeaderSize + x)
<1>. USE SessionAssumption
<1>1. HeaderOf(n) \in [1 .. HeaderSize -> BytesOfFrames]
  BY DEF HeaderOf, BytesOfFrames
<1>2. PayloadOf(n, k) \in [1 .. k -> BytesOfFrames]
  BY DEF PayloadOf, BytesOfFrames
<1>3. HeaderOf(n) \in Seq(BytesOfFrames) /\ PayloadOf(n, k) \in Seq(BytesOfFrames)
  BY <1>1, <1>2, SeqDef
<1>4. Len(HeaderOf(n)) = HeaderSize /\ Len(PayloadOf(n, k)) = k
  BY <1>1, <1>2, <1>3, LenProperties
<1>. QED  BY <1>3, <1>4 DEF HeaderOf, PayloadOf, Byte

\* A call that is not going on.
LEMMA IdleCall ==
  /\ Idle \in Calls /\ Idle.kind = "none" /\ Idle.phase = "header" /\ Idle.got = <<>>
BY DEF Idle, Calls

\* The sizes of the frames of the device.
LEMMA WireSizes ==
  ASSUME SessionTypeOK
  PROVE  /\ wireSizes \in Sizes /\ Len(wireSizes) = Len(offered) /\ Len(offered) \in Nat
         /\ \A n \in 1 .. Len(offered) :
              /\ offered[n] \in DeviceFrames /\ offered[n].len \in Nat
              /\ wireSizes[n] = HeaderSize + offered[n].len
<1>. USE SessionAssumption
<1>1. Len(offered) \in Nat /\ \A n \in 1 .. Len(offered) : offered[n] \in DeviceFrames
  BY LenProperties, ElementOfSeq DEF SessionTypeOK
<1>2. \A n \in 1 .. Len(offered) : offered[n].len \in Nat
  BY <1>1 DEF DeviceFrames
<1>3. wireSizes \in [1 .. Len(offered) -> Nat \ {0}]
  BY <1>2 DEF wireSizes
<1>4. wireSizes \in Seq(Nat \ {0})
  BY <1>1, <1>3, SeqDef
<1>5. Len(wireSizes) = Len(offered)
  BY <1>1, <1>3, <1>4, LenProperties
<1>. QED  BY <1>1, <1>2, <1>4, <1>5 DEF Sizes, wireSizes

\* The sizes of what has been written of the host's frames.
LEMMA OutSizes ==
  ASSUME SessionTypeOK, OneOwner
  PROVE  /\ outSizes \in Sizes /\ Len(outSizes) = Started /\ Started \in Nat
         /\ Started <= Len(submitted) /\ Len(submitted) \in Nat
         /\ \A n \in 1 .. Len(submitted) : Size(n) \in Nat
         /\ \A n \in 1 .. Started :
              outSizes[n] = IF Pending("payload") /\ n = op.n THEN HeaderSize ELSE HeaderSize + Size(n)
<1>. USE SessionAssumption
<1>1. Len(submitted) \in Nat /\ \A n \in 1 .. Len(submitted) : submitted[n] \in HostFrames
  BY LenProperties, ElementOfSeq DEF SessionTypeOK
<1>2. \A n \in 1 .. Len(submitted) : Size(n) \in Nat
  BY <1>1 DEF HostFrames, Size
<1>3. Started \in Nat /\ Started <= Len(submitted)
  BY <1>1 DEF Started, Pending, OneOwner
<1>4. ASSUME NEW n \in 1 .. Started
      PROVE  (IF Pending("payload") /\ n = op.n THEN HeaderSize ELSE HeaderSize + Size(n)) \in Nat \ {0}
  <2>1. Size(n) \in Nat
    BY <1>1, <1>2, <1>3
  <2>. QED  BY <2>1
<1>5. outSizes \in [1 .. Started -> Nat \ {0}]
  BY <1>4 DEF outSizes
<1>6. outSizes \in Seq(Nat \ {0})
  BY <1>3, <1>5, SeqDef
<1>7. Len(outSizes) = Started
  BY <1>3, <1>5, <1>6, LenProperties
<1>. QED  BY <1>1, <1>2, <1>3, <1>6, <1>7 DEF Sizes, outSizes

\* Before anything is sent all streams are empty.
LEMMA SessionInit == Init => SessionInv
<1>. SUFFICES ASSUME Init PROVE SessionInv
  OBVIOUS
<1>. USE SessionAssumption
<1>1. PICK o \in Objects : session = [x \in Objects |-> IF x = o THEN "open" ELSE "none"]
  BY DEF Init
<1>2. op = Idle /\ op \in Calls
  BY IdleCall, Zenon DEF Init
<1>3. SessionTypeOK
  <2>1. session \in [Objects -> {"none", "open", "closed"}]
    BY <1>1
  <2>2. dev \in [phase : {"header", "payload", "lost"}, n : Nat] /\ torn \in BOOLEAN /\ byCaller \in BOOLEAN
    BY DEF Init
  <2>3. /\ transport \in {"open", "closed"}
        /\ wire \in Seq(BytesOfFrames) /\ out \in Seq(BytesOfFrames)
        /\ offered \in Seq(DeviceFrames) /\ submitted \in Seq(HostFrames)
        /\ received \in Seq(Nat) /\ handled \in Seq(Nat)
    BY DEF Init
  <2>. QED  BY <1>2, <2>1, <2>2, <2>3 DEF SessionTypeOK
<1>4. OneOwner
  BY <1>1, <1>2, IdleCall DEF Init, OneOwner, TransportHeld
<1>5. ~InHeader /\ ~InPayload /\ ~Pending("header") /\ ~Pending("payload")
  BY <1>2, IdleCall DEF InHeader, InPayload, Pending
<1>6. /\ wire = <<>> /\ out = <<>> /\ Len(offered) = 0 /\ Len(submitted) = 0 /\ Len(received) = 0
      /\ Len(handled) = 0 /\ dev.phase = "header" /\ transport = "open"
  BY DEF Init
<1>7. wireAt = Byte(1, 1) /\ outAt = Byte(1, 1)
  BY <1>5, <1>6 DEF wireAt, outAt, At, Started
<1>8. wireAt.n = 1 /\ wireAt.i = 1
  BY <1>7, ByteFields
<1>9. Whole(wire, wireSizes) /\ Whole(out, outSizes)
  BY <1>6 DEF Whole
<1>10. ReadPosition /\ InStep
  BY <1>5, <1>6, <1>8, <1>9 DEF ReadPosition, InStep, Current
<1>11. ClosedForCause /\ DevicePosition
  BY <1>6, <1>7, <1>9 DEF ClosedForCause, DevicePosition
<1>. QED  BY <1>3, <1>4, <1>10, <1>11 DEF SessionInv

\* A step that is not one of receive leaves receive where it is.
LEMMA ReadingUnchanged ==
  ASSUME SessionInv, UNCHANGED <<wire, offered, received, torn>>,
         transport' = transport \/ transport' = "closed",
         InHeader \/ InPayload => op' = op,
         ~InHeader /\ ~InPayload => ~InHeader' /\ ~InPayload'
  PROVE  ReadPosition' /\ InStep'
<1>1. wireSizes' = wireSizes /\ wireAt' = wireAt
  BY DEF wireSizes, wireAt
<1>2. Whole(wire, wireSizes)' <=> Whole(wire, wireSizes)
  BY <1>1 DEF Whole
<1>3. CASE ~InHeader /\ ~InPayload
  <2>1. Current' = Current
    BY <1>1, <1>3 DEF Current
  <2>. QED  BY <1>1, <1>2, <1>3, <2>1 DEF SessionInv, ReadPosition, InStep
<1>4. CASE InHeader \/ InPayload
  <2>1. op' = op
    BY <1>4
  <2>2. (InHeader' <=> InHeader) /\ (InPayload' <=> InPayload) /\ Current' = Current
    BY <1>1, <2>1 DEF InHeader, InPayload, Current
  <2>. QED  BY <1>1, <1>2, <2>1, <2>2 DEF SessionInv, ReadPosition, InStep, LengthValid
<1>. QED  BY <1>3, <1>4

\* A step that neither writes nor is the device's leaves the device where it is.
LEMMA WritingUnchanged ==
  ASSUME SessionInv, UNCHANGED <<out, submitted, dev, handled>>,
         op.kind # "send", op'.kind # "send"
  PROVE  "write" \notin Faults => DevicePosition'
<1>1. Started' = Started /\ ~Pending("payload") /\ ~Pending("payload")'
  BY DEF Started, Pending
<1>2. \A n : Size(n)' = Size(n)
  BY DEF Size
<1>3. outSizes' = outSizes /\ outAt' = outAt
  BY <1>1, <1>2 DEF outSizes, outAt, At
<1>4. Whole(out, outSizes)' <=> Whole(out, outSizes)
  BY <1>3 DEF Whole
<1>. QED  BY <1>2, <1>3, <1>4 DEF SessionInv, DevicePosition

-----------------------------------------------------------------------------
(* Session objects, and the beginning and the end of a call.                *)

LEMMA ObjectsKeepInv ==
  ASSUME SessionInv,
         \/ \E a, b \in Objects : Move(a, b)
         \/ \E o \in Objects : Close(o)
  PROVE  SessionInv'
<1>t. SessionTypeOK /\ OneOwner
  BY DEF SessionInv
<1>1. /\ op = Idle /\ op' = Idle
      /\ UNCHANGED <<wire, out, received, submitted, offered, dev, handled, torn>>
  BY DEF Move, Close, deviceVars
<1>2. ~InHeader /\ ~InPayload /\ ~InHeader' /\ ~InPayload' /\ op.kind = "none" /\ op'.kind = "none"
  BY <1>1, IdleCall DEF InHeader, InPayload
<1>3. transport' = transport \/ transport' = "closed"
  BY DEF Move, Close, CloseSession
<1>4. (ReadPosition /\ InStep)'
  BY <1>1, <1>2, <1>3, ReadingUnchanged
<1>5. "write" \notin Faults => DevicePosition'
  BY <1>1, <1>2, WritingUnchanged
<1>6. CASE \E a, b \in Objects : Move(a, b)
  <2>1. PICK a \in Objects, b \in Objects : Move(a, b)
    BY <1>6
  <2>2. /\ a # b /\ session' = [session EXCEPT ![b] = session[a], ![a] = "closed"]
        /\ transport' = transport /\ byCaller' = byCaller
    BY <2>1 DEF Move, MovedFrom
  <2>3. /\ session' \in [Objects -> {"none", "open", "closed"}]
        /\ \A x \in Objects : session'[x] = IF x = a THEN "closed" ELSE IF x = b THEN session[a] ELSE session[x]
    BY <2>2, <1>t DEF SessionTypeOK
  <2>4. SessionTypeOK'
    BY <1>1, <1>t, <2>2, <2>3 DEF SessionTypeOK
  <2>5. OneOwner'
    BY <1>1, <1>2, <1>t, <2>2, <2>3 DEF OneOwner, TransportHeld
  <2>6. ClosedForCause'
    BY <1>1, <2>2 DEF SessionInv, ClosedForCause
  <2>. QED  BY <1>4, <1>5, <2>4, <2>5, <2>6 DEF SessionInv
<1>7. CASE \E o \in Objects : Close(o)
  <2>1. PICK o \in Objects : Close(o)
    BY <1>7
  <2>2. CloseSession(o) /\ byCaller' = (byCaller \/ session[o] = "open")
    BY <2>1 DEF Close
  <2>3. CASE session[o] = "open"
    <3>1. session' = [session EXCEPT ![o] = "closed"] /\ transport' = "closed" /\ byCaller' = TRUE
      BY <2>2, <2>3 DEF CloseSession
    <3>2. /\ session' \in [Objects -> {"none", "open", "closed"}]
          /\ \A x \in Objects : session'[x] = IF x = o THEN "closed" ELSE session[x]
      BY <3>1, <1>t DEF SessionTypeOK
    <3>3. SessionTypeOK'
      BY <1>1, <1>t, <3>1, <3>2 DEF SessionTypeOK
    <3>4. OneOwner'
      BY <1>1, <1>2, <1>t, <2>3, <3>1, <3>2 DEF OneOwner, TransportHeld
    <3>5. ClosedForCause'
      BY <3>1 DEF ClosedForCause
    <3>. QED  BY <1>4, <1>5, <3>3, <3>4, <3>5 DEF SessionInv
  <2>4. CASE session[o] # "open"
    <3>1. session' = session /\ transport' = transport /\ byCaller' = byCaller
      <4>1. session' = session /\ transport' = transport
        BY <2>2, <2>4 DEF CloseSession
      <4>2. byCaller \in BOOLEAN
        BY <1>t DEF SessionTypeOK
      <4>. QED  BY <2>2, <2>4, <4>1, <4>2
    <3>2. SessionTypeOK'
      BY <1>1, <1>t, <3>1 DEF SessionTypeOK
    <3>3. OneOwner'
      BY <1>1, <1>2, <1>t, <3>1 DEF OneOwner, TransportHeld
    <3>4. ClosedForCause'
      BY <1>1, <3>1 DEF SessionInv, ClosedForCause
    <3>. QED  BY <1>4, <1>5, <3>2, <3>3, <3>4 DEF SessionInv
  <2>. QED  BY <2>3, <2>4
<1>. QED  BY <1>6, <1>7

LEMMA ReceiveCallKeepsInv ==
  ASSUME SessionInv, NEW o \in Objects, ReceiveCall(o)
  PROVE  SessionInv'
<1>t. SessionTypeOK /\ OneOwner
  BY DEF SessionInv
<1>1. /\ op = Idle /\ session[o] = "open" /\ op' = [Idle EXCEPT !.kind = "receive", !.by = o]
      /\ UNCHANGED <<session, transport, wire, out, received, submitted, offered, dev, handled,
                     torn, byCaller>>
  BY DEF ReceiveCall, deviceVars
<1>2. op'.kind = "receive" /\ op'.by = o /\ op'.phase = "header" /\ op'.got = <<>> /\ op' \in Calls
  <2>1. op' = [kind |-> "receive", by |-> o, phase |-> "header", n |-> 0, got |-> <<>>]
    BY <1>1 DEF Idle
  <2>. QED  BY <2>1 DEF Calls
<1>3. ~InHeader /\ ~InPayload /\ ~InHeader' /\ ~InPayload' /\ op.kind = "none"
  BY <1>1, <1>2, IdleCall DEF InHeader, InPayload
<1>4. (ReadPosition /\ InStep)'
  BY <1>1, <1>3, ReadingUnchanged
<1>5. "write" \notin Faults => DevicePosition'
  BY <1>1, <1>2, <1>3, WritingUnchanged
<1>6. SessionTypeOK'
  BY <1>1, <1>2, <1>t DEF SessionTypeOK
<1>7. OneOwner'
  BY <1>1, <1>2, <1>t DEF OneOwner, TransportHeld
<1>8. ClosedForCause'
  BY <1>1 DEF SessionInv, ClosedForCause
<1>. QED  BY <1>4, <1>5, <1>6, <1>7, <1>8 DEF SessionInv

\* Places in the stream are numbers.
LEMMA PlacesAreNumbers ==
  ASSUME SessionInv
  PROVE  /\ wireAt \in BytesOfFrames /\ wireAt.n \in Nat /\ wireAt.i \in Nat
         /\ Current \in Nat
         /\ Len(received) \in Nat /\ \A r \in 1 .. Len(received) : received[r] \in Nat
<1>t. SessionTypeOK
  BY DEF SessionInv
<1>1. Len(received) \in Nat /\ \A r \in 1 .. Len(received) : received[r] \in Nat
  BY <1>t, ElementOfSeq, LenProperties DEF SessionTypeOK
<1>2. wireAt \in BytesOfFrames
  <2>1. CASE wire = <<>>
    BY <2>1, <1>t, WireSizes, ByteFields DEF wireAt, At
  <2>2. CASE wire # <<>>
    <3>1. wire[1] \in BytesOfFrames
      BY <2>2, <1>t, EmptyIff, ElementOfSeq DEF SessionTypeOK
    <3>. QED  BY <2>2, <3>1 DEF wireAt, At
  <2>. QED  BY <2>1, <2>2
<1>3. wireAt.n \in Nat /\ wireAt.i \in Nat
  BY <1>2 DEF BytesOfFrames
<1>4. Current \in Nat
  BY <1>t, <1>3 DEF Current, SessionInv, ReadPosition, SessionTypeOK, Calls
<1>. QED  BY <1>1, <1>2, <1>3, <1>4

\* A read that fails drops what it has, which tears the frame it was in.
LEMMA ReadFailsKeepsInv ==
  ASSUME SessionInv, ReadFails
  PROVE  SessionInv'
<1>t. SessionTypeOK /\ OneOwner
  BY DEF SessionInv
<1>1. /\ op.kind = "receive" /\ op' = Idle
      /\ torn' = (torn \/ op.phase = "payload" \/ op.got # <<>>)
      /\ UNCHANGED <<session, transport, wire, out, received, submitted, offered, dev, handled, byCaller>>
  BY DEF ReadFails, Return, deviceVars
<1>2. torn' \in BOOLEAN /\ (torn => torn') /\ (InHeader \/ InPayload => torn')
  BY <1>1, <1>t DEF SessionTypeOK, InHeader, InPayload
<1>3. /\ op'.kind = "none" /\ ~InHeader' /\ ~InPayload'
  BY <1>1, IdleCall DEF InHeader, InPayload
<1>4. SessionTypeOK'
  <2>1. op' \in Calls
    BY <1>1, IdleCall
  <2>. QED  BY <1>1, <1>2, <1>t, <2>1 DEF SessionTypeOK
<1>5. OneOwner'
  BY <1>1, <1>3, <1>t DEF OneOwner, TransportHeld
<1>6. ClosedForCause'
  BY <1>1, <1>2 DEF SessionInv, ClosedForCause
<1>7. "write" \notin Faults => DevicePosition'
  BY <1>1, <1>3, WritingUnchanged
<1>8. wireSizes' = wireSizes /\ wireAt' = wireAt
  BY <1>1 DEF wireSizes, wireAt
<1>9. Whole(wire, wireSizes)' <=> Whole(wire, wireSizes)
  BY <1>1, <1>8 DEF Whole
<1>10. Current' = wireAt.n
  BY <1>3, <1>8 DEF Current
<1>11. wireAt.n \in Nat /\ Current \in Nat /\ \A r \in 1 .. Len(received) : received[r] \in Nat
  BY PlacesAreNumbers
<1>12. ReadPosition'
  BY <1>1, <1>3, <1>8, <1>9, <1>10, <1>11 DEF SessionInv, ReadPosition
<1>13. InStep'
  <2>1. CASE InHeader \/ InPayload
    BY <1>2, <2>1 DEF InStep
  <2>2. CASE ~InHeader /\ ~InPayload
    <3>1. Current = wireAt.n
      BY <2>2 DEF Current
    <3>. QED  BY <1>1, <1>2, <1>3, <1>8, <1>10, <2>2, <3>1 DEF SessionInv, InStep
  <2>. QED  BY <2>1, <2>2
<1>. QED  BY <1>4, <1>5, <1>6, <1>7, <1>12, <1>13 DEF SessionInv

-----------------------------------------------------------------------------
(* Session::receive: the bytes that were read.                              *)

\* Bytes read within a frame bring receive to its next byte, or to the next frame.
LEMMA ReadAlong ==
  ASSUME SessionTypeOK, Whole(wire, wireSizes), NEW n \in Nat, NEW i \in Nat,
         wireAt = Byte(n, i), NEW k \in 1 .. Len(wire), i + k <= wireSizes[n] + 1,
         wire' = SubSeq(wire, k + 1, Len(wire)), offered' = offered
  PROVE  /\ n \in 1 .. Len(offered) /\ i >= 1
         /\ i + k <= HeaderSize + offered[n].len => wireAt' = Byte(n, i + k)
         /\ i + k = HeaderSize + offered[n].len + 1 => wireAt' = Byte(n + 1, 1)
<1>1. /\ wireSizes \in Sizes /\ Len(wireSizes) = Len(offered) /\ Len(offered) \in Nat
      /\ \A x \in 1 .. Len(offered) : offered[x].len \in Nat /\ wireSizes[x] = HeaderSize + offered[x].len
  BY WireSizes
<1>2. wire \in Seq(BytesOfFrames) /\ Len(wire) \in Nat /\ Len(wire) > 0 /\ wire # <<>>
  BY EmptyIff DEF SessionTypeOK
<1>3. wire[1] = Byte(n, i)
  BY <1>2 DEF wireAt, At
<1>4. k \in Nat
  BY <1>2
<1>5. /\ n \in 1 .. Len(wireSizes) /\ i \in 1 .. wireSizes[n]
      /\ i + k <= wireSizes[n] => k < Len(wire) /\ wire[k + 1] = Byte(n, i + k)
      /\ i + k = wireSizes[n] + 1 =>
           \/ n = Len(wireSizes) /\ k = Len(wire)
           \/ n < Len(wireSizes) /\ k < Len(wire) /\ wire[k + 1] = Byte(n + 1, 1)
  BY <1>1, <1>2, <1>3, <1>4, AlongFrame
<1>6. /\ wire' \in Seq(BytesOfFrames) /\ Len(wire') = Len(wire) - k
      /\ \A j \in 1 .. Len(wire) - k : wire'[j] = wire[j + k]
  BY <1>2, RestOf
<1>7. k < Len(wire) => wireAt' = wire[k + 1]
  <2>. SUFFICES ASSUME k < Len(wire) PROVE wireAt' = wire[k + 1]
    OBVIOUS
  <2>0. 1 \in 1 .. Len(wire) - k /\ 1 + k = k + 1 /\ Len(wire') # 0
    BY <1>2, <1>6
  <2>1. wire' # <<>> /\ 1 \in 1 .. Len(wire) - k /\ 1 + k = k + 1
    BY <1>6, <2>0, EmptyIff
  <2>. QED  BY <1>6, <2>1 DEF wireAt, At
<1>8. k = Len(wire) => wireAt' = Byte(Len(offered) + 1, 1)
  <2>1. k = Len(wire) => wire' = <<>>
    BY <1>2, <1>6, EmptyIff
  <2>. QED  BY <2>1 DEF wireAt, At
<1>9. wireSizes[n] = HeaderSize + offered[n].len /\ n \in 1 .. Len(offered) /\ i >= 1
  BY <1>1, <1>5
<1>. QED  BY <1>1, <1>5, <1>7, <1>8, <1>9

\* However many bytes are read, the place in the stream does not go back.
LEMMA ReadForward ==
  ASSUME SessionTypeOK, Whole(wire, wireSizes), NEW k \in 1 .. Len(wire),
         wire' = SubSeq(wire, k + 1, Len(wire)), offered' = offered
  PROVE  /\ wire' \in Seq(BytesOfFrames) /\ Whole(wire, wireSizes)'
         /\ wireAt = wire[1] /\ wire[1].n \in 1 .. Len(offered) /\ wireAt.n <= wireAt'.n
<1>1. wireSizes \in Sizes /\ Len(wireSizes) = Len(offered) /\ Len(offered) \in Nat
  BY WireSizes
<1>2. wire \in Seq(BytesOfFrames) /\ Len(wire) \in Nat /\ Len(wire) > 0 /\ wire # <<>>
  BY EmptyIff DEF SessionTypeOK
<1>3. /\ wire' \in Seq(BytesOfFrames) /\ Len(wire') = Len(wire) - k
      /\ \A j \in 1 .. Len(wire) - k : wire'[j] = wire[j + k]
  BY <1>2, RestOf
<1>4. Whole(wire', wireSizes)
  BY <1>1, <1>2, WholeRest
<1>5. wireSizes' = wireSizes
  BY DEF wireSizes
<1>6. wireAt = wire[1]
  BY <1>2 DEF wireAt, At
<1>7. wire[1].n \in 1 .. Len(offered) /\ \A l \in 1 .. Len(wire) : wire[1].n <= wire[l].n
  BY <1>1, <1>2 DEF Whole
<1>8. wireAt.n <= wireAt'.n
  <2>1. CASE k = Len(wire)
    <3>1. wire' = <<>>
      BY <1>2, <1>3, <2>1, EmptyIff
    <3>2. wireAt' = Byte(Len(offered) + 1, 1)
      BY <3>1 DEF wireAt, At
    <3>3. wireAt'.n = Len(offered) + 1
      BY <1>1, <3>2, ByteFields
    <3>. QED  BY <1>1, <1>6, <1>7, <3>3
  <2>2. CASE k < Len(wire)
    <3>0. 1 \in 1 .. Len(wire) - k /\ k + 1 \in 1 .. Len(wire) /\ Len(wire') # 0 /\ 1 + k = k + 1
      BY <1>2, <1>3, <2>2
    <3>1. wire' # <<>> /\ k + 1 \in 1 .. Len(wire)
      BY <1>3, <3>0, EmptyIff
    <3>2. wireAt' = wire[k + 1]
      BY <1>3, <3>0, <3>1 DEF wireAt, At
    <3>. QED  BY <1>6, <1>7, <3>1, <3>2
  <2>. QED  BY <1>2, <2>1, <2>2
<1>. QED  BY <1>3, <1>4, <1>5, <1>6, <1>7, <1>8

\* What ReadSome leaves alone, and what it has when the bytes have come.
LEMMA BytesCome ==
  ASSUME SessionInv, NEW k \in 1 .. HeaderSize + MaxData, ReadSome(k)
  PROVE  LET got == op.got \o SubSeq(wire, 1, k) IN
         /\ op.kind = "receive" /\ k \in 1 .. Len(wire) /\ Len(op.got) + k <= Wanted
         /\ UNCHANGED <<out, submitted, offered, dev, handled, torn, byCaller>>
         /\ wire' = SubSeq(wire, k + 1, Len(wire))
         /\ got \in Seq(BytesOfFrames) /\ got # <<>>
         /\ Len(op.got) \in Nat /\ Len(got) = Len(op.got) + k
         /\ got[1] = IF op.got = <<>> THEN wire[1] ELSE op.got[1]
<1>. DEFINE got == op.got \o SubSeq(wire, 1, k)
<1>. USE SessionAssumption
<1>1. /\ op.kind = "receive" /\ k <= Len(wire) /\ Len(op.got) + k <= Wanted
      /\ UNCHANGED <<out, submitted, offered, dev, handled, torn, byCaller>>
      /\ wire' = SubSeq(wire, k + 1, Len(wire))
  BY DEF ReadSome, deviceVars
<1>2. wire \in Seq(BytesOfFrames) /\ op.got \in Seq(BytesOfFrames) /\ Len(wire) \in Nat
  BY LenProperties DEF SessionInv, SessionTypeOK, Calls
<1>3. k \in 1 .. Len(wire) /\ k \in 0 .. Len(wire)
  BY <1>1, <1>2
<1>4. /\ SubSeq(wire, 1, k) \in Seq(BytesOfFrames) /\ Len(SubSeq(wire, 1, k)) = k
      /\ SubSeq(wire, 1, k)[1] = wire[1]
  BY <1>2, <1>3, FirstOf
<1>5. /\ got \in Seq(BytesOfFrames) /\ Len(op.got) \in Nat /\ Len(got) = Len(op.got) + k
      /\ \A j \in 1 .. Len(op.got) : got[j] = op.got[j]
      /\ \A j \in Len(op.got) + 1 .. Len(op.got) + k : got[j] = SubSeq(wire, 1, k)[j - Len(op.got)]
  BY <1>2, <1>4, Added
<1>6. got # <<>>
  BY <1>3, <1>5, EmptyIff
<1>7. got[1] = IF op.got = <<>> THEN wire[1] ELSE op.got[1]
  <2>1. CASE op.got = <<>>
    <3>1. Len(op.got) = 0 /\ 1 \in Len(op.got) + 1 .. Len(op.got) + k
      BY <1>3, <2>1
    <3>. QED  BY <1>4, <1>5, <2>1, <3>1
  <2>2. CASE op.got # <<>>
    <3>1. 1 \in 1 .. Len(op.got)
      BY <1>2, <2>2, EmptyIff
    <3>. QED  BY <1>5, <2>2, <3>1
  <2>. QED  BY <2>1, <2>2
<1>. QED  BY <1>1, <1>3, <1>5, <1>6, <1>7

\* Where receive is in a header.
LEMMA HeaderPlace ==
  ASSUME SessionInv, NEW k \in 1 .. HeaderSize + MaxData, ReadSome(k), op.phase = "header"
  PROVE  LET got == op.got \o SubSeq(wire, 1, k)
             n == got[1].n
         IN  /\ n \in 1 .. Len(offered) /\ Current = n /\ got[1].i \in Nat
             /\ Len(got) <= HeaderSize
             /\ n <= wireAt'.n
             /\ ~torn => got[1].i = 1 /\ n = Len(received) + 1
             /\ got[1].i = 1 =>
                  /\ Len(got) < HeaderSize + offered[n].len => wireAt' = Byte(n, Len(got) + 1)
                  /\ Len(got) = HeaderSize + offered[n].len => wireAt' = Byte(n + 1, 1)
<1>. DEFINE got == op.got \o SubSeq(wire, 1, k)  n == got[1].n
<1>. USE SessionAssumption
<1>t. SessionTypeOK /\ OneOwner /\ Whole(wire, wireSizes)
  BY DEF SessionInv, ReadPosition
<1>1. /\ op.kind = "receive" /\ k \in 1 .. Len(wire) /\ Len(op.got) + k <= Wanted
      /\ offered' = offered /\ wire' = SubSeq(wire, k + 1, Len(wire))
      /\ got \in Seq(BytesOfFrames) /\ got # <<>>
      /\ Len(op.got) \in Nat /\ Len(got) = Len(op.got) + k
      /\ got[1] = IF op.got = <<>> THEN wire[1] ELSE op.got[1]
  BY BytesCome
<1>. HIDE DEF got
<1>2. Wanted = HeaderSize /\ ~InPayload /\ (InHeader <=> op.got # <<>>)
  BY <1>1 DEF Wanted, InPayload, InHeader
<1>3. wireAt = wire[1] /\ wire[1].n \in 1 .. Len(offered) /\ wireAt.n <= wireAt'.n
  BY <1>t, <1>1, ReadForward
<1>4. transport = "open"
  BY <1>t, <1>1 DEF OneOwner, TransportHeld
<1>5. got[1] \in BytesOfFrames
  BY <1>1, EmptyIff, ElementOfSeq
<1>6. got[1].i \in Nat /\ got[1].n \in Nat
  BY <1>5 DEF BytesOfFrames
<1>7. got[1] = Byte(n, got[1].i)
  BY <1>5 DEF BytesOfFrames, Byte
<1>8. /\ n \in 1 .. Len(offered) /\ Current = n
      /\ ~torn => got[1].i = 1 /\ n = Len(received) + 1
      /\ got[1].i = 1 => wireAt = Byte(n, Len(op.got) + 1)
  <2>1. CASE op.got = <<>>
    <3>1. got[1] = wire[1] /\ Len(op.got) = 0 /\ ~InHeader
      BY <1>1, <1>2, <2>1
    <3>2. Current = wireAt.n
      BY <1>2, <3>1 DEF Current
    <3>. QED  BY <1>2, <1>3, <1>4, <1>7, <3>1, <3>2 DEF SessionInv, InStep
  <2>2. CASE op.got # <<>>
    <3>1. got[1] = op.got[1] /\ InHeader
      BY <1>1, <1>2, <2>2
    <3>2. Current = op.got[1].n
      BY <1>2, <3>1 DEF Current
    <3>3. /\ op.got[1].n \in 1 .. Len(offered)
          /\ op.got[1].i = 1 => wireAt = Byte(op.got[1].n, Len(op.got) + 1)
      BY <3>1 DEF SessionInv, ReadPosition
    <3>4. ~torn => Current = Len(received) + 1 /\ op.got[1].i = 1
      BY <1>4, <3>1 DEF SessionInv, InStep
    <3>. QED  BY <3>1, <3>2, <3>3, <3>4
  <2>. QED  BY <2>1, <2>2
<1>9. n <= wireAt'.n
  <2>1. Current <= wireAt.n /\ wireAt.n \in Nat
    BY PlacesAreNumbers DEF SessionInv, ReadPosition
  <2>2. wireAt'.n \in Int
    <3>1. CASE wire' = <<>>
      <4>1. wireAt' = Byte(Len(offered) + 1, 1)
        BY <1>1, <3>1 DEF wireAt, At
      <4>2. Len(offered) + 1 \in Nat /\ 1 \in Nat
        BY <1>t, WireSizes
      <4>. QED  BY <4>1, <4>2, ByteFields
    <3>2. CASE wire' # <<>>
      <4>1. wire' \in Seq(BytesOfFrames)
        BY <1>t, <1>1, ReadForward
      <4>2. wire'[1] \in BytesOfFrames
        BY <3>2, <4>1, EmptyIff, ElementOfSeq
      <4>. QED  BY <3>2, <4>2 DEF wireAt, At, BytesOfFrames
    <3>. QED  BY <3>1, <3>2
  <2>. QED  BY <1>3, <1>6, <1>8, <2>1, <2>2
<1>10. ASSUME got[1].i = 1
       PROVE  /\ Len(got) < HeaderSize + offered[n].len => wireAt' = Byte(n, Len(got) + 1)
              /\ Len(got) = HeaderSize + offered[n].len => wireAt' = Byte(n + 1, 1)
  <2>1. offered[n].len \in Nat /\ wireSizes[n] = HeaderSize + offered[n].len
    BY <1>t, <1>8, WireSizes
  <2>2. Len(op.got) + 1 + k <= wireSizes[n] + 1 /\ Len(op.got) + 1 + k = Len(got) + 1
    BY <1>1, <1>2, <2>1, SMTT(30)
  <2>3. wireAt = Byte(n, Len(op.got) + 1) /\ Len(op.got) + 1 \in Nat /\ n \in Nat
    BY <1>1, <1>6, <1>8, <1>10
  <2>4. /\ Len(op.got) + 1 + k <= HeaderSize + offered[n].len => wireAt' = Byte(n, Len(op.got) + 1 + k)
        /\ Len(op.got) + 1 + k = HeaderSize + offered[n].len + 1 => wireAt' = Byte(n + 1, 1)
    BY <1>t, <1>1, <2>2, <2>3, ReadAlong
  <2>5. Len(got) \in Nat
    BY <1>1, LenProperties
  <2>6. Len(got) < HeaderSize + offered[n].len => Len(op.got) + 1 + k <= HeaderSize + offered[n].len
    BY <2>1, <2>2, <2>5
  <2>7. Len(got) = HeaderSize + offered[n].len => Len(op.got) + 1 + k = HeaderSize + offered[n].len + 1
    BY <2>1, <2>2, <2>5
  <2>. HIDE DEF n
  <2>. QED  BY <2>2, <2>4, <2>6, <2>7
<1>11. Len(got) <= HeaderSize
  BY <1>1, <1>2
<1>. QED  BY <1>6, <1>8, <1>9, <1>10, <1>11 DEF got

-----------------------------------------------------------------------------
(* Session::receive: what becomes of them.                                  *)

\* A frame that is rejected ends the session, for cause.
LEMMA FramingErrorKeepsInv ==
  ASSUME SessionInv, NEW k \in 1 .. HeaderSize + MaxData, ReadSome(k), FramingError,
         torn \/ \E n \in 1 .. Len(offered) : ~Sound(offered[n])
  PROVE  SessionInv'
<1>t. SessionTypeOK /\ OneOwner /\ Whole(wire, wireSizes)
  BY DEF SessionInv, ReadPosition
<1>1. /\ op.kind = "receive" /\ k \in 1 .. Len(wire)
      /\ UNCHANGED <<out, submitted, offered, dev, handled, torn, byCaller>>
      /\ wire' = SubSeq(wire, k + 1, Len(wire))
  BY BytesCome
<1>2. op.by \in Objects /\ session[op.by] = "open"
  BY <1>t, <1>1 DEF OneOwner
<1>3. /\ op' = Idle /\ received' = received
      /\ session' = [session EXCEPT ![op.by] = "closed"] /\ transport' = "closed"
  BY <1>2 DEF FramingError, Return, CloseSession
<1>4. wire' \in Seq(BytesOfFrames) /\ Whole(wire, wireSizes)' /\ wireAt.n <= wireAt'.n
  BY <1>t, <1>1, ReadForward
<1>5. op'.kind = "none" /\ ~InHeader' /\ ~InPayload' /\ op' \in Calls
  BY <1>3, IdleCall DEF InHeader, InPayload
<1>6. /\ session' \in [Objects -> {"none", "open", "closed"}]
      /\ \A x \in Objects : session'[x] = IF x = op.by THEN "closed" ELSE session[x]
  BY <1>2, <1>3, <1>t DEF SessionTypeOK
<1>7. SessionTypeOK'
  BY <1>t, <1>1, <1>3, <1>4, <1>5, <1>6 DEF SessionTypeOK
<1>8. OneOwner'
  BY <1>t, <1>2, <1>3, <1>5, <1>6 DEF OneOwner, TransportHeld
<1>9. ClosedForCause'
  BY <1>1 DEF ClosedForCause, Sound
<1>10. "write" \notin Faults => DevicePosition'
  BY <1>1, <1>5, WritingUnchanged
<1>11. InStep'
  BY <1>3 DEF InStep
<1>12. ReadPosition'
  <2>1. Current' = wireAt'.n
    BY <1>5 DEF Current
  <2>2. wireAt' \in BytesOfFrames
    <3>1. CASE wire' = <<>>
      <4>1. wireAt' = Byte(Len(offered) + 1, 1)
        BY <1>1, <3>1 DEF wireAt, At
      <4>2. Len(offered) + 1 \in Nat /\ 1 \in Nat
        BY <1>t, WireSizes
      <4>. QED  BY <4>1, <4>2, ByteFields
    <3>2. CASE wire' # <<>>
      <4>1. wire'[1] \in BytesOfFrames
        BY <3>2, <1>4, EmptyIff, ElementOfSeq
      <4>. QED  BY <3>2, <4>1 DEF wireAt, At
    <3>. QED  BY <3>1, <3>2
  <2>3. wireAt'.n \in Nat
    BY <2>2 DEF BytesOfFrames
  <2>4. \A r \in 1 .. Len(received') : received'[r] < Current'
    BY <1>3, <1>4, <2>1, <2>3, PlacesAreNumbers DEF SessionInv, ReadPosition
  <2>. QED  BY <1>4, <1>5, <2>1, <2>3, <2>4 DEF ReadPosition
<1>. QED  BY <1>7, <1>8, <1>9, <1>10, <1>11, <1>12 DEF SessionInv

\* receive returns a frame once its last byte is read.
LEMMA DeliverKeepsInv ==
  ASSUME SessionInv, NEW k \in 1 .. HeaderSize + MaxData, ReadSome(k),
         NEW n \in 1 .. Len(offered), Deliver(n), UNCHANGED <<session, transport>>,
         Current = n, ~torn => n = Len(received) + 1, wireAt' = Byte(n + 1, 1)
  PROVE  SessionInv'
<1>t. SessionTypeOK /\ OneOwner /\ Whole(wire, wireSizes)
  BY DEF SessionInv, ReadPosition
<1>1. /\ op.kind = "receive" /\ k \in 1 .. Len(wire)
      /\ UNCHANGED <<out, submitted, offered, dev, handled, torn, byCaller>>
      /\ wire' = SubSeq(wire, k + 1, Len(wire))
  BY BytesCome
<1>2. op' = Idle /\ received' = Append(received, n)
  BY DEF Deliver, Return
<1>3. wire' \in Seq(BytesOfFrames) /\ Whole(wire, wireSizes)'
  BY <1>t, <1>1, ReadForward
<1>4. op'.kind = "none" /\ ~InHeader' /\ ~InPayload' /\ op' \in Calls
  BY <1>2, IdleCall DEF InHeader, InPayload
<1>5. n \in Nat
  BY <1>t, WireSizes
<1>6. /\ received' \in Seq(Nat) /\ Len(received) \in Nat /\ Len(received') = Len(received) + 1
      /\ \A r \in 1 .. Len(received) : received'[r] = received[r] /\ received[r] \in Nat
      /\ received'[Len(received) + 1] = n
  BY <1>2, <1>5, <1>t, PlacesAreNumbers DEF SessionTypeOK
<1>7. SessionTypeOK'
  BY <1>t, <1>1, <1>3, <1>4, <1>6 DEF SessionTypeOK
<1>8. OneOwner'
  BY <1>t, <1>2, <1>4 DEF OneOwner, TransportHeld
<1>9. ClosedForCause'
  BY <1>1 DEF SessionInv, ClosedForCause, Sound
<1>10. "write" \notin Faults => DevicePosition'
  BY <1>1, <1>4, WritingUnchanged
<1>11. wireAt'.n = n + 1 /\ wireAt'.i = 1 /\ Current' = n + 1
  <2>1. wireAt'.n = n + 1 /\ wireAt'.i = 1
    BY <1>5, ByteFields
  <2>. QED  BY <2>1, <1>4 DEF Current
<1>12. InStep'
  <2>1. ~torn' /\ transport' = "open" => Current' = Len(received') + 1
    BY <1>1, <1>5, <1>6, <1>11
  <2>. QED  BY <2>1, <1>4, <1>11 DEF InStep
<1>13. ReadPosition'
  <2>1. \A r \in 1 .. Len(received) : received[r] < n
    BY DEF SessionInv, ReadPosition
  <2>2. \A r \in 1 .. Len(received') : received'[r] < n + 1
    BY <1>5, <1>6, <2>1
  <2>. QED  BY <1>3, <1>4, <1>5, <1>11, <2>2 DEF ReadPosition
<1>. QED  BY <1>7, <1>8, <1>9, <1>10, <1>12, <1>13 DEF SessionInv

\* receive goes on: with more of the header, with the payload or with more of it.
LEMMA GoesOnKeepsInv ==
  ASSUME SessionInv, NEW k \in 1 .. HeaderSize + MaxData, ReadSome(k),
         UNCHANGED <<session, transport, received>>,
         op' \in Calls, op'.kind = "receive", op'.by = op.by,
         InHeader' \/ InPayload', Current' = Current, Current <= wireAt'.n,
         InHeader' => /\ op'.got[1].n \in 1 .. Len(offered) /\ Len(op'.got) < HeaderSize
                      /\ op'.got[1].i = 1 => wireAt' = Byte(op'.got[1].n, Len(op'.got) + 1)
                      /\ ~torn => op'.got[1].i = 1,
         InPayload' => /\ op'.n \in 1 .. Len(offered) /\ Len(op'.got) < offered[op'.n].len
                       /\ offered[op'.n].magic /\ LengthValid(op'.n)
                       /\ wireAt' = Byte(op'.n, HeaderSize + Len(op'.got) + 1),
         ~torn => Current = Len(received) + 1
  PROVE  SessionInv'
<1>t. SessionTypeOK /\ OneOwner /\ Whole(wire, wireSizes)
  BY DEF SessionInv, ReadPosition
<1>1. /\ op.kind = "receive" /\ k \in 1 .. Len(wire)
      /\ UNCHANGED <<out, submitted, offered, dev, handled, torn, byCaller>>
      /\ wire' = SubSeq(wire, k + 1, Len(wire))
  BY BytesCome
<1>2. wire' \in Seq(BytesOfFrames) /\ Whole(wire, wireSizes)'
  BY <1>t, <1>1, ReadForward
<1>3. SessionTypeOK'
  BY <1>t, <1>1, <1>2 DEF SessionTypeOK
<1>4. OneOwner'
  BY <1>t, <1>1 DEF OneOwner, TransportHeld
<1>5. ClosedForCause'
  BY <1>1 DEF SessionInv, ClosedForCause, Sound
<1>6. "write" \notin Faults => DevicePosition'
  BY <1>1, WritingUnchanged
<1>7. InStep'
  BY <1>1 DEF InStep
<1>8. \A r \in 1 .. Len(received') : received'[r] < Current'
  BY DEF SessionInv, ReadPosition
<1>9. InPayload' => LengthValid(op.n)'
  BY <1>1 DEF LengthValid
<1>10. ReadPosition'
  BY <1>1, <1>2, <1>8, <1>9 DEF ReadPosition
<1>. QED  BY <1>3, <1>4, <1>5, <1>6, <1>7, <1>10 DEF SessionInv

\* Bytes for a header.
LEMMA HeaderBytesKeepInv ==
  ASSUME SessionInv, NEW k \in 1 .. HeaderSize + MaxData, ReadSome(k), op.phase = "header"
  PROVE  /\ SessionInv'
         /\ \/ received' = received
            \/ \E n \in 1 .. Len(offered) :
                 Sound(offered[n]) /\ n = Current /\ received' = Append(received, n)
<1>. DEFINE got == op.got \o SubSeq(wire, 1, k)  n == got[1].n
<1>. USE SessionAssumption
<1>t. SessionTypeOK /\ OneOwner
  BY DEF SessionInv
<1>1. /\ op.kind = "receive" /\ got \in Seq(BytesOfFrames) /\ got # <<>> /\ Len(got) \in Nat
      /\ offered' = offered
  BY BytesCome, LenProperties
<1>2. /\ n \in 1 .. Len(offered) /\ Current = n /\ got[1].i \in Nat
      /\ Len(got) <= HeaderSize /\ n <= wireAt'.n
      /\ ~torn => got[1].i = 1 /\ n = Len(received) + 1
      /\ got[1].i = 1 =>
           /\ Len(got) < HeaderSize + offered[n].len => wireAt' = Byte(n, Len(got) + 1)
           /\ Len(got) = HeaderSize + offered[n].len => wireAt' = Byte(n + 1, 1)
  BY HeaderPlace
<1>3. Wanted = HeaderSize
  BY DEF Wanted
<1>4. offered[n].len \in Nat /\ n \in Nat
  BY <1>t, <1>2, WireSizes
<1>5. CASE ~Complete(got)
  <2>1. op' = [op EXCEPT !.got = got] /\ UNCHANGED <<session, transport, received>>
    BY <1>5 DEF ReadSome
  <2>2. Len(got) < HeaderSize
    BY <1>1, <1>2, <1>3, <1>5 DEF Complete
  <2>3. op.kind = "receive" /\ op \in Calls
    BY <1>t, <1>1 DEF SessionTypeOK
  <2>. HIDE DEF got
  <2>4. op' \in Calls /\ op'.kind = "receive" /\ op'.by = op.by /\ op'.phase = "header" /\ op'.got = got
    BY <1>1, <2>1, <2>3 DEF Calls
  <2>5. InHeader' /\ ~InPayload' /\ Current' = n
    BY <1>1, <2>4 DEF InHeader, InPayload, Current
  <2>6. got[1].i = 1 => wireAt' = Byte(n, Len(got) + 1)
    BY <1>1, <1>2, <1>4, <2>2
  <2>7. SessionInv'
    BY <1>2, <2>1, <2>2, <2>4, <2>5, <2>6, GoesOnKeepsInv
  <2>. QED  BY <2>1, <2>7
<1>6. CASE Complete(got)
  <2>1. HeaderDecoded(got)
    BY <1>6 DEF ReadSome
  <2>2. Len(got) = HeaderSize
    BY <1>3, <1>6 DEF Complete
  <2>. HIDE DEF got
  <2>3. CASE ~(MagicMatches(got) /\ LengthValid(n))
    <3>1. FramingError
      BY <2>1, <2>3 DEF HeaderDecoded
    <3>2. torn \/ ~Sound(offered[n])
      BY <1>2, <2>3 DEF MagicMatches, LengthValid, Sound
    <3>3. SessionInv'
      BY <1>2, <3>1, <3>2, FramingErrorKeepsInv
    <3>. QED  BY <3>1, <3>3 DEF FramingError
  <2>4. CASE MagicMatches(got) /\ LengthValid(n) /\ offered[n].len = 0
    <3>1. Deliver(n) /\ UNCHANGED <<session, transport>>
      BY <2>1, <2>4 DEF HeaderDecoded
    <3>2. got[1].i = 1 /\ Sound(offered[n])
      BY <2>4 DEF MagicMatches, LengthValid, Sound
    <3>3. wireAt' = Byte(n + 1, 1)
      BY <1>2, <2>2, <2>4, <3>2
    <3>4. SessionInv'
      BY <1>2, <3>1, <3>3, DeliverKeepsInv
    <3>. QED  BY <1>2, <3>1, <3>2, <3>4 DEF Deliver
  <2>5. CASE MagicMatches(got) /\ LengthValid(n) /\ offered[n].len # 0
    <3>1. /\ op' = [op EXCEPT !.phase = "payload", !.n = n, !.got = <<>>]
          /\ UNCHANGED <<session, transport, received>>
      BY <2>1, <2>5 DEF HeaderDecoded
    <3>2. op \in Calls
      BY <1>t DEF SessionTypeOK
    <3>3. got[1].i = 1 /\ offered[n].magic
      BY <2>5 DEF MagicMatches
    <3>. HIDE DEF n
    <3>4. /\ op' \in Calls /\ op'.kind = "receive" /\ op'.by = op.by
          /\ op'.phase = "payload" /\ op'.n = n /\ op'.got = <<>>
      <4>1. <<>> \in Seq(BytesOfFrames)
        OBVIOUS
      <4>2. op' = [kind |-> "receive", by |-> op.by, phase |-> "payload", n |-> n, got |-> <<>>]
        BY <1>1, <3>1, <3>2 DEF Calls
      <4>3. op.by \in Objects \cup {0}
        BY <3>2 DEF Calls
      <4>. QED  BY <1>4, <4>1, <4>2, <4>3 DEF Calls
    <3>5. InPayload' /\ ~InHeader' /\ Current' = n
      BY <3>4 DEF InPayload, InHeader, Current
    <3>6. Len(got) < HeaderSize + offered[n].len
      BY <1>4, <2>2, <2>5
    <3>7. wireAt' = Byte(n, HeaderSize + Len(op'.got) + 1) /\ Len(op'.got) < offered[n].len
      <4>1. Len(op'.got) = 0 /\ HeaderSize + 0 + 1 = HeaderSize + 1
        BY <3>4
      <4>2. 0 < offered[n].len
        BY <1>4, <2>5
      <4>3. wireAt' = Byte(n, HeaderSize + 1)
        BY <1>2, <2>2, <3>3, <3>6
      <4>. QED  BY <4>1, <4>2, <4>3
    <3>8. SessionInv'
      BY <1>2, <2>5, <3>1, <3>3, <3>4, <3>5, <3>7, GoesOnKeepsInv
    <3>. QED  BY <3>1, <3>8
  <2>. QED  BY <2>3, <2>4, <2>5
<1>. QED  BY <1>5, <1>6

\* Bytes for a payload.
LEMMA PayloadBytesKeepInv ==
  ASSUME SessionInv, NEW k \in 1 .. HeaderSize + MaxData, ReadSome(k), op.phase = "payload"
  PROVE  /\ SessionInv'
         /\ \/ received' = received
            \/ \E n \in 1 .. Len(offered) :
                 Sound(offered[n]) /\ n = Current /\ received' = Append(received, n)
<1>. DEFINE got == op.got \o SubSeq(wire, 1, k)  n == op.n
<1>. USE SessionAssumption
<1>t. SessionTypeOK /\ OneOwner /\ Whole(wire, wireSizes)
  BY DEF SessionInv, ReadPosition
<1>1. /\ op.kind = "receive" /\ k \in 1 .. Len(wire) /\ Len(op.got) + k <= Wanted
      /\ wire' = SubSeq(wire, k + 1, Len(wire)) /\ offered' = offered
      /\ got \in Seq(BytesOfFrames) /\ got # <<>> /\ Len(op.got) \in Nat /\ Len(got) = Len(op.got) + k
  BY BytesCome
<1>2. InPayload /\ ~InHeader /\ Current = n /\ Wanted = offered[n].len /\ transport = "open"
  BY <1>t, <1>1 DEF InPayload, InHeader, Current, Wanted, OneOwner, TransportHeld
<1>3. /\ n \in 1 .. Len(offered) /\ Len(op.got) < offered[n].len
      /\ offered[n].magic /\ LengthValid(n)
      /\ wireAt = Byte(n, HeaderSize + Len(op.got) + 1)
      /\ ~torn => n = Len(received) + 1
  BY <1>2 DEF SessionInv, ReadPosition, InStep
<1>4. offered[n].len \in Nat /\ n \in Nat /\ wireSizes[n] = HeaderSize + offered[n].len
  BY <1>t, <1>3, WireSizes
<1>. HIDE DEF n, got
<1>5. /\ Len(got) < offered[n].len => wireAt' = Byte(n, HeaderSize + Len(got) + 1)
      /\ Len(got) = offered[n].len => wireAt' = Byte(n + 1, 1)
  <2>. DEFINE i == HeaderSize + Len(op.got) + 1
  <2>a. Len(op.got) \in Nat /\ k \in Nat /\ Len(got) = Len(op.got) + k
    BY <1>1
  <2>b. Len(op.got) + k <= offered[n].len
    BY <1>1, <1>2
  <2>c. HeaderSize \in Nat
    OBVIOUS
  <2>d. wireSizes[n] \in Nat
    BY <1>4, <2>c
  <2>2. wireAt = Byte(n, i)
    BY <1>3
  <2>e. i = HeaderSize + Len(op.got) + 1
    OBVIOUS
  <2>. HIDE DEF i
  <2>1. i \in Nat /\ i + k <= wireSizes[n] + 1 /\ i + k = HeaderSize + Len(got) + 1
    <3>1. i \in Nat
      BY <2>a, <2>c, <2>e
    <3>2. i + k = HeaderSize + Len(got) + 1
      BY <2>a, <2>c, <2>e
    <3>3. HeaderSize + Len(got) + 1 <= wireSizes[n] + 1
      BY <1>4, <2>a, <2>b, <2>c
    <3>. QED  BY <3>1, <3>2, <3>3
  <2>3. /\ i + k <= HeaderSize + offered[n].len => wireAt' = Byte(n, i + k)
        /\ i + k = HeaderSize + offered[n].len + 1 => wireAt' = Byte(n + 1, 1)
    BY <1>t, <1>1, <1>4, <2>1, <2>2, ReadAlong
  <2>4. Len(got) \in Nat
    BY <1>1, LenProperties
  <2>5. Len(got) < offered[n].len => i + k <= HeaderSize + offered[n].len
    BY <1>4, <2>1, <2>4
  <2>6. Len(got) = offered[n].len => i + k = HeaderSize + offered[n].len + 1
    BY <1>4, <2>1, <2>4
  <2>. QED  BY <2>1, <2>3, <2>5, <2>6
<1>6. CASE ~Complete(got)
  <2>1. op' = [op EXCEPT !.got = got] /\ UNCHANGED <<session, transport, received>>
    BY <1>6 DEF ReadSome, got
  <2>0. Len(got) \in Nat /\ Len(got) <= offered[n].len
    BY <1>1, <1>2, LenProperties
  <2>2. Len(got) < offered[n].len /\ Len(got) \in Nat
    BY <1>2, <1>4, <1>6, <2>0 DEF Complete
  <2>3. op \in Calls /\ op.n = n
    BY <1>t DEF SessionTypeOK, n
  <2>4. /\ op' \in Calls /\ op'.kind = "receive" /\ op'.by = op.by /\ op'.phase = "payload"
        /\ op'.n = n /\ op'.got = got
    BY <1>1, <2>1, <2>3 DEF Calls
  <2>5. InPayload' /\ ~InHeader' /\ Current' = n
    BY <2>4 DEF InPayload, InHeader, Current
  <2>6. wireAt' = Byte(n, HeaderSize + Len(got) + 1)
    BY <1>5, <2>2
  <2>7. wireAt'.n = n
    BY <1>4, <2>2, <2>6, ByteFields
  <2>8. /\ op'.n \in 1 .. Len(offered) /\ Len(op'.got) < offered[op'.n].len
        /\ offered[op'.n].magic /\ LengthValid(op'.n)
        /\ wireAt' = Byte(op'.n, HeaderSize + Len(op'.got) + 1)
    BY <1>3, <2>2, <2>4, <2>6
  <2>9. Current' = Current /\ Current <= wireAt'.n /\ (~torn => Current = Len(received) + 1)
    BY <1>2, <1>3, <1>4, <2>5, <2>7
  <2>10. SessionInv'
    BY <2>1, <2>4, <2>5, <2>8, <2>9, GoesOnKeepsInv
  <2>. QED  BY <2>1, <2>10
<1>7. CASE Complete(got)
  <2>1. PayloadRead
    BY <1>7 DEF ReadSome, got
  <2>2. wireAt' = Byte(n + 1, 1)
    BY <1>2, <1>5, <1>7 DEF Complete
  <2>3. CASE ChecksumMatches(n)
    <3>1. Deliver(n) /\ UNCHANGED <<session, transport>>
      BY <2>1, <2>3 DEF PayloadRead, n
    <3>2. Sound(offered[n])
      BY <1>3, <2>3 DEF ChecksumMatches, LengthValid, Sound
    <3>3. SessionInv'
      BY <1>2, <1>3, <2>2, <3>1, DeliverKeepsInv
    <3>. QED  BY <1>2, <1>3, <3>1, <3>2, <3>3 DEF Deliver
  <2>4. CASE ~ChecksumMatches(n)
    <3>1. FramingError
      BY <2>1, <2>4 DEF PayloadRead, n
    <3>2. ~Sound(offered[n])
      BY <2>4 DEF ChecksumMatches, Sound
    <3>3. SessionInv'
      BY <1>3, <3>1, <3>2, FramingErrorKeepsInv
    <3>. QED  BY <3>1, <3>3 DEF FramingError
  <2>. QED  BY <2>3, <2>4
<1>. QED  BY <1>6, <1>7

-----------------------------------------------------------------------------
(* The device sends.                                                        *)

LEMMA DeviceSendsKeepsInv ==
  ASSUME SessionInv, NEW f \in DeviceFrames, DeviceSends(f)
  PROVE  SessionInv'
<1>. USE SessionAssumption
<1>. DEFINE N == Len(offered) + 1  H == HeaderOf(N)  P == PayloadOf(N, f.len)
            sz == Append(wireSizes, HeaderSize)
<1>t. SessionTypeOK /\ OneOwner /\ Whole(wire, wireSizes)
  BY DEF SessionInv, ReadPosition
<1>1. /\ transport = "open" /\ offered' = Append(offered, f) /\ wire' = wire \o H \o P
      /\ UNCHANGED <<session, transport, op, out, received, submitted, handled, dev, torn, byCaller>>
  BY DEF DeviceSends, hostVars
<1>2. f.len \in Nat
  BY DEF DeviceFrames
<1>3. /\ wireSizes \in Sizes /\ Len(wireSizes) = Len(offered) /\ Len(offered) \in Nat
      /\ \A n \in 1 .. Len(offered) : wireSizes[n] = HeaderSize + offered[n].len
  BY <1>t, WireSizes
<1>4. /\ H \in Seq(BytesOfFrames) /\ Len(H) = HeaderSize
      /\ \A x \in 1 .. HeaderSize : H[x] = Byte(N, x)
      /\ P \in Seq(BytesOfFrames) /\ Len(P) = f.len
      /\ \A x \in 1 .. f.len : P[x] = Byte(N, HeaderSize + x)
  <2>1. N \in Nat
    BY <1>3
  <2>. HIDE DEF N
  <2>. QED  BY <1>2, <2>1, FrameBytes
<1>5. wire \in Seq(BytesOfFrames) /\ offered \in Seq(DeviceFrames)
  BY <1>t DEF SessionTypeOK
<1>6. /\ offered' \in Seq(DeviceFrames) /\ Len(offered') = N /\ offered'[N] = f
      /\ \A n \in 1 .. Len(offered) : offered'[n] = offered[n]
  BY <1>1, <1>3, <1>5
<1>. HIDE DEF H, P
<1>7. wire \o H \in Seq(BytesOfFrames) /\ wire' \in Seq(BytesOfFrames)
  BY <1>1, <1>4, <1>5, Added
<1>8. sz \in Sizes /\ Whole(wire \o H, sz)
  BY <1>3, <1>4, <1>5, <1>t, WholeFrame
<1>9. Len(sz) = N /\ sz[N] = HeaderSize /\ \A n \in 1 .. Len(offered) : sz[n] = wireSizes[n]
  BY <1>3 DEF Sizes
<1>10. SessionTypeOK'
  BY <1>t, <1>1, <1>6, <1>7 DEF SessionTypeOK
<1>11. /\ wireSizes' \in Sizes /\ Len(wireSizes') = N
       /\ wireSizes'[N] = HeaderSize + f.len
       /\ \A n \in 1 .. Len(offered) : wireSizes'[n] = wireSizes[n]
  <2>1. wireSizes' = [n \in 1 .. N |-> HeaderSize + offered'[n].len]
    BY <1>6 DEF wireSizes
  <2>2. \A n \in 1 .. N : HeaderSize + offered'[n].len \in Nat \ {0}
    <3>1. \A n \in 1 .. N : offered'[n] \in DeviceFrames
      BY <1>6, ElementOfSeq
    <3>. QED  BY <3>1 DEF DeviceFrames
  <2>3. wireSizes' \in [1 .. N -> Nat \ {0}] /\ N \in Nat
    BY <1>3, <2>1, <2>2
  <2>4. wireSizes' \in Seq(Nat \ {0})
    BY <2>3, SeqDef
  <2>5. Len(wireSizes') = N
    BY <2>3, <2>4, LenProperties
  <2>6. N \in 1 .. N /\ \A n \in 1 .. Len(offered) : n \in 1 .. N
    BY <1>3
  <2>. QED  BY <1>3, <1>6, <2>1, <2>4, <2>5, <2>6 DEF Sizes
<1>. HIDE DEF sz
<1>12. Whole(wire', wireSizes')
  <2>1. CASE f.len = 0
    <3>1. P = <<>>
      BY <1>4, <2>1, EmptyIff
    <3>2. wire' = wire \o H
      BY <1>1, <1>7, <3>1, ConcatEmptySeq
    <3>3. wireSizes' = sz
      <4>1. \A n \in 1 .. N : wireSizes'[n] = sz[n]
        BY <1>3, <1>9, <1>11, <2>1
      <4>. QED  BY <1>8, <1>9, <1>11, <4>1, SeqEqual DEF Sizes
    <3>. QED  BY <1>8, <3>2, <3>3
  <2>2. CASE f.len # 0
    <3>. DEFINE z == [sz EXCEPT ![Len(sz)] = @ + f.len]
    <3>1. \A x \in 1 .. f.len : P[x] = Byte(Len(sz), sz[Len(sz)] + x)
      BY <1>4, <1>9
    <3>2. Len(sz) > 0 /\ f.len \in Nat \ {0}
      BY <1>2, <1>3, <1>9, <2>2
    <3>3. z \in Sizes /\ Whole(wire \o H \o P, z)
      BY <1>4, <1>7, <1>8, <3>1, <3>2, WholeGrows
    <3>4. sz \in [1 .. N -> Nat \ {0}]
      BY <1>8, <1>9, LenProperties DEF Sizes
    <3>5. N \in 1 .. N /\ \A n \in 1 .. Len(offered) : n \in 1 .. N /\ n # N
      BY <1>3
    <3>6. z[N] = HeaderSize + f.len /\ \A n \in 1 .. Len(offered) : z[n] = sz[n]
      BY <1>9, <3>4, <3>5
    <3>7. Len(z) = N
      <4>1. z \in [1 .. N -> Nat \ {0}]
        BY <1>2, <1>9, <3>4, <3>5
      <4>. QED  BY <1>3, <3>3, <4>1, LenProperties DEF Sizes
    <3>. HIDE DEF z
    <3>8. wireSizes' = z
      <4>1. \A n \in 1 .. N : wireSizes'[n] = z[n]
        BY <1>3, <1>9, <1>11, <3>6
      <4>. QED  BY <1>11, <3>3, <3>7, <4>1, SeqEqual DEF Sizes
    <3>. QED  BY <1>1, <3>3, <3>8
  <2>. QED  BY <2>1, <2>2
<1>13. wireAt' = wireAt
  <2>1. /\ Len(wire \o H) = Len(wire) + HeaderSize /\ Len(wire) \in Nat
        /\ \A j \in 1 .. Len(wire) : (wire \o H)[j] = wire[j]
        /\ \A j \in Len(wire) + 1 .. Len(wire) + HeaderSize : (wire \o H)[j] = H[j - Len(wire)]
    <3>1. /\ Len(wire \o H) = Len(wire) + Len(H) /\ Len(wire) \in Nat
          /\ \A j \in 1 .. Len(wire) : (wire \o H)[j] = wire[j]
          /\ \A j \in Len(wire) + 1 .. Len(wire) + Len(H) : (wire \o H)[j] = H[j - Len(wire)]
      <4>1. wire \in Seq(BytesOfFrames) /\ H \in Seq(BytesOfFrames)
        BY <1>4, <1>5
      <4>. QED  BY <4>1, Added
    <3>. QED  BY <1>4, <3>1
  <2>2. 1 \in 1 .. Len(wire \o H)
    BY <2>1
  <2>3. wire'[1] = (wire \o H)[1] /\ Len(wire') # 0
    <3>1. /\ Len(wire') = Len(wire \o H) + Len(P) /\ Len(P) \in Nat /\ Len(wire \o H) \in Nat
          /\ \A j \in 1 .. Len(wire \o H) : wire'[j] = (wire \o H)[j]
      <4>. DEFINE w == wire \o H
      <4>1. wire' = w \o P /\ w \in Seq(BytesOfFrames) /\ P \in Seq(BytesOfFrames)
        BY <1>1, <1>4, <1>7
      <4>. HIDE DEF w
      <4>2. /\ Len(w \o P) = Len(w) + Len(P) /\ Len(P) \in Nat /\ Len(w) \in Nat
            /\ \A j \in 1 .. Len(w) : (w \o P)[j] = w[j]
        BY <4>1, Added
      <4>. QED  BY <4>1, <4>2 DEF w
    <3>. QED  BY <2>2, <3>1
  <2>4. wireAt' = wire'[1]
    BY <1>7, <2>3, EmptyIff DEF wireAt, At
  <2>5. CASE wire = <<>>
    <3>1. Len(wire) = 0 /\ 1 \in Len(wire) + 1 .. Len(wire) + HeaderSize /\ 1 - 0 = 1 /\ 1 \in 1 .. HeaderSize
      BY <2>5
    <3>2. (wire \o H)[1] = Byte(N, 1)
      BY <1>4, <2>1, <3>1
    <3>. QED  BY <2>3, <2>4, <2>5, <3>2 DEF wireAt, At
  <2>6. CASE wire # <<>>
    <3>1. 1 \in 1 .. Len(wire)
      BY <1>5, <2>6, EmptyIff
    <3>. QED  BY <2>1, <2>3, <2>4, <2>6, <3>1 DEF wireAt, At
  <2>. QED  BY <2>5, <2>6
<1>14. (InHeader' <=> InHeader) /\ (InPayload' <=> InPayload) /\ Current' = Current
  BY <1>1, <1>13 DEF InHeader, InPayload, Current
<1>15. \A n \in 1 .. Len(offered) : n \in 1 .. Len(offered')
  BY <1>3, <1>6
<1>16. ReadPosition'
  <2>1. InHeader' => /\ op'.got[1].n \in 1 .. Len(offered') /\ Len(op'.got) < HeaderSize
                     /\ op'.got[1].i = 1 => wireAt' = Byte(op'.got[1].n, Len(op'.got) + 1)
    BY <1>1, <1>13, <1>14, <1>15 DEF SessionInv, ReadPosition
  <2>2. InPayload' => /\ op'.n \in 1 .. Len(offered') /\ Len(op'.got) < offered'[op'.n].len
                      /\ offered'[op'.n].magic /\ LengthValid(op.n)'
                      /\ wireAt' = Byte(op'.n, HeaderSize + Len(op'.got) + 1)
    BY <1>1, <1>6, <1>13, <1>14, <1>15 DEF SessionInv, ReadPosition, LengthValid
  <2>3. \A r \in 1 .. Len(received') : received'[r] < Current'
    BY <1>1, <1>14 DEF SessionInv, ReadPosition
  <2>4. Current' <= wireAt'.n
    BY <1>13, <1>14 DEF SessionInv, ReadPosition
  <2>. QED  BY <1>12, <2>1, <2>2, <2>3, <2>4 DEF ReadPosition
<1>17. InStep'
  BY <1>1, <1>13, <1>14 DEF SessionInv, InStep
<1>18. OneOwner'
  BY <1>t, <1>1 DEF OneOwner, TransportHeld, Size
<1>19. ClosedForCause'
  BY <1>1 DEF ClosedForCause
<1>20. "write" \notin Faults => DevicePosition'
  <2>1. outSizes' = outSizes /\ outAt' = outAt
    BY <1>1 DEF outSizes, outAt, Started, Pending, Size
  <2>2. Whole(out, outSizes)' <=> Whole(out, outSizes)
    BY <1>1, <2>1 DEF Whole
  <2>. QED  BY <1>1, <2>1, <2>2 DEF SessionInv, DevicePosition, Size
<1>. QED  BY <1>10, <1>16, <1>17, <1>18, <1>19, <1>20 DEF SessionInv

-----------------------------------------------------------------------------
(* Session::send.                                                           *)

\* The next byte to be read stays the same when the bytes to come are added.
LEMMA AtGrows ==
  ASSUME NEW s \in Seq(BytesOfFrames), NEW t \in Seq(BytesOfFrames), Len(t) > 0, NEW e
  PROVE  At(s \o t, e) = At(s, t[1])
<1>1. /\ s \o t \in Seq(BytesOfFrames) /\ Len(s) \in Nat /\ Len(t) \in Nat
      /\ Len(s \o t) = Len(s) + Len(t)
      /\ \A j \in 1 .. Len(s) : (s \o t)[j] = s[j]
      /\ \A j \in Len(s) + 1 .. Len(s) + Len(t) : (s \o t)[j] = t[j - Len(s)]
  BY Added
<1>2. At(s \o t, e) = (s \o t)[1]
  <2>1. Len(s \o t) # 0
    BY <1>1
  <2>2. s \o t # <<>>
    BY <1>1, <2>1, EmptyIff
  <2>. QED  BY <2>2 DEF At
<1>3. CASE s = <<>>
  <2>1. Len(s) = 0
    BY <1>3, EmptyIff
  <2>2. 1 \in Len(s) + 1 .. Len(s) + Len(t) /\ 1 - Len(s) = 1
    BY <1>1, <2>1
  <2>. QED  BY <1>1, <1>2, <1>3, <2>2 DEF At
<1>4. CASE s # <<>>
  <2>1. 1 \in 1 .. Len(s)
    BY <1>4, EmptyIff
  <2>. QED  BY <1>1, <1>2, <1>4, <2>1 DEF At
<1>. QED  BY <1>3, <1>4

\* A call of send: nothing is written yet.
LEMMA SendCallKeepsInv ==
  ASSUME SessionInv, NEW o \in Objects, NEW f \in HostFrames, SendCall(o, f)
  PROVE  SessionInv'
<1>. USE SessionAssumption
<1>. DEFINE N == Len(submitted) + 1
<1>t. SessionTypeOK /\ OneOwner
  BY DEF SessionInv
<1>1. /\ op = Idle /\ session[o] = "open" /\ submitted' = Append(submitted, f)
      /\ op' = [Idle EXCEPT !.kind = "send", !.by = o, !.n = N]
      /\ UNCHANGED <<session, transport, wire, out, received, offered, dev, handled,
                     torn, byCaller>>
  BY DEF SendCall, deviceVars
<1>2. /\ outSizes \in Sizes /\ Len(outSizes) = Started
      /\ Len(submitted) \in Nat
  BY <1>t, OutSizes
<1>3. /\ op'.kind = "send" /\ op'.by = o /\ op'.phase = "header" /\ op'.got = <<>>
      /\ op'.n = N /\ op' \in Calls
  <2>1. op' = [kind |-> "send", by |-> o, phase |-> "header", n |-> N, got |-> <<>>]
    BY <1>1 DEF Idle
  <2>2. N \in Nat
    BY <1>2
  <2>. HIDE DEF N
  <2>. QED  BY <2>1, <2>2 DEF Calls
<1>4. /\ submitted' \in Seq(HostFrames) /\ Len(submitted') = N
      /\ \A n \in 1 .. Len(submitted) : submitted'[n] = submitted[n]
  <2>1. submitted \in Seq(HostFrames)
    BY <1>t DEF SessionTypeOK
  <2>. QED  BY <1>1, <2>1, AppendProperties
<1>5. ~InHeader /\ ~InPayload /\ ~InHeader' /\ ~InPayload' /\ op.kind = "none"
  BY <1>1, <1>3, IdleCall DEF InHeader, InPayload
<1>6. (ReadPosition /\ InStep)'
  BY <1>1, <1>5, ReadingUnchanged
<1>7. SessionTypeOK'
  BY <1>1, <1>3, <1>4, <1>t DEF SessionTypeOK
<1>8. OneOwner'
  <2>1. Len(submitted') = N /\ N > 0
    BY <1>2, <1>4
  <2>. QED  BY <1>1, <1>3, <2>1, <1>t DEF OneOwner, TransportHeld
<1>9. ClosedForCause'
  BY <1>1 DEF SessionInv, ClosedForCause
<1>10. "write" \notin Faults => DevicePosition'
  <2>1. /\ ~Pending("header") /\ ~Pending("payload") /\ ~Pending("payload")' /\ Pending("header")'
    BY <1>3, <1>5 DEF Pending
  <2>2. Started = Len(submitted) /\ Started' = Started
    BY <1>2, <1>4, <2>1 DEF Started
  <2>3. \A n \in 1 .. Len(submitted) : Size(n)' = Size(n)
    BY <1>4 DEF Size
  <2>4. outSizes' = outSizes
    BY <2>1, <2>2, <2>3 DEF outSizes
  <2>5. outAt' = outAt
    BY <1>1, <2>1, <2>2 DEF outAt
  <2>6. Whole(out, outSizes)' <=> Whole(out, outSizes)
    BY <1>1, <2>4 DEF Whole
  <2>7. \A n \in 1 .. Len(submitted) : n \in 1 .. Len(submitted')
    BY <1>2, <1>4
  <2>. QED  BY <1>1, <2>3, <2>5, <2>6, <2>7 DEF SessionInv, DevicePosition
<1>. QED  BY <1>6, <1>7, <1>8, <1>9, <1>10 DEF SessionInv

\* A write that fails: the session stays open, and the device may lose its place.
LEMMA WriteFailsKeepsInv ==
  ASSUME SessionInv, NEW k \in 0 .. HeaderSize + MaxData, WriteFails(k)
  PROVE  SessionInv'
<1>. USE SessionAssumption
<1>t. SessionTypeOK /\ OneOwner
  BY DEF SessionInv
<1>1. /\ "write" \in Faults /\ op.kind = "send" /\ k < Len(Chunk) /\ op' = Idle
      /\ out' = out \o SubSeq(Chunk, 1, k)
      /\ UNCHANGED <<session, transport, wire, received, submitted, offered, dev, handled,
                     torn, byCaller>>
  BY DEF WriteFails, Return, deviceVars
<1>2. Chunk \in Seq(BytesOfFrames)
  <2>1. op.n \in 1 .. Len(submitted) /\ op.n \in Nat
    BY <1>1, <1>t DEF OneOwner, SessionTypeOK, Calls
  <2>2. Size(op.n) \in Nat
    BY <2>1, <1>t, OutSizes
  <2>. QED  BY <2>1, <2>2, FrameBytes DEF Chunk
<1>3. out' \in Seq(BytesOfFrames)
  <2>1. k \in 0 .. Len(Chunk)
    BY <1>1, <1>2, LenProperties
  <2>2. SubSeq(Chunk, 1, k) \in Seq(BytesOfFrames) /\ out \in Seq(BytesOfFrames)
    BY <1>2, <2>1, <1>t, FirstOf DEF SessionTypeOK
  <2>. QED  BY <1>1, <2>2, Added
<1>4. ~InHeader /\ ~InPayload /\ ~InHeader' /\ ~InPayload' /\ op'.kind = "none" /\ op' \in Calls
  BY <1>1, IdleCall DEF InHeader, InPayload
<1>5. (ReadPosition /\ InStep)'
  BY <1>1, <1>4, ReadingUnchanged
<1>6. SessionTypeOK'
  BY <1>1, <1>3, <1>4, <1>t DEF SessionTypeOK
<1>7. OneOwner'
  BY <1>1, <1>4, <1>t DEF OneOwner, TransportHeld
<1>8. ClosedForCause'
  BY <1>1 DEF SessionInv, ClosedForCause
<1>. QED  BY <1>1, <1>5, <1>6, <1>7, <1>8 DEF SessionInv

\* A write that is done: the header, and then the payload, follow what was written
\* before, and the device stays where it is.
LEMMA WriteDoneKeepsInv ==
  ASSUME SessionInv, WriteDone
  PROVE  SessionInv'
<1>. USE SessionAssumption
<1>. DEFINE N == op.n
<1>t. SessionTypeOK /\ OneOwner
  BY DEF SessionInv
<1>1. /\ op.kind = "send" /\ out' = out \o Chunk
      /\ UNCHANGED <<session, transport, wire, received, submitted, offered, dev, handled,
                     torn, byCaller>>
  BY DEF WriteDone, deviceVars
<1>2. /\ op \in Calls /\ N = Len(submitted) /\ N \in Nat \ {0} /\ N \in 1 .. Len(submitted)
      /\ op.by \in Objects /\ session[op.by] = "open" /\ op.got = <<>>
      /\ op.phase = "payload" => Size(N) > 0
  BY <1>1, <1>t DEF OneOwner, SessionTypeOK, Calls
<1>3. /\ outSizes \in Sizes /\ Len(outSizes) = Started /\ Started \in Nat
      /\ \A n \in 1 .. Len(submitted) : Size(n) \in Nat
      /\ \A n \in 1 .. Started :
              outSizes[n] = IF Pending("payload") /\ n = op.n THEN HeaderSize ELSE HeaderSize + Size(n)
  BY <1>t, OutSizes
<1>4. Size(N) \in Nat /\ \A n : Size(n)' = Size(n)
  BY <1>1, <1>2, <1>3 DEF Size
<1>5. /\ HeaderOf(N) \in Seq(BytesOfFrames) /\ Len(HeaderOf(N)) = HeaderSize
      /\ \A x \in 1 .. HeaderSize : HeaderOf(N)[x] = Byte(N, x)
      /\ PayloadOf(N, Size(N)) \in Seq(BytesOfFrames) /\ Len(PayloadOf(N, Size(N))) = Size(N)
      /\ \A x \in 1 .. Size(N) : PayloadOf(N, Size(N))[x] = Byte(N, HeaderSize + x)
  BY <1>2, <1>4, FrameBytes, ZenonT(30)
<1>6. Chunk \in Seq(BytesOfFrames) /\ out \in Seq(BytesOfFrames) /\ out' \in Seq(BytesOfFrames)
  <2>1. Chunk \in Seq(BytesOfFrames) /\ out \in Seq(BytesOfFrames)
    BY <1>t, <1>5 DEF Chunk, SessionTypeOK
  <2>. QED  BY <1>1, <2>1, Added
<1>7. op' = Idle \/ (op' = [op EXCEPT !.phase = "payload"] /\ op.phase = "header" /\ Size(N) > 0)
  BY DEF WriteDone, PayloadFollows, Return
<1>8. /\ op' \in Calls /\ (op' = Idle => op'.kind = "none")
      /\ op' # Idle => /\ op'.kind = "send" /\ op'.by = op.by /\ op'.n = N /\ op'.got = <<>>
                       /\ op'.phase = "payload" /\ Size(N) > 0
  <2>1. [op EXCEPT !.phase = "payload"] =
          [kind |-> op.kind, by |-> op.by, phase |-> "payload", n |-> op.n, got |-> op.got]
    BY <1>2 DEF Calls
  <2>2. op.kind \in {"none", "receive", "send"} /\ op.got \in Seq(BytesOfFrames)
    BY <1>2 DEF Calls
  <2>3. CASE op' = Idle
    BY <2>3, IdleCall
  <2>4. CASE op' = [op EXCEPT !.phase = "payload"] /\ op.phase = "header" /\ Size(N) > 0
    <3>1. op' = [kind |-> op.kind, by |-> op.by, phase |-> "payload", n |-> op.n, got |-> op.got]
      BY <2>1, <2>4
    <3>2. op' \in Calls
      BY <1>2, <2>2, <3>1 DEF Calls
    <3>3. op'.kind = "send" /\ op'.by = op.by /\ op'.n = N /\ op'.got = <<>> /\ op'.phase = "payload"
      BY <1>1, <1>2, <3>1
    <3>. QED  BY <2>4, <3>2, <3>3, IdleCall
  <2>. QED  BY <1>7, <2>3, <2>4
<1>9. ~InHeader /\ ~InPayload /\ ~InHeader' /\ ~InPayload'
  BY <1>1, <1>8 DEF InHeader, InPayload
<1>10. (ReadPosition /\ InStep)'
  BY <1>1, <1>9, ReadingUnchanged
<1>11. SessionTypeOK'
  BY <1>1, <1>6, <1>8, <1>t DEF SessionTypeOK
<1>12. OneOwner'
  <2>1. op' # Idle => op'.n = Len(submitted) /\ op'.n > 0 /\ Size(op.n)' > 0
    BY <1>2, <1>4, <1>8
  <2>2. op'.kind = "none" => op' = Idle
    BY <1>8
  <2>3. op'.kind # "none" => op' # Idle /\ op'.by \in Objects /\ session[op'.by] = "open"
    BY <1>2, <1>8, IdleCall
  <2>. QED  BY <1>1, <1>8, <2>1, <2>2, <2>3, <1>t DEF OneOwner, TransportHeld
<1>13. ClosedForCause'
  BY <1>1 DEF SessionInv, ClosedForCause
<1>14. ASSUME "write" \notin Faults PROVE DevicePosition'
  <2>t. DevicePosition
    BY <1>14 DEF SessionInv
  <2>1. ~Pending("header")' /\ (Pending("payload")' <=> op' # Idle)
    BY <1>8, IdleCall DEF Pending
  <2>2. Started' = N
    BY <1>1, <1>2, <2>1 DEF Started
  <2>3. outSizes' = [n \in 1 .. N |-> IF op' # Idle /\ n = N THEN HeaderSize ELSE HeaderSize + Size(n)]
    BY <1>4, <1>8, <2>1, <2>2 DEF outSizes
  <2>4. Whole(out', outSizes') /\ outAt' = outAt
    <3>1. CASE op.phase = "header"
      <4>1. Pending("header") /\ ~Pending("payload") /\ Chunk = HeaderOf(N)
        BY <1>1, <3>1 DEF Pending, Chunk
      <4>2. Started = N - 1 /\ Started + 1 = N
        BY <1>2, <4>1 DEF Started
      <4>3. op' = Idle => Size(N) = 0
        <5>1. Size(N) > 0 => op' # Idle
          <6>1. ASSUME Size(N) > 0 PROVE op' = [op EXCEPT !.phase = "payload"]
            BY <3>1, <6>1 DEF WriteDone, PayloadFollows
          <6>2. [op EXCEPT !.phase = "payload"].kind = "send"
            BY <1>1, <1>2 DEF Calls
          <6>. QED  BY <6>1, <6>2, IdleCall
        <5>. QED  BY <1>4, <5>1
      <4>. DEFINE z == Append(outSizes, HeaderSize)
      <4>4. z \in Sizes /\ Whole(out \o Chunk, z)
        <5>1. \A x \in 1 .. HeaderSize : Chunk[x] = Byte(Len(outSizes) + 1, x)
          BY <1>3, <1>5, <4>1, <4>2
        <5>2. Len(Chunk) = HeaderSize
          BY <1>5, <4>1
        <5>3. Whole(out, outSizes)
          BY <2>t DEF DevicePosition
        <5>. QED  BY <1>3, <1>6, <5>1, <5>2, <5>3, WholeFrame
      <4>5. Len(z) = N /\ z[N] = HeaderSize /\ \A n \in 1 .. N : n # N => z[n] = HeaderSize + Size(n)
        <5>1. Len(z) = N /\ z[N] = HeaderSize /\ \A n \in 1 .. Started : z[n] = outSizes[n]
          BY <1>3, <4>2 DEF Sizes
        <5>2. \A n \in 1 .. N : n # N => n \in 1 .. Started
          BY <1>2, <4>2
        <5>. QED  BY <1>3, <4>1, <5>1, <5>2
      <4>. HIDE DEF z
      <4>6. outSizes' = z
        <5>1. \A n \in 1 .. N : z[n] = IF op' # Idle /\ n = N THEN HeaderSize ELSE HeaderSize + Size(n)
          BY <1>4, <4>3, <4>5
        <5>2. z = [n \in 1 .. N |-> z[n]]
          BY <4>4, <4>5, LenProperties DEF Sizes
        <5>. QED  BY <2>3, <5>1, <5>2
      <4>7. outAt' = outAt
        <5>1. Len(Chunk) > 0 /\ Chunk[1] = Byte(N, 1)
          BY <1>5, <4>1
        <5>2. outAt = At(out, Byte(N, 1))
          BY <4>1, <4>2 DEF outAt
        <5>. QED  BY <1>1, <1>6, <5>1, <5>2, AtGrows DEF outAt
      <4>. QED  BY <1>1, <4>4, <4>6, <4>7
    <3>2. CASE op.phase = "payload"
      <4>1. ~Pending("header") /\ Pending("payload") /\ Chunk = PayloadOf(N, Size(N)) /\ op' = Idle
        <5>1. op.phase # "header"
          BY <3>2
        <5>. QED  BY <1>1, <3>2, <5>1 DEF Pending, Chunk, WriteDone, Return
      <4>2. Started = N /\ Size(N) \in Nat \ {0}
        BY <1>2, <1>4, <3>2, <4>1 DEF Started
      <4>3. Len(outSizes) = N /\ outSizes[N] = HeaderSize
            /\ \A n \in 1 .. N : n # N => outSizes[n] = HeaderSize + Size(n)
        BY <1>2, <1>3, <4>1, <4>2
      <4>. DEFINE z == [outSizes EXCEPT ![Len(outSizes)] = @ + Size(N)]
      <4>4. z \in Sizes /\ Whole(out \o Chunk, z)
        <5>1. \A x \in 1 .. Size(N) : Chunk[x] = Byte(Len(outSizes), outSizes[Len(outSizes)] + x)
          BY <1>5, <4>1, <4>3
        <5>2. Len(Chunk) = Size(N) /\ Len(outSizes) > 0
          BY <1>2, <1>5, <4>1, <4>3
        <5>3. Whole(out, outSizes)
          BY <2>t DEF DevicePosition
        <5>. QED  BY <1>3, <1>6, <4>2, <5>1, <5>2, <5>3, WholeGrows
      <4>5. outSizes \in [1 .. N -> Nat \ {0}] /\ N \in 1 .. N
        BY <1>2, <1>3, <4>3, LenProperties DEF Sizes
      <4>6. z \in [1 .. N -> Nat \ {0}] /\ z[N] = HeaderSize + Size(N)
            /\ \A n \in 1 .. N : n # N => z[n] = outSizes[n]
        BY <4>2, <4>3, <4>5
      <4>. HIDE DEF z
      <4>7. outSizes' = z
        <5>1. \A n \in 1 .. N : z[n] = IF op' # Idle /\ n = N THEN HeaderSize ELSE HeaderSize + Size(n)
          BY <4>1, <4>3, <4>6
        <5>2. z = [n \in 1 .. N |-> z[n]]
          BY <4>6
        <5>. QED  BY <2>3, <5>1, <5>2
      <4>8. outAt' = outAt
        <5>1. Len(Chunk) > 0 /\ Chunk[1] = Byte(N, HeaderSize + 1)
          BY <1>5, <4>1, <4>2
        <5>2. outAt = At(out, Byte(N, HeaderSize + 1))
          BY <4>1 DEF outAt
        <5>. QED  BY <1>1, <1>6, <5>1, <5>2, AtGrows DEF outAt
      <4>. QED  BY <1>1, <4>4, <4>7, <4>8
    <3>. QED  BY <1>2, <3>1, <3>2 DEF Calls
  <2>5. Whole(out, outSizes)'
    BY <2>4 DEF Whole
  <2>. QED  BY <1>1, <1>4, <2>4, <2>5, <2>t DEF DevicePosition
<1>. QED  BY <1>10, <1>11, <1>12, <1>13, <1>14 DEF SessionInv

-----------------------------------------------------------------------------
(* The device reads.                                                        *)

\* What the host has written belongs to frames that were given to send, even when a
\* write failed in the middle of one.
Known ==
  /\ \A j \in 1 .. Len(out) : out[j].n \in 1 .. Len(submitted)
  /\ dev.phase = "payload" => dev.n \in 1 .. Len(submitted)

\* The next byte to be read after k bytes.
LEMMA AtRest ==
  ASSUME NEW s \in Seq(BytesOfFrames), NEW k \in 0 .. Len(s), NEW e
  PROVE  At(SubSeq(s, k + 1, Len(s)), e) = IF k < Len(s) THEN s[k + 1] ELSE e
<1>. DEFINE t == SubSeq(s, k + 1, Len(s))
<1>1. /\ Len(s) \in Nat /\ t \in Seq(BytesOfFrames) /\ Len(t) = Len(s) - k
      /\ \A j \in 1 .. Len(s) - k : t[j] = s[j + k]
  BY RestOf, LenProperties
<1>. HIDE DEF t
<1>2. t = <<>> <=> Len(t) = 0
  BY <1>1, EmptyIff
<1>3. CASE k < Len(s)
  <2>1. 1 \in 1 .. Len(s) - k /\ Len(t) # 0 /\ 1 + k = k + 1
    BY <1>1, <1>3
  <2>2. t[1] = s[k + 1]
    BY <1>1, <2>1
  <2>. QED  BY <1>2, <1>3, <2>1, <2>2 DEF At, t
<1>4. CASE ~(k < Len(s))
  <2>1. Len(t) = 0
    BY <1>1, <1>4
  <2>. QED  BY <1>2, <1>4, <2>1 DEF At, t
<1>. QED  BY <1>3, <1>4

\* The frame the first byte in the host's stream belongs to.
LEMMA OutFrame ==
  ASSUME SessionTypeOK, OneOwner, Len(out) > 0, Whole(out, outSizes),
         NEW n \in Nat, NEW i \in Nat, out[1] = Byte(n, i)
  PROVE  /\ n \in 1 .. Started /\ n \in 1 .. Len(submitted) /\ i \in 1 .. outSizes[n]
         /\ Size(n) \in Nat
         /\ Pending("payload") /\ n = op.n =>
              outSizes[n] = HeaderSize /\ n = Started /\ Size(n) > 0
         /\ ~(Pending("payload") /\ n = op.n) => outSizes[n] = HeaderSize + Size(n)
         /\ Pending("payload") => op.n = Started
<1>1. /\ outSizes \in Sizes /\ Len(outSizes) = Started /\ Started \in Nat
      /\ Started <= Len(submitted) /\ Len(submitted) \in Nat
      /\ \A m \in 1 .. Len(submitted) : Size(m) \in Nat
      /\ \A m \in 1 .. Started :
            outSizes[m] = IF Pending("payload") /\ m = op.n THEN HeaderSize ELSE HeaderSize + Size(m)
  BY OutSizes
<1>2. out[1].n = n /\ out[1].i = i /\ 1 \in 1 .. Len(out)
  BY ByteFields, LenProperties DEF SessionTypeOK
<1>3. n \in 1 .. Started /\ i \in 1 .. outSizes[n]
  BY <1>1, <1>2 DEF Whole
<1>4. n \in 1 .. Len(submitted)
  BY <1>1, <1>3
<1>5. Pending("payload") => op.n = Len(submitted) /\ Size(op.n) > 0 /\ Started = Len(submitted)
  BY DEF OneOwner, Pending, Started
<1>. QED  BY <1>1, <1>3, <1>4, <1>5

\* The device takes the next header or the next payload.  As long as no write has
\* failed it takes the host's frames one after the other.
LEMMA DeviceReadsKeepsInv ==
  ASSUME SessionInv, Known, DeviceReads
  PROVE  /\ SessionInv'
         /\ "write" \notin Faults =>
              \/ handled' = handled
              \/ /\ handled' = Append(handled, Len(handled) + 1)
                 /\ Len(handled) < Len(submitted)
<1>. USE SessionAssumption
<1>. DEFINE k == DeviceWanted
            end == IF Pending("payload") THEN Byte(op.n, HeaderSize + 1) ELSE Byte(Started + 1, 1)
<1>t. SessionTypeOK /\ OneOwner
  BY DEF SessionInv
<1>1. /\ dev.phase # "lost" /\ k <= Len(out) /\ out' = SubSeq(out, k + 1, Len(out))
      /\ UNCHANGED <<session, transport, op, wire, received, submitted, offered, torn, byCaller>>
  BY DEF DeviceReads, hostVars
<1>2. /\ dev.phase \in {"header", "payload", "lost"} /\ dev.n \in Nat
      /\ out \in Seq(BytesOfFrames) /\ Len(out) \in Nat
      /\ handled \in Seq(Nat) /\ Len(handled) \in Nat
  BY <1>t, LenProperties DEF SessionTypeOK
<1>3. /\ outSizes \in Sizes /\ Len(outSizes) = Started /\ Started \in Nat
      /\ \A n \in 1 .. Len(submitted) : Size(n) \in Nat
  BY <1>t, OutSizes
<1>4. k \in 0 .. Len(out)
  BY <1>1, <1>2, <1>3 DEF DeviceWanted, Known
<1>5. out' \in Seq(BytesOfFrames)
  BY <1>1, <1>2, <1>4, RestOf
<1>6. (ReadPosition /\ InStep)'
  <2>1. (InHeader' <=> InHeader) /\ (InPayload' <=> InPayload)
    BY <1>1 DEF InHeader, InPayload
  <2>. QED  BY <1>1, <2>1, ReadingUnchanged
<1>7. OneOwner' /\ ClosedForCause'
  BY <1>1, <1>t DEF SessionInv, OneOwner, TransportHeld, ClosedForCause, Size
<1>8. /\ outSizes' = outSizes /\ outAt' = At(out', end)
      /\ \A n : Size(n)' = Size(n)
  BY <1>1 DEF outSizes, outAt, Started, Pending, Size
<1>9. outAt' = IF k < Len(out) THEN out[k + 1] ELSE end
  BY <1>1, <1>2, <1>4, <1>8, AtRest
<1>10. Whole(out, outSizes) => Whole(out, outSizes)'
  <2>1. Whole(out, outSizes) => Whole(SubSeq(out, k + 1, Len(out)), outSizes)
    BY <1>2, <1>3, <1>4, WholeRest
  <2>. QED  BY <1>1, <1>8, <2>1 DEF Whole
<1>. HIDE DEF k, end
<1>11. CASE dev.phase = "payload"
  <2>. DEFINE n == dev.n
  <2>1. k = Size(n) /\ n \in 1 .. Len(submitted)
    BY <1>11 DEF DeviceWanted, Known, k
  <2>2. /\ handled' = Append(handled, IF SubSeq(out, 1, k) = PayloadOf(n, k) THEN n ELSE 0)
        /\ dev' = [phase |-> "header", n |-> 0]
    BY <1>11 DEF DeviceReads, k
  <2>3. SessionTypeOK'
    <3>1. handled' \in Seq(Nat) /\ dev' \in [phase : {"header", "payload", "lost"}, n : Nat]
      BY <1>2, <2>2
    <3>. QED  BY <1>1, <1>5, <1>t, <3>1 DEF SessionTypeOK
  <2>4. ASSUME "write" \notin Faults
        PROVE  /\ DevicePosition'
               /\ handled' = Append(handled, Len(handled) + 1) /\ Len(handled) < Len(submitted)
    <3>1. /\ Whole(out, outSizes) /\ n = Len(handled) + 1 /\ Size(n) > 0
          /\ outAt = Byte(n, HeaderSize + 1)
      BY <1>11, <2>4 DEF SessionInv, DevicePosition
    <3>2. Len(out) > 0 /\ out[1] = Byte(n, HeaderSize + 1) /\ HeaderSize + 1 \in Nat /\ k \in Nat \ {0}
      <4>1. k \in Nat \ {0} /\ Len(out) > 0
        BY <1>2, <1>4, <2>1, <3>1
      <4>2. out # <<>>
        BY <1>2, <4>1, EmptyIff
      <4>. QED  BY <3>1, <4>1, <4>2 DEF outAt, At
    <3>3. /\ n \in 1 .. Started /\ HeaderSize + 1 <= outSizes[n]
          /\ Pending("payload") /\ n = op.n => outSizes[n] = HeaderSize
          /\ ~(Pending("payload") /\ n = op.n) => outSizes[n] = HeaderSize + Size(n)
          /\ Pending("payload") => op.n = Started
      BY <1>2, <1>t, <3>1, <3>2, OutFrame
    <3>4. outSizes[n] = HeaderSize + k /\ (n = Started => ~Pending("payload"))
      BY <2>1, <3>3
    <3>5. /\ \A j \in 1 .. k : out[j] = Byte(n, (HeaderSize + 1) + j - 1)
          /\ \/ n = Started /\ k = Len(out)
             \/ k < Len(out) /\ out[k + 1] = Byte(n + 1, 1)
      <4>1. (HeaderSize + 1) + k = outSizes[n] + 1
        BY <3>2, <3>4
      <4>. DEFINE i == HeaderSize + 1
      <4>2. /\ out \in Seq(BytesOfFrames) /\ outSizes \in Sizes /\ Whole(out, outSizes) /\ Len(out) > 0
            /\ n \in Nat /\ i \in Nat /\ out[1] = Byte(n, i) /\ k \in Nat
        BY <1>2, <1>3, <3>1, <3>2
      <4>3. i + k = outSizes[n] + 1 /\ i + k <= outSizes[n] + 1
        BY <3>2, <3>4, <4>1
      <4>. HIDE DEF i, n
      <4>4. /\ \A j \in 1 .. k : out[j] = Byte(n, i + j - 1)
            /\ i + k = outSizes[n] + 1 =>
                 \/ n = Len(outSizes) /\ k = Len(out)
                 \/ n < Len(outSizes) /\ k < Len(out) /\ out[k + 1] = Byte(n + 1, 1)
        BY <4>2, <4>3, AlongFrame, SMTT(30)
      <4>. QED  BY <1>3, <4>3, <4>4 DEF i
    <3>6. outAt' = Byte(n + 1, 1)
      <4>1. CASE n = Started /\ k = Len(out)
        BY <1>2, <1>9, <3>4, <4>1 DEF end
      <4>2. CASE k < Len(out) /\ out[k + 1] = Byte(n + 1, 1)
        BY <1>9, <4>2
      <4>. QED  BY <3>5, <4>1, <4>2
    <3>7. SubSeq(out, 1, k) = PayloadOf(n, k)
      <4>1. /\ SubSeq(out, 1, k) \in Seq(BytesOfFrames) /\ Len(SubSeq(out, 1, k)) = k
            /\ \A j \in 1 .. k : SubSeq(out, 1, k)[j] = out[j]
        BY <1>2, <1>4, FirstOf
      <4>2. /\ PayloadOf(n, k) \in Seq(BytesOfFrames) /\ Len(PayloadOf(n, k)) = k
            /\ \A j \in 1 .. k : PayloadOf(n, k)[j] = Byte(n, HeaderSize + j)
        BY <1>2, <3>2, FrameBytes
      <4>3. \A j \in 1 .. k : (HeaderSize + 1) + j - 1 = HeaderSize + j
        BY <3>2
      <4>4. \A j \in 1 .. k : SubSeq(out, 1, k)[j] = PayloadOf(n, k)[j]
        BY <3>5, <4>1, <4>2, <4>3
      <4>. QED  BY <4>1, <4>2, <4>4, SeqEqual
    <3>8. handled' = Append(handled, n)
      BY <2>2, <3>7
    <3>9. Len(handled') = n /\ dev'.phase = "header"
      BY <1>2, <2>2, <3>1, <3>8
    <3>10. Len(handled) < Len(submitted)
      BY <1>2, <2>1, <3>1
    <3>. QED  BY <1>10, <3>1, <3>6, <3>8, <3>9, <3>10 DEF DevicePosition
  <2>. QED  BY <1>6, <1>7, <2>3, <2>4 DEF SessionInv
<1>12. CASE dev.phase = "header"
  <2>. DEFINE n == out[1].n
  <2>1. k = HeaderSize /\ Len(out) > 0 /\ 1 \in 1 .. Len(out)
    BY <1>2, <1>4, <1>12 DEF DeviceWanted, k
  <2>2. out[1] \in BytesOfFrames /\ n \in Nat /\ n \in 1 .. Len(submitted) /\ Size(n) \in Nat
    <3>1. out[1] \in BytesOfFrames
      BY <1>2, <2>1, ElementOfSeq
    <3>. QED  BY <1>3, <2>1, <3>1 DEF BytesOfFrames, Known
  <2>3. \/ out[1].i # 1 /\ dev' = [phase |-> "lost", n |-> 0] /\ handled' = handled
        \/ out[1].i = 1 /\ Size(n) > 0 /\ dev' = [phase |-> "payload", n |-> n] /\ handled' = handled
        \/ out[1].i = 1 /\ Size(n) = 0 /\ dev' = dev /\ handled' = Append(handled, n)
    <3>1. CASE out[1].i # 1
      BY <1>12, <3>1 DEF DeviceReads
    <3>2. CASE out[1].i = 1 /\ Size(n) > 0
      BY <1>12, <2>2, <3>2 DEF DeviceReads
    <3>3. CASE out[1].i = 1 /\ Size(n) = 0
      BY <1>12, <2>2, <3>3 DEF DeviceReads
    <3>. QED  BY <2>2, <3>1, <3>2, <3>3
  <2>4. SessionTypeOK'
    <3>1. dev \in [phase : {"header", "payload", "lost"}, n : Nat]
      BY <1>t DEF SessionTypeOK
    <3>2. handled' \in Seq(Nat) /\ dev' \in [phase : {"header", "payload", "lost"}, n : Nat]
      <4>1. n \in Nat /\ handled \in Seq(Nat)
        BY <1>2, <2>2
      <4>. HIDE DEF n
      <4>2. handled' \in Seq(Nat)
        BY <2>3, <4>1
      <4>3. dev' \in [phase : {"header", "payload", "lost"}, n : Nat]
        BY <2>3, <3>1, <4>1
      <4>. QED  BY <4>2, <4>3
    <3>. QED  BY <1>1, <1>5, <1>t, <3>2 DEF SessionTypeOK
  <2>5. ASSUME "write" \notin Faults
        PROVE  /\ DevicePosition'
               /\ \/ handled' = handled
                  \/ /\ handled' = Append(handled, Len(handled) + 1)
                     /\ Len(handled) < Len(submitted)
    <3>1. Whole(out, outSizes) /\ outAt = Byte(Len(handled) + 1, 1)
      BY <1>12, <2>5 DEF SessionInv, DevicePosition
    <3>2. out[1] = Byte(Len(handled) + 1, 1)
      <4>1. out # <<>>
        BY <1>2, <2>1, EmptyIff
      <4>. QED  BY <3>1, <4>1 DEF outAt, At
    <3>3. n = Len(handled) + 1 /\ out[1].i = 1 /\ out[1] = Byte(n, 1)
      BY <1>2, <3>2, ByteFields
    <3>. HIDE DEF n
    <3>4. /\ n \in 1 .. Started
          /\ Pending("payload") /\ n = op.n =>
               outSizes[n] = HeaderSize /\ n = Started /\ Size(n) > 0
          /\ ~(Pending("payload") /\ n = op.n) => outSizes[n] = HeaderSize + Size(n)
          /\ Pending("payload") => op.n = Started
      BY <1>t, <2>1, <2>2, <3>1, <3>3, OutFrame
    <3>5. outSizes[n] \in Nat /\ 1 + k <= outSizes[n] + 1
      BY <2>1, <2>2, <3>4
    <3>6. /\ 1 + k <= outSizes[n] => k < Len(out) /\ out[k + 1] = Byte(n, 1 + k)
          /\ 1 + k = outSizes[n] + 1 => \/ n = Started /\ k = Len(out)
                                        \/ n < Started /\ k < Len(out) /\ out[k + 1] = Byte(n + 1, 1)
      <4>1. /\ out \in Seq(BytesOfFrames) /\ outSizes \in Sizes /\ Whole(out, outSizes) /\ Len(out) > 0
            /\ n \in Nat /\ 1 \in Nat /\ out[1] = Byte(n, 1) /\ k \in Nat /\ 1 + k <= outSizes[n] + 1
        BY <1>2, <1>3, <2>1, <2>2, <3>1, <3>3, <3>5 DEF n
      <4>2. /\ 1 + k <= outSizes[n] => k < Len(out) /\ out[k + 1] = Byte(n, 1 + k)
            /\ 1 + k = outSizes[n] + 1 =>
                 \/ n = Len(outSizes) /\ k = Len(out)
                 \/ n < Len(outSizes) /\ k < Len(out) /\ out[k + 1] = Byte(n + 1, 1)
        BY <4>1, AlongFrame
      <4>. QED  BY <1>3, <4>2
    <3>7. CASE Size(n) > 0
      <4>1. dev' = [phase |-> "payload", n |-> n] /\ handled' = handled
        BY <2>3, <3>3, <3>7 DEF n
      <4>2. outAt' = Byte(n, HeaderSize + 1)
        <5>1. CASE Pending("payload") /\ n = op.n
          <6>1. 1 + k = outSizes[n] + 1 /\ n = Started
            BY <2>1, <3>4, <5>1
          <6>2. k = Len(out)
            BY <1>3, <3>6, <6>1
          <6>. QED  BY <1>2, <1>9, <5>1, <6>2 DEF end
        <5>2. CASE ~(Pending("payload") /\ n = op.n)
          <6>1. 1 + k <= outSizes[n] /\ 1 + k = HeaderSize + 1
            BY <2>1, <2>2, <3>4, <3>7, <5>2
          <6>. QED  BY <1>9, <3>6, <6>1
        <5>. QED  BY <5>1, <5>2
      <4>3. dev'.phase = "payload" /\ dev'.n = n
        BY <4>1
      <4>. QED  BY <1>1, <1>8, <1>10, <2>2, <3>1, <3>3, <3>7, <4>1, <4>2, <4>3 DEF DevicePosition, n
    <3>8. CASE Size(n) = 0
      <4>1. dev' = dev /\ handled' = Append(handled, n)
        BY <2>3, <3>3, <3>8 DEF n
      <4>2. outAt' = Byte(n + 1, 1)
        <5>1. 1 + k = outSizes[n] + 1 /\ ~(Pending("payload") /\ n = op.n)
          BY <2>1, <3>4, <3>8
        <5>2. CASE n = Started /\ k = Len(out)
          BY <1>2, <1>9, <3>4, <5>1, <5>2 DEF end
        <5>3. CASE k < Len(out) /\ out[k + 1] = Byte(n + 1, 1)
          BY <1>9, <5>3
        <5>. QED  BY <3>6, <5>1, <5>2, <5>3
      <4>3. Len(handled') = n /\ dev'.phase = "header"
        BY <1>2, <1>12, <3>3, <4>1
      <4>4. Len(handled) < Len(submitted)
        <5>1. n \in 1 .. Len(submitted)
          BY <2>2 DEF n
        <5>. QED  BY <1>2, <3>3, <5>1
      <4>. QED  BY <1>10, <3>1, <3>3, <4>1, <4>2, <4>3, <4>4 DEF DevicePosition
    <3>. QED  BY <2>2, <3>7, <3>8 DEF n
  <2>. QED  BY <1>6, <1>7, <2>4, <2>5 DEF SessionInv
<1>. QED  BY <1>1, <1>2, <1>11, <1>12

\* The bytes of a write belong to the frame that send is at.
LEMMA ChunkBytes ==
  ASSUME SessionTypeOK, OneOwner, op.kind = "send"
  PROVE  /\ Chunk \in Seq(BytesOfFrames) /\ op.n \in 1 .. Len(submitted)
         /\ \A x \in 1 .. Len(Chunk) : Chunk[x].n = op.n
<1>. USE SessionAssumption
<1>1. op.n \in 1 .. Len(submitted) /\ op.n \in Nat
  BY DEF OneOwner, SessionTypeOK, Calls
<1>2. Size(op.n) \in Nat
  BY <1>1, OutSizes
<1>3. CASE op.phase = "header"
  <2>1. /\ HeaderOf(op.n) \in Seq(BytesOfFrames) /\ Len(HeaderOf(op.n)) = HeaderSize
        /\ \A x \in 1 .. HeaderSize : HeaderOf(op.n)[x] = Byte(op.n, x)
    BY <1>1, <1>2, FrameBytes
  <2>2. \A x \in 1 .. HeaderSize : x \in Nat
    OBVIOUS
  <2>3. \A x \in 1 .. HeaderSize : HeaderOf(op.n)[x].n = op.n
    BY <1>1, <2>1, <2>2, ByteFields
  <2>. QED  BY <1>1, <1>3, <2>1, <2>3 DEF Chunk
<1>4. CASE op.phase # "header"
  <2>1. /\ PayloadOf(op.n, Size(op.n)) \in Seq(BytesOfFrames) /\ Len(PayloadOf(op.n, Size(op.n))) = Size(op.n)
        /\ \A x \in 1 .. Size(op.n) : PayloadOf(op.n, Size(op.n))[x] = Byte(op.n, HeaderSize + x)
    BY <1>1, <1>2, FrameBytes
  <2>2. \A x \in 1 .. Size(op.n) : HeaderSize + x \in Nat
    BY <1>2
  <2>3. \A x \in 1 .. Size(op.n) : PayloadOf(op.n, Size(op.n))[x].n = op.n
    BY <1>1, <2>1, <2>2, ByteFields
  <2>. QED  BY <1>1, <1>4, <2>1, <2>3 DEF Chunk
<1>. QED  BY <1>3, <1>4

\* Bytes of known frames are added.
LEMMA KnownGrows ==
  ASSUME SessionTypeOK, Known, NEW t \in Seq(BytesOfFrames),
         \A x \in 1 .. Len(t) : t[x].n \in 1 .. Len(submitted),
         out' = out \o t, UNCHANGED <<submitted, dev>>
  PROVE  Known'
<1>1. /\ Len(out) \in Nat /\ Len(t) \in Nat /\ Len(out') = Len(out) + Len(t)
      /\ \A j \in 1 .. Len(out) : out'[j] = out[j]
      /\ \A j \in Len(out) + 1 .. Len(out) + Len(t) : out'[j] = t[j - Len(out)]
  BY Added DEF SessionTypeOK
<1>2. ASSUME NEW j \in 1 .. Len(out') PROVE out'[j].n \in 1 .. Len(submitted)
  <2>1. CASE j <= Len(out)
    <3>1. j \in 1 .. Len(out)
      BY <1>1, <2>1
    <3>. QED  BY <1>1, <3>1 DEF Known
  <2>2. CASE j > Len(out)
    <3>1. j \in Len(out) + 1 .. Len(out) + Len(t) /\ j - Len(out) \in 1 .. Len(t)
      BY <1>1, <2>2
    <3>. QED  BY <1>1, <3>1
  <2>. QED  BY <1>1, <2>1, <2>2
<1>. QED  BY <1>2 DEF Known

\* Every step keeps what is known of the host's bytes.
LEMMA KnownKept ==
  ASSUME SessionTypeOK, OneOwner, Known, [Next]_vars
  PROVE  Known'
<1>. USE SessionAssumption
<1>1. CASE UNCHANGED <<out, submitted, dev>>
  BY <1>1 DEF Known
<1>2. ASSUME NEW o \in Objects, NEW f \in HostFrames, SendCall(o, f) PROVE Known'
  <2>1. submitted' = Append(submitted, f) /\ UNCHANGED <<out, dev>>
    BY <1>2 DEF SendCall, deviceVars
  <2>2. Len(submitted) \in Nat /\ Len(submitted') = Len(submitted) + 1
    BY <2>1, LenProperties DEF SessionTypeOK
  <2>3. \A n \in 1 .. Len(submitted) : n \in 1 .. Len(submitted')
    BY <2>2
  <2>. QED  BY <2>1, <2>3 DEF Known
<1>3. CASE WriteDone
  <2>1. op.kind = "send" /\ out' = out \o Chunk /\ UNCHANGED <<submitted, dev>>
    BY <1>3 DEF WriteDone, deviceVars
  <2>2. Chunk \in Seq(BytesOfFrames) /\ \A x \in 1 .. Len(Chunk) : Chunk[x].n \in 1 .. Len(submitted)
    BY <2>1, ChunkBytes
  <2>. QED  BY <2>1, <2>2, KnownGrows
<1>4. ASSUME NEW k \in 0 .. HeaderSize + MaxData, WriteFails(k) PROVE Known'
  <2>. DEFINE t == SubSeq(Chunk, 1, k)
  <2>1. op.kind = "send" /\ k < Len(Chunk) /\ out' = out \o t /\ UNCHANGED <<submitted, dev>>
    BY <1>4 DEF WriteFails, deviceVars
  <2>2. Chunk \in Seq(BytesOfFrames) /\ \A x \in 1 .. Len(Chunk) : Chunk[x].n \in 1 .. Len(submitted)
    BY <2>1, ChunkBytes
  <2>3. k \in 0 .. Len(Chunk) /\ Len(Chunk) \in Nat
    BY <2>1, <2>2, LenProperties
  <2>4. t \in Seq(BytesOfFrames) /\ Len(t) = k /\ \A j \in 1 .. k : t[j] = Chunk[j]
    BY <2>2, <2>3, FirstOf
  <2>. HIDE DEF t
  <2>5. \A x \in 1 .. Len(t) : t[x].n \in 1 .. Len(submitted)
    <3>1. \A x \in 1 .. k : x \in 1 .. Len(Chunk)
      BY <2>3
    <3>. QED  BY <2>2, <2>4, <3>1
  <2>. QED  BY <2>1, <2>4, <2>5, KnownGrows
<1>5. CASE DeviceReads
  <2>. DEFINE k == DeviceWanted
  <2>1. /\ dev.phase # "lost" /\ k <= Len(out) /\ out' = SubSeq(out, k + 1, Len(out))
        /\ submitted' = submitted
    BY <1>5 DEF DeviceReads
  <2>2. out \in Seq(BytesOfFrames) /\ Len(out) \in Nat /\ dev.phase \in {"header", "payload", "lost"}
    BY LenProperties DEF SessionTypeOK
  <2>3. k \in 0 .. Len(out)
    <3>1. \A n \in 1 .. Len(submitted) : Size(n) \in Nat
      BY OutSizes
    <3>. QED  BY <2>1, <2>2, <3>1 DEF DeviceWanted, Known
  <2>4. Len(out') = Len(out) - k /\ \A j \in 1 .. Len(out) - k : out'[j] = out[j + k]
    BY <2>1, <2>2, <2>3, RestOf
  <2>5. dev'.phase = "payload" => dev'.n \in 1 .. Len(submitted)
    <3>1. CASE dev.phase = "payload"
      <4>1. dev' = [phase |-> "header", n |-> 0]
        BY <1>5, <3>1 DEF DeviceReads
      <4>. QED  BY <4>1
    <3>2. CASE dev.phase = "header"
      <4>1. 1 \in 1 .. Len(out)
        BY <2>2, <2>3, <3>2 DEF DeviceWanted
      <4>2. out[1].n \in 1 .. Len(submitted) /\ Size(out[1].n) \in Nat
        BY <4>1, OutSizes DEF Known
      <4>3. CASE out[1].i # 1
        <5>1. dev' = [phase |-> "lost", n |-> 0]
          BY <1>5, <3>2, <4>3 DEF DeviceReads
        <5>. QED  BY <5>1
      <4>4. CASE out[1].i = 1 /\ Size(out[1].n) > 0
        <5>. DEFINE n == out[1].n
        <5>1. dev' = [phase |-> "payload", n |-> n]
          <6>1. Size(n) # 0
            BY <4>2, <4>4
          <6>. QED  BY <1>5, <3>2, <4>2, <4>4, <6>1 DEF DeviceReads
        <5>2. n \in 1 .. Len(submitted)
          BY <4>2
        <5>. HIDE DEF n
        <5>. QED  BY <5>1, <5>2
      <4>5. CASE out[1].i = 1 /\ Size(out[1].n) = 0
        <5>1. dev' = dev
          BY <1>5, <3>2, <4>2, <4>5 DEF DeviceReads
        <5>. QED  BY <3>2, <5>1
      <4>. QED  BY <4>2, <4>3, <4>4, <4>5
    <3>. QED  BY <2>1, <2>2, <3>1, <3>2
  <2>. HIDE DEF k
  <2>6. ASSUME NEW j \in 1 .. Len(out') PROVE out'[j].n \in 1 .. Len(submitted)
    <3>1. j \in 1 .. Len(out) - k /\ j + k \in 1 .. Len(out)
      BY <2>2, <2>3, <2>4
    <3>. QED  BY <2>4, <3>1 DEF Known
  <2>. QED  BY <2>1, <2>5, <2>6 DEF Known
<1>6. CASE UNCHANGED vars
  BY <1>1, <1>6 DEF vars, deviceVars
<1>7. CASE Next
  <2>1. CASE CallerStep
    BY <1>1, <1>2, <2>1 DEF CallerStep, ReceiveCall, Close, Move, deviceVars
  <2>2. CASE TransferStep
    BY <1>1, <1>3, <2>2 DEF TransferStep, ReadSome, deviceVars
  <2>3. CASE FailureStep
    BY <1>1, <1>4, <2>3 DEF FailureStep, ReadFails, deviceVars
  <2>4. CASE \E f \in DeviceFrames : DeviceSends(f)
    BY <1>1, <2>4 DEF DeviceSends
  <2>. QED  BY <1>5, <1>7, <2>1, <2>2, <2>3, <2>4 DEF Next
<1>. QED  BY <1>6, <1>7

-----------------------------------------------------------------------------
(* The theorems.                                                            *)

\* A read of some bytes keeps the invariant, and what it delivers is the frame that
\* receive is in, and passes every check.
LEMMA ReadSomeKeepsInv ==
  ASSUME SessionInv, NEW k \in 1 .. HeaderSize + MaxData, ReadSome(k)
  PROVE  /\ SessionInv'
         /\ \/ received' = received
            \/ \E n \in 1 .. Len(offered) :
                 Sound(offered[n]) /\ n = Current /\ received' = Append(received, n)
<1>1. op.phase \in {"header", "payload"}
  BY DEF SessionInv, SessionTypeOK, Calls
<1>2. CASE op.phase = "header"
  BY <1>2, HeaderBytesKeepInv
<1>3. CASE op.phase = "payload"
  BY <1>3, PayloadBytesKeepInv
<1>. QED  BY <1>1, <1>2, <1>3

\* Every step keeps the invariant.
LEMMA SessionStep ==
  ASSUME SessionInv, Known, [Next]_vars
  PROVE  SessionInv' /\ Known'
<1>. SUFFICES SessionInv'
  BY KnownKept DEF SessionInv
<1>1. CASE CallerStep
  BY <1>1, ReceiveCallKeepsInv, SendCallKeepsInv, ObjectsKeepInv DEF CallerStep
<1>2. CASE TransferStep
  BY <1>2, ReadSomeKeepsInv, WriteDoneKeepsInv DEF TransferStep
<1>3. CASE FailureStep
  BY <1>3, ReadFailsKeepsInv, WriteFailsKeepsInv DEF FailureStep
<1>4. CASE \E f \in DeviceFrames : DeviceSends(f)
  BY <1>4, DeviceSendsKeepsInv
<1>5. CASE DeviceReads
  BY <1>5, DeviceReadsKeepsInv
<1>6. CASE UNCHANGED vars
  <2>1. UNCHANGED <<session, transport, op, wire, out, received, submitted, offered, dev, handled,
                    torn, byCaller>>
    BY <1>6 DEF vars, hostVars, deviceVars
  <2>2. SessionTypeOK' /\ OneOwner' /\ ClosedForCause'
    BY <2>1 DEF SessionInv, SessionTypeOK, OneOwner, TransportHeld, ClosedForCause, Size
  <2>3. ReadPosition' /\ InStep'
    <3>1. (InHeader' <=> InHeader) /\ (InPayload' <=> InPayload)
      BY <2>1 DEF InHeader, InPayload
    <3>. QED  BY <2>1, <3>1, ReadingUnchanged
  <2>4. "write" \notin Faults => DevicePosition'
    <3>1. outSizes' = outSizes /\ outAt' = outAt
      BY <2>1 DEF outSizes, outAt, Started, Pending, Size
    <3>2. Whole(out, outSizes)' <=> Whole(out, outSizes)
      BY <2>1, <3>1 DEF Whole
    <3>. QED  BY <2>1, <3>1, <3>2 DEF SessionInv, DevicePosition, Size
  <2>. QED  BY <2>2, <2>3, <2>4 DEF SessionInv
<1>. QED  BY <1>1, <1>2, <1>3, <1>4, <1>5, <1>6 DEF Next

\* The inductive invariant holds in every state: receive stands in the byte stream
\* where it thinks it does, whatever the sizes of the reads (read_exact), and so does
\* the device as long as no write has failed (Session::receive, send, close, the
\* moves).
THEOREM SessionInvariance == Spec => [](SessionInv /\ Known)
<1>1. Init => SessionInv /\ Known
  <2>. SUFFICES ASSUME Init PROVE SessionInv /\ Known
    OBVIOUS
  <2>1. Len(out) = 0 /\ dev.phase = "header"
    BY DEF Init
  <2>2. Known
    BY <2>1 DEF Known
  <2>. QED  BY <2>2, SessionInit
<1>2. SessionInv /\ Known /\ [Next]_vars => (SessionInv /\ Known)'
  BY SessionStep
<1>. QED  BY <1>1, <1>2, PTL DEF Spec

\* At most one session is open, it has the open transport and the call in progress is
\* on it, whatever is moved and closed in whatever order (the moves, Session::close,
\* framing_error).
THEOREM TransportHasOneOwner == Spec => []OneHoldsTransport
<1>1. SessionInv => OneHoldsTransport
  BY DEF SessionInv, OneOwner, OneHoldsTransport
<1>. QED  BY <1>1, SessionInvariance, PTL

\* A session closes on its own only for a corrupt frame or after a read that failed in
\* the middle of one, never because of short reads (read_exact, framing_error).
THEOREM SessionClosedForCause == Spec => []ClosedForCause
<1>1. SessionInv => ClosedForCause
  BY DEF SessionInv
<1>. QED  BY <1>1, SessionInvariance, PTL

\* When no write fails, Session implements the frame channel: receive returns the
\* device's frames whole, in order and only if they pass every check, and passes none
\* over unless a read failed in the middle of one; the device gets every frame of send
\* in order (Session::receive, send, read_exact, framing_error).
THEOREM SessionIsFrameChannel ==
  ASSUME "write" \notin Faults
  PROVE  Spec => ChannelSpec
<1>. DEFINE cvars == <<offered, received, torn, submitted, handled>>
<1>1. Init => Channel!Init
  BY DEF Init, Channel!Init
<1>2. ASSUME SessionInv, Known, [Next]_vars
      PROVE  Channel!Next \/ UNCHANGED cvars
  <2>1. ASSUME NEW o \in Objects, ReceiveCall(o) \/ Close(o)
        PROVE  UNCHANGED cvars
    BY <2>1 DEF ReceiveCall, Close, deviceVars
  <2>2. ASSUME NEW a \in Objects, NEW b \in Objects, Move(a, b)
        PROVE  UNCHANGED cvars
    BY <2>2 DEF Move, deviceVars
  <2>3. ASSUME NEW o \in Objects, NEW f \in HostFrames, SendCall(o, f)
        PROVE  Channel!Submit
    BY <2>3 DEF SendCall, deviceVars, Channel!Submit
  <2>4. ASSUME NEW k \in 1 .. HeaderSize + MaxData, ReadSome(k)
        PROVE  Channel!Deliver \/ UNCHANGED cvars
    <3>1. UNCHANGED <<offered, torn, submitted, handled>> /\ op.kind = "receive"
      BY <2>4 DEF ReadSome, deviceVars
    <3>2. CASE received' = received
      BY <3>1, <3>2
    <3>3. ASSUME NEW n \in 1 .. Len(offered), Sound(offered[n]), n = Current,
                 received' = Append(received, n)
          PROVE  Channel!Deliver
      <4>1. offered[n] \in {f \in DeviceFrames : Sound(f)}
        BY <1>2, <3>3, WireSizes DEF SessionInv
      <4>2. transport = "open"
        BY <1>2, <3>1 DEF SessionInv, OneOwner, TransportHeld
      <4>3. n = Len(received) + 1 \/ torn
        BY <1>2, <3>3, <4>2 DEF SessionInv, InStep
      <4>4. \A r \in 1 .. Len(received) : received[r] < n
        BY <1>2, <3>3 DEF SessionInv, ReadPosition
      <4>. QED  BY <3>1, <3>3, <4>1, <4>3, <4>4 DEF Channel!Deliver
    <3>. QED  BY <1>2, <2>4, <3>2, <3>3, ReadSomeKeepsInv
  <2>5. ASSUME WriteDone \/ \E k \in 0 .. HeaderSize + MaxData : WriteFails(k)
        PROVE  UNCHANGED cvars
    BY <2>5 DEF WriteDone, WriteFails, deviceVars
  <2>6. ASSUME ReadFails
        PROVE  Channel!Tear \/ UNCHANGED cvars
    <3>1. torn \in BOOLEAN
      BY <1>2 DEF SessionInv, SessionTypeOK
    <3>2. /\ torn' = (torn \/ op.phase = "payload" \/ op.got # <<>>)
          /\ UNCHANGED <<offered, received, submitted, handled>>
      BY <2>6 DEF ReadFails, deviceVars
    <3>3. torn' = TRUE \/ torn' = torn
      BY <3>1, <3>2
    <3>. QED  BY <3>2, <3>3 DEF Channel!Tear
  <2>7. ASSUME NEW f \in DeviceFrames, DeviceSends(f)
        PROVE  Channel!Offer
    BY <2>7 DEF DeviceSends, Channel!Offer
  <2>8. ASSUME DeviceReads
        PROVE  Channel!Handle \/ UNCHANGED cvars
    <3>1. UNCHANGED <<offered, received, torn, submitted>>
      BY <2>8 DEF DeviceReads
    <3>2. \/ handled' = handled
          \/ handled' = Append(handled, Len(handled) + 1) /\ Len(handled) < Len(submitted)
      BY <1>2, <2>8, DeviceReadsKeepsInv
    <3>. QED  BY <3>1, <3>2 DEF Channel!Handle
  <2>9. CASE UNCHANGED vars
    BY <2>9 DEF vars, deviceVars
  <2>10. CASE CallerStep
    BY <2>1, <2>2, <2>3, <2>10 DEF CallerStep, Channel!Next
  <2>11. CASE TransferStep
    BY <2>4, <2>5, <2>11 DEF TransferStep, Channel!Next
  <2>12. CASE FailureStep
    BY <2>5, <2>6, <2>12 DEF FailureStep, Channel!Next
  <2>13. CASE (\E f \in DeviceFrames : DeviceSends(f)) \/ DeviceReads
    BY <2>7, <2>8, <2>13 DEF Channel!Next
  <2>. QED  BY <1>2, <2>9, <2>10, <2>11, <2>12, <2>13 DEF Next
<1>3. SessionInv /\ Known /\ [Next]_vars => [Channel!Next]_cvars
  BY <1>2
<1>. QED  BY <1>1, <1>3, SessionInvariance, PTL DEF Spec, ChannelSpec, Channel!Spec

=============================================================================
