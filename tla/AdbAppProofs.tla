---------------------------- MODULE AdbAppProofs ----------------------------
(***************************************************************************)
(* What one device's tour keeps true, for every number of attempts and     *)
(* polls and every choice of faults.  AdbTourProofs puts it together with  *)
(* the key store and the program around them.                              *)
(***************************************************************************)
EXTENDS AdbApp, SequenceTheorems, TLAPS

-----------------------------------------------------------------------------
(* The inductive invariant.                                                 *)

Before  == {"key", "connect", "hello", "list", "push", "stat", "pull", "tidy", "sleep", "asleep",
            "path", "old", "install"}
Single  == {"apkpush", "pm", "rmapk"}
Several == {"create", "split", "write", "abandon", "commit"}
Ready   == {"wake", "menu", "awake", "launch"}
After   == Ready \cup {"poll", "stop", "remove", "done", "failed"}

Parts   == {"base", "split"}
Words   == {"Success", "Failure", "[", "package"}
Devices == [plugged : BOOLEAN, up : BOOLEAN, v2 : BOOLEAN, files : SUBSET {"base", "split", "scratch"},
            session : {"none", "open"}, written : SUBSET Parts, parts : SUBSET Parts, running : BOOLEAN]
Hosts   == [apks : Splits, todo : Seq(Parts), session : {"none", "real", "bogus"}, count : Nat,
            tried : BOOLEAN, worked : BOOLEAN, rmFailed : BOOLEAN, claim : {"none", "yes", "no"},
            cut : BOOLEAN, lost : BOOLEAN]

\* Types of the tour's state.
AppTypeOK ==
  /\ at \in Before \cup Single \cup Several \cup After
  /\ dev \in Devices
  /\ host \in Hosts

\* The two ways of installing do not mix, and what one leaves behind is not there
\* before it.
Ways ==
  /\ at \in Single => host.apks = <<"base">>
  /\ at \in Several => host.apks = <<"base", "split">>
  /\ host.tried => at \in After \cup {"pm", "rmapk"}
  /\ host.worked => at \in After \cup {"rmapk"}

\* One APK: what pm said is remembered until the APK is removed.
WorkedTruthful == at = "rmapk" /\ host.worked => dev.parts = {"base"}

\* Several: what is still to be written and what the session holds make up the app.
Remaining ==
  /\ at = "create" => host.todo = <<"base", "split">>
  /\ at \in {"split", "write"} => host.todo \in {<<"base", "split">>, <<"split">>}
  /\ at \in {"split", "write"} /\ Answered => dev.written \cup Names(host.todo) = Parts
  /\ at = "commit" /\ Answered => dev.written = Parts

\* Where every answer came whole the session id is one, and a session is open
\* only while somebody is working on it.
SessionKnown ==
  /\ at \in {"split", "write", "abandon", "commit"} /\ Answered => host.session = "real"
  /\ at \notin {"split", "write", "abandon", "commit"} /\ ~host.lost /\ Answered => dev.session = "none"

\* Only the loop that asks claims anything about the app.
Claims == host.claim # "none" => at \in {"poll", "stop"}

AppInv ==
  /\ AppTypeOK
  /\ Ways
  /\ WorkedTruthful
  /\ Remaining
  /\ SessionKnown
  /\ Claims
  /\ CommandsTruthful
  /\ ApkRemoved

-----------------------------------------------------------------------------
(* A command, as its caller sees it.                                        *)

Commands == {"plain", "path", "install", "uninstall", "create", "write", "commit", "abandon", "rm",
             "monkey", "stop", "pidof"}
Effects  == [dev : Devices, words : SUBSET Words, code : {0, 1}]

\* The device is as d, but for its connection; the host as it was, but for h's
\* notes of answers cut off and streams lost.
Like(d) ==
  /\ dev' \in Devices /\ dev'.v2 = d.v2 /\ dev'.files = d.files /\ dev'.session = d.session
  /\ dev'.written = d.written /\ dev'.parts = d.parts /\ dev'.running = d.running

Kept(h) ==
  /\ h \in Hosts /\ h.apks = host.apks /\ h.todo = host.todo /\ h.session = host.session
  /\ h.count = host.count /\ h.tried = host.tried /\ h.worked = host.worked
  /\ h.rmFailed = host.rmFailed /\ h.claim = host.claim
  /\ (host.cut => h.cut) /\ (host.lost => h.lost)

\* A result r of what the device did, e: a word the caller reads was printed, an
\* exit code it reads is the device's or a missing one, and both are exact where
\* the answer came whole.
Reports(e, r, h) ==
  /\ ~r.err /\ r.words \subseteq e.words /\ r.code \in {0, e.code} /\ (r.success <=> r.code = 0)
  /\ dev.v2 /\ ~h.cut => r.words = e.words /\ r.code = e.code

\* What a caller of run hears: such a result, or an error, and then the device may
\* have done what it was asked or not.
Heard(cmd, arg, r, h) ==
  /\ Kept(h) /\ r.err \in BOOLEAN
  /\ \E e \in Effects :
       /\ Like(e.dev)
       /\ \/ e \in Executes(cmd, arg) /\ Reports(e, r, h)
          \/ (e \in Executes(cmd, arg) \/ e.dev = dev) /\ r.err /\ h.lost

\* What the device does keeps its state a device's (external).
LEMMA ExecutesType ==
  ASSUME AppTypeOK, NEW cmd \in Commands, NEW arg,
         cmd \in {"install", "write"} => arg \in Parts,
         NEW e \in Executes(cmd, arg)
  PROVE  e \in Effects
  <1>1. dev \in Devices
    BY DEF AppTypeOK
  <1>w. /\ {} \in SUBSET Words /\ {"Failure"} \in SUBSET Words /\ {"Success"} \in SUBSET Words
        /\ {"package"} \in SUBSET Words
        /\ {"Failure", "["} \in SUBSET Words /\ {"Success", "["} \in SUBSET Words
    <2>1. "Failure" \in Words /\ "Success" \in Words /\ "package" \in Words /\ "[" \in Words
      BY DEF Words
    <2> QED BY <2>1
  <1>d. \A d \in Devices : \A w \in SUBSET Words : \A c \in {0, 1} : Does(d, w, c) \in Effects
    BY DEF Does, Effects
  <1>r. \A w \in SUBSET Words : \A x \in Refuses(w) \cup MayRefuse(w) : x \in Effects
    BY <1>1, <1>d DEF Refuses, MayRefuse
  <1>2. CASE cmd = "plain" \/ cmd = "path"
    BY <1>2, <1>1, <1>w, <1>d DEF Executes
  <1>3. CASE cmd = "install"
    <2>1. [dev EXCEPT !.parts = {arg}] \in Devices
      BY <1>3, <1>1 DEF Devices, Parts
    <2> QED BY <2>1, <1>3, <1>r, <1>w, <1>d DEF Executes
  <1>4. CASE cmd = "uninstall"
    <2>1. [dev EXCEPT !.parts = {}, !.running = FALSE] \in Devices
      BY <1>1 DEF Devices, Parts
    <2> QED BY <2>1, <1>4, <1>r, <1>w, <1>d DEF Executes
  <1>5. CASE cmd = "create"
    <2>1. [dev EXCEPT !.session = "open", !.written = {}] \in Devices
      BY <1>1 DEF Devices, Parts
    <2> QED BY <2>1, <1>5, <1>r, <1>w, <1>d DEF Executes
  <1>6. CASE cmd = "write"
    <2>1. [dev EXCEPT !.written = @ \cup {arg}] \in Devices
      BY <1>1, <1>6 DEF Devices, Parts
    <2> QED BY <2>1, <1>6, <1>r, <1>w, <1>d DEF Executes
  <1>7. CASE cmd = "commit"
    <2> DEFINE done == [dev EXCEPT !.session = "none", !.written = {}]
    <2>1. done \in Devices /\ [done EXCEPT !.parts = dev.written] \in Devices
      BY <1>1 DEF Devices, Parts
    <2> QED BY <2>1, <1>7, <1>r, <1>w, <1>d DEF Executes, Commits
  <1>8. CASE cmd = "abandon"
    <2>1. [dev EXCEPT !.session = "none", !.written = {}] \in Devices
      BY <1>1 DEF Devices, Parts
    <2> QED BY <2>1, <1>8, <1>w, <1>d DEF Executes
  <1>9. CASE cmd = "rm"
    <2>1. [dev EXCEPT !.files = @ \ {arg}] \in Devices
      BY <1>1 DEF Devices
    <2> QED BY <2>1, <1>9, <1>w, <1>d DEF Executes
  <1>10. CASE cmd = "monkey"
    <2>1. [dev EXCEPT !.running = TRUE] \in Devices
      BY <1>1 DEF Devices
    <2> QED BY <2>1, <1>10, <1>r, <1>w, <1>d DEF Executes
  <1>11. CASE cmd = "stop" \/ cmd = "pidof"
    <2>1. \A r \in BOOLEAN : [dev EXCEPT !.running = r] \in Devices
      BY <1>1 DEF Devices
    <2> QED BY <2>1, <1>11, <1>w, <1>d DEF Executes
  <1> QED BY <1>2, <1>3, <1>4, <1>5, <1>6, <1>7, <1>8, <1>9, <1>10, <1>11 DEF Commands

\* What of an answer is on the wire: the text first, then the exit packet, which
\* only shell_v2 has.
Wired(e, raw) ==
  /\ DOMAIN raw = 1 .. Len(raw) /\ Len(raw) \in 0 .. 2
  /\ \A i \in DOMAIN raw :
       \/ i = 1 /\ raw[i].id \in {"stdout", "stderr"} /\ raw[i].words = e.words
       \/ i = 2 /\ dev.v2 /\ raw[i].id = "exit" /\ raw[i].words = {} /\ raw[i].code = e.code
  /\ raw = Answer(e) => /\ \A i \in DOMAIN raw : raw[i].whole
                        /\ 1 \in DOMAIN raw /\ (dev.v2 => 2 \in DOMAIN raw)

\* That holds of every answer, whole or cut off (the device, external).
LEMMA OnTheWire == ASSUME AppTypeOK, NEW e \in Effects, NEW raw \in Wire(e) PROVE Wired(e, raw)
  <1> DEFINE A == Answer(e)
             P == Packet(IF e.code = 0 THEN "stdout" ELSE "stderr", e.words, 0)
             Q == Packet("exit", {}, e.code)
             Cut(x) == [x EXCEPT !.whole = FALSE]
             X == {P, Q, Cut(P), Cut(Q)}
  <1>1. /\ P.id \in {"stdout", "stderr"} /\ P.words = e.words /\ P.whole
        /\ Q.id = "exit" /\ Q.words = {} /\ Q.code = e.code /\ Q.whole
    BY DEF Packet
  <1>2. /\ Cut(P).id = P.id /\ Cut(P).words = P.words
        /\ Cut(Q).id = Q.id /\ Cut(Q).words = Q.words /\ Cut(Q).code = Q.code
    BY DEF Packet
  <1>3. A = <<P>> \o (IF dev.v2 THEN <<Q>> ELSE <<>>)
    BY DEF Answer
  <1>x. P \in X /\ Q \in X
    OBVIOUS
  <1> HIDE DEF A, P, Q, Cut, X
  <1>s. <<P>> \in Seq(X) /\ <<Q>> \in Seq(X) /\ <<>> \in Seq(X)
    BY <1>x
  <1>4. A \in Seq(X)
    BY <1>3, <1>s
  <1>5. /\ Len(A) \in 1 .. 2 /\ DOMAIN A = 1 .. Len(A) /\ A[1] = P
        /\ dev.v2 => Len(A) = 2 /\ A[2] = Q
        /\ ~dev.v2 => Len(A) = 1
    <2>1. \A s, t \in Seq(X) :
            /\ Len(s \o t) = Len(s) + Len(t)
            /\ \A i \in 1 .. Len(s) : (s \o t)[i] = s[i]
            /\ \A i \in 1 .. Len(t) : (s \o t)[Len(s) + i] = t[i]
      OBVIOUS
    <2>2. Len(<<P>>) = 1 /\ <<P>>[1] = P /\ Len(<<Q>>) = 1 /\ <<Q>>[1] = Q /\ Len(<<>>) = 0
      OBVIOUS
    <2>3. CASE dev.v2
      <3>1. A = <<P>> \o <<Q>>
        BY <2>3, <1>3
      <3> QED BY <3>1, <2>1, <2>2, <2>3, <1>s, <1>4
    <2>4. CASE ~dev.v2
      <3>1. A = <<P>> \o <<>>
        BY <2>4, <1>3
      <3> QED BY <3>1, <2>1, <2>2, <2>4, <1>s, <1>4
    <2> QED BY <2>3, <2>4
  <1>6. CASE raw = A
    BY <1>1, <1>5, <1>6 DEF A, Wired
  <1>7. ASSUME NEW n \in 0 .. Len(A), raw = SubSeq(A, 1, n), raw # A
        PROVE  Wired(e, raw)
    <2>1. Len(raw) = n /\ DOMAIN raw = 1 .. n /\ \A i \in 1 .. n : raw[i] = A[i]
      <3>1. n \in Int /\ 1 \in Int /\ \A i \in 1 .. n : A[i] \in X
        BY <1>4, <1>5
      <3>2. /\ Len(SubSeq(A, 1, n)) = (IF 1 <= n THEN n - 1 + 1 ELSE 0) /\ SubSeq(A, 1, n) \in Seq(X)
            /\ \A i \in 1 .. n - 1 + 1 : SubSeq(A, 1, n)[i] = A[1 + i - 1]
        BY <3>1, SubSeqProperties
      <3> QED BY <3>2, <1>7
    <2>2. n \in 0 .. 2 /\ \A i \in 1 .. n : i = 1 \/ (i = 2 /\ dev.v2)
      BY <1>5
    <2>3. raw # Answer(e)
      BY <1>7 DEF A
    <2>4. \A i \in 1 .. n : (i = 1 /\ raw[i] = P) \/ (i = 2 /\ dev.v2 /\ raw[i] = Q)
      BY <2>1, <2>2, <1>5
    <2> QED BY <2>1, <2>2, <2>3, <2>4, <1>1 DEF Wired
  <1>8. ASSUME NEW n \in 1 .. Len(A), raw = [SubSeq(A, 1, n) EXCEPT ![n].whole = FALSE], raw # A
        PROVE  Wired(e, raw)
    <2> DEFINE c == SubSeq(A, 1, n)
    <2>1. c \in Seq(X) /\ Len(c) = n /\ DOMAIN c = 1 .. n /\ \A i \in 1 .. n : c[i] = A[i]
      BY <1>4, <1>5
    <2>2. n \in 1 .. 2 /\ \A i \in 1 .. n : i = 1 \/ (i = 2 /\ dev.v2)
      BY <1>5
    <2> HIDE DEF c
    <2>3. raw = [c EXCEPT ![n] = Cut(c[n])]
      BY <1>8 DEF c, Cut
    <2>4. \A i \in 1 .. n : c[i] \in {P, Q}
      BY <2>1, <2>2, <1>5
    <2>5. raw \in Seq(X) /\ Len(raw) = n /\ DOMAIN raw = 1 .. n
      <3>1. Cut(c[n]) \in X
        BY <2>4 DEF X
      <3> QED BY <2>1, <2>3, <3>1
    <2>6. \A i \in 1 .. n : raw[i] = IF i = n THEN Cut(A[i]) ELSE A[i]
      BY <2>1, <2>3
    <2>7. /\ raw[1].id = P.id /\ raw[1].words = P.words
          /\ n = 2 => raw[2].id = Q.id /\ raw[2].words = Q.words /\ raw[2].code = Q.code
      BY <2>2, <2>6, <1>2, <1>5
    <2>8. raw # Answer(e)
      BY <1>8 DEF A
    <2> QED BY <2>2, <2>5, <2>7, <2>8, <1>1 DEF Wired
  <1> QED BY <1>6, <1>7, <1>8 DEF Wire, A

\* What run makes of an answer: its words were printed, its exit code is the
\* device's or zero, and of a whole answer under shell_v2 both are exact (run_v2,
\* run_v1).
LEMMA RunReports ==
  ASSUME AppTypeOK, NEW e \in Effects, NEW raw \in Wire(e)
  PROVE  LET h == [host EXCEPT !.cut = @ \/ raw # Answer(e)]
         IN  Kept(h) /\ Reports(e, shell_run(raw), h)
  <1> DEFINE r == shell_run(raw)
             h == [host EXCEPT !.cut = @ \/ raw # Answer(e)]
  <1>1. Wired(e, raw)
    BY OnTheWire
  <1>2. Taken(raw) \subseteq DOMAIN raw
    BY DEF Taken
  <1>3. output(raw) \subseteq e.words
    BY <1>1, <1>2 DEF output, Wired
  <1>4. dev.v2 => exit_code(raw) \in {0, e.code}
    BY <1>1, <1>2 DEF exit_code, Wired
  <1>5. ~r.err /\ r.words = output(raw) /\ r.code = (IF dev.v2 THEN exit_code(raw) ELSE 0)
        /\ (r.success <=> r.code = 0)
    BY DEF shell_run, run_v2, run_v1, Result
  <1>6. ASSUME raw = Answer(e) PROVE output(raw) = e.words /\ (dev.v2 => exit_code(raw) = e.code)
    <2>1. Taken(raw) = DOMAIN raw
      BY <1>1, <1>6 DEF Wired, Taken
    <2>2. 1 \in Taken(raw) /\ raw[1].id \in {"stdout", "stderr"} /\ raw[1].words = e.words
      BY <2>1, <1>1, <1>6 DEF Wired
    <2>3. output(raw) = e.words
      BY <2>2, <1>3 DEF output
    <2>4. ASSUME dev.v2 PROVE exit_code(raw) = e.code
      <3>1. 2 \in Taken(raw) /\ raw[2].id = "exit"
        BY <2>1, <2>4, <1>1, <1>6 DEF Wired
      <3>2. \A i \in Taken(raw) : raw[i].id = "exit" => raw[i].code = e.code
        BY <1>1, <1>2 DEF Wired
      <3> QED BY <3>1, <3>2 DEF exit_code
    <2> QED BY <2>3, <2>4
  <1>7. host \in Hosts /\ host.cut \in BOOLEAN
    BY DEF AppTypeOK, Hosts
  <1>8. h \in Hosts /\ h.cut = (host.cut \/ raw # Answer(e))
    BY <1>7 DEF Hosts
  <1>9. Kept(h)
    BY <1>7, <1>8 DEF Hosts, Kept
  <1> HIDE DEF r, h
  <1>10. dev.v2 /\ ~h.cut => r.words = e.words /\ r.code = e.code
    BY <1>5, <1>6, <1>8
  <1>11. r.code \in {0, e.code} /\ r.words \subseteq e.words
    BY <1>3, <1>4, <1>5
  <1>12. Reports(e, r, h)
    BY <1>5, <1>10, <1>11 DEF Reports
  <1> QED BY <1>9, <1>12 DEF r, h

\* Whichever way a command goes: it is answered, or the stream fails before or
\* after the device did it.
Hears(cmd, arg) ==
  /\ \A e \in Executes(cmd, arg) : \A raw \in Wire(e) :
       dev' = e.dev => Heard(cmd, arg, shell_run(raw), [host EXCEPT !.cut = @ \/ raw # Answer(e)])
  /\ \A e \in Executes(cmd, arg) : \A u \in BOOLEAN : \A d \in {dev, e.dev} :
       dev' = [d EXCEPT !.up = u] => Heard(cmd, arg, Error, [host EXCEPT !.lost = TRUE])
  /\ dev' = dev => Heard(cmd, arg, Error, [host EXCEPT !.lost = TRUE])

\* The caller of run hears a result or an error (run).
LEMMA RunHeard ==
  ASSUME AppTypeOK, NEW cmd \in Commands, NEW arg, cmd \in {"install", "write"} => arg \in Parts
  PROVE  Hears(cmd, arg)
  <1>0. dev \in Devices /\ host \in Hosts
    BY DEF AppTypeOK
  <1>1. \A e \in Executes(cmd, arg) : e \in Effects /\ e.dev \in Devices
    BY ExecutesType DEF Effects
  <1>2. ASSUME NEW e \in Executes(cmd, arg), NEW raw \in Wire(e), dev' = e.dev
        PROVE  Heard(cmd, arg, shell_run(raw), [host EXCEPT !.cut = @ \/ raw # Answer(e)])
    <2>1. Like(e.dev)
      BY <1>1, <1>2 DEF Like
    <2>2. shell_run(raw).err \in BOOLEAN
      BY DEF shell_run, run_v2, run_v1, Result
    <2> QED BY <2>1, <2>2, <1>1, RunReports DEF Heard
  <1>3. Error.err /\ Error.err \in BOOLEAN /\ Kept([host EXCEPT !.lost = TRUE]) /\ [host EXCEPT !.lost = TRUE].lost
    BY <1>0 DEF Error, Kept, Hosts
  <1>4. \A d \in Devices : \A u \in BOOLEAN : dev' = [d EXCEPT !.up = u] => Like(d)
    BY DEF Like, Devices
  <1>5. Does(dev, {}, 0) \in Effects /\ Does(dev, {}, 0).dev = dev
    BY <1>0 DEF Does, Effects
  <1>6. ASSUME NEW e \in Executes(cmd, arg), NEW u \in BOOLEAN, NEW d \in {dev, e.dev}, dev' = [d EXCEPT !.up = u]
        PROVE  Heard(cmd, arg, Error, [host EXCEPT !.lost = TRUE])
    <2>1. Like(d)
      BY <1>0, <1>1, <1>4, <1>6
    <2>2. CASE d = dev
      BY <2>1, <2>2, <1>3, <1>5 DEF Heard
    <2>3. CASE d = e.dev
      BY <2>1, <2>3, <1>1, <1>3 DEF Heard
    <2> QED BY <2>2, <2>3
  <1>7. ASSUME dev' = dev PROVE Heard(cmd, arg, Error, [host EXCEPT !.lost = TRUE])
    <2>1. Like(dev)
      BY <1>0, <1>7 DEF Like
    <2> QED BY <2>1, <1>3, <1>5 DEF Heard
  <1> QED BY <1>2, <1>6, <1>7 DEF Hears

-----------------------------------------------------------------------------
(* What each command leaves of the device, whatever is heard of it.         *)

\* The parts of the device a command may leave alone.
SameDevice  == dev' \in Devices /\ dev'.v2 = dev.v2
SameFiles   == dev'.files = dev.files
SameSession == dev'.session = dev.session /\ dev'.written = dev.written
SameApp     == dev'.parts = dev.parts /\ dev'.running = dev.running

\* A report has its fields (the device, external).
LEMMA DoesFields == \A d, w, c : Does(d, w, c).dev = d /\ Does(d, w, c).words = w /\ Does(d, w, c).code = c
  BY DEF Does

\* A command that only looks (the device, external).
LEMMA HeardPlain ==
  ASSUME AppTypeOK, NEW cmd \in {"plain", "path"}, NEW arg, NEW r, NEW h, Heard(cmd, arg, r, h)
  PROVE  /\ Kept(h) /\ SameDevice /\ SameFiles /\ SameSession /\ SameApp
  <1>1. PICK e \in Effects : Like(e.dev) /\ (e \in Executes(cmd, arg) \/ e.dev = dev)
    BY DEF Heard
  <1>2. \A x \in Executes(cmd, arg) : x.dev = dev
    <2>1. CASE cmd = "plain"
      BY <2>1, DoesFields DEF Executes
    <2>2. CASE cmd = "path"
      BY <2>2, DoesFields DEF Executes
    <2> QED BY <2>1, <2>2
  <1> QED BY <1>1, <1>2 DEF Heard, Like, SameDevice, SameFiles, SameSession, SameApp

\* rm takes the file away, or the stream failed (remove_quietly).
LEMMA HeardRemove ==
  ASSUME AppTypeOK, NEW arg, NEW r, NEW h, Heard("rm", arg, r, h)
  PROVE  /\ Kept(h) /\ (r.err => h.lost) /\ SameDevice /\ SameSession /\ SameApp
         /\ dev'.files = dev.files \ {arg} \/ (r.err /\ dev'.files = dev.files)
  <1>1. dev \in Devices
    BY DEF AppTypeOK
  <1>2. PICK e \in Effects :
          /\ Like(e.dev)
          /\ \/ e \in Executes("rm", arg) /\ Reports(e, r, h)
             \/ (e \in Executes("rm", arg) \/ e.dev = dev) /\ r.err /\ h.lost
    BY DEF Heard
  <1>3. \A x \in Executes("rm", arg) : x.dev = [dev EXCEPT !.files = @ \ {arg}]
    BY DoesFields DEF Executes
  <1>d. LET d == [dev EXCEPT !.files = @ \ {arg}]
        IN  /\ d.v2 = dev.v2 /\ d.files = dev.files \ {arg} /\ d.session = dev.session
            /\ d.written = dev.written /\ d.parts = dev.parts /\ d.running = dev.running
    BY <1>1 DEF Devices
  <1>4. /\ e.dev.files = dev.files \ {arg} \/ (r.err /\ e.dev.files = dev.files)
        /\ e.dev.v2 = dev.v2 /\ e.dev.session = dev.session /\ e.dev.written = dev.written
        /\ e.dev.parts = dev.parts /\ e.dev.running = dev.running
    BY <1>1, <1>2, <1>3, <1>d
  <1>5. Kept(h) /\ (r.err => h.lost)
    BY <1>2 DEF Heard, Reports
  <1>6. /\ dev' \in Devices /\ dev'.v2 = e.dev.v2 /\ dev'.files = e.dev.files /\ dev'.session = e.dev.session
        /\ dev'.written = e.dev.written /\ dev'.parts = e.dev.parts /\ dev'.running = e.dev.running
    BY <1>2 DEF Like
  <1>7. ~r.err => /\ e \in Executes("rm", arg) /\ r.words \subseteq e.words /\ r.code \in {0, e.code}
                  /\ (r.success <=> r.code = 0) /\ (dev.v2 /\ ~h.cut => r.words = e.words /\ r.code = e.code)
    BY <1>2 DEF Reports
  <1> QED BY <1>4, <1>5, <1>6, <1>7 DEF SameDevice, SameFiles, SameSession, SameApp

\* pm install: the package is what it was or the APK, and the word means the
\* latter (install, package_result).
LEMMA HeardInstall ==
  ASSUME AppTypeOK, NEW r, NEW h, Heard("install", "base", r, h)
  PROVE  /\ Kept(h) /\ (r.err => h.lost) /\ SameDevice /\ SameFiles /\ SameSession
         /\ dev'.running = dev.running
         /\ ~r.err /\ package_result(r) => dev'.parts = {"base"}
  <1>1. dev \in Devices
    BY DEF AppTypeOK
  <1>2. PICK e \in Effects :
          /\ Like(e.dev)
          /\ \/ e \in Executes("install", "base") /\ Reports(e, r, h)
             \/ (e \in Executes("install", "base") \/ e.dev = dev) /\ r.err /\ h.lost
    BY DEF Heard
  <1>3. \A x \in Executes("install", "base") :
          (x.dev = dev /\ x.words = {"Failure"} /\ x.code = 1) \/ (x.dev = [dev EXCEPT !.parts = {"base"}] /\ x.words = {"Success"} /\ x.code = 0)
    BY DoesFields DEF Executes, MayRefuse, Refuses
  <1>d. LET d == [dev EXCEPT !.parts = {"base"}]
        IN  /\ d.v2 = dev.v2 /\ d.files = dev.files /\ d.session = dev.session
            /\ d.written = dev.written /\ d.parts = {"base"} /\ d.running = dev.running
    BY <1>1 DEF Devices
  <1>4. /\ e.dev.v2 = dev.v2 /\ e.dev.files = dev.files /\ e.dev.session = dev.session /\ e.dev.written = dev.written
        /\ e.dev.running = dev.running
        /\ "Success" \in e.words /\ e \in Executes("install", "base") => e.dev.parts = {"base"}
    BY <1>1, <1>2, <1>3, <1>d
  <1>5. Kept(h) /\ (r.err => h.lost)
    BY <1>2 DEF Heard, Reports
  <1>6. /\ dev' \in Devices /\ dev'.v2 = e.dev.v2 /\ dev'.files = e.dev.files /\ dev'.session = e.dev.session
        /\ dev'.written = e.dev.written /\ dev'.parts = e.dev.parts /\ dev'.running = e.dev.running
    BY <1>2 DEF Like
  <1>7. ~r.err => /\ e \in Executes("install", "base") /\ r.words \subseteq e.words /\ r.code \in {0, e.code}
                  /\ (r.success <=> r.code = 0) /\ (dev.v2 /\ ~h.cut => r.words = e.words /\ r.code = e.code)
    BY <1>2 DEF Reports
  <1> QED BY <1>4, <1>5, <1>6, <1>7 DEF SameDevice, SameFiles, SameSession, SameApp, package_result

\* pm uninstall: the word means that the app is gone (uninstall, package_result).
LEMMA HeardUninstall ==
  ASSUME AppTypeOK, NEW arg, NEW r, NEW h, Heard("uninstall", arg, r, h)
  PROVE  /\ Kept(h) /\ (r.err => h.lost) /\ SameDevice /\ SameFiles /\ SameSession
         /\ ~r.err /\ package_result(r) => dev'.parts = {} /\ ~dev'.running
  <1>1. dev \in Devices
    BY DEF AppTypeOK
  <1>2. PICK e \in Effects :
          /\ Like(e.dev)
          /\ \/ e \in Executes("uninstall", arg) /\ Reports(e, r, h)
             \/ (e \in Executes("uninstall", arg) \/ e.dev = dev) /\ r.err /\ h.lost
    BY DEF Heard
  <1>3. \A x \in Executes("uninstall", arg) :
          \/ (x.dev = dev /\ x.words = {"Failure"} /\ x.code = 1)
          \/ (x.dev = [dev EXCEPT !.parts = {}, !.running = FALSE] /\ x.words = {"Success"} /\ x.code = 0)
    BY DoesFields DEF Executes, MayRefuse, Refuses
  <1>d. LET d == [dev EXCEPT !.parts = {}, !.running = FALSE]
        IN  /\ d.v2 = dev.v2 /\ d.files = dev.files /\ d.session = dev.session
            /\ d.written = dev.written /\ d.parts = {} /\ d.running = FALSE
    BY <1>1 DEF Devices
  <1>4. /\ e.dev.v2 = dev.v2 /\ e.dev.files = dev.files /\ e.dev.session = dev.session /\ e.dev.written = dev.written
        /\ "Success" \in e.words /\ e \in Executes("uninstall", arg) => e.dev.parts = {} /\ ~e.dev.running
    BY <1>1, <1>2, <1>3, <1>d
  <1>5. Kept(h) /\ (r.err => h.lost)
    BY <1>2 DEF Heard, Reports
  <1>6. /\ dev' \in Devices /\ dev'.v2 = e.dev.v2 /\ dev'.files = e.dev.files /\ dev'.session = e.dev.session
        /\ dev'.written = e.dev.written /\ dev'.parts = e.dev.parts /\ dev'.running = e.dev.running
    BY <1>2 DEF Like
  <1>7. ~r.err => /\ e \in Executes("uninstall", arg) /\ r.words \subseteq e.words /\ r.code \in {0, e.code}
                  /\ (r.success <=> r.code = 0) /\ (dev.v2 /\ ~h.cut => r.words = e.words /\ r.code = e.code)
    BY <1>2 DEF Reports
  <1> QED BY <1>4, <1>5, <1>6, <1>7 DEF SameDevice, SameFiles, SameSession, SameApp, package_result

\* pm install-create: of a whole answer, success means an empty session and both
\* words; a refusal means that there is none (install_app).
LEMMA HeardCreate ==
  ASSUME AppTypeOK, NEW arg, NEW r, NEW h, Heard("create", arg, r, h)
  PROVE  /\ Kept(h) /\ (r.err => h.lost) /\ SameDevice /\ SameFiles /\ SameApp
         /\ ~r.err /\ r.success /\ dev.v2 /\ ~h.cut =>
              dev'.session = "open" /\ dev'.written = {} /\ "Success" \in r.words /\ "[" \in r.words
         /\ ~r.err /\ ~r.success => dev'.session = dev.session
  <1>1. dev \in Devices
    BY DEF AppTypeOK
  <1>2. PICK e \in Effects :
          /\ Like(e.dev)
          /\ \/ e \in Executes("create", arg) /\ Reports(e, r, h)
             \/ (e \in Executes("create", arg) \/ e.dev = dev) /\ r.err /\ h.lost
    BY DEF Heard
  <1>3. \A x \in Executes("create", arg) :
          \/ (x.dev = dev /\ x.words = {"Failure", "["} /\ x.code = 1)
          \/ (x.dev = [dev EXCEPT !.session = "open", !.written = {}] /\ x.words = {"Success", "["} /\ x.code = 0)
    BY DoesFields DEF Executes, MayRefuse, Refuses
  <1>d. LET d == [dev EXCEPT !.session = "open", !.written = {}]
        IN  /\ d.v2 = dev.v2 /\ d.files = dev.files /\ d.session = "open"
            /\ d.written = {} /\ d.parts = dev.parts /\ d.running = dev.running
    BY <1>1 DEF Devices
  <1>4. /\ e.dev.v2 = dev.v2 /\ e.dev.files = dev.files /\ e.dev.parts = dev.parts /\ e.dev.running = dev.running
        /\ e \in Executes("create", arg) =>
             \/ e.dev.session = dev.session /\ e.code = 1
             \/ /\ e.dev.session = "open" /\ e.dev.written = {} /\ e.code = 0
                /\ "Success" \in e.words /\ "[" \in e.words
    BY <1>1, <1>2, <1>3, <1>d
  <1>5. Kept(h) /\ (r.err => h.lost)
    BY <1>2 DEF Heard, Reports
  <1>6. /\ dev' \in Devices /\ dev'.v2 = e.dev.v2 /\ dev'.files = e.dev.files /\ dev'.session = e.dev.session
        /\ dev'.written = e.dev.written /\ dev'.parts = e.dev.parts /\ dev'.running = e.dev.running
    BY <1>2 DEF Like
  <1>7. ~r.err => /\ e \in Executes("create", arg) /\ r.words \subseteq e.words /\ r.code \in {0, e.code}
                  /\ (r.success <=> r.code = 0) /\ (dev.v2 /\ ~h.cut => r.words = e.words /\ r.code = e.code)
    BY <1>2 DEF Reports
  <1> QED BY <1>4, <1>5, <1>6, <1>7 DEF SameDevice, SameFiles, SameSession, SameApp

\* pm install-write: of a whole answer, success means that the part is in the
\* session (install_app).
LEMMA HeardWrite ==
  ASSUME AppTypeOK, NEW arg \in Parts, NEW r, NEW h, Heard("write", arg, r, h)
  PROVE  /\ Kept(h) /\ (r.err => h.lost) /\ SameDevice /\ SameFiles /\ SameApp
         /\ dev'.session = dev.session
         /\ ~r.err /\ r.success /\ dev.v2 /\ ~h.cut => dev'.written = dev.written \cup {arg}
  <1>1. dev \in Devices
    BY DEF AppTypeOK
  <1>2. PICK e \in Effects :
          /\ Like(e.dev)
          /\ \/ e \in Executes("write", arg) /\ Reports(e, r, h)
             \/ (e \in Executes("write", arg) \/ e.dev = dev) /\ r.err /\ h.lost
    BY DEF Heard
  <1>3. \A x \in Executes("write", arg) :
          \/ (x.dev = dev /\ x.words = {"Failure"} /\ x.code = 1)
          \/ (x.dev = [dev EXCEPT !.written = @ \cup {arg}] /\ x.words = {"Success"} /\ x.code = 0)
    BY DoesFields DEF Executes, MayRefuse, Refuses
  <1>d. LET d == [dev EXCEPT !.written = @ \cup {arg}]
        IN  /\ d.v2 = dev.v2 /\ d.files = dev.files /\ d.session = dev.session
            /\ d.written = dev.written \cup {arg} /\ d.parts = dev.parts /\ d.running = dev.running
    BY <1>1 DEF Devices
  <1>4. /\ e.dev.v2 = dev.v2 /\ e.dev.files = dev.files /\ e.dev.parts = dev.parts /\ e.dev.running = dev.running
        /\ e.dev.session = dev.session
        /\ e \in Executes("write", arg) => e.code = 1 \/ e.dev.written = dev.written \cup {arg}
    BY <1>1, <1>2, <1>3, <1>d
  <1>5. Kept(h) /\ (r.err => h.lost)
    BY <1>2 DEF Heard, Reports
  <1>6. /\ dev' \in Devices /\ dev'.v2 = e.dev.v2 /\ dev'.files = e.dev.files /\ dev'.session = e.dev.session
        /\ dev'.written = e.dev.written /\ dev'.parts = e.dev.parts /\ dev'.running = e.dev.running
    BY <1>2 DEF Like
  <1>7. ~r.err => /\ e \in Executes("write", arg) /\ r.words \subseteq e.words /\ r.code \in {0, e.code}
                  /\ (r.success <=> r.code = 0) /\ (dev.v2 /\ ~h.cut => r.words = e.words /\ r.code = e.code)
    BY <1>2 DEF Reports
  <1> QED BY <1>4, <1>5, <1>6, <1>7 DEF SameDevice, SameFiles, SameSession, SameApp

\* pm install-abandon: the session is gone, or the stream failed (install_app).
LEMMA HeardAbandon ==
  ASSUME AppTypeOK, NEW arg, NEW r, NEW h, Heard("abandon", arg, r, h)
  PROVE  /\ Kept(h) /\ (r.err => h.lost) /\ SameDevice /\ SameFiles /\ SameApp
         /\ ~r.err => dev'.session = "none"
  <1>1. dev \in Devices
    BY DEF AppTypeOK
  <1>2. PICK e \in Effects :
          /\ Like(e.dev)
          /\ \/ e \in Executes("abandon", arg) /\ Reports(e, r, h)
             \/ (e \in Executes("abandon", arg) \/ e.dev = dev) /\ r.err /\ h.lost
    BY DEF Heard
  <1>3. \A x \in Executes("abandon", arg) : (x.dev = [dev EXCEPT !.session = "none", !.written = {}] /\ x.words = {"Success"} /\ x.code = 0)
    BY DoesFields DEF Executes
  <1>d. LET d == [dev EXCEPT !.session = "none", !.written = {}]
        IN  /\ d.v2 = dev.v2 /\ d.files = dev.files /\ d.session = "none"
            /\ d.written = {} /\ d.parts = dev.parts /\ d.running = dev.running
    BY <1>1 DEF Devices
  <1>4. /\ e.dev.v2 = dev.v2 /\ e.dev.files = dev.files /\ e.dev.parts = dev.parts /\ e.dev.running = dev.running
        /\ e \in Executes("abandon", arg) => e.dev.session = "none"
    BY <1>1, <1>2, <1>3, <1>d
  <1>5. Kept(h) /\ (r.err => h.lost)
    BY <1>2 DEF Heard, Reports
  <1>6. /\ dev' \in Devices /\ dev'.v2 = e.dev.v2 /\ dev'.files = e.dev.files /\ dev'.session = e.dev.session
        /\ dev'.written = e.dev.written /\ dev'.parts = e.dev.parts /\ dev'.running = e.dev.running
    BY <1>2 DEF Like
  <1>7. ~r.err => /\ e \in Executes("abandon", arg) /\ r.words \subseteq e.words /\ r.code \in {0, e.code}
                  /\ (r.success <=> r.code = 0) /\ (dev.v2 /\ ~h.cut => r.words = e.words /\ r.code = e.code)
    BY <1>2 DEF Reports
  <1> QED BY <1>4, <1>5, <1>6, <1>7 DEF SameDevice, SameFiles, SameSession, SameApp

\* pm install-commit: a real session is gone either way, and of a whole answer
\* success means that the package is what was written (install_app).
LEMMA HeardCommit ==
  ASSUME AppTypeOK, NEW arg, NEW r, NEW h, Heard("commit", arg, r, h)
  PROVE  /\ Kept(h) /\ (r.err => h.lost) /\ SameDevice /\ SameFiles /\ dev'.running = dev.running
         /\ ~r.err /\ host.session = "real" => dev'.session = "none"
         /\ ~r.err /\ r.success /\ dev.v2 /\ ~h.cut => dev'.parts = dev.written
  <1>1. dev \in Devices
    BY DEF AppTypeOK
  <1>2. PICK e \in Effects :
          /\ Like(e.dev)
          /\ \/ e \in Executes("commit", arg) /\ Reports(e, r, h)
             \/ (e \in Executes("commit", arg) \/ e.dev = dev) /\ r.err /\ h.lost
    BY DEF Heard
  <1>3. \A x \in Executes("commit", arg) :
          \/ (x.dev = dev /\ x.words = {"Failure"} /\ x.code = 1) /\ (host.session # "real" \/ dev.session = "none")
          \/ (x.dev = [dev EXCEPT !.session = "none", !.written = {}] /\ x.words = {"Failure"} /\ x.code = 1)
          \/ (x.dev = [[dev EXCEPT !.session = "none", !.written = {}] EXCEPT !.parts = dev.written] /\ x.words = {"Success"} /\ x.code = 0)
    <2>1. Executes("commit", arg) = Commits
      BY DEF Executes
    <2> QED BY <2>1, DoesFields DEF Commits, Refuses
  <1>d. /\ LET d == [dev EXCEPT !.session = "none", !.written = {}]
           IN  /\ d.v2 = dev.v2 /\ d.files = dev.files /\ d.session = "none"
               /\ d.written = {} /\ d.parts = dev.parts /\ d.running = dev.running
        /\ LET d == [[dev EXCEPT !.session = "none", !.written = {}] EXCEPT !.parts = dev.written]
           IN  /\ d.v2 = dev.v2 /\ d.files = dev.files /\ d.session = "none"
               /\ d.written = {} /\ d.parts = dev.written /\ d.running = dev.running
    BY <1>1 DEF Devices
  <1>4. /\ e.dev.v2 = dev.v2 /\ e.dev.files = dev.files /\ e.dev.running = dev.running
        /\ e \in Executes("commit", arg) =>
             /\ host.session # "real" \/ e.dev.session = "none"
             /\ e.code = 1 \/ e.dev.parts = dev.written
    BY <1>1, <1>2, <1>3, <1>d
  <1>5. Kept(h) /\ (r.err => h.lost)
    BY <1>2 DEF Heard, Reports
  <1>6. /\ dev' \in Devices /\ dev'.v2 = e.dev.v2 /\ dev'.files = e.dev.files /\ dev'.session = e.dev.session
        /\ dev'.written = e.dev.written /\ dev'.parts = e.dev.parts /\ dev'.running = e.dev.running
    BY <1>2 DEF Like
  <1>7. ~r.err => /\ e \in Executes("commit", arg) /\ r.words \subseteq e.words /\ r.code \in {0, e.code}
                  /\ (r.success <=> r.code = 0) /\ (dev.v2 /\ ~h.cut => r.words = e.words /\ r.code = e.code)
    BY <1>2 DEF Reports
  <1> QED BY <1>4, <1>5, <1>6, <1>7 DEF SameDevice, SameFiles, SameSession, SameApp

\* monkey and am force-stop only change whether the app runs (launch, close).
LEMMA HeardLaunch ==
  ASSUME AppTypeOK, NEW cmd \in {"monkey", "stop"}, NEW arg, NEW r, NEW h, Heard(cmd, arg, r, h)
  PROVE  /\ Kept(h) /\ SameDevice /\ SameFiles /\ SameSession
         /\ dev'.parts = dev.parts
  <1>1. dev \in Devices
    BY DEF AppTypeOK
  <1>2. PICK e \in Effects : Like(e.dev) /\ (e \in Executes(cmd, arg) \/ e.dev = dev)
    BY DEF Heard
  <1>3. \A x \in Executes(cmd, arg) : x.dev = dev \/ \E b \in BOOLEAN : x.dev = [dev EXCEPT !.running = b]
    <2>1. \A x \in Executes("monkey", arg) : (x.dev = dev /\ x.words = {} /\ x.code = 1) \/ (x.dev = [dev EXCEPT !.running = TRUE] /\ x.words = {} /\ x.code = 0)
      BY DoesFields DEF Executes, MayRefuse, Refuses
    <2>2. \A x \in Executes("stop", arg) : x.dev = [dev EXCEPT !.running = FALSE]
      BY DoesFields DEF Executes
    <2> QED BY <2>1, <2>2
  <1>4. /\ e.dev.v2 = dev.v2 /\ e.dev.files = dev.files /\ e.dev.parts = dev.parts
        /\ e.dev.session = dev.session /\ e.dev.written = dev.written
    BY <1>1, <1>2, <1>3, ZenonT(30) DEF Devices
  <1> QED BY <1>2, <1>4 DEF Heard, Like, SameDevice, SameFiles, SameSession

\* pidof: "no" is the device's, and "yes" of a whole answer (is_running).
LEMMA HeardPidof ==
  ASSUME AppTypeOK, NEW arg, NEW r, NEW h, Heard("pidof", arg, r, h)
  PROVE  /\ Kept(h) /\ (r.err => h.lost) /\ SameDevice /\ SameFiles /\ SameSession
         /\ dev'.parts = dev.parts
         /\ ~r.err /\ ~r.success => ~dev'.running
         /\ ~r.err /\ r.success /\ dev.v2 /\ ~h.cut => dev'.running
  <1>1. dev \in Devices
    BY DEF AppTypeOK
  <1>2. PICK e \in Effects :
          /\ Like(e.dev)
          /\ \/ e \in Executes("pidof", arg) /\ Reports(e, r, h)
             \/ (e \in Executes("pidof", arg) \/ e.dev = dev) /\ r.err /\ h.lost
    BY DEF Heard
  <1>3. \A x \in Executes("pidof", arg) :
          \E b \in BOOLEAN : (x.dev = [dev EXCEPT !.running = b] /\ x.words = {} /\ x.code = (IF b THEN 0 ELSE 1))
    <2>1. ASSUME NEW x \in Executes("pidof", arg)
          PROVE  \E b \in BOOLEAN : x = Does([dev EXCEPT !.running = b], {}, IF b THEN 0 ELSE 1)
      BY DEF Executes
    <2>2. ASSUME NEW b, NEW x, x = Does([dev EXCEPT !.running = b], {}, IF b THEN 0 ELSE 1)
          PROVE  x.dev = [dev EXCEPT !.running = b] /\ x.words = {} /\ x.code = (IF b THEN 0 ELSE 1)
      <3> DEFINE d == [dev EXCEPT !.running = b]
                 c == IF b THEN 0 ELSE 1
      <3>1. x = Does(d, {}, c)
        BY <2>2
      <3> HIDE DEF d, c
      <3>2. x.dev = d /\ x.words = {} /\ x.code = c
        BY <3>1, DoesFields
      <3> QED BY <3>2 DEF d, c
    <2> QED BY Zenon, <2>1, <2>2
  <1>d. \A b \in BOOLEAN :
        LET d == [dev EXCEPT !.running = b]
        IN  /\ d.v2 = dev.v2 /\ d.files = dev.files /\ d.session = dev.session
            /\ d.written = dev.written /\ d.parts = dev.parts /\ d.running = b
    BY <1>1 DEF Devices
  <1>4. /\ e.dev.v2 = dev.v2 /\ e.dev.files = dev.files /\ e.dev.parts = dev.parts
        /\ e.dev.session = dev.session /\ e.dev.written = dev.written
        /\ e \in Executes("pidof", arg) => (e.dev.running /\ e.code = 0) \/ (~e.dev.running /\ e.code = 1)
    BY <1>1, <1>2, <1>3, <1>d
  <1>5. Kept(h) /\ (r.err => h.lost)
    BY <1>2 DEF Heard, Reports
  <1>6. /\ dev' \in Devices /\ dev'.v2 = e.dev.v2 /\ dev'.files = e.dev.files /\ dev'.session = e.dev.session
        /\ dev'.written = e.dev.written /\ dev'.parts = e.dev.parts /\ dev'.running = e.dev.running
    BY <1>2 DEF Like
  <1>7. ~r.err => /\ e \in Executes("pidof", arg) /\ r.words \subseteq e.words /\ r.code \in {0, e.code}
                  /\ (r.success <=> r.code = 0) /\ (dev.v2 /\ ~h.cut => r.words = e.words /\ r.code = e.code)
    BY <1>2 DEF Reports
  <1> QED BY <1>4, <1>5, <1>6, <1>7 DEF SameDevice, SameFiles, SameSession, SameApp

-----------------------------------------------------------------------------
(* The invariant is kept, action by action.                                 *)

\* The host's state after a step, but for what it counts.
Carried ==
  /\ host' \in Hosts /\ host'.apks = host.apks /\ host'.todo = host.todo /\ host'.session = host.session
  /\ host'.tried = host.tried /\ host'.worked = host.worked /\ host'.rmFailed = host.rmFailed
  /\ host'.claim = host.claim /\ (host.cut => host'.cut) /\ (host.lost => host'.lost)

\* Taking over what was heard carries the state on (Go).
LEMMA KeptIsCarried == ASSUME NEW h, Kept(h), host' = h PROVE Carried
  BY DEF Kept, Carried

\* A step of the tour before the install, or after it and with the package left
\* as it is, that leaves the session and the APK alone (run_tour).
LEMMA PlainStep ==
  ASSUME AppInv, Carried, SameDevice, SameSession,
         "base" \in dev'.files => "base" \in dev.files,
         \/ at \in Before /\ at' \in Before \cup {"failed"}
         \/ at \in Ready /\ at' \in Ready \cup {"poll", "failed"} /\ dev'.parts = dev.parts
  PROVE  AppInv'
  <1>1. AppTypeOK /\ AppTypeOK'
    BY DEF AppInv, AppTypeOK, SameDevice, Carried, Before, Ready, After
  <1>2. Answered' => Answered
    BY DEF Answered, SameDevice, Carried
  <1>3. Ways'
    BY DEF AppInv, Ways, Before, Ready, After, Single, Several, Carried
  <1>4. WorkedTruthful' /\ Remaining' /\ SessionKnown' /\ Claims'
    BY <1>2 DEF AppInv, WorkedTruthful, Remaining, SessionKnown, Claims, Before, Ready, SameSession, Carried
  <1>5. InstalledAsSaid'
    BY <1>2 DEF AppInv, CommandsTruthful, InstalledAsSaid, Names, Before, Ready, Carried
  <1>6. host'.claim = "none"
    BY DEF AppInv, Claims, Before, Ready, Carried
  <1>7. TourTruthful' /\ RunningTruthful'
    BY <1>6 DEF TourTruthful, RunningTruthful, Before, Ready
  <1>8. ApkRemoved'
    BY DEF AppInv, Ways, ApkRemoved, Before, Ready, After, Carried
  <1> QED BY <1>1, <1>3, <1>4, <1>5, <1>7, <1>8 DEF AppInv, CommandsTruthful

\* Connecting, and what the connection is used for before anything is installed
\* (run_tour).
LEMMA ConnectInv == AppInv /\ Connect => AppInv'
  <1> SUFFICES ASSUME AppInv, Connect PROVE AppInv'
    OBVIOUS
  <1>1. dev \in Devices /\ host \in Hosts
    BY DEF AppInv, AppTypeOK
  <1>2. at = "connect" /\ at' \in {"hello", "failed"} /\ host' = host
    BY DEF Connect, Go, Throw
  <1>3. dev' = dev \/ dev' = [dev EXCEPT !.up = TRUE]
    BY DEF Connect
  <1>4. Carried /\ SameDevice /\ SameSession /\ dev'.files = dev.files
    BY <1>1, <1>2, <1>3 DEF Carried, SameDevice, SameSession, Devices
  <1> QED BY <1>2, <1>4, PlainStep DEF Before

\* A plain command (run_tour, set_power).
LEMMA PlainCommandInv ==
  ASSUME AppInv, NEW here, NEW next, PlainCommand(here, next) \/ PowerState(here, next),
         (here \in Before /\ next \in Before) \/ (here \in Ready /\ next \in Ready)
  PROVE  AppInv'
  <1>1. AppTypeOK
    BY DEF AppInv
  <1>2. Hears("plain", "")
    BY <1>1, RunHeard, Zenon DEF Commands
  <1>3. PICK arg, r, h : Heard("plain", arg, r, h) /\ at = here /\ at' \in {next, "failed"} /\ host' = h
    <2>1. CASE PlainCommand(here, next)
      BY Zenon, <1>2, <2>1 DEF PlainCommand, Run, Hears, Go, Throw
    <2>2. CASE PowerState(here, next)
      BY Zenon, <1>2, <2>2 DEF PowerState, Run, Hears, Go
    <2> QED BY <2>1, <2>2
  <1>4. Kept(h) /\ SameDevice /\ SameFiles /\ SameSession /\ SameApp
    BY <1>1, <1>3, HeardPlain
  <1>5. Carried
    BY <1>3, <1>4, KeptIsCarried
  <1> QED BY <1>3, <1>4, <1>5, PlainStep DEF SameFiles, SameApp

\* list, stat and pull (run_tour).
LEMMA LooksInv ==
  ASSUME AppInv, NEW here \in Before, NEW next \in Before, Looks(here, next)
  PROVE  AppInv'
  <1>1. dev \in Devices /\ host \in Hosts
    BY DEF AppInv, AppTypeOK
  <1>2. /\ at = here /\ at' \in {next, "failed"} /\ dev' = dev
        /\ host' = host \/ host' = [host EXCEPT !.lost = TRUE]
    BY DEF Looks, Go, Throw
  <1>3. Carried /\ SameDevice /\ SameSession /\ dev'.files = dev.files
    BY <1>1, <1>2 DEF Carried, SameDevice, SameSession, Hosts
  <1> QED BY <1>2, <1>3, PlainStep

\* What a caller of push hears: the file is there, or the transfer failed and it
\* may be.
Pushed(file, ok, h) ==
  /\ Kept(h) /\ SameDevice /\ SameSession /\ SameApp /\ (ok \/ h.lost)
  /\ dev'.files = dev.files \/ dev'.files = dev.files \cup {file}

Pushes(file) ==
  /\ dev' = [dev EXCEPT !.files = @ \cup {file}] => Pushed(file, TRUE, host)
  /\ \A u \in BOOLEAN : \A fs \in {dev.files, dev.files \cup {file}} :
       dev' = [dev EXCEPT !.up = u, !.files = fs] => Pushed(file, FALSE, [host EXCEPT !.lost = TRUE])
  /\ dev' = dev => Pushed(file, FALSE, [host EXCEPT !.lost = TRUE])

\* Whichever way a transfer goes, its caller hears that (push).
LEMMA PushHeard == ASSUME AppTypeOK, NEW file \in {"base", "split", "scratch"} PROVE Pushes(file)
  <1>1. dev \in Devices /\ host \in Hosts
    BY DEF AppTypeOK
  <1>2. Kept(host) /\ Kept([host EXCEPT !.lost = TRUE]) /\ [host EXCEPT !.lost = TRUE].lost
    BY <1>1 DEF Kept, Hosts
  <1>3. ASSUME dev' = [dev EXCEPT !.files = @ \cup {file}]
        PROVE  SameDevice /\ SameSession /\ SameApp /\ dev'.files = dev.files \cup {file}
    BY <1>1, <1>3 DEF SameDevice, SameSession, SameApp, Devices
  <1>4. ASSUME NEW u \in BOOLEAN, NEW fs \in {dev.files, dev.files \cup {file}},
               dev' = [dev EXCEPT !.up = u, !.files = fs]
        PROVE  SameDevice /\ SameSession /\ SameApp /\ dev'.files = fs
    BY <1>1, <1>4 DEF SameDevice, SameSession, SameApp, Devices
  <1>5. ASSUME dev' = dev PROVE SameDevice /\ SameSession /\ SameApp /\ dev'.files = dev.files
    BY <1>1, <1>5 DEF SameDevice, SameSession, SameApp
  <1> QED BY <1>2, <1>3, <1>4, <1>5 DEF Pushes, Pushed

\* The scratch file comes and goes (run_tour).
LEMMA ScratchInv == AppInv /\ (PushFile \/ RemoveScratch) => AppInv'
  <1> SUFFICES ASSUME AppInv, PushFile \/ RemoveScratch PROVE AppInv'
    OBVIOUS
  <1>1. AppTypeOK
    BY DEF AppInv
  <1>2. CASE PushFile
    <2>1. Pushes("scratch")
      BY <1>1, PushHeard
    <2>2. PICK ok, h : Pushed("scratch", ok, h) /\ at = "push" /\ at' \in {"stat", "failed"} /\ host' = h
      BY Zenon, <2>1, <1>2 DEF PushFile, Push, Pushes, Go, Throw
    <2>3. Carried /\ SameDevice /\ SameSession /\ ("base" \in dev'.files => "base" \in dev.files)
      BY <2>2, KeptIsCarried DEF Pushed
    <2> QED BY <2>2, <2>3, PlainStep DEF Before
  <1>3. CASE RemoveScratch
    <2>1. Hears("rm", "scratch")
      BY <1>1, RunHeard DEF Commands
    <2>2. PICK r, h : Heard("rm", "scratch", r, h) /\ at = "tidy" /\ at' = "sleep" /\ host' = h
      BY Zenon, <2>1, <1>3 DEF RemoveScratch, Run, Hears, Go
    <2>3. /\ Kept(h) /\ SameDevice /\ SameSession
          /\ dev'.files = dev.files \ {"scratch"} \/ dev'.files = dev.files
      BY <1>1, <2>2, HeardRemove
    <2>4. Carried
      BY <2>2, <2>3, KeptIsCarried
    <2> QED BY <2>2, <2>3, <2>4, PlainStep DEF Before
  <1> QED BY <1>2, <1>3

\* Whether there is an old copy, and its removal (run_tour).
LEMMA OldCopyInv == AppInv /\ (CheckInstalled \/ UninstallOld) => AppInv'
  <1> SUFFICES ASSUME AppInv, CheckInstalled \/ UninstallOld PROVE AppInv'
    OBVIOUS
  <1>1. AppTypeOK
    BY DEF AppInv
  <1>2. CASE CheckInstalled
    <2>1. Hears("path", "")
      BY <1>1, RunHeard, Zenon DEF Commands
    <2>2. PICK arg, r, h : Heard("path", arg, r, h) /\ at = "path" /\ at' \in {"old", "install", "failed"} /\ host' = h
      BY ZenonT(30), <2>1, <1>2 DEF CheckInstalled, Run, Hears, Go, Throw
    <2>3. Kept(h) /\ SameDevice /\ SameFiles /\ SameSession
      BY <1>1, <2>2, HeardPlain
    <2>4. Carried
      BY <2>2, <2>3, KeptIsCarried
    <2> QED BY <2>2, <2>3, <2>4, PlainStep DEF Before, SameFiles
  <1>3. CASE UninstallOld
    <2>1. Hears("uninstall", "")
      BY <1>1, RunHeard, Zenon DEF Commands
    <2>2. PICK arg, r, h : Heard("uninstall", arg, r, h) /\ at = "old" /\ at' \in {"install", "failed"} /\ host' = h
      BY ZenonT(30), <2>1, <1>3 DEF UninstallOld, uninstall, Run, Hears, Go, Throw
    <2>3. Kept(h) /\ SameDevice /\ SameFiles /\ SameSession
      BY <1>1, <2>2, HeardUninstall
    <2>4. Carried
      BY <2>2, <2>3, KeptIsCarried
    <2> QED BY <2>2, <2>3, <2>4, PlainStep DEF Before, SameFiles
  <1> QED BY <1>2, <1>3

\* The launches, of which only whether the app runs can change (run_tour, launch).
LEMMA LaunchInv == AppInv /\ Launch => AppInv'
  <1> SUFFICES ASSUME AppInv, Launch PROVE AppInv'
    OBVIOUS
  <1>1. AppTypeOK
    BY DEF AppInv
  <1>2. Hears("monkey", "")
    BY <1>1, RunHeard, Zenon DEF Commands
  <1>3. PICK arg, r, h :
          /\ Heard("monkey", arg, r, h) /\ at = "launch" /\ at' \in {"poll", "launch", "failed"}
          /\ \/ host' = [[h EXCEPT !.count = @ + 1] EXCEPT !.count = 0]
             \/ host' = [h EXCEPT !.count = @ + 1]
    BY ZenonT(30), <1>2 DEF Launch, Run, Hears, Go, Throw
  <1>4. Kept(h) /\ SameDevice /\ SameFiles /\ SameSession /\ dev'.parts = dev.parts
    BY <1>1, <1>3, HeardLaunch
  <1>5. Carried
    <2> DEFINE Alike(f, g) ==
                 /\ f.apks = g.apks /\ f.todo = g.todo /\ f.session = g.session /\ f.tried = g.tried
                 /\ f.worked = g.worked /\ f.rmFailed = g.rmFailed /\ f.claim = g.claim
                 /\ f.cut = g.cut /\ f.lost = g.lost
               k == [h EXCEPT !.count = h.count + 1]
    <2>1. h \in Hosts
      BY <1>4 DEF Kept
    <2>2. \A g \in Hosts : \A n \in Nat : [g EXCEPT !.count = n] \in Hosts /\ Alike([g EXCEPT !.count = n], g)
      BY DEF Hosts
    <2>3. h.count + 1 \in Nat
      BY <2>1 DEF Hosts
    <2>4. host' = k \/ host' = [k EXCEPT !.count = 0]
      BY <1>3
    <2>5. k \in Hosts /\ Alike(k, h)
      BY <2>1, <2>2, <2>3
    <2> HIDE DEF k
    <2>6. [k EXCEPT !.count = 0] \in Hosts /\ Alike([k EXCEPT !.count = 0], k)
      BY <2>2, <2>5
    <2>7. host' \in Hosts /\ Alike(host', h)
      BY <2>4, <2>5, <2>6
    <2> QED BY <2>7, <1>4 DEF Kept, Carried
  <1> QED BY <1>3, <1>4, <1>5, PlainStep DEF Ready, SameFiles

\* A tour that fails says nothing of the app; its session and its APK are what
\* matters (Throw).
LEMMA FailedStep ==
  ASSUME AppTypeOK', at' = "failed", host'.claim = "none",
         ~host'.lost /\ Answered' => dev'.session = "none",
         host'.tried => "base" \notin dev'.files \/ host'.rmFailed
  PROVE  AppInv'
  <1>1. Ways' /\ WorkedTruthful' /\ Remaining' /\ SessionKnown' /\ Claims'
    BY DEF Ways, WorkedTruthful, Remaining, SessionKnown, Claims, Single, Several, After
  <1>2. CommandsTruthful' /\ ApkRemoved'
    BY DEF CommandsTruthful, InstalledAsSaid, TourTruthful, RunningTruthful, ApkRemoved
  <1> QED BY <1>1, <1>2 DEF AppInv

\* The way the app is installed is chosen by the number of its APKs (install_app).
LEMMA BeginInstallInv == AppInv /\ BeginInstall => AppInv'
  <1> SUFFICES ASSUME AppInv, BeginInstall PROVE AppInv'
    OBVIOUS
  <1>1. dev \in Devices /\ host \in Hosts /\ dev' = dev /\ at = "install"
    BY DEF AppInv, AppTypeOK, BeginInstall
  <1>2. host.apks \in {<<"base">>, <<"base", "split">>} /\ Len(<<"base">>) = 1 /\ Len(<<"base", "split">>) = 2
    BY <1>1 DEF Hosts, Splits
  <1>3. CASE at' = "failed" /\ host' = host
    <2>1. Carried /\ SameDevice /\ SameSession
      BY <1>1, <1>3 DEF Carried, SameDevice, SameSession
    <2> QED BY <1>1, <1>3, <2>1, PlainStep DEF Before
  <1>4. CASE Go(IF Len(host.apks) = 1 THEN "apkpush" ELSE "create", [host EXCEPT !.todo = host.apks])
    <2>1. host.apks \in Seq(Parts)
      <3>1. "base" \in Parts /\ "split" \in Parts
        BY DEF Parts
      <3>2. <<"base">> \in Seq(Parts) /\ <<"base", "split">> \in Seq(Parts)
        BY <3>1
      <3> QED BY <1>2, <3>2
    <2>2. /\ host' \in Hosts /\ host'.apks = host.apks /\ host'.tried = host.tried /\ host'.worked = host.worked
          /\ host'.claim = host.claim /\ host'.cut = host.cut /\ host'.lost = host.lost
          /\ host'.todo = host.apks
      <3>1. \A t \in Seq(Parts) :
              LET g == [host EXCEPT !.todo = t]
              IN  /\ g \in Hosts /\ g.apks = host.apks /\ g.tried = host.tried /\ g.worked = host.worked
                  /\ g.claim = host.claim /\ g.cut = host.cut /\ g.lost = host.lost /\ g.todo = t
        BY <1>1 DEF Hosts
      <3>2. host' = [host EXCEPT !.todo = host.apks]
        BY <1>4 DEF Go
      <3> QED BY <3>1, <3>2, <2>1
    <2>3. (at' = "apkpush" /\ host.apks = <<"base">>) \/ (at' = "create" /\ host.apks = <<"base", "split">>)
      BY <1>2, <1>4 DEF Go
    <2>4. ~host.tried /\ ~host.worked /\ host.claim = "none"
      BY <1>1 DEF AppInv, Ways, Claims, After, Ready
    <2>5. AppTypeOK' /\ Ways'
      BY <1>1, <2>2, <2>3, <2>4 DEF AppTypeOK, Ways, Single, Several
    <2>6. WorkedTruthful' /\ Remaining' /\ SessionKnown' /\ Claims' /\ ApkRemoved'
      BY <1>1, <2>2, <2>3, <2>4 DEF AppInv, WorkedTruthful, Remaining, SessionKnown, Claims, ApkRemoved, Answered
    <2>7. CommandsTruthful'
      BY <2>2, <2>3, <2>4 DEF CommandsTruthful, InstalledAsSaid, TourTruthful, RunningTruthful
    <2> QED BY <2>5, <2>6, <2>7 DEF AppInv
  <1> QED BY <1>3, <1>4 DEF BeginInstall, Go, Throw

\* The APK is pushed; however that went, it is removed in the end (install).
LEMMA PushApkInv == AppInv /\ PushApk => AppInv'
  <1> SUFFICES ASSUME AppInv, PushApk PROVE AppInv'
    OBVIOUS
  <1>1. AppTypeOK /\ Pushes("base")
    BY PushHeard DEF AppInv
  <1>2. PICK ok, h : /\ Pushed("base", ok, h) /\ at = "apkpush" /\ at' \in {"pm", "rmapk"}
                     /\ host' = [h EXCEPT !.tried = TRUE]
    BY Zenon, <1>1 DEF PushApk, Push, Pushes, Go
  <1>3. Kept(h) /\ SameDevice /\ SameSession /\ SameApp
    BY <1>2 DEF Pushed
  <1>4. /\ host' \in Hosts /\ host'.apks = host.apks /\ host'.worked = host.worked
        /\ host'.claim = host.claim /\ (host.cut => host'.cut) /\ (host.lost => host'.lost)
    BY <1>2, <1>3 DEF Kept, Hosts
  <1>5. ~host.worked /\ host.claim = "none" /\ host.apks = <<"base">>
    BY <1>2 DEF AppInv, Ways, Claims, After, Ready, Single
  <1>6. AppTypeOK' /\ Ways'
    BY <1>2, <1>3, <1>4, <1>5 DEF AppTypeOK, Ways, SameDevice, Single, Several
  <1>7. WorkedTruthful' /\ Remaining' /\ Claims' /\ ApkRemoved'
    BY <1>2, <1>4, <1>5 DEF WorkedTruthful, Remaining, Claims, ApkRemoved
  <1>8. SessionKnown'
    BY <1>2, <1>3, <1>4 DEF AppInv, SessionKnown, SameDevice, SameSession, Answered
  <1>9. CommandsTruthful'
    BY <1>2, <1>4, <1>5 DEF CommandsTruthful, InstalledAsSaid, TourTruthful, RunningTruthful
  <1> QED BY <1>6, <1>7, <1>8, <1>9 DEF AppInv

\* What pm said of the APK is remembered, and is true (install, package_result).
LEMMA PmInstallInv == AppInv /\ PmInstall => AppInv'
  <1> SUFFICES ASSUME AppInv, PmInstall PROVE AppInv'
    OBVIOUS
  <1>1. AppTypeOK /\ Hears("install", "base")
    BY RunHeard DEF AppInv, Commands, Parts
  <1>2. PICK r, h : /\ Heard("install", "base", r, h) /\ at = "pm" /\ at' = "rmapk"
                    /\ host' = [h EXCEPT !.worked = ~r.err /\ package_result(r)]
    BY Zenon, <1>1 DEF PmInstall, Run, Hears, Go
  <1>3. /\ Kept(h) /\ SameDevice /\ SameFiles /\ SameSession
        /\ ~r.err /\ package_result(r) => dev'.parts = {"base"}
    BY <1>1, <1>2, HeardInstall
  <1>4. (~r.err /\ package_result(r)) \in BOOLEAN
    OBVIOUS
  <1>5. /\ host' \in Hosts /\ host'.apks = host.apks /\ (host'.worked => ~r.err /\ package_result(r))
        /\ host'.claim = host.claim /\ (host.cut => host'.cut) /\ (host.lost => host'.lost)
    BY <1>2, <1>3, <1>4 DEF Kept, Hosts
  <1>6. host.claim = "none" /\ host.apks = <<"base">>
    BY <1>2 DEF AppInv, Ways, Claims, Single
  <1>7. AppTypeOK' /\ Ways'
    BY <1>2, <1>3, <1>5, <1>6 DEF AppTypeOK, Ways, SameDevice, Single, Several
  <1>8. WorkedTruthful' /\ Remaining' /\ Claims' /\ ApkRemoved'
    BY <1>2, <1>3, <1>5, <1>6 DEF WorkedTruthful, Remaining, Claims, ApkRemoved
  <1>9. SessionKnown'
    BY <1>2, <1>3, <1>5 DEF AppInv, SessionKnown, SameDevice, SameSession, Answered
  <1>10. CommandsTruthful'
    BY <1>2, <1>5, <1>6 DEF CommandsTruthful, InstalledAsSaid, TourTruthful, RunningTruthful
  <1> QED BY <1>7, <1>8, <1>9, <1>10 DEF AppInv

\* The APK is gone from the device, or its removal failed and that is noted
\* (install, remove_quietly).
LEMMA RemoveInv == AppInv /\ remove_quietly => AppInv'
  <1> SUFFICES ASSUME AppInv, remove_quietly PROVE AppInv'
    OBVIOUS
  <1>1. AppTypeOK /\ Hears("rm", "base")
    BY RunHeard DEF AppInv, Commands
  <1>2. PICK r, h : /\ Heard("rm", "base", r, h) /\ at = "rmapk" /\ at' = (IF host.worked THEN "wake" ELSE "failed")
                    /\ host' = [h EXCEPT !.rmFailed = r.err]
    BY Zenon, <1>1 DEF remove_quietly, Run, Hears, Go, Throw
  <1>3. /\ Kept(h) /\ SameDevice /\ SameSession /\ SameApp
        /\ dev'.files = dev.files \ {"base"} \/ r.err
    BY <1>1, <1>2, HeardRemove
  <1>4. r.err \in BOOLEAN
    BY <1>2 DEF Heard
  <1>5. /\ host' \in Hosts /\ host'.apks = host.apks /\ host'.rmFailed = r.err
        /\ host'.claim = host.claim /\ (host.cut => host'.cut) /\ (host.lost => host'.lost)
    BY <1>2, <1>3, <1>4 DEF Kept, Hosts
  <1>6. host.claim = "none" /\ host.apks = <<"base">>
    BY <1>2 DEF AppInv, Ways, Claims, Single
  <1>7. AppTypeOK' /\ ("base" \notin dev'.files \/ host'.rmFailed)
    BY <1>2, <1>3, <1>5 DEF AppTypeOK, SameDevice, After, Ready
  <1>8. SessionKnown' /\ (~host'.lost /\ Answered' => dev'.session = "none")
    BY <1>2, <1>3, <1>5 DEF AppInv, SessionKnown, SameDevice, SameSession, Answered
  <1>9. CASE ~host.worked
    BY <1>2, <1>5, <1>6, <1>7, <1>8, <1>9, FailedStep
  <1>10. CASE host.worked
    <2>1. at' = "wake" /\ dev'.parts = {"base"}
      BY <1>2, <1>3, <1>10 DEF AppInv, WorkedTruthful, SameApp
    <2>2. Names(<<"base">>) = {"base"}
      BY DEF Names
    <2>3. Ways' /\ WorkedTruthful' /\ Remaining' /\ Claims' /\ ApkRemoved'
      BY <1>5, <1>6, <1>7, <2>1
         DEF Ways, WorkedTruthful, Remaining, Claims, ApkRemoved, Single, Several, After, Ready
    <2>4. CommandsTruthful'
      BY <1>5, <1>6, <2>1, <2>2 DEF CommandsTruthful, InstalledAsSaid, TourTruthful, RunningTruthful
    <2> QED BY <1>7, <1>8, <2>3, <2>4 DEF AppInv
  <1> QED BY <1>9, <1>10

\* A session is created: of a whole answer its id is real, and it is empty
\* (install_app).
LEMMA InstallCreateInv == AppInv /\ InstallCreate => AppInv'
  <1> SUFFICES ASSUME AppInv, InstallCreate PROVE AppInv'
    OBVIOUS
  <1>1. AppTypeOK /\ Hears("create", "")
    BY RunHeard, Zenon DEF AppInv, Commands
  <1>2. PICK arg, r, h :
          /\ Heard("create", arg, r, h) /\ at = "create"
          /\ \/ (r.err \/ ~r.success \/ "[" \notin r.words) /\ at' = "failed" /\ host' = h
             \/ /\ ~r.err /\ r.success /\ at' = "split"
                /\ host' = [h EXCEPT !.session = IF "Success" \in r.words THEN "real" ELSE "bogus"]
    BY Zenon, <1>1 DEF InstallCreate, Run, Hears, Go, Throw
  <1>3. /\ Kept(h) /\ (r.err => h.lost) /\ SameDevice /\ SameFiles /\ SameApp
        /\ ~r.err /\ r.success /\ dev.v2 /\ ~h.cut =>
             dev'.session = "open" /\ dev'.written = {} /\ "Success" \in r.words /\ "[" \in r.words
        /\ ~r.err /\ ~r.success => dev'.session = dev.session
    BY <1>1, <1>2, HeardCreate
  <1>4. /\ host.claim = "none" /\ host.apks = <<"base", "split">> /\ ~host.tried /\ ~host.worked
        /\ ~host.lost /\ Answered => dev.session = "none"
    BY <1>2 DEF AppInv, Ways, Claims, SessionKnown, Several, After, Ready
  <1>5. CASE at' = "failed" /\ host' = h /\ (r.err \/ ~r.success \/ "[" \notin r.words)
    <2>1. AppTypeOK'
      BY <1>3, <1>5 DEF AppTypeOK, SameDevice, Kept, After
    <2>2. ~host'.lost /\ Answered' => dev'.session = "none"
      BY <1>3, <1>4, <1>5 DEF Kept, Answered, SameDevice
    <2>3. host'.claim = "none" /\ ~host'.tried
      BY <1>3, <1>4, <1>5 DEF Kept
    <2> QED BY <1>5, <2>1, <2>2, <2>3, FailedStep
  <1>6. CASE /\ ~r.err /\ r.success /\ at' = "split"
             /\ host' = [h EXCEPT !.session = IF "Success" \in r.words THEN "real" ELSE "bogus"]
    <2>1. /\ host' \in Hosts /\ host'.apks = host.apks /\ host'.todo = host.todo /\ host'.tried = host.tried
          /\ host'.worked = host.worked /\ host'.claim = host.claim /\ host'.cut = h.cut
          /\ host'.session = (IF "Success" \in r.words THEN "real" ELSE "bogus")
      BY <1>3, <1>6 DEF Kept, Hosts
    <2>2. AppTypeOK' /\ Ways' /\ Claims' /\ WorkedTruthful' /\ ApkRemoved'
      BY <1>3, <1>4, <1>6, <2>1
         DEF AppTypeOK, Ways, Claims, WorkedTruthful, ApkRemoved, SameDevice, Single, Several
    <2>3. host.todo = <<"base", "split">> /\ Names(<<"base", "split">>) = Parts
      <3>1. DOMAIN <<"base", "split">> = 1 .. 2 /\ <<"base", "split">>[1] = "base" /\ <<"base", "split">>[2] = "split"
        OBVIOUS
      <3> QED BY <1>2, <3>1 DEF AppInv, Remaining, Names, Parts
    <2>4. Remaining'
      BY <1>3, <1>6, <2>1, <2>3 DEF Remaining, Answered, SameDevice
    <2>5. SessionKnown'
      BY <1>3, <1>6, <2>1 DEF SessionKnown, Answered, SameDevice
    <2>6. CommandsTruthful'
      BY <1>4, <1>6, <2>1 DEF CommandsTruthful, InstalledAsSaid, TourTruthful, RunningTruthful
    <2> QED BY <2>2, <2>4, <2>5, <2>6 DEF AppInv
  <1> QED BY <1>2, <1>5, <1>6

\* What is left to write, one part at a time (install_app's loop).
LEMMA TodoParts ==
  ASSUME NEW todo \in {<<"base", "split">>, <<"split">>}
  PROVE  /\ Head(todo) \in Parts /\ Tail(todo) \in Seq(Parts)
         /\ Names(todo) \subseteq {Head(todo)} \cup Names(Tail(todo))
         /\ Len(todo) = 1 => Names(Tail(todo)) = {}
         /\ Len(todo) # 1 => Tail(todo) = <<"split">>
         /\ Names(todo) \subseteq Parts
  <1>0. "base" \in Parts /\ "split" \in Parts
    BY DEF Parts
  <1>1. CASE todo = <<"base", "split">>
    <2>1. /\ Head(todo) = "base" /\ Tail(todo) = <<"split">> /\ Len(todo) = 2
          /\ DOMAIN todo = 1 .. 2 /\ todo[1] = "base" /\ todo[2] = "split"
      BY <1>1
    <2>2. DOMAIN <<"split">> = 1 .. 1 /\ <<"split">>[1] = "split"
      OBVIOUS
    <2>3. Names(todo) = {"base", "split"} /\ Names(<<"split">>) = {"split"}
      BY <2>1, <2>2 DEF Names
    <2>4. <<"split">> \in Seq(Parts)
      BY <1>0
    <2> QED BY <1>0, <2>1, <2>3, <2>4
  <1>2. CASE todo = <<"split">>
    <2>1. Head(todo) = "split" /\ Tail(todo) = <<>> /\ Len(todo) = 1 /\ DOMAIN todo = 1 .. 1 /\ todo[1] = "split"
      BY <1>2
    <2>2. Names(todo) = {"split"} /\ Names(<<>>) = {}
      BY <2>1 DEF Names
    <2>3. <<>> \in Seq(Parts)
      OBVIOUS
    <2> QED BY <1>0, <2>1, <2>2, <2>3
  <1> QED BY <1>1, <1>2

\* A part is pushed; the session is not touched (install_app).
LEMMA SplitPushInv == AppInv /\ SplitPush => AppInv'
  <1> SUFFICES ASSUME AppInv, SplitPush PROVE AppInv'
    OBVIOUS
  <1>1. at = "split" /\ host.todo \in {<<"base", "split">>, <<"split">>}
    BY DEF AppInv, SplitPush, Remaining
  <1>2. Head(host.todo) \in Parts
    BY <1>1, TodoParts
  <1>3. AppTypeOK /\ Pushes(Head(host.todo))
    BY <1>2, PushHeard DEF AppInv, Parts
  <1>4. PICK ok, h : /\ Pushed(Head(host.todo), ok, h) /\ host' = h
                     /\ (ok /\ at' = "write") \/ (~ok /\ at' = "failed")
    BY Zenon, <1>3 DEF SplitPush, Push, Pushes, Go, Throw
  <1>5. Kept(h) /\ SameDevice /\ SameSession /\ SameApp /\ (ok \/ h.lost)
    BY <1>4 DEF Pushed
  <1>6. host.claim = "none" /\ host.apks = <<"base", "split">> /\ ~host.tried /\ ~host.worked
    BY <1>1 DEF AppInv, Ways, Claims, Several, After, Ready
  <1>7. AppTypeOK'
    BY <1>4, <1>5 DEF AppTypeOK, SameDevice, Kept, After, Several
  <1>8. CASE at' = "failed" /\ host'.lost
    BY <1>4, <1>5, <1>6, <1>7, <1>8, FailedStep DEF Kept
  <1>9. CASE at' = "write"
    <2>1. Answered' => Answered
      BY <1>4, <1>5 DEF Kept, Answered, SameDevice
    <2>2. Ways' /\ Claims' /\ WorkedTruthful' /\ ApkRemoved'
      BY <1>4, <1>5, <1>6, <1>9 DEF Ways, Claims, WorkedTruthful, ApkRemoved, Kept, Single, Several
    <2>3. Remaining' /\ SessionKnown'
      BY <1>1, <1>4, <1>5, <1>9, <2>1 DEF AppInv, Remaining, SessionKnown, Kept, SameSession, Names
    <2>4. CommandsTruthful'
      BY <1>4, <1>5, <1>6, <1>9 DEF CommandsTruthful, InstalledAsSaid, TourTruthful, RunningTruthful, Kept
    <2> QED BY <1>7, <2>2, <2>3, <2>4 DEF AppInv
  <1> QED BY <1>4, <1>5, <1>8, <1>9

\* A part is written into the session: of a whole answer, success means that it is
\* there (install_app).
LEMMA InstallWriteInv == AppInv /\ InstallWrite => AppInv'
  <1> SUFFICES ASSUME AppInv, InstallWrite PROVE AppInv'
    OBVIOUS
  <1>1. at = "write" /\ host.todo \in {<<"base", "split">>, <<"split">>}
    BY DEF AppInv, InstallWrite, Remaining
  <1> DEFINE part == Head(host.todo)
  <1>2. /\ part \in Parts /\ Tail(host.todo) \in Seq(Parts)
        /\ Names(host.todo) \subseteq {part} \cup Names(Tail(host.todo))
        /\ Len(host.todo) = 1 => Names(Tail(host.todo)) = {}
        /\ Len(host.todo) # 1 => Tail(host.todo) = <<"split">>
        /\ Names(Tail(host.todo)) \subseteq Parts
    <2>1. Len(host.todo) # 1 => Names(Tail(host.todo)) \subseteq Parts
      BY <1>1, TodoParts
    <2> QED BY <1>1, <2>1, TodoParts
  <1>3. AppTypeOK /\ Hears("write", part)
    BY <1>2, RunHeard DEF AppInv, Commands
  <1>4. PICK r, h :
          /\ Heard("write", part, r, h)
          /\ \/ r.err /\ at' = "failed" /\ host' = h
             \/ ~r.err /\ ~r.success /\ at' = "abandon" /\ host' = h
             \/ /\ ~r.err /\ r.success /\ at' = (IF Len(host.todo) = 1 THEN "commit" ELSE "split")
                /\ host' = [h EXCEPT !.todo = Tail(@)]
    BY Zenon, <1>3 DEF InstallWrite, Run, Hears, Go, Throw
  <1> HIDE DEF part
  <1>5. /\ Kept(h) /\ (r.err => h.lost) /\ SameDevice /\ SameFiles /\ SameApp /\ dev'.session = dev.session
        /\ ~r.err /\ r.success /\ dev.v2 /\ ~h.cut => dev'.written = dev.written \cup {part}
    BY <1>2, <1>3, <1>4, HeardWrite
  <1>6. host.claim = "none" /\ host.apks = <<"base", "split">> /\ ~host.tried /\ ~host.worked
    BY <1>1 DEF AppInv, Ways, Claims, Several, After, Ready
  <1>7. CASE r.err /\ at' = "failed" /\ host' = h
    <2>1. AppTypeOK' /\ host'.claim = "none" /\ host'.lost /\ ~host'.tried
      BY <1>3, <1>5, <1>6, <1>7 DEF AppTypeOK, SameDevice, Kept, After
    <2> QED BY <1>7, <2>1, FailedStep
  <1>8. CASE ~r.err /\ at' # "failed"
    <2>1. /\ host' \in Hosts /\ host'.apks = host.apks /\ host'.tried = host.tried /\ host'.session = host.session
          /\ host'.worked = host.worked /\ host'.claim = host.claim /\ host'.cut = h.cut
          /\ at' \in {"commit", "split"} => r.success /\ host'.todo = Tail(host.todo)
      <3>1. Tail(h.todo) \in Seq(Parts) /\ h.todo = host.todo /\ h \in Hosts
        BY <1>2, <1>5 DEF Kept
      <3>2. CASE host' = h /\ at' = "abandon"
        BY <3>2, <1>5 DEF Kept
      <3>3. CASE r.success /\ host' = [h EXCEPT !.todo = Tail(@)]
        BY <3>1, <3>3, <1>5 DEF Kept, Hosts
      <3> QED BY <1>4, <1>8, <3>2, <3>3
    <2>2. /\ at' \in {"abandon", "commit", "split"} /\ (at' = "split" => Len(host.todo) # 1)
          /\ at' = "commit" => Len(host.todo) = 1
      BY <1>4, <1>8
    <2>3. Answered' => Answered /\ dev.v2 /\ ~h.cut
      BY <1>5, <2>1 DEF Kept, Answered, SameDevice
    <2>4. AppTypeOK' /\ Ways' /\ Claims' /\ WorkedTruthful' /\ ApkRemoved'
      BY <1>3, <1>5, <1>6, <2>1, <2>2
         DEF AppTypeOK, Ways, Claims, WorkedTruthful, ApkRemoved, SameDevice, Single, Several
    <2>5. Remaining'
      <3>1. Answered => dev.written \cup Names(host.todo) = Parts
        BY <1>1 DEF AppInv, Remaining
      <3>2. at' \in {"commit", "split"} /\ Answered' => dev'.written = dev.written \cup {part}
        BY <1>5, <1>8, <2>1, <2>3
      <3>3. at' \in {"commit", "split"} /\ Answered' => dev'.written \cup Names(Tail(host.todo)) = Parts
        BY <3>1, <3>2, <2>3, <1>2
      <3>4. at' = "split" => host'.todo = <<"split">>
        BY <1>2, <2>1, <2>2
      <3>5. at' = "commit" /\ Answered' => dev'.written = Parts
        BY <3>3, <2>2, <1>2
      <3>6. Names(host.todo)' = Names(host'.todo)
        BY DEF Names
      <3> QED BY <3>3, <3>4, <3>5, <3>6, <2>1, <2>2 DEF Remaining
    <2>6. SessionKnown'
      BY <1>1, <2>1, <2>2, <2>3 DEF AppInv, SessionKnown
    <2>7. CommandsTruthful'
      BY <1>6, <2>1, <2>2 DEF CommandsTruthful, InstalledAsSaid, TourTruthful, RunningTruthful
    <2> QED BY <2>4, <2>5, <2>6, <2>7 DEF AppInv
  <1> QED BY <1>4, <1>7, <1>8

\* The end of a session: abandoned after a write that failed, or committed with
\* all its parts (install_app).
LEMMA EndSessionInv == AppInv /\ (InstallAbandon \/ InstallCommit) => AppInv'
  <1> SUFFICES ASSUME AppInv, InstallAbandon \/ InstallCommit PROVE AppInv'
    OBVIOUS
  <1>1. AppTypeOK /\ at \in {"abandon", "commit"}
    BY DEF AppInv, InstallAbandon, InstallCommit
  <1>2. host.claim = "none" /\ host.apks = <<"base", "split">> /\ ~host.tried /\ ~host.worked
    BY <1>1 DEF AppInv, Ways, Claims, Several, After, Ready
  <1>3. Answered => host.session = "real"
    BY <1>1 DEF AppInv, SessionKnown
  <1>4. CASE InstallAbandon
    <2>1. Hears("abandon", "")
      BY <1>1, RunHeard, Zenon DEF Commands
    <2>2. PICK arg, r, h : Heard("abandon", arg, r, h) /\ at' = "failed" /\ host' = h
      BY Zenon, <2>1, <1>4 DEF InstallAbandon, Run, Hears, Go, Throw
    <2>3. Kept(h) /\ (r.err => h.lost) /\ SameDevice /\ (~r.err => dev'.session = "none")
      BY <1>1, <2>2, HeardAbandon
    <2>4. AppTypeOK' /\ host'.claim = "none" /\ ~host'.tried /\ (~host'.lost => dev'.session = "none")
      BY <1>1, <1>2, <2>2, <2>3 DEF AppTypeOK, SameDevice, Kept, After
    <2> QED BY <2>2, <2>4, FailedStep
  <1>5. CASE InstallCommit
    <2>1. Hears("commit", "")
      BY <1>1, RunHeard, Zenon DEF Commands
    <2>2. PICK arg, r, h :
            /\ Heard("commit", arg, r, h) /\ at = "commit" /\ host' = h
            /\ \/ (r.err \/ ~r.success) /\ at' = "failed"
               \/ ~r.err /\ r.success /\ at' = "wake"
      BY Zenon, <2>1, <1>5 DEF InstallCommit, Run, Hears, Go, Throw
    <2>3. /\ Kept(h) /\ (r.err => h.lost) /\ SameDevice
          /\ ~r.err /\ host.session = "real" => dev'.session = "none"
          /\ ~r.err /\ r.success /\ dev.v2 /\ ~h.cut => dev'.parts = dev.written
      BY <1>1, <2>2, HeardCommit
    <2>4. Answered' => Answered /\ dev.v2 /\ ~h.cut
      BY <2>2, <2>3 DEF Kept, Answered, SameDevice
    <2>5. /\ AppTypeOK' /\ host'.claim = "none" /\ ~host'.tried /\ ~host'.worked /\ host'.apks = host.apks
          /\ ~host'.lost /\ Answered' => dev'.session = "none"
      BY <1>1, <1>2, <1>3, <2>2, <2>3, <2>4 DEF AppTypeOK, SameDevice, Kept, After, Ready
    <2>6. CASE at' = "failed"
      BY <2>5, <2>6, FailedStep
    <2>7. CASE at' = "wake" /\ ~r.err /\ r.success
      <3>1. Answered' => dev'.parts = Parts
        BY <2>2, <2>3, <2>4, <2>7 DEF AppInv, Remaining
      <3>2. Len(<<"base", "split">>) = 2 /\ Names(<<"base", "split">>) = Parts
        <4>1. DOMAIN <<"base", "split">> = 1 .. 2 /\ <<"base", "split">>[1] = "base" /\ <<"base", "split">>[2] = "split"
          OBVIOUS
        <4> QED BY <4>1 DEF Names, Parts
      <3>3. Ways' /\ Claims' /\ WorkedTruthful' /\ ApkRemoved' /\ Remaining' /\ SessionKnown'
        BY <1>2, <2>5, <2>7
           DEF Ways, Claims, WorkedTruthful, ApkRemoved, Remaining, SessionKnown, Single, Several
      <3>4. Names(host.apks)' = Names(host'.apks)
        BY DEF Names
      <3>5. CommandsTruthful'
        BY <1>2, <2>5, <2>7, <3>1, <3>2, <3>4 DEF CommandsTruthful, InstalledAsSaid, TourTruthful, RunningTruthful
      <3> QED BY <2>5, <3>3, <3>5 DEF AppInv
    <2> QED BY <2>2, <2>6, <2>7
  <1> QED BY <1>4, <1>5

\* After the launch neither the APK nor a session is touched (run_tour).
LEMMA LateStep ==
  ASSUME AppInv, at \in {"poll", "stop", "remove"}, at' \in {"poll", "stop", "remove", "done", "failed"},
         SameDevice, SameFiles, SameSession,
         /\ host' \in Hosts /\ host'.apks = host.apks /\ host'.tried = host.tried
         /\ host'.rmFailed = host.rmFailed /\ (host.cut => host'.cut) /\ (host.lost => host'.lost),
         Claims', TourTruthful', RunningTruthful'
  PROVE  AppInv'
  <1>1. AppTypeOK'
    BY DEF AppTypeOK, SameDevice, After
  <1>2. Answered' => Answered
    BY DEF Answered, SameDevice
  <1>3. Ways' /\ WorkedTruthful' /\ Remaining'
    BY DEF Ways, WorkedTruthful, Remaining, After, Single, Several
  <1>4. SessionKnown'
    BY <1>2 DEF AppInv, SessionKnown, SameSession
  <1>5. InstalledAsSaid' /\ ApkRemoved'
    BY DEF AppInv, InstalledAsSaid, ApkRemoved, SameFiles
  <1> QED BY <1>1, <1>3, <1>4, <1>5 DEF AppInv, CommandsTruthful

\* What is claimed of the app is what pidof said (is_running).
LEMMA IsRunningInv == AppInv /\ IsRunning => AppInv'
  <1> SUFFICES ASSUME AppInv, IsRunning PROVE AppInv'
    OBVIOUS
  <1>1. AppTypeOK /\ Hears("pidof", "")
    BY RunHeard, Zenon DEF AppInv, Commands
  <1>2. PICK arg, r, h :
          /\ Heard("pidof", arg, r, h) /\ at = "poll"
          /\ (r.err /\ at' = "failed") \/ (~r.err /\ at' \in {"poll", "stop"})
          /\ host' = [h EXCEPT !.count = @ + 1, !.claim = IF r.err THEN "none" ELSE IF r.success THEN "yes" ELSE "no"]
    BY ZenonT(30), <1>1 DEF IsRunning, Run, Hears, Go, Throw
  <1>3. /\ Kept(h) /\ SameDevice /\ SameFiles /\ SameSession
        /\ ~r.err /\ ~r.success => ~dev'.running
        /\ ~r.err /\ r.success /\ dev.v2 /\ ~h.cut => dev'.running
    BY <1>1, <1>2, HeardPidof
  <1>4. /\ host' \in Hosts /\ host'.apks = host.apks /\ host'.tried = host.tried
        /\ host'.rmFailed = host.rmFailed /\ (host.cut => host'.cut) /\ (host.lost => host'.lost)
        /\ host'.claim = (IF r.err THEN "none" ELSE IF r.success THEN "yes" ELSE "no") /\ host'.cut = h.cut
    <2> DEFINE c == IF r.err THEN "none" ELSE IF r.success THEN "yes" ELSE "no"
    <2>1. c \in {"none", "yes", "no"} /\ h \in Hosts /\ h.count \in Nat
      BY <1>3 DEF Kept, Hosts
    <2>2. host' = [h EXCEPT !.count = h.count + 1, !.claim = c]
      BY <1>2
    <2> HIDE DEF c
    <2>3. /\ host' \in Hosts /\ host'.apks = h.apks /\ host'.tried = h.tried /\ host'.rmFailed = h.rmFailed
          /\ host'.cut = h.cut /\ host'.lost = h.lost /\ host'.claim = c
      <3> DEFINE g == [h EXCEPT !.count = h.count + 1]
      <3>1. h.count + 1 \in Nat
        BY <2>1
      <3>2. /\ g \in Hosts /\ g.apks = h.apks /\ g.tried = h.tried /\ g.rmFailed = h.rmFailed
            /\ g.cut = h.cut /\ g.lost = h.lost
        BY <2>1, <3>1 DEF Hosts
      <3>3. host' = [g EXCEPT !.claim = c]
        BY <2>2
      <3> HIDE DEF g
      <3> QED BY <2>1, <3>2, <3>3 DEF Hosts
    <2> QED BY <2>3, <1>3 DEF Kept, c
  <1>5. Claims' /\ TourTruthful' /\ RunningTruthful'
    BY <1>2, <1>3, <1>4 DEF Claims, TourTruthful, RunningTruthful, Answered, SameDevice
  <1> QED BY <1>2, <1>3, <1>4, <1>5, LateStep

\* The app is stopped, and nothing is claimed of it any more (close).
LEMMA CloseAppInv == AppInv /\ CloseApp => AppInv'
  <1> SUFFICES ASSUME AppInv, CloseApp PROVE AppInv'
    OBVIOUS
  <1>1. AppTypeOK /\ Hears("stop", "")
    BY RunHeard, Zenon DEF AppInv, Commands
  <1>2. PICK arg, r, h : /\ Heard("stop", arg, r, h) /\ at = "stop" /\ at' \in {"remove", "failed"}
                         /\ host' = [h EXCEPT !.claim = "none"]
    BY Zenon, <1>1 DEF CloseApp, Run, Hears, Go, Throw
  <1>3. Kept(h) /\ SameDevice /\ SameFiles /\ SameSession
    BY <1>1, <1>2, HeardLaunch
  <1>4. /\ host' \in Hosts /\ host'.apks = host.apks /\ host'.tried = host.tried
        /\ host'.rmFailed = host.rmFailed /\ (host.cut => host'.cut) /\ (host.lost => host'.lost)
        /\ host'.claim = "none"
    BY <1>2, <1>3 DEF Kept, Hosts
  <1>5. Claims' /\ TourTruthful' /\ RunningTruthful'
    BY <1>2, <1>4 DEF Claims, TourTruthful, RunningTruthful
  <1> QED BY <1>2, <1>3, <1>4, <1>5, LateStep

\* The app is taken away, and pm's word for that is true (uninstall,
\* package_result).
LEMMA UninstallAppInv == AppInv /\ UninstallApp => AppInv'
  <1> SUFFICES ASSUME AppInv, UninstallApp PROVE AppInv'
    OBVIOUS
  <1>1. AppTypeOK /\ Hears("uninstall", "")
    BY RunHeard, Zenon DEF AppInv, Commands
  <1>2. PICK arg, r, h :
          /\ Heard("uninstall", arg, r, h) /\ at = "remove" /\ host' = h
          /\ at' = "failed" \/ (at' = "done" /\ ~r.err /\ package_result(r))
    BY Zenon, <1>1 DEF UninstallApp, uninstall, Run, Hears, Go, Throw
  <1>3. /\ Kept(h) /\ SameDevice /\ SameFiles /\ SameSession
        /\ ~r.err /\ package_result(r) => dev'.parts = {} /\ ~dev'.running
    BY <1>1, <1>2, HeardUninstall
  <1>4. /\ host' \in Hosts /\ host'.apks = host.apks /\ host'.tried = host.tried
        /\ host'.rmFailed = host.rmFailed /\ (host.cut => host'.cut) /\ (host.lost => host'.lost)
        /\ host'.claim = host.claim
    BY <1>2, <1>3 DEF Kept
  <1>5. host.claim = "none"
    BY <1>2 DEF AppInv, Claims
  <1>6. Claims' /\ TourTruthful' /\ RunningTruthful'
    BY <1>2, <1>3, <1>4, <1>5 DEF Claims, TourTruthful, RunningTruthful
  <1> QED BY <1>2, <1>3, <1>4, <1>6, LateStep

\* Every step of the tour keeps the invariant (run_tour, install_app).
LEMMA AppStepInv == AppInv /\ AppStep => AppInv'
  <1> SUFFICES ASSUME AppInv, AppStep PROVE AppInv'
    OBVIOUS
  <1>1. CASE Connect \/ PushFile \/ RemoveScratch \/ CheckInstalled \/ UninstallOld \/ BeginInstall
    BY <1>1, ConnectInv, ScratchInv, OldCopyInv, BeginInstallInv
  <1>2. CASE RunHello \/ set_power
    <2>1. \A here, next :
            /\ PlainCommand(here, next) \/ PowerState(here, next)
            /\ (here \in Before /\ next \in Before) \/ (here \in Ready /\ next \in Ready)
            => AppInv'
      BY PlainCommandInv
    <2> QED BY <1>2, <2>1 DEF RunHello, set_power, Before, Ready
  <1>3. CASE ListDirectory \/ StatAndPull
    BY <1>3, LooksInv DEF ListDirectory, StatAndPull, Before
  <1>4. CASE PushApk \/ PmInstall \/ remove_quietly
    BY <1>4, PushApkInv, PmInstallInv, RemoveInv
  <1>5. CASE InstallCreate \/ SplitPush \/ InstallWrite \/ InstallAbandon \/ InstallCommit
    BY <1>5, InstallCreateInv, SplitPushInv, InstallWriteInv, EndSessionInv
  <1>6. CASE Launch \/ IsRunning \/ CloseApp \/ UninstallApp
    BY <1>6, LaunchInv, IsRunningInv, CloseAppInv, UninstallAppInv
  <1> QED BY <1>1, <1>2, <1>3, <1>4, <1>5, <1>6 DEF AppStep

\* A new tour has its types.
LEMMA NewTourType ==
  ASSUME NEW apks \in Splits
  PROVE  LET h == NewTour(apks)
         IN  /\ h \in Hosts /\ h.apks = apks /\ ~h.tried /\ ~h.worked /\ h.claim = "none" /\ ~h.cut /\ ~h.lost
  <1>1. <<>> \in Seq(Parts)
    OBVIOUS
  <1> QED BY <1>1 DEF NewTour, Hosts

\* The tour of the first run starts in the invariant (main).
LEMMA AppInitInv == AppInit => AppInv
  <1> SUFFICES ASSUME AppInit PROVE AppInv
    OBVIOUS
  <1>1. /\ host \in Hosts /\ ~host.tried /\ ~host.worked /\ host.claim = "none"
        /\ at = "key"
    BY NewTourType DEF AppInit
  <1>2. dev \in Devices /\ dev.session = "none"
    <2>1. PICK here \in BOOLEAN, v2 \in BOOLEAN, copy \in {{}, {"base"}} :
            dev = [plugged |-> here, up |-> FALSE, v2 |-> v2, files |-> {}, session |-> "none", written |-> {},
                   parts |-> copy, running |-> FALSE]
      BY DEF AppInit
    <2>2. copy \in SUBSET Parts
      BY DEF Parts
    <2> QED BY <2>1, <2>2 DEF Devices
  <1>3. AppTypeOK /\ Ways /\ WorkedTruthful /\ Remaining /\ SessionKnown /\ Claims
    BY <1>1, <1>2
       DEF AppTypeOK, Ways, WorkedTruthful, Remaining, SessionKnown, Claims, Before, Single, Several
  <1>4. CommandsTruthful /\ ApkRemoved
    BY <1>1 DEF CommandsTruthful, InstalledAsSaid, TourTruthful, RunningTruthful, ApkRemoved
  <1> QED BY <1>3, <1>4 DEF AppInv

\* So does the tour of a later run: the device keeps its package and its files, and
\* what an earlier run left in a session is named by nobody (main, after a crash).
LEMMA AppAgainInv ==
  ASSUME AppInv, at' = "key", host' = NewTour(host.apks),
         dev' = [dev EXCEPT !.up = FALSE, !.session = "none", !.written = {}]
  PROVE  AppInv'
  <1>1. dev \in Devices /\ host.apks \in Splits
    BY DEF AppInv, AppTypeOK, Hosts
  <1>2. host' \in Hosts /\ ~host'.tried /\ ~host'.worked /\ host'.claim = "none"
    BY <1>1, NewTourType
  <1>3. dev' \in Devices /\ dev'.session = "none"
    <2>1. [dev EXCEPT !.up = FALSE] \in Devices
      BY <1>1 DEF Devices
    <2> DEFINE d == [dev EXCEPT !.up = FALSE]
    <2>2. dev' = [d EXCEPT !.session = "none", !.written = {}]
      OBVIOUS
    <2> HIDE DEF d
    <2> QED BY <2>1, <2>2 DEF Devices, Parts, d
  <1>4. AppTypeOK' /\ Ways' /\ WorkedTruthful' /\ Remaining' /\ SessionKnown' /\ Claims'
    BY <1>2, <1>3
       DEF AppTypeOK, Ways, WorkedTruthful, Remaining, SessionKnown, Claims, Before, Single, Several
  <1>5. CommandsTruthful' /\ ApkRemoved'
    BY <1>2 DEF CommandsTruthful, InstalledAsSaid, TourTruthful, RunningTruthful, ApkRemoved
  <1> QED BY <1>4, <1>5 DEF AppInv

\* A tour that is over takes no step, and none begins without its key (run_tour).
LEMMA TourOver == AppStep => at \notin {"key", "done", "failed"}
  BY DEF AppStep, Connect, RunHello, set_power, PlainCommand, PowerState, ListDirectory, PushFile, StatAndPull,
         Looks, RemoveScratch, CheckInstalled, UninstallOld, uninstall, BeginInstall, PushApk, PmInstall,
         remove_quietly, InstallCreate, SplitPush, InstallWrite, InstallAbandon, InstallCommit, Launch,
         IsRunning, CloseApp, UninstallApp

\* A step that leaves the tour alone keeps its invariant.
LEMMA AppUnchanged == AppInv /\ UNCHANGED appVars => AppInv'
  BY DEF appVars, AppInv, AppTypeOK, Ways, WorkedTruthful, Remaining, SessionKnown, Claims, CommandsTruthful,
         InstalledAsSaid, TourTruthful, RunningTruthful, ApkRemoved, Answered, Names

=============================================================================
