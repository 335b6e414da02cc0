------------------------------- MODULE AdbApp -------------------------------
(***************************************************************************)
(* Shell commands (src/shell.cpp), the app commands built on them          *)
(* (src/app.cpp) and one device's tour through all of them                 *)
(* (examples/demo_multi/main.cpp, run_tour and install_app).               *)
(*                                                                         *)
(* A stream is AdbStream's promise and a transfer AdbSync's, so a command  *)
(* or a transfer is one step: it fails, before or after the device did     *)
(* what it was asked, or it brings the device's answer.  The text of an    *)
(* answer is the set of the words the host looks for in it.                *)
(***************************************************************************)
EXTENDS Naturals, Sequences

CONSTANTS
  MaxAttempts,  \* launches tried (10 in the code)
  MaxPolls,     \* questions whether the app runs (10 in the code)
  AppFaults     \* which of "link", "reject", "cut" and "local" may happen

ASSUME AppAssumption ==
  /\ MaxAttempts \in Nat \ {0} /\ MaxPolls \in Nat \ {0}
  /\ AppFaults \subseteq {"link", "reject", "cut", "local"}

VARIABLES
  at,           \* where the tour stands
  dev,          \* the device
  host          \* what the host has of this tour

appVars == <<at, dev, host>>

\* The APKs of the package, base first.
Splits == {<<"base">>, <<"base", "split">>}
Names(apks) == {apks[i] : i \in DOMAIN apks}

-----------------------------------------------------------------------------
(* The device (external): what a command does, prints and exits with.  It may *)
(* refuse whatever it likes.                                                  *)

Does(d, words, code) == [dev |-> d, words |-> words, code |-> code]
Refuses(words)       == {Does(dev, words, 1)}
MayRefuse(words)     == IF "reject" \in AppFaults THEN Refuses(words) ELSE {}

\* A session is committed with what was written into it, the base at least.
Commits ==
  LET done == [dev EXCEPT !.session = "none", !.written = {}]
  IN  IF host.session # "real" \/ dev.session = "none" THEN Refuses({"Failure"})
      ELSE (IF "base" \in dev.written
            THEN {Does([done EXCEPT !.parts = dev.written], {"Success"}, 0)} ELSE {})
           \cup (IF "reject" \in AppFaults \/ "base" \notin dev.written
                 THEN {Does(done, {"Failure"}, 1)} ELSE {})

Executes(cmd, arg) ==
  CASE cmd = "plain"     -> {Does(dev, {}, 0)}
    [] cmd = "path"      -> {Does(dev, IF dev.parts = {} THEN {} ELSE {"package"}, 0)}
    [] cmd = "install"   -> MayRefuse({"Failure"}) \cup
                            IF arg \in dev.files THEN {Does([dev EXCEPT !.parts = {arg}], {"Success"}, 0)}
                            ELSE Refuses({"Failure"})
    [] cmd = "uninstall" -> IF dev.parts = {} THEN Refuses({"Failure"})
                            ELSE MayRefuse({"Failure"}) \cup
                                 {Does([dev EXCEPT !.parts = {}, !.running = FALSE], {"Success"}, 0)}
    [] cmd = "create"    -> MayRefuse({"Failure", "["}) \cup
                            {Does([dev EXCEPT !.session = "open", !.written = {}], {"Success", "["}, 0)}
    [] cmd = "write"     -> IF host.session = "real" /\ arg \in dev.files
                            THEN MayRefuse({"Failure"}) \cup
                                 {Does([dev EXCEPT !.written = @ \cup {arg}], {"Success"}, 0)}
                            ELSE Refuses({"Failure"})
    [] cmd = "commit"    -> Commits
    [] cmd = "abandon"   -> {Does([dev EXCEPT !.session = "none", !.written = {}], {"Success"}, 0)}
    [] cmd = "rm"        -> {Does([dev EXCEPT !.files = @ \ {arg}], {}, 0)}
    [] cmd = "monkey"    -> MayRefuse({}) \cup
                            IF dev.parts = {} THEN Refuses({})
                            ELSE {Does([dev EXCEPT !.running = TRUE], {}, 0)}
    [] cmd = "stop"      -> {Does([dev EXCEPT !.running = FALSE], {}, 0)}
    [] cmd = "pidof"     -> {Does([dev EXCEPT !.running = r], {}, IF r THEN 0 ELSE 1) :
                              r \in IF dev.running THEN BOOLEAN ELSE {FALSE}}

\* The answer on the wire: what was printed and, of shell_v2, the exit packet.
\* The process may be killed and the stream closed before all of it is there.
Packet(id, words, code) == [id |-> id, len |-> 1, words |-> words, code |-> code, whole |-> TRUE]

Answer(e) ==
  <<Packet(IF e.code = 0 THEN "stdout" ELSE "stderr", e.words, 0)>>
    \o (IF dev.v2 THEN <<Packet("exit", {}, e.code)>> ELSE <<>>)

Wire(e) ==
  LET CutAfter(n)  == SubSeq(Answer(e), 1, n)
      CutInside(n) == [CutAfter(n) EXCEPT ![n].whole = FALSE]
  IN  {Answer(e)} \cup
      IF "cut" \in AppFaults
      THEN {CutAfter(n) : n \in 0 .. Len(Answer(e))} \cup {CutInside(n) : n \in 1 .. Len(Answer(e))}
      ELSE {}

-----------------------------------------------------------------------------
(* run: the result of a command, or an error.                               *)

Result(words, code, success) == [err |-> FALSE, words |-> words, code |-> code, success |-> success]
Error == [err |-> TRUE, words |-> {}, code |-> 0, success |-> FALSE]

\* The packets the loop of run_v2 takes: up to the first that is not all there.
Taken(raw) == {i \in DOMAIN raw : \A j \in 1 .. i : raw[j].whole}

output(raw) == UNION {raw[i].words : i \in {j \in Taken(raw) : raw[j].id \in {"stdout", "stderr"}}}

\* The byte in the exit packet; zero when none came.
exit_code(raw) ==
  IF \E i \in Taken(raw) : raw[i].id = "exit"
  THEN raw[CHOOSE i \in Taken(raw) : raw[i].id = "exit"].code ELSE 0

run_v2(raw) == Result(output(raw), exit_code(raw), exit_code(raw) = 0)

\* Raw output, and always success.
run_v1(raw) == Result(output(raw), 0, TRUE)

\* shell_v2 where the device has it.
shell_run(raw) == IF dev.v2 THEN run_v2(raw) ELSE run_v1(raw)

\* A command is run.  Then(r, h) is what the caller does with the result r; h is the host's
\* state with a note of answers that did not come whole and of streams that
\* failed.  A stream fails alone or with the connection, and the device may have
\* done what it was asked.
Run(cmd, arg, Then(_, _)) ==
  \/ /\ dev.up
     /\ \E e \in Executes(cmd, arg) :
          \/ \E raw \in Wire(e) :
               /\ dev' = e.dev
               /\ Then(shell_run(raw), [host EXCEPT !.cut = @ \/ raw # Answer(e)])
          \/ /\ "link" \in AppFaults
             /\ \E u \in BOOLEAN : \E d \in {dev, e.dev} : dev' = [d EXCEPT !.up = u]
             /\ Then(Error, [host EXCEPT !.lost = TRUE])
  \/ ~dev.up /\ dev' = dev /\ Then(Error, [host EXCEPT !.lost = TRUE])

\* push: the file is on the device, or the call failed and part of it may be.
Push(file, Then(_, _)) ==
  \/ dev.up /\ dev' = [dev EXCEPT !.files = @ \cup {file}] /\ Then(TRUE, host)
  \/ /\ dev.up /\ AppFaults \cap {"link", "reject"} # {}
     /\ \E u \in BOOLEAN : \E fs \in {dev.files, dev.files \cup {file}} :
          /\ u \/ "link" \in AppFaults
          /\ dev' = [dev EXCEPT !.up = u, !.files = fs]
     /\ Then(FALSE, [host EXCEPT !.lost = TRUE])
  \/ ~dev.up /\ dev' = dev /\ Then(FALSE, [host EXCEPT !.lost = TRUE])

-----------------------------------------------------------------------------
(* The tour.  A step that fails throws, and the tour is over.               *)

Go(p, h) == at' = p /\ host' = h
Throw(h) == Go("failed", h)

\* Mutant: the exit code alone is asked.
exit_only(r) == r.success

\* The package manager's verdict: the exit code and its word.
package_result(r) == r.code = 0 /\ "Success" \in r.words

\* Retry and handshake are AdbConnect's.
Connect ==
  /\ at = "connect"
  /\ \/ dev.plugged /\ Go("hello", host) /\ dev' = [dev EXCEPT !.up = TRUE]
     \/ (~dev.plugged \/ "link" \in AppFaults) /\ Throw(host) /\ UNCHANGED dev

\* A command of which only an error matters.
PlainCommand(here, next) ==
  /\ at = here
  /\ Run("plain", "", LAMBDA r, h : IF r.err THEN Throw(h) ELSE Go(next, h))

RunHello == PlainCommand("hello", "list")

\* The key events; what dumpsys then prints, or that it failed, is not looked at.
PowerState(here, next) == at = here /\ Run("plain", "", LAMBDA r, h : Go(next, h))

set_power ==
  \/ PlainCommand("sleep", "asleep") \/ PowerState("asleep", "path")
  \/ PlainCommand("wake", "menu") \/ PlainCommand("menu", "awake") \/ PowerState("awake", "launch")

\* list, stat and pull: nothing changes on the device.
Looks(here, next) ==
  /\ at = here
  /\ \/ dev.up /\ Go(next, host) /\ UNCHANGED dev
     \/ (~dev.up \/ AppFaults # {}) /\ Throw([host EXCEPT !.lost = TRUE]) /\ UNCHANGED dev

ListDirectory == Looks("list", "push")

PushFile == at = "push" /\ Push("scratch", LAMBDA ok, h : IF ok THEN Go("stat", h) ELSE Throw(h))

StatAndPull == Looks("stat", "pull") \/ Looks("pull", "tidy")

\* The scratch file goes, if it can.
RemoveScratch == at = "tidy" /\ Run("rm", "scratch", LAMBDA r, h : Go("sleep", h))

\* An old copy is removed first.
CheckInstalled ==
  /\ at = "path"
  /\ Run("path", "", LAMBDA r, h :
       IF r.err THEN Throw(h) ELSE Go(IF "package" \in r.words THEN "old" ELSE "install", h))

uninstall(here, next) ==
  /\ at = here
  /\ Run("uninstall", "", LAMBDA r, h :
       IF r.err \/ ~package_result(r) THEN Throw(h) ELSE Go(next, h))

UninstallOld == uninstall("old", "install")

\* install_app: one APK is pushed and installed, several go through a session.
BeginInstall ==
  /\ at = "install"
  /\ \/ Go(IF Len(host.apks) = 1 THEN "apkpush" ELSE "create", [host EXCEPT !.todo = host.apks])
     \/ Len(host.apks) = 1 /\ "local" \in AppFaults /\ Throw(host)  \* not a regular file
  /\ UNCHANGED dev

\* Mutant: a failed push returns at once.
PushApkReturns ==
  /\ at = "apkpush"
  /\ Push("base", LAMBDA ok, h : IF ok THEN Go("pm", [h EXCEPT !.tried = TRUE])
                                  ELSE Throw([h EXCEPT !.tried = TRUE]))

\* install: the APK is removed even when it did not arrive as a whole.
PushApk ==
  /\ at = "apkpush"
  /\ Push("base", LAMBDA ok, h : Go(IF ok THEN "pm" ELSE "rmapk", [h EXCEPT !.tried = TRUE]))

PmInstall ==
  /\ at = "pm"
  /\ Run("install", "base", LAMBDA r, h :
       Go("rmapk", [h EXCEPT !.worked = ~r.err /\ package_result(r)]))

remove_quietly ==
  /\ at = "rmapk"
  /\ Run("rm", "base", LAMBDA r, h :
       LET g == [h EXCEPT !.rmFailed = r.err] IN IF host.worked THEN Go("wake", g) ELSE Throw(g))

\* The session's id is what stands between brackets, a reason as well.
InstallCreate ==
  /\ at = "create"
  /\ Run("create", "", LAMBDA r, h :
       IF r.err \/ ~r.success \/ "[" \notin r.words THEN Throw(h)
       ELSE Go("split", [h EXCEPT !.session = IF "Success" \in r.words THEN "real" ELSE "bogus"]))

SplitPush ==
  /\ at = "split"
  /\ Push(Head(host.todo), LAMBDA ok, h : IF ok THEN Go("write", h) ELSE Throw(h))

InstallWrite ==
  /\ at = "write"
  /\ Run("write", Head(host.todo), LAMBDA r, h :
       IF r.err THEN Throw(h)
       ELSE IF ~r.success THEN Go("abandon", h)
       ELSE Go(IF Len(host.todo) = 1 THEN "commit" ELSE "split", [h EXCEPT !.todo = Tail(@)]))

InstallAbandon == at = "abandon" /\ Run("abandon", "", LAMBDA r, h : Throw(h))

InstallCommit ==
  /\ at = "commit"
  /\ Run("commit", "", LAMBDA r, h : IF r.err \/ ~r.success THEN Throw(h) ELSE Go("wake", h))

\* Mutant: the tries are not counted.
LaunchForEver ==
  /\ at = "launch"
  /\ Run("monkey", "", LAMBDA r, h : Go(IF ~r.err /\ r.success THEN "poll" ELSE "launch", h))

\* launch is tried again, after an error too.
Launch ==
  /\ at = "launch"
  /\ Run("monkey", "", LAMBDA r, h :
       LET g == [h EXCEPT !.count = @ + 1] IN
         IF ~r.err /\ r.success THEN Go("poll", [g EXCEPT !.count = 0])
         ELSE IF g.count = MaxAttempts THEN Throw(g) ELSE Go("launch", g))

IsRunning ==
  /\ at = "poll"
  /\ Run("pidof", "", LAMBDA r, h :
       LET g == [h EXCEPT !.count = @ + 1, !.claim = IF r.err THEN "none" ELSE IF r.success THEN "yes" ELSE "no"] IN
         IF r.err THEN Throw(g)
         ELSE Go(IF r.success /\ g.count < MaxPolls THEN "poll" ELSE "stop", g))

CloseApp ==
  /\ at = "stop"
  /\ Run("stop", "", LAMBDA r, h :
       LET g == [h EXCEPT !.claim = "none"] IN IF r.err THEN Throw(g) ELSE Go("remove", g))

UninstallApp == uninstall("remove", "done")

AppStep ==
  \/ Connect \/ RunHello \/ set_power \/ ListDirectory \/ PushFile \/ StatAndPull \/ RemoveScratch
  \/ CheckInstalled \/ UninstallOld \/ BeginInstall \/ PushApk \/ PmInstall \/ remove_quietly
  \/ InstallCreate \/ SplitPush \/ InstallWrite \/ InstallAbandon \/ InstallCommit
  \/ Launch \/ IsRunning \/ CloseApp \/ UninstallApp

NewTour(apks) ==
  [apks |-> apks, todo |-> <<>>, session |-> "none", count |-> 0, tried |-> FALSE, worked |-> FALSE,
   rmFailed |-> FALSE, claim |-> "none", cut |-> FALSE, lost |-> FALSE]

\* A device with or without shell_v2, perhaps with an old copy of the package, or
\* one that is no longer there.
AppInit ==
  /\ at = "key"
  /\ \E here, v2 \in BOOLEAN : \E old \in {{}, {"base"}} :
       dev = [plugged |-> here, up |-> FALSE, v2 |-> v2, files |-> {}, session |-> "none", written |-> {},
              parts |-> old, running |-> FALSE]
  /\ \E apks \in Splits : host = NewTour(apks)

-----------------------------------------------------------------------------
(* Properties.                                                              *)

\* Every answer came whole, with its exit code.
Answered == dev.v2 /\ ~host.cut

\* Once the install step is behind it the app is on the device, in all its parts:
\* of one APK because `pm' said so, of several because no write was missed
\* (install, package_result, install_app).
InstalledAsSaid ==
  at \in {"wake", "menu", "awake", "launch"} /\ (Len(host.apks) = 1 \/ Answered) => dev.parts = Names(host.apks)

\* A tour that worked has installed the package and taken it away again, even where
\* the exit codes are missing (run_tour, uninstall, package_result).
TourTruthful == at = "done" => dev.parts = {} /\ ~dev.running

\* "Not running" is true, and "running" is where there are exit codes (is_running).
RunningTruthful ==
  /\ host.claim = "no" => ~dev.running
  /\ host.claim = "yes" /\ Answered => dev.running

\* What the app commands told the tour is what the device did (install, uninstall,
\* is_running and the tour's own steps).
CommandsTruthful == InstalledAsSaid /\ TourTruthful /\ RunningTruthful

\* However install of one APK ends, the APK it pushed is gone, unless the removal
\* itself failed (install, remove_quietly).
ApkRemoved ==
  host.tried /\ at \notin {"apkpush", "pm", "rmapk"} => "base" \notin dev.files \/ host.rmFailed

\* A session nobody will commit lingers only after a stream or a transfer failed,
\* or where a failed write cannot be told (install_app: a failed write abandons it).
SessionEnds == at \in {"done", "failed"} /\ ~host.lost /\ Answered => dev.session = "none"

\* What the install step cleans up after itself: the one APK that install() pushed,
\* and the session of an install_app whose write was refused.  The APKs that
\* install_app pushed for its session are not part of it, they stay on the device,
\* and neither is the session of one that a stream or a push failed under.
InstallTidiesUp == ApkRemoved /\ SessionEnds

=============================================================================
