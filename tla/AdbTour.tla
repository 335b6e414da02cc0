------------------------------- MODULE AdbTour -------------------------------
(***************************************************************************)
(* examples/demo_multi/main.cpp: a thread per attached device, each with   *)
(* its own key, connection and tour, joined before the program reports.    *)
(* The threads share the key files and nothing else, so one of them, Me,   *)
(* is followed through its tour and the others to their key.  The program  *)
(* may crash and be run again; the device keeps what it has.               *)
(***************************************************************************)
EXTENDS AdbKey, AdbApp

CONSTANTS
  Me            \* the thread whose tour is followed

ASSUME TourAssumption == Me \in Threads

VARIABLES
  success,      \* results[i].success, of the threads that ended
  exit          \* what main returned: "none", "ok" or "failed"

vars == <<keyVars, appVars, success, exit>>

-----------------------------------------------------------------------------
Key(t) == LoadOrGenerate(t) /\ UNCHANGED <<appVars, success, exit>>

\* run_tour goes on with its key, or throws.
HasKey ==
  /\ at = "key" /\ At(Me, "ret")
  /\ at' = IF res[Me] = "ok" THEN "connect" ELSE "failed"
  /\ UNCHANGED <<keyVars, dev, host, success, exit>>

Tour == AppStep /\ UNCHANGED <<keyVars, success, exit>>

\* The thread's function catches what was thrown and notes the outcome.
ThreadEnds(t) ==
  /\ success[t] = "none" /\ At(t, "ret")
  /\ \E s \in {"yes", "no"} :
       /\ t = Me => at = (IF s = "yes" THEN "done" ELSE "failed")
       /\ res[t] # "ok" => s = "no"
       /\ success' = [success EXCEPT ![t] = s]
  /\ UNCHANGED <<keyVars, appVars, exit>>

\* Mutant: the program reports when one thread has ended.
JoinsOne ==
  /\ exit = "none" /\ \E t \in Threads : success[t] # "none"
  /\ exit' = IF \E t \in Threads : success[t] = "no" THEN "failed" ELSE "ok"
  /\ UNCHANGED <<keyVars, appVars, success>>

\* main joins every thread, and fails if any tour failed.
MainReturns ==
  /\ exit = "none" /\ \A t \in Threads : success[t] # "none"
  /\ exit' = IF \E t \in Threads : success[t] = "no" THEN "failed" ELSE "ok"
  /\ UNCHANGED <<keyVars, appVars, success>>

\* Another run, after the end or a crash.  A session of the run before is named by
\* nobody any more.
StartAgain ==
  /\ RunAgain
  /\ exit # "none" \/ "crash" \in Faults
  /\ at' = "key" /\ host' = NewTour(host.apks)
  /\ dev' = [dev EXCEPT !.up = FALSE, !.session = "none", !.written = {}]
  /\ success' = [t \in Threads |-> "none"] /\ exit' = "none"

\* Bound: the whole tour is followed where adb left its key; where a key has to be
\* made the device is unplugged before the thread connects.
Init ==
  /\ KeyInit /\ AppInit
  /\ privExists <=> dev.plugged
  /\ success = [t \in Threads |-> "none"] /\ exit = "none"

Works == (\E t \in Threads : Key(t) \/ ThreadEnds(t)) \/ HasKey \/ Tour \/ MainReturns

Next == Works \/ StartAgain

Spec == Init /\ [][Next]_vars

\* Every thread runs on: its commands and transfers return (AdbStream, AdbSync).
FairSpec ==
  /\ Spec
  /\ \A t \in Threads : WF_vars(Key(t) \/ ThreadEnds(t))
  /\ WF_vars(HasKey \/ Tour) /\ WF_vars(MainReturns)

-----------------------------------------------------------------------------
(* Properties.                                                              *)

\* main returns zero only if every device went all the way, the key included, and
\* no thread is still at work when it reports (main: join, results, failed).
ExitTruthful ==
  exit = "ok" => /\ at = "done" /\ dev.parts = {}
                 /\ \A t \in Threads : success[t] = "yes" /\ key[t] # 0 /\ ~Storing(t)

\* One device failing does not stop the others, and the program ends (run_tour's
\* loops are bounded, the threads wait for nothing of each other's).
ProgramEnds == exit = "none" ~> exit # "none"

=============================================================================
