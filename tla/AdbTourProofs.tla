---------------------------- MODULE AdbTourProofs ----------------------------
(***************************************************************************)
(* The program that drives several devices uses the key store as AdbKey    *)
(* specifies it, so what is proved there holds of the program; its tours   *)
(* keep what AdbAppProofs proves of one; and its exit code tells the truth *)
(* about both.                                                             *)
(***************************************************************************)
EXTENDS AdbTour, AdbKeyProofs, AdbAppProofs

\* Every step of the program is a step of the key store or leaves it alone: the
\* tours never touch the files, a crash is the store's (main, run_tour).
LEMMA TourStepIsKeyStep == [Next]_vars => [KeyNext]_keyVars
  <1> SUFFICES ASSUME [Next]_vars PROVE [KeyNext]_keyVars
    OBVIOUS
  <1>1. ASSUME NEW t \in Threads, Key(t) PROVE KeyNext
    BY <1>1 DEF Key, KeyNext
  <1>2. CASE StartAgain
    BY <1>2 DEF StartAgain, KeyNext
  <1>3. CASE HasKey \/ Tour \/ MainReturns \/ \E t \in Threads : ThreadEnds(t)
    BY <1>3 DEF HasKey, Tour, MainReturns, ThreadEnds
  <1>4. CASE UNCHANGED vars
    BY <1>4 DEF vars
  <1> QED BY <1>1, <1>2, <1>3, <1>4 DEF Next, Works

\* The program implements the key store's specification (demo_multi on top of
\* load_or_generate).
THEOREM TourImplementsKeyStore == Spec => KeySpec
  <1>1. Init => KeyInit
    BY DEF Init
  <1> QED BY <1>1, TourStepIsKeyStep, PTL DEF Spec, KeySpec

\* However the tours and the devices fail, and however often the program crashes
\* and is run again, an adbkey that was there is not touched (demo_multi, main).
THEOREM TourKeepsKey == Spec => []KeyUntouched
  BY TourImplementsKeyStore, KeyNeverReplaced, PTL

-----------------------------------------------------------------------------
(* The tours and the program around them.                                   *)

\* What has been noted of the threads: one that ended had returned from its key,
\* one that succeeded has it, Me went all the way, and the exit code sums it up.
Outcomes ==
  /\ success \in [Threads -> {"none", "yes", "no"}]
  /\ \A t \in Threads : success[t] # "none" => kst[t] = "ret"
  /\ \A t \in Threads : success[t] = "yes" => res[t] = "ok"
  /\ success[Me] = "yes" => at = "done"
  /\ exit = "ok" => \A t \in Threads : success[t] = "yes"

TourInv == KeyInv /\ AppInv /\ Outcomes

\* The program starts with nothing done (main).
LEMMA TourInit == Init => TourInv
  <1> SUFFICES ASSUME Init PROVE TourInv
    OBVIOUS
  <1>1. KeyInv /\ AppInv
    BY InitInv, AppInitInv DEF Init
  <1>2. Outcomes
    BY TourAssumption DEF Init, Outcomes
  <1> QED BY <1>1, <1>2 DEF TourInv

\* A thread that has returned from its key takes no more steps there
\* (load_or_generate).
LEMMA KeyStepMoves ==
  ASSUME KeyTypeOK, NEW t \in Threads, LoadOrGenerate(t)
  PROVE  kst[t] # "ret" /\ \A s \in Threads : s # t => kst'[s] = kst[s] /\ res'[s] = res[s]
  BY DEF KeyTypeOK, LoadOrGenerate, CheckExists, LoadKey, GenerateKey, OpenPrivate, WritePrivate, OpenPublic,
         WritePublic, ClosePublic, ClosePrivate, At, Goto, Fails

\* Every step of the program keeps the invariant (main, run_tour).
LEMMA TourStep == TourInv /\ [Next]_vars => TourInv'
  <1> SUFFICES ASSUME TourInv, [Next]_vars PROVE TourInv'
    OBVIOUS
  <1>1. KeyInv'
    BY TourStepIsKeyStep, KeyInvInductive DEF TourInv
  <1>2. KeyTypeOK /\ AppInv /\ Outcomes /\ Me \in Threads
    BY TourAssumption DEF TourInv, KeyInv
  <1>3. ASSUME NEW t \in Threads, Key(t) PROVE AppInv' /\ Outcomes'
    <2>1. LoadOrGenerate(t) /\ UNCHANGED <<appVars, success, exit>>
      BY <1>3 DEF Key
    <2>2. AppInv'
      BY <1>2, <2>1, AppUnchanged
    <2>3. success[t] = "none"
      BY <1>2, <2>1, KeyStepMoves DEF Outcomes
    <2>4. Outcomes'
      BY <1>2, <2>1, <2>3, KeyStepMoves DEF Outcomes, appVars
    <2> QED BY <2>2, <2>4
  <1>4. CASE HasKey
    <2>1. at = "key" /\ at' \in {"connect", "failed"} /\ UNCHANGED <<keyVars, dev, host, success, exit>>
      BY <1>4 DEF HasKey
    <2>2. dev \in Devices /\ host \in Hosts
      BY <1>2 DEF AppInv, AppTypeOK
    <2>3. Carried /\ SameDevice /\ SameSession
      BY <2>1, <2>2 DEF Carried, SameDevice, SameSession
    <2>4. AppInv'
      BY <1>2, <2>1, <2>3, PlainStep DEF Before
    <2>5. Outcomes'
      BY <1>2, <2>1 DEF Outcomes, keyVars
    <2> QED BY <1>1, <2>4, <2>5 DEF TourInv
  <1>5. CASE Tour
    <2>1. AppStep /\ UNCHANGED <<keyVars, success, exit>>
      BY <1>5 DEF Tour
    <2>2. AppInv' /\ at # "done"
      BY <1>2, <2>1, AppStepInv, TourOver
    <2>3. Outcomes'
      BY <1>2, <2>1, <2>2 DEF Outcomes, keyVars
    <2> QED BY <1>1, <2>2, <2>3 DEF TourInv
  <1>6. ASSUME NEW t \in Threads, ThreadEnds(t) PROVE AppInv' /\ Outcomes'
    <2>1. PICK s \in {"yes", "no"} :
            /\ t = Me => at = (IF s = "yes" THEN "done" ELSE "failed")
            /\ res[t] # "ok" => s = "no"
            /\ success' = [success EXCEPT ![t] = s]
      BY <1>6 DEF ThreadEnds
    <2>2. success[t] = "none" /\ kst[t] = "ret" /\ UNCHANGED <<keyVars, appVars, exit>>
      BY <1>6 DEF ThreadEnds, At
    <2>3. AppInv'
      BY <1>2, <2>2, AppUnchanged
    <2>4. Outcomes'
      BY <1>2, <2>1, <2>2 DEF Outcomes, keyVars, appVars
    <2> QED BY <2>3, <2>4
  <1>7. CASE MainReturns
    <2>1. AppInv'
      BY <1>2, <1>7, AppUnchanged DEF MainReturns
    <2>2. Outcomes'
      BY <1>2, <1>7 DEF MainReturns, Outcomes, keyVars, appVars
    <2> QED BY <1>1, <2>1, <2>2 DEF TourInv
  <1>8. CASE StartAgain
    <2>1. AppInv'
      BY <1>2, <1>8, AppAgainInv DEF StartAgain
    <2>2. Outcomes'
      BY <1>2, <1>8 DEF StartAgain, Outcomes
    <2> QED BY <1>1, <2>1, <2>2 DEF TourInv
  <1>9. CASE UNCHANGED vars
    <2>1. AppInv'
      BY <1>2, <1>9, AppUnchanged DEF vars
    <2>2. Outcomes'
      BY <1>2, <1>9 DEF Outcomes, vars, keyVars, appVars
    <2> QED BY <1>1, <2>1, <2>2 DEF TourInv
  <1> QED BY <1>1, <1>3, <1>4, <1>5, <1>6, <1>7, <1>8, <1>9 DEF TourInv, Next, Works

\* The tours, the program and the key store keep the invariant together (main,
\* run_tour, load_or_generate).
THEOREM TourInvariance == Spec => []TourInv
  BY TourInit, TourStep, PTL DEF Spec

\* What the tour was told is what the device did.  Without condition: an install of
\* one APK that said so put the package there, a tour that worked took it away
\* again, and "not running" is true.  Only where every answer came whole and with an
\* exit code: an install of several APKs has all its parts, and "running" is true
\* (install, install_app, uninstall, is_running, run_tour).
THEOREM CommandsAreTruthful == Spec => []CommandsTruthful
  <1>1. TourInv => CommandsTruthful
    BY DEF TourInv, AppInv
  <1> QED BY <1>1, TourInvariance, PTL

\* However install() ends, its APK is gone unless the removal itself failed, and no
\* session is left open unless a stream or a push failed or an answer did not come
\* whole.  The APKs install_app pushed stay (install, remove_quietly, install_app).
THEOREM InstallIsTidy == Spec => []InstallTidiesUp
  <1>1. TourInv => InstallTidiesUp
    BY DEF TourInv, AppInv, SessionKnown, InstallTidiesUp, SessionEnds
  <1> QED BY <1>1, TourInvariance, PTL

\* The program returns zero only if every thread has its key and went all the way,
\* the followed device is clean, and nobody is still at work (main).
THEOREM ExitIsTruthful == Spec => []ExitTruthful
  <1>1. TourInv => ExitTruthful
    <2> SUFFICES ASSUME TourInv, exit = "ok"
                 PROVE  /\ at = "done" /\ dev.parts = {}
                        /\ \A t \in Threads : success[t] = "yes" /\ key[t] # 0 /\ ~Storing(t)
      BY DEF ExitTruthful
    <2>1. \A t \in Threads : success[t] = "yes" /\ kst[t] = "ret" /\ res[t] = "ok"
      BY DEF TourInv, Outcomes
    <2>2. at = "done" /\ dev.parts = {}
      BY <2>1, TourAssumption DEF TourInv, Outcomes, AppInv, CommandsTruthful, TourTruthful
    <2>3. \A t \in Threads : key[t] # 0 /\ ~Storing(t)
      BY <2>1 DEF TourInv, KeyInv, HasKeyInv, Storing
    <2> QED BY <2>1, <2>2, <2>3
  <1> QED BY <1>1, TourInvariance, PTL

=============================================================================
