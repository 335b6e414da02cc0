---------------------------- MODULE AdbKeyProofs ----------------------------
(***************************************************************************)
(* Proofs about the key store, for every set of threads, every number of   *)
(* runs and every choice of faults.                                        *)
(***************************************************************************)
EXTENDS AdbKey, TLAPS

-----------------------------------------------------------------------------
\* Where adbkey was there at the start of the run, nobody makes a key.
NobodyMakes == old[1] => files = old /\ \A t \in Threads : kst[t] \in {"start", "load", "ret"}

\* The private key is still to come from t; the public one.
OwesPrivate(t) ==
  \/ kst[t] = "write"
  \/ kst[t] \in {"openpub", "writepub", "closepub", "closepriv"} /\ "adbkey" \in buffered[t]

OwesPublic(t) ==
  \/ kst[t] \in {"write", "openpub", "writepub"}
  \/ kst[t] = "closepub" /\ "pub" \in buffered[t]

\* A file that was truncated is owed by a thread that is still storing.
PrivateOwed == ~damaged /\ privExists /\ privKey = 0 => \E t \in Threads : OwesPrivate(t)
PublicOwed  == ~damaged /\ privExists /\ pubKey = 0 => \E t \in Threads : OwesPublic(t)

\* Who stores has a key, and every key there is was made.
HasKeyInv == \A t \in Threads : kst[t] = "open" \/ Storing(t) \/ res[t] = "ok" => key[t] # 0
MadeInv   == privKey <= made /\ pubKey <= made /\ \A t \in Threads : key[t] <= made
ExistsInv ==
  /\ \A t \in Threads : Storing(t) \/ res[t] = "ok" => privExists
  /\ ~privExists => privKey = 0

KeyInv ==
  /\ KeyTypeOK
  /\ NobodyMakes
  /\ PrivateOwed
  /\ PublicOwed
  /\ HasKeyInv
  /\ MadeInv
  /\ ExistsInv

-----------------------------------------------------------------------------
\* The first run starts in the invariant (KeyInit).
LEMMA InitInv == KeyInit => KeyInv
  <1> SUFFICES ASSUME KeyInit PROVE KeyInv
    OBVIOUS
  <1>1. privExists \in BOOLEAN /\ damaged = FALSE /\ privKey \in Nat /\ pubKey = privKey /\ made = privKey
    BY DEF KeyInit
  <1>2. KeyTypeOK
    BY <1>1 DEF KeyInit, KeyTypeOK, files
  <1>3. (privExists => privKey # 0) /\ (~privExists => privKey = 0)
    BY DEF KeyInit
  <1>4. NobodyMakes /\ PrivateOwed /\ PublicOwed
    BY <1>1, <1>3 DEF KeyInit, NobodyMakes, PrivateOwed, PublicOwed, files
  <1>5. HasKeyInv /\ MadeInv /\ ExistsInv
    BY <1>1, <1>3 DEF KeyInit, HasKeyInv, MadeInv, ExistsInv, Storing
  <1> QED BY <1>2, <1>4, <1>5 DEF KeyInv

\* The flags stay flags in every step of a call (load_or_generate).
LEMMA FlagStep ==
  ASSUME KeyTypeOK, NEW t \in Threads, LoadOrGenerate(t)
  PROVE  privExists' \in BOOLEAN /\ damaged' \in BOOLEAN
  <1>0. privExists \in BOOLEAN /\ damaged \in BOOLEAN
    BY DEF KeyTypeOK
  <1>1. (privExists' = privExists \/ privExists' = TRUE) /\ (damaged' = damaged \/ damaged' = TRUE)
    BY Zenon DEF LoadOrGenerate, CheckExists, LoadKey, GenerateKey, OpenPrivate, WritePrivate, OpenPublic,
                 WritePublic, ClosePublic, ClosePrivate, files
  <1> QED BY <1>0, <1>1

\* The rest of the types, action by action (load_or_generate).
LEMMA TypeStep == ASSUME KeyTypeOK, NEW t \in Threads, LoadOrGenerate(t) PROVE KeyTypeOK'
  <1>0. privExists' \in BOOLEAN /\ damaged' \in BOOLEAN
    BY FlagStep
  <1>o. old' = old /\ run' = run
    BY DEF LoadOrGenerate, CheckExists, LoadKey, GenerateKey, OpenPrivate, WritePrivate, OpenPublic,
           WritePublic, ClosePublic, ClosePrivate
  <1> DEFINE Rest ==
        /\ kst' \in [Threads -> {"start", "load", "generate", "open", "write", "openpub", "writepub",
                                 "closepub", "closepriv", "ret"}]
        /\ key' \in [Threads -> Nat]
        /\ buffered' \in [Threads -> SUBSET {"adbkey", "pub"}]
        /\ res' \in [Threads -> {"none", "ok", "Io", "Crypto"}]
        /\ privKey' \in Nat /\ pubKey' \in Nat /\ made' \in Nat
  <1>1. CheckExists(t) => Rest
    BY DEF KeyTypeOK, CheckExists, Goto, At, Fails, files
  <1>2. LoadKey(t) => Rest
    BY DEF KeyTypeOK, LoadKey, Goto, At, Fails, files
  <1>3. GenerateKey(t) => Rest
    BY DEF KeyTypeOK, GenerateKey, Goto, At, Fails, files
  <1>4. OpenPrivate(t) => Rest
    BY DEF KeyTypeOK, OpenPrivate, Goto, At, Fails, files
  <1>5. WritePrivate(t) => Rest
    BY DEF KeyTypeOK, WritePrivate, Goto, At, Fails, files
  <1>6. OpenPublic(t) => Rest
    BY DEF KeyTypeOK, OpenPublic, Goto, At, Fails, files
  <1>7. WritePublic(t) => Rest
    BY DEF KeyTypeOK, WritePublic, Goto, At, Fails, files
  <1>8. ClosePublic(t) => Rest
    BY DEF KeyTypeOK, ClosePublic, Goto, At, Fails, files
  <1>9. ClosePrivate(t) => Rest
    BY DEF KeyTypeOK, ClosePrivate, Goto, At, Fails, files
  <1>r. Rest
    BY <1>1, <1>2, <1>3, <1>4, <1>5, <1>6, <1>7, <1>8, <1>9 DEF LoadOrGenerate
  <1> QED BY <1>0, <1>o, <1>r DEF KeyTypeOK

\* A new run starts in the invariant: what was owed and is lost counts as damage
\* (the program ends or crashes).
LEMMA RunAgainInv == KeyInv /\ RunAgain => KeyInv'
  <1> SUFFICES ASSUME KeyInv, RunAgain PROVE KeyInv'
    OBVIOUS
  <1>1. KeyTypeOK'
    BY DEF KeyInv, KeyTypeOK, RunAgain, files, Quiet
  <1>2. NobodyMakes'
    BY DEF NobodyMakes, RunAgain, files
  <1>3. PrivateOwed'
    BY DEF KeyInv, KeyTypeOK, PrivateOwed, RunAgain, files, Quiet, Storing, OwesPrivate
  <1>4. PublicOwed'
    BY DEF KeyInv, KeyTypeOK, PublicOwed, RunAgain, files, Quiet, Storing, OwesPublic
  <1>5. HasKeyInv'
    BY DEF HasKeyInv, RunAgain, Storing
  <1>6. MadeInv'
    BY DEF KeyInv, KeyTypeOK, MadeInv, RunAgain, files
  <1>7. ExistsInv'
    BY DEF KeyInv, ExistsInv, RunAgain, files, Storing
  <1> QED BY <1>1, <1>2, <1>3, <1>4, <1>5, <1>6, <1>7 DEF KeyInv

\* No step of a call changes a file that was there at the start of the run.
LEMMA NobodyMakesStep ==
  ASSUME KeyTypeOK, NobodyMakes, NEW t \in Threads, LoadOrGenerate(t)
  PROVE  NobodyMakes'
  <1> SUFFICES ASSUME old'[1] PROVE files' = old' /\ \A u \in Threads : kst'[u] \in {"start", "load", "ret"}
    BY DEF NobodyMakes
  <1>0. old' = old
    BY DEF LoadOrGenerate, CheckExists, LoadKey, GenerateKey, OpenPrivate, WritePrivate, OpenPublic,
           WritePublic, ClosePublic, ClosePrivate
  <1>1. files = old /\ kst[t] \in {"start", "load", "ret"} /\ privExists
    BY <1>0 DEF NobodyMakes, files
  <1>2. CheckExists(t) \/ LoadKey(t)
    BY <1>1 DEF LoadOrGenerate, GenerateKey, OpenPrivate, WritePrivate, OpenPublic, WritePublic,
                ClosePublic, ClosePrivate, At
  <1>3. kst'[t] \in {"start", "load", "ret"} /\ files' = files /\ \A u \in Threads : u # t => kst'[u] = kst[u]
    BY <1>1, <1>2 DEF CheckExists, LoadKey, Goto, Fails, KeyTypeOK, files
  <1> QED BY <1>0, <1>1, <1>3 DEF NobodyMakes

\* Who stores keeps a key that was made (GenerateKey, LoadKey).
LEMMA KeysStep ==
  ASSUME KeyTypeOK, HasKeyInv, MadeInv, NEW t \in Threads, LoadOrGenerate(t)
  PROVE  HasKeyInv' /\ MadeInv'
  <1>1. CASE CheckExists(t)
    BY <1>1 DEF HasKeyInv, MadeInv, Storing, CheckExists, At, Goto, Fails, files, KeyTypeOK
  <1>2. CASE LoadKey(t)
    BY <1>2 DEF HasKeyInv, MadeInv, Storing, LoadKey, At, Goto, Fails, files, KeyTypeOK
  <1>3. CASE GenerateKey(t)
    BY <1>3 DEF HasKeyInv, MadeInv, Storing, GenerateKey, At, Goto, Fails, files, KeyTypeOK
  <1>4. CASE OpenPrivate(t)
    BY <1>4 DEF HasKeyInv, MadeInv, Storing, OpenPrivate, At, Goto, Fails, files, KeyTypeOK
  <1>5. CASE WritePrivate(t)
    BY <1>5 DEF HasKeyInv, MadeInv, Storing, WritePrivate, At, Goto, Fails, files, KeyTypeOK
  <1>6. CASE OpenPublic(t)
    BY <1>6 DEF HasKeyInv, MadeInv, Storing, OpenPublic, At, Goto, Fails, files, KeyTypeOK
  <1>7. CASE WritePublic(t)
    BY <1>7 DEF HasKeyInv, MadeInv, Storing, WritePublic, At, Goto, Fails, files, KeyTypeOK
  <1>8. CASE ClosePublic(t)
    BY <1>8 DEF HasKeyInv, MadeInv, Storing, ClosePublic, At, Goto, Fails, files, KeyTypeOK
  <1>9. CASE ClosePrivate(t)
    BY <1>9 DEF HasKeyInv, MadeInv, Storing, ClosePrivate, At, Goto, Fails, files, KeyTypeOK
  <1> QED BY <1>1, <1>2, <1>3, <1>4, <1>5, <1>6, <1>7, <1>8, <1>9 DEF LoadOrGenerate

\* A file that is there stays there (OpenPrivate makes it).
LEMMA ExistsStep ==
  ASSUME KeyTypeOK, ExistsInv, HasKeyInv, NEW t \in Threads, LoadOrGenerate(t)
  PROVE  ExistsInv'
  <1>1. CASE CheckExists(t)
    BY <1>1 DEF ExistsInv, HasKeyInv, Storing, CheckExists, At, Goto, Fails, files, KeyTypeOK
  <1>2. CASE LoadKey(t)
    BY <1>2 DEF ExistsInv, HasKeyInv, Storing, LoadKey, At, Goto, Fails, files, KeyTypeOK
  <1>3. CASE GenerateKey(t)
    BY <1>3 DEF ExistsInv, HasKeyInv, Storing, GenerateKey, At, Goto, Fails, files, KeyTypeOK
  <1>4. CASE OpenPrivate(t)
    BY <1>4 DEF ExistsInv, HasKeyInv, Storing, OpenPrivate, At, Goto, Fails, files, KeyTypeOK
  <1>5. CASE WritePrivate(t)
    BY <1>5 DEF ExistsInv, HasKeyInv, Storing, WritePrivate, At, Goto, Fails, files, KeyTypeOK
  <1>6. CASE OpenPublic(t)
    BY <1>6 DEF ExistsInv, HasKeyInv, Storing, OpenPublic, At, Goto, Fails, files, KeyTypeOK
  <1>7. CASE WritePublic(t)
    BY <1>7 DEF ExistsInv, HasKeyInv, Storing, WritePublic, At, Goto, Fails, files, KeyTypeOK
  <1>8. CASE ClosePublic(t)
    BY <1>8 DEF ExistsInv, HasKeyInv, Storing, ClosePublic, At, Goto, Fails, files, KeyTypeOK
  <1>9. CASE ClosePrivate(t)
    BY <1>9 DEF ExistsInv, HasKeyInv, Storing, ClosePrivate, At, Goto, Fails, files, KeyTypeOK
  <1> QED BY <1>1, <1>2, <1>3, <1>4, <1>5, <1>6, <1>7, <1>8, <1>9 DEF LoadOrGenerate

\* A truncated adbkey is owed until it is written (OpenPrivate, WritePrivate, ClosePrivate).
LEMMA PrivateOwedStep ==
  ASSUME KeyTypeOK, HasKeyInv, PrivateOwed, NEW t \in Threads, LoadOrGenerate(t)
  PROVE  PrivateOwed'
  <1>1. CASE CheckExists(t)
    BY <1>1 DEF HasKeyInv, PrivateOwed, OwesPrivate, Storing, CheckExists, At, Goto, Fails, files, KeyTypeOK
  <1>2. CASE LoadKey(t)
    BY <1>2 DEF HasKeyInv, PrivateOwed, OwesPrivate, Storing, LoadKey, At, Goto, Fails, files, KeyTypeOK
  <1>3. CASE GenerateKey(t)
    BY <1>3 DEF HasKeyInv, PrivateOwed, OwesPrivate, Storing, GenerateKey, At, Goto, Fails, files, KeyTypeOK
  <1>4. CASE OpenPrivate(t)
    BY <1>4 DEF HasKeyInv, PrivateOwed, OwesPrivate, Storing, OpenPrivate, At, Goto, Fails, files, KeyTypeOK
  <1>5. CASE WritePrivate(t)
    BY <1>5 DEF HasKeyInv, PrivateOwed, OwesPrivate, Storing, WritePrivate, At, Goto, Fails, files, KeyTypeOK
  <1>6. CASE OpenPublic(t)
    BY <1>6 DEF HasKeyInv, PrivateOwed, OwesPrivate, Storing, OpenPublic, At, Goto, Fails, files, KeyTypeOK
  <1>7. CASE WritePublic(t)
    BY <1>7 DEF HasKeyInv, PrivateOwed, OwesPrivate, Storing, WritePublic, At, Goto, Fails, files, KeyTypeOK
  <1>8. CASE ClosePublic(t)
    BY <1>8 DEF HasKeyInv, PrivateOwed, OwesPrivate, Storing, ClosePublic, At, Goto, Fails, files, KeyTypeOK
  <1>9. CASE ClosePrivate(t)
    BY <1>9 DEF HasKeyInv, PrivateOwed, OwesPrivate, Storing, ClosePrivate, At, Goto, Fails, files, KeyTypeOK
  <1> QED BY <1>1, <1>2, <1>3, <1>4, <1>5, <1>6, <1>7, <1>8, <1>9 DEF LoadOrGenerate

\* The same of adbkey.pub (OpenPublic, WritePublic, ClosePublic).
LEMMA PublicOwedStep ==
  ASSUME KeyTypeOK, HasKeyInv, PublicOwed, NEW t \in Threads, LoadOrGenerate(t)
  PROVE  PublicOwed'
  <1>1. CASE CheckExists(t)
    BY <1>1 DEF HasKeyInv, PublicOwed, OwesPublic, Storing, CheckExists, At, Goto, Fails, files, KeyTypeOK
  <1>2. CASE LoadKey(t)
    BY <1>2 DEF HasKeyInv, PublicOwed, OwesPublic, Storing, LoadKey, At, Goto, Fails, files, KeyTypeOK
  <1>3. CASE GenerateKey(t)
    BY <1>3 DEF HasKeyInv, PublicOwed, OwesPublic, Storing, GenerateKey, At, Goto, Fails, files, KeyTypeOK
  <1>4. CASE OpenPrivate(t)
    BY <1>4 DEF HasKeyInv, PublicOwed, OwesPublic, Storing, OpenPrivate, At, Goto, Fails, files, KeyTypeOK
  <1>5. CASE WritePrivate(t)
    BY <1>5 DEF HasKeyInv, PublicOwed, OwesPublic, Storing, WritePrivate, At, Goto, Fails, files, KeyTypeOK
  <1>6. CASE OpenPublic(t)
    BY <1>6 DEF HasKeyInv, PublicOwed, OwesPublic, Storing, OpenPublic, At, Goto, Fails, files, KeyTypeOK
  <1>7. CASE WritePublic(t)
    BY <1>7 DEF HasKeyInv, PublicOwed, OwesPublic, Storing, WritePublic, At, Goto, Fails, files, KeyTypeOK
  <1>8. CASE ClosePublic(t)
    BY <1>8 DEF HasKeyInv, PublicOwed, OwesPublic, Storing, ClosePublic, At, Goto, Fails, files, KeyTypeOK
  <1>9. CASE ClosePrivate(t)
    BY <1>9 DEF HasKeyInv, PublicOwed, OwesPublic, Storing, ClosePrivate, At, Goto, Fails, files, KeyTypeOK
  <1> QED BY <1>1, <1>2, <1>3, <1>4, <1>5, <1>6, <1>7, <1>8, <1>9 DEF LoadOrGenerate

\* The invariant is inductive (load_or_generate in every thread, run after run).
LEMMA KeyInvInductive == KeyInv /\ [KeyNext]_keyVars => KeyInv'
  <1> SUFFICES ASSUME KeyInv, [KeyNext]_keyVars PROVE KeyInv'
    OBVIOUS
  <1>1. CASE RunAgain
    BY <1>1, RunAgainInv
  <1>2. ASSUME NEW t \in Threads, LoadOrGenerate(t) PROVE KeyInv'
    BY <1>2, TypeStep, NobodyMakesStep, KeysStep, ExistsStep, PrivateOwedStep, PublicOwedStep DEF KeyInv
  <1>3. CASE UNCHANGED keyVars
    BY <1>3 DEF KeyInv, KeyTypeOK, NobodyMakes, PrivateOwed, PublicOwed, HasKeyInv, MadeInv, ExistsInv,
                OwesPrivate, OwesPublic, Storing, keyVars, files
  <1> QED BY <1>1, <1>2, <1>3 DEF KeyNext

\* The invariant holds throughout (KeySpec).
LEMMA KeyInvHolds == KeySpec => []KeyInv
  BY InitInv, KeyInvInductive, PTL DEF KeySpec

-----------------------------------------------------------------------------
\* The types, for any number of threads and runs (load_or_generate).
THEOREM KeyTypeCorrect == KeySpec => []KeyTypeOK
  <1>1. KeyInv => KeyTypeOK
    BY DEF KeyInv
  <1> QED BY <1>1, KeyInvHolds, PTL

\* An adbkey that was there when the program started is never written by it,
\* whatever fails (load_or_generate looks before it generates).
THEOREM KeyNeverReplaced == KeySpec => []KeyUntouched
  <1>1. KeyInv => KeyUntouched
    BY DEF KeyInv, NobodyMakes, KeyUntouched
  <1> QED BY <1>1, KeyInvHolds, PTL

\* Threads that store at the same time leave a whole key behind (the order of
\* truncation, write and close in load_or_generate).
THEOREM StoreLeavesWholeKey == KeySpec => []StoredWhole
  <1>1. KeyInv => StoredWhole
    BY DEF KeyInv, PrivateOwed, StoredWhole, Quiet, Storing, OwesPrivate
  <1> QED BY <1>1, KeyInvHolds, PTL

\* Without a race the key handed out is in both files (load_or_generate).
THEOREM HandedOutKeyIsStored == KeySpec => []HandedOutIsStored
  <1>1. ASSUME KeyInv PROVE HandedOutIsStored
    <2> SUFFICES ASSUME NEW t \in Threads, res[t] = "ok", Quiet, ~damaged, made <= 1
                 PROVE  privKey = key[t] /\ pubKey = key[t]
      BY DEF HandedOutIsStored
    <2>1. privExists /\ key[t] # 0
      BY <1>1 DEF KeyInv, ExistsInv, HasKeyInv
    <2>2. privKey # 0
      BY <1>1, <2>1 DEF KeyInv, PrivateOwed, OwesPrivate, Quiet, Storing
    <2>3. pubKey # 0
      BY <1>1, <2>1 DEF KeyInv, PublicOwed, OwesPublic, Quiet, Storing
    <2> QED BY <1>1, <2>1, <2>2, <2>3 DEF KeyInv, KeyTypeOK, MadeInv
  <1> QED BY <1>1, KeyInvHolds, PTL

=============================================================================
