------------------------------- MODULE AdbKey -------------------------------
(***************************************************************************)
(* The host's key store: Key::load_or_generate (src/crypto/adb_key.cpp),   *)
(* called by every thread of a program that drives several devices         *)
(* (examples/multi, examples/demo_multi), in one run after another.        *)
(*                                                                         *)
(* A key is a number, 0 is none: a file with key 0 does not hold a whole   *)
(* key.  The two ofstreams write when they like, at write or when they are *)
(* closed, which is after the checks; nothing locks the files.             *)
(***************************************************************************)
EXTENDS Naturals

CONSTANTS
  Threads,      \* the threads of the program, one per device
  MaxRuns,      \* bound: runs of the program
  Faults        \* which of "crash", "io" and "crypto" may happen

ASSUME KeyAssumption == MaxRuns \in Nat /\ Faults \subseteq {"crash", "io", "crypto"}

VARIABLES
  kst,          \* where each thread's call stands
  key,          \* the key it has
  buffered,     \* the streams, "adbkey" and "pub", whose data is not written yet
  res,          \* "none", "ok" or an ErrorCode
  privExists, privKey,   \* adbkey
  pubKey,       \* adbkey.pub
  old,          \* the two files when this run began
  made,         \* keys generated so far
  damaged,      \* a store was cut off: a crash, or a write that failed
  run           \* this run of the program

files   == <<privExists, privKey, pubKey>>
keyVars == <<kst, key, buffered, res, files, old, made, damaged, run>>

Storing(t) == kst[t] \in {"write", "openpub", "writepub", "closepub", "closepriv"}
Quiet      == \A t \in Threads : ~Storing(t)

-----------------------------------------------------------------------------
At(t, st)   == kst[t] = st
Goto(t, st) == kst' = [kst EXCEPT ![t] = st]

\* The call returns an error.
Fails(t, e) == Goto(t, "ret") /\ res' = [res EXCEPT ![t] = e]

\* key_directory, and whether adbkey exists.
CheckExists(t) ==
  /\ At(t, "start")
  /\ \/ Goto(t, IF privExists THEN "load" ELSE "generate") /\ UNCHANGED res
     \/ "io" \in Faults /\ Fails(t, "Io")
  /\ UNCHANGED <<key, buffered, files, old, made, damaged, run>>

\* Mutant: a key that cannot be loaded is replaced.
LoadOrReplace(t) ==
  /\ At(t, "load")
  /\ \/ /\ privKey # 0
        /\ key' = [key EXCEPT ![t] = privKey]
        /\ Goto(t, "ret") /\ res' = [res EXCEPT ![t] = "ok"]
     \/ privKey = 0 /\ Goto(t, "generate") /\ UNCHANGED <<key, res>>
  /\ UNCHANGED <<buffered, files, old, made, damaged, run>>

\* mbedtls_pk_parse_keyfile refuses a file without a whole key.
LoadKey(t) ==
  /\ At(t, "load")
  /\ \/ /\ privKey # 0
        /\ key' = [key EXCEPT ![t] = privKey]
        /\ Goto(t, "ret") /\ res' = [res EXCEPT ![t] = "ok"]
     \/ privKey = 0 /\ Fails(t, "Crypto") /\ UNCHANGED key
     \/ "crypto" \in Faults /\ Fails(t, "Crypto") /\ UNCHANGED key
  /\ UNCHANGED <<buffered, files, old, made, damaged, run>>

\* generate, create_directories and the PEM, none of which touches a file.
GenerateKey(t) ==
  /\ At(t, "generate")
  /\ \/ /\ made' = made + 1
        /\ key' = [key EXCEPT ![t] = made + 1]
        /\ Goto(t, "open") /\ UNCHANGED res
     \/ "crypto" \in Faults /\ Fails(t, "Crypto") /\ UNCHANGED <<key, made>>
     \/ "io" \in Faults /\ Fails(t, "Io") /\ UNCHANGED <<key, made>>
  /\ UNCHANGED <<buffered, files, old, damaged, run>>

\* The ofstream truncates adbkey, whoever made it in the meantime.
OpenPrivate(t) ==
  /\ At(t, "open")
  /\ \/ /\ privExists' = TRUE /\ privKey' = 0
        /\ Goto(t, "write") /\ UNCHANGED res
     \/ "io" \in Faults /\ Fails(t, "Io") /\ UNCHANGED <<privExists, privKey>>
  /\ UNCHANGED <<key, buffered, pubKey, old, made, damaged, run>>

\* The PEM is written, stays in the stream's buffer, or the write fails.
WritePrivate(t) ==
  /\ At(t, "write")
  /\ \/ /\ privKey' = key[t] /\ Goto(t, "openpub")
        /\ UNCHANGED <<buffered, res, damaged>>
     \/ /\ buffered' = [buffered EXCEPT ![t] = @ \cup {"adbkey"}] /\ Goto(t, "openpub")
        /\ UNCHANGED <<privKey, res, damaged>>
     \/ /\ "io" \in Faults /\ damaged' = TRUE
        /\ res' = [res EXCEPT ![t] = "Io"] /\ Goto(t, "closepriv")
        /\ UNCHANGED <<privKey, buffered>>
  /\ UNCHANGED <<key, privExists, pubKey, old, made, run>>

OpenPublic(t) ==
  /\ At(t, "openpub")
  /\ \/ pubKey' = 0 /\ Goto(t, "writepub") /\ UNCHANGED <<res, damaged>>
     \/ /\ "io" \in Faults /\ damaged' = TRUE
        /\ res' = [res EXCEPT ![t] = "Io"] /\ Goto(t, "closepriv")
        /\ UNCHANGED pubKey
  /\ UNCHANGED <<key, buffered, privExists, privKey, old, made, run>>

\* The public key; the call has its result, and the streams are still open.
WritePublic(t) ==
  /\ At(t, "writepub")
  /\ Goto(t, "closepub")
  /\ \/ /\ pubKey' = key[t] /\ res' = [res EXCEPT ![t] = "ok"]
        /\ UNCHANGED <<buffered, damaged>>
     \/ /\ buffered' = [buffered EXCEPT ![t] = @ \cup {"pub"}] /\ res' = [res EXCEPT ![t] = "ok"]
        /\ UNCHANGED <<pubKey, damaged>>
     \/ /\ "io" \in Faults /\ damaged' = TRUE /\ res' = [res EXCEPT ![t] = "Io"]
        /\ UNCHANGED <<pubKey, buffered>>
  /\ UNCHANGED <<key, privExists, privKey, old, made, run>>

\* Mutant: the public stream is never flushed.
PublicUnflushed(t) ==
  /\ At(t, "closepub")
  /\ Goto(t, "closepriv")
  /\ buffered' = [buffered EXCEPT ![t] = @ \ {"pub"}]
  /\ UNCHANGED <<key, res, files, old, made, damaged, run>>

\* The destructors, the public one first: what is buffered goes to its file, or is
\* lost and nobody is told.
ClosePublic(t) ==
  /\ At(t, "closepub")
  /\ Goto(t, "closepriv")
  /\ \/ pubKey' = (IF "pub" \in buffered[t] THEN key[t] ELSE pubKey) /\ UNCHANGED damaged
     \/ "io" \in Faults /\ "pub" \in buffered[t] /\ damaged' = TRUE /\ UNCHANGED pubKey
  /\ buffered' = [buffered EXCEPT ![t] = @ \ {"pub"}]
  /\ UNCHANGED <<key, res, privExists, privKey, old, made, run>>

\* Mutant: the private stream is never flushed.
CloseUnflushed(t) ==
  /\ At(t, "closepriv")
  /\ Goto(t, "ret")
  /\ buffered' = [buffered EXCEPT ![t] = {}]
  /\ UNCHANGED <<key, res, files, old, made, damaged, run>>

ClosePrivate(t) ==
  /\ At(t, "closepriv")
  /\ Goto(t, "ret")
  /\ \/ privKey' = (IF "adbkey" \in buffered[t] THEN key[t] ELSE privKey) /\ UNCHANGED damaged
     \/ "io" \in Faults /\ "adbkey" \in buffered[t] /\ damaged' = TRUE /\ UNCHANGED privKey
  /\ buffered' = [buffered EXCEPT ![t] = {}]
  /\ UNCHANGED <<key, res, privExists, pubKey, old, made, run>>

LoadOrGenerate(t) ==
  \/ CheckExists(t) \/ LoadKey(t) \/ GenerateKey(t) \/ OpenPrivate(t) \/ WritePrivate(t)
  \/ OpenPublic(t) \/ WritePublic(t) \/ ClosePublic(t) \/ ClosePrivate(t)

\* The program is run again: it had ended, or it crashed, and then what its
\* streams still held is lost.
RunAgain ==
  /\ run < MaxRuns
  /\ (\A t \in Threads : At(t, "ret")) \/ "crash" \in Faults
  /\ kst' = [t \in Threads |-> "start"]
  /\ key' = [t \in Threads |-> 0]
  /\ buffered' = [t \in Threads |-> {}]
  /\ res' = [t \in Threads |-> "none"]
  /\ old' = files
  /\ damaged' = (damaged \/ ~Quiet)
  /\ run' = run + 1
  /\ UNCHANGED <<files, made>>

-----------------------------------------------------------------------------
\* adb may have left its key, key 1.
KeyInit ==
  /\ kst = [t \in Threads |-> "start"]
  /\ key = [t \in Threads |-> 0]
  /\ buffered = [t \in Threads |-> {}]
  /\ res = [t \in Threads |-> "none"]
  /\ privExists \in BOOLEAN /\ privKey = (IF privExists THEN 1 ELSE 0)
  /\ pubKey = privKey /\ made = privKey
  /\ old = files
  /\ damaged = FALSE /\ run = 1

KeyNext == RunAgain \/ \E t \in Threads : LoadOrGenerate(t)

KeySpec == KeyInit /\ [][KeyNext]_keyVars

-----------------------------------------------------------------------------
(* Properties.                                                              *)

\* Type invariant of the module.
KeyTypeOK ==
  /\ kst \in [Threads -> {"start", "load", "generate", "open", "write", "openpub", "writepub",
                          "closepub", "closepriv", "ret"}]
  /\ key \in [Threads -> Nat]
  /\ buffered \in [Threads -> SUBSET {"adbkey", "pub"}]
  /\ res \in [Threads -> {"none", "ok", "Io", "Crypto"}]
  /\ privExists \in BOOLEAN /\ privKey \in Nat /\ pubKey \in Nat
  /\ old \in BOOLEAN \X Nat \X Nat
  /\ made \in Nat /\ damaged \in BOOLEAN /\ run \in Nat

\* The key a user has authorized is never lost: when adbkey is there at the start
\* of a run, neither file changes in that run, whatever the threads do and however
\* it ends (load_or_generate: exists before it generates).
KeyUntouched == old[1] => files = old

\* Once nobody is storing, adbkey holds a whole key if it is there at all, unless a
\* store was cut off: any number of threads that truncate and write it at the
\* same time leave a whole key behind (load_or_generate, its two ofstreams).
StoredWhole == Quiet /\ ~damaged /\ privExists => privKey # 0

\* Without a race, that is when one key was made, the key handed out is the one
\* the next run and adb will find, in both files (load_or_generate).
HandedOutIsStored ==
  \A t \in Threads : res[t] = "ok" /\ Quiet /\ ~damaged /\ made <= 1 =>
    privKey = key[t] /\ pubKey = key[t]

=============================================================================
