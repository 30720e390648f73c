------------------------------ MODULE KeyStore ------------------------------
(***************************************************************************)
(* desktop.KeyStore.LoadOrCreate (src/desktop/keystore.go) run again and   *)
(* again by the instances of an application, over the OS keychain and the  *)
(* optional debug file, with crashes and with the errors that the code     *)
(* ignores.  A key is worth something only as long as it stays the same:   *)
(* what was sealed with one key cannot be read with another.               *)
(***************************************************************************)
EXTENDS Naturals, FiniteSets

CONSTANTS
  Instances,       \* processes that call LoadOrCreate
  Keys,            \* the keys GenerateKey returns, each of them once
  Nil,             \* no entry, no file
  Bad,             \* an entry or a file that decodeKey rejects
  Setups,          \* the devices considered: is DebugFilePath set, what fails
  MaxFaults        \* bound on the errors of the backend that fails

ASSUME KeyStoreAssumption ==
  /\ Setups \subseteq [hasFile : BOOLEAN, flaky : {"nothing", "keyring", "file"}]
  /\ MaxFaults \in Nat
  /\ Nil \notin Keys /\ Bad \notin Keys /\ Nil # Bad

VARIABLES
  setup,      \* the device, which does not change
  keyring,    \* the keychain entry
  file,       \* the debug file
  pc,         \* where each instance is in LoadOrCreate
  key,        \* its local key
  generated,  \* keys generated so far
  returned,   \* (history) keys LoadOrCreate has returned
  faults      \* errors so far

vars == <<setup, keyring, file, pc, key, generated, returned, faults>>

HasFile == setup.hasFile

TypeOK ==
  /\ setup \in Setups
  /\ {keyring, file} \subseteq Keys \cup {Nil, Bad}
  /\ pc \in [Instances -> {"down", "file", "get", "mirror", "create", "set",
                           "fallback", "refill", "write", "fill", "failed"}]
  /\ key \in [Instances -> Keys \cup {Nil}]
  /\ returned \subseteq generated /\ generated \subseteq Keys
  /\ faults \in 0..MaxFaults

Init ==
  /\ setup \in Setups
  /\ keyring \in {Nil, Bad} /\ file \in {Nil, Bad}
  /\ pc = [i \in Instances |-> "down"]
  /\ key = [i \in Instances |-> Nil]
  /\ generated = {} /\ returned = {}
  /\ faults = 0

Goto(i, phase) == pc' = [pc EXCEPT ![i] = phase]
Fault(backend) ==
  /\ setup.flaky = backend
  /\ faults < MaxFaults /\ faults' = faults + 1

\* LoadOrCreate returns k; the application works with it until it ends.
Return(i, k) ==
  /\ Goto(i, "down")
  /\ key' = [key EXCEPT ![i] = Nil]
  /\ returned' = returned \cup {k}

-----------------------------------------------------------------------------
Call(i) ==
  /\ pc[i] = "down"
  /\ Goto(i, "file")
  /\ UNCHANGED <<setup, keyring, file, key, generated, returned, faults>>

\* The debug file comes first, if it is there and decodes.
ReadFile(i) ==
  /\ pc[i] = "file"
  /\ IF HasFile /\ file \in Keys
     THEN Return(i, file)
     ELSE Goto(i, "get") /\ UNCHANGED <<key, returned>>
  /\ UNCHANGED <<setup, keyring, file, generated, faults>>

ReadFileFails(i) ==
  /\ HasFile /\ pc[i] = "file" /\ Fault("file")
  /\ Goto(i, "get")
  /\ UNCHANGED <<setup, keyring, file, key, generated, returned>>

\* Faulty variant: an entry that does not decode is replaced.
GetReplacing(i) ==
  /\ pc[i] = "get"
  /\ Goto(i, "create")
  /\ UNCHANGED <<setup, keyring, file, key, generated, returned, faults>>

\* Faulty variant: whatever the entry is, it is used as the key.
GetUndecoded(i) ==
  /\ pc[i] = "get" /\ keyring # Nil
  /\ Goto(i, "mirror")
  /\ key' = [key EXCEPT ![i] = keyring]
  /\ UNCHANGED <<setup, keyring, file, generated, returned, faults>>

\* An entry that does not decode is an error; no entry means a first run.
Get(i) ==
  /\ pc[i] = "get"
  /\ IF keyring \in Keys
     THEN Goto(i, "mirror") /\ key' = [key EXCEPT ![i] = keyring]
     ELSE Goto(i, IF keyring = Bad THEN "failed" ELSE "create") /\ UNCHANGED key
  /\ UNCHANGED <<setup, keyring, file, generated, returned, faults>>

\* So does an error of the keychain.
GetFails(i) ==
  /\ pc[i] = "get" /\ Fault("keyring")
  /\ Goto(i, "create")
  /\ UNCHANGED <<setup, keyring, file, key, generated, returned>>

Generate(i) ==
  /\ pc[i] = "create"
  /\ \E k \in Keys \ generated :
       /\ generated' = generated \cup {k}
       /\ key' = [key EXCEPT ![i] = k]
  /\ Goto(i, "set")
  /\ UNCHANGED <<setup, keyring, file, returned, faults>>

\* Faulty variant: the key is mirrored to the debug file only.
SetForgotten(i) ==
  /\ pc[i] = "set"
  /\ Goto(i, "write")
  /\ UNCHANGED <<setup, keyring, file, key, generated, returned, faults>>

Set(i) ==
  /\ pc[i] = "set"
  /\ keyring' = key[i]
  /\ Goto(i, "write")
  /\ UNCHANGED <<setup, file, key, generated, returned, faults>>

\* The debug file is then written here, and once more below.
SetFails(i) ==
  /\ pc[i] = "set" /\ Fault("keyring")
  /\ Goto(i, "fallback")
  /\ UNCHANGED <<setup, keyring, file, key, generated, returned>>

\* Where LoadOrCreate calls writeDebugFile, whose error it ignores.
Mirroring(i) == pc[i] \in {"mirror", "fallback", "write"}

\* writeDebugFile returns: to the second call of it, or to the return of the key.
Mirrored(i) ==
  IF pc[i] \in {"fallback", "refill"}
  THEN Goto(i, "write") /\ UNCHANGED <<key, returned>>
  ELSE Return(i, key[i])

\* Without a debug file there is nothing to write.
NoFile(i) ==
  /\ Mirroring(i) /\ ~HasFile
  /\ Mirrored(i)
  /\ UNCHANGED <<setup, keyring, file, generated, faults>>

\* os.WriteFile empties the file before it writes it.
Truncate(i) ==
  /\ Mirroring(i) /\ HasFile
  /\ file' = Bad
  /\ Goto(i, IF pc[i] = "fallback" THEN "refill" ELSE "fill")
  /\ UNCHANGED <<setup, keyring, key, generated, returned, faults>>

Write(i) ==
  /\ pc[i] \in {"refill", "fill"}
  /\ file' = key[i]
  /\ Mirrored(i)
  /\ UNCHANGED <<setup, keyring, generated, faults>>

\* The directory or the file cannot be made, or the disk is full.
WriteFails(i) ==
  /\ HasFile /\ (Mirroring(i) \/ pc[i] \in {"refill", "fill"})
  /\ Fault("file")
  /\ Mirrored(i)
  /\ UNCHANGED <<setup, keyring, file, generated>>

\* The process dies, or gives up on the error LoadOrCreate returned.
Crash(i) ==
  /\ pc[i] # "down"
  /\ Goto(i, "down")
  /\ key' = [key EXCEPT ![i] = Nil]
  /\ UNCHANGED <<setup, keyring, file, generated, returned, faults>>

Next ==
  \E i \in Instances :
    \/ Call(i) \/ ReadFile(i) \/ ReadFileFails(i) \/ Get(i) \/ GetFails(i)
    \/ Generate(i) \/ Set(i) \/ SetFails(i)
    \/ NoFile(i) \/ Truncate(i) \/ Write(i) \/ WriteFails(i) \/ Crash(i)

Spec == Init /\ [][Next]_vars

-----------------------------------------------------------------------------
(* Properties *)

\* The key is long-lived (keystore.go:11-13): every LoadOrCreate returns the
\* same key, through crashes and through the failure of one of the backends.
KeyStable == \A k, l \in returned : k = l

\* Until LoadOrCreate has returned a key, one instance runs at a time; from then on any
\* number of them do.
FirstRunAlone ==
  returned = {} =>
    \A i, j \in Instances : pc[i] # "down" /\ pc[j] # "down" => i = j

\* The key is as long-lived for instances that run at the same time, once the first of
\* them has its key (keystore.go:11-13, 23-50).
KeyShared == []FirstRunAlone => []KeyStable

\* A keychain entry that is not a key is never overwritten by a new one while
\* the keychain answers (keystore.go:32-38).
BadEntryKept ==
  [][setup.flaky # "keyring" /\ keyring = Bad => keyring' = Bad]_vars
=============================================================================
