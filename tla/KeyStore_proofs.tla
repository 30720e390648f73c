--------------------------- MODULE KeyStore_proofs ---------------------------
(***************************************************************************)
(* Proofs about KeyStore, for any number of instances, keys and faults: on *)
(* a device with a debug file, or whose keychain answers, they all get the *)
(* key that the first of them got.                                         *)
(***************************************************************************)
EXTENDS KeyStore, TLAPS

\* Where LoadOrCreate holds a key.
Holding(i) ==
  pc[i] \in {"mirror", "set", "fallback", "refill", "write", "fill"}

\* Nobody has a key that was not generated.
KeyTypes ==
  /\ TypeOK
  /\ {keyring, file} \subseteq generated \cup {Nil, Bad}
  /\ \A i \in Instances : Holding(i) => key[i] \in generated

LEMMA KeyTypesInit == Init => KeyTypes
  BY KeyStoreAssumption DEF Init, KeyTypes, TypeOK, Holding

LEMMA KeyTypesStep == KeyTypes /\ [Next]_vars => KeyTypes'
<1> SUFFICES ASSUME KeyTypes, [Next]_vars PROVE KeyTypes'
  OBVIOUS
<1> USE KeyStoreAssumption DEF KeyTypes, TypeOK, Holding
<1>1. CASE UNCHANGED vars
  BY <1>1 DEF vars
<1>2. ASSUME NEW i \in Instances,
             Call(i) \/ ReadFile(i) \/ ReadFileFails(i) \/ Get(i) \/ GetFails(i)
               \/ Generate(i) \/ Set(i) \/ SetFails(i) \/ NoFile(i)
               \/ Truncate(i) \/ Write(i) \/ WriteFails(i) \/ Crash(i)
      PROVE  KeyTypes'
  <2> USE DEF Goto, Return, Fault
  <2>1. CASE Call(i)
    BY <2>1 DEF Call
  <2>2. CASE ReadFile(i)
    BY <2>2 DEF ReadFile
  <2>3. CASE ReadFileFails(i)
    BY <2>3 DEF ReadFileFails
  <2>4. CASE Get(i)
    BY <2>4 DEF Get
  <2>5. CASE GetFails(i)
    BY <2>5 DEF GetFails
  <2>6. CASE Generate(i)
    BY <2>6 DEF Generate
  <2>7. CASE Set(i)
    BY <2>7 DEF Set
  <2>8. CASE SetFails(i)
    BY <2>8 DEF SetFails
  <2>9. CASE NoFile(i)
    BY <2>9 DEF NoFile, Mirroring, Mirrored
  <2>10. CASE Truncate(i)
    BY <2>10 DEF Truncate, Mirroring
  <2>11. CASE Write(i)
    BY <2>11 DEF Write, Mirrored
  <2>12. CASE WriteFails(i)
    BY <2>12 DEF WriteFails, Mirroring, Mirrored
  <2>13. CASE Crash(i)
    BY <2>13 DEF Crash
  <2> QED
    BY <1>2, <2>1, <2>2, <2>3, <2>4, <2>5, <2>6, <2>7, <2>8, <2>9, <2>10, <2>11,
       <2>12, <2>13
<1> QED BY <1>1, <1>2 DEF Next

\* The variables keep their types, for any number of instances.
THEOREM KeyStoreTypes == Spec => []TypeOK
<1>1. KeyTypes => TypeOK
  BY DEF KeyTypes
<1> QED BY <1>1, KeyTypesInit, KeyTypesStep, PTL DEF Spec

-----------------------------------------------------------------------------
(* Any number of instances, on any device *)

\* While the keychain answers, nobody creates a key over an entry that is not one.
NoneReplaces ==
  setup.flaky # "keyring" /\ keyring = Bad =>
    \A i \in Instances : pc[i] \notin {"create", "set"}

LEMMA NoneReplacesStep ==
  KeyTypes /\ NoneReplaces /\ [Next]_vars
    => NoneReplaces' /\ (setup.flaky # "keyring" /\ keyring = Bad => keyring' = Bad)
<1> SUFFICES ASSUME KeyTypes, NoneReplaces, [Next]_vars
             PROVE  /\ NoneReplaces'
                    /\ setup.flaky # "keyring" /\ keyring = Bad => keyring' = Bad
  OBVIOUS
<1> USE KeyStoreAssumption DEF KeyTypes, TypeOK, NoneReplaces, Holding, Goto, Return
<1>1. ASSUME NEW i \in Instances, Set(i)
      PROVE  NoneReplaces' /\ (setup.flaky # "keyring" => keyring # Bad)
  BY <1>1 DEF Set
<1>2. ASSUME NEW i \in Instances,
             Get(i) \/ GetFails(i) \/ Generate(i)
      PROVE  NoneReplaces' /\ keyring' = keyring
  BY <1>2 DEF Get, GetFails, Generate, Fault
<1>3. ASSUME NEW i \in Instances,
             Call(i) \/ ReadFile(i) \/ ReadFileFails(i) \/ SetFails(i) \/ NoFile(i)
               \/ Truncate(i) \/ Write(i) \/ WriteFails(i) \/ Crash(i)
      PROVE  NoneReplaces' /\ keyring' = keyring
  BY <1>3 DEF Call, ReadFile, ReadFileFails, SetFails, NoFile, Mirroring, Mirrored, Truncate,
     Write, WriteFails, Crash
<1>4. CASE UNCHANGED vars
  BY <1>4 DEF vars
<1> QED BY <1>1, <1>2, <1>3, <1>4 DEF Next

\* An entry that is not a key is left alone, on every device whose keychain answers and
\* however many instances run at once.
THEOREM BadEntryStays == Spec => BadEntryKept
<1>1. Init => NoneReplaces
  BY DEF Init, NoneReplaces
<1>2. KeyTypes /\ NoneReplaces /\ [Next]_vars
        => [setup.flaky # "keyring" /\ keyring = Bad => keyring' = Bad]_vars
  BY NoneReplacesStep
<1> QED
  BY <1>1, <1>2, KeyTypesInit, KeyTypesStep, NoneReplacesStep, PTL DEF Spec, BadEntryKept

-----------------------------------------------------------------------------
(* A first run on its own, on a device that can keep a key *)

\* The device has a debug file, or a keychain that answers.
CanKeep == \A d \in Setups : d.hasFile \/ d.flaky # "keyring"

\* With a keychain that answers, its entry is the key once there is one, and no
\* key is returned before.
KeychainKeeps ==
  setup.flaky # "keyring" =>
    IF keyring \in Keys THEN
      /\ file \in {Nil, Bad, keyring} /\ returned \subseteq {keyring}
      /\ \A i \in Instances :
           /\ pc[i] \notin {"create", "set", "fallback", "refill"}
           /\ Holding(i) => key[i] = keyring
    ELSE
      /\ file \in {Nil, Bad} /\ returned = {}
      /\ \A i \in Instances :
           /\ pc[i] \in {"down", "file", "get", "create", "set", "failed"}
           /\ pc[i] \in {"create", "set"} => keyring = Nil

\* Without, the debug file is, once a key was returned: nobody goes on to the
\* keychain any more.
FileKeeps ==
  setup.flaky = "keyring" /\ returned # {} =>
    /\ file \in Keys /\ returned = {file}
    /\ \A i \in Instances : pc[i] \in {"down", "file"}

KeyInv == KeyTypes /\ KeychainKeeps /\ FileKeeps

LEMMA KeyInvInit == Init => KeyInv
  BY KeyTypesInit, KeyStoreAssumption DEF Init, KeyInv, KeychainKeeps, FileKeeps

LEMMA KeyInvStep ==
  ASSUME FirstRunAlone, CanKeep, KeyInv, [Next]_vars
  PROVE  KeyInv'
<1> USE KeyStoreAssumption DEF KeyTypes, TypeOK
<1>1. KeyTypes'
  BY KeyTypesStep DEF KeyInv
<1>2. CASE UNCHANGED vars
  BY <1>1, <1>2 DEF vars, KeyInv, KeychainKeeps, FileKeeps, Holding
<1>3. ASSUME NEW i \in Instances,
             Call(i) \/ ReadFile(i) \/ ReadFileFails(i) \/ Get(i) \/ GetFails(i)
               \/ Generate(i) \/ Set(i) \/ SetFails(i) \/ NoFile(i)
               \/ Truncate(i) \/ Write(i) \/ WriteFails(i) \/ Crash(i)
      PROVE  KeychainKeeps' /\ FileKeeps'
  <2>0. /\ returned = {} /\ pc[i] # "down" => \A j \in Instances \ {i} : pc[j] = "down"
        /\ setup' = setup
        /\ setup.hasFile \/ setup.flaky # "keyring"
    BY <1>3
    DEF FirstRunAlone, CanKeep, KeyInv, Call, ReadFile, ReadFileFails, Get, GetFails, Generate,
        Set, SetFails, NoFile, Truncate, Write, WriteFails, Crash
  <2> USE <2>0 DEF KeyInv, KeychainKeeps, FileKeeps, Holding, Goto, Return, Fault,
                   HasFile
  <2>1. CASE Call(i)
    BY <2>1 DEF Call
  <2>2. CASE ReadFile(i)
    BY <2>2 DEF ReadFile
  <2>3. CASE ReadFileFails(i)
    BY <2>3 DEF ReadFileFails
  <2>4. CASE Get(i)
    BY <2>4 DEF Get
  <2>5. CASE GetFails(i)
    BY <2>5 DEF GetFails
  <2>6. CASE Generate(i)
    BY <2>6 DEF Generate
  <2>7. CASE Set(i)
    BY <2>7 DEF Set
  <2>8. CASE SetFails(i)
    BY <2>8 DEF SetFails
  <2>9. CASE NoFile(i)
    BY <2>9 DEF NoFile, Mirroring, Mirrored
  <2>10. CASE Truncate(i)
    BY <2>10 DEF Truncate, Mirroring
  <2>11. CASE Write(i)
    BY <2>11 DEF Write, Mirrored
  <2>12. CASE WriteFails(i)
    BY <2>12 DEF WriteFails, Mirroring, Mirrored
  <2>13. CASE Crash(i)
    BY <2>13 DEF Crash
  <2> QED
    BY <1>3, <2>1, <2>2, <2>3, <2>4, <2>5, <2>6, <2>7, <2>8, <2>9, <2>10, <2>11,
       <2>12, <2>13
<1> QED BY <1>1, <1>2, <1>3 DEF Next, KeyInv

\* However often the application starts, crashes and starts again, and however many
\* instances of it run at once after the first key, it always gets the same key, unless
\* it has no debug file and its keychain fails.
THEOREM KeyNeverChanges ==
  CanKeep => (Spec => KeyShared)
<1> SUFFICES ASSUME CanKeep PROVE Spec => KeyShared
  OBVIOUS
<1>1. FirstRunAlone /\ KeyInv /\ [Next]_vars => KeyInv'
  BY KeyInvStep
<1>2. KeyInv => KeyStable
  BY DEF KeyInv, KeyTypes, TypeOK, KeychainKeeps, FileKeeps, KeyStable
<1> QED BY KeyInvInit, <1>1, <1>2, PTL DEF Spec, KeyShared

\* An application that never runs twice at the same time needs no more.
OneAtATime == \A i, j \in Instances : i = j

THEOREM OneInstanceKeepsItsKey ==
  OneAtATime /\ CanKeep => (Spec => []KeyStable)
<1> SUFFICES ASSUME OneAtATime, CanKeep PROVE Spec => []KeyStable
  OBVIOUS
<1>1. FirstRunAlone
  BY DEF OneAtATime, FirstRunAlone
<1> QED BY <1>1, KeyNeverChanges, PTL DEF KeyShared
=============================================================================
