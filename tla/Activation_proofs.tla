-------------------------- MODULE Activation_proofs --------------------------
(***************************************************************************)
(* Proofs about Activation, for any number of callers, keys, faults,       *)
(* rotations and revocations.                                              *)
(***************************************************************************)
EXTENDS Activation, TLAPS

Call(p) == Begin(p) \/ InCall(p)
Server == NewSigningKey \/ Publish \/ Revoke

-----------------------------------------------------------------------------
(* Types *)

Answers == [KeyIds -> Materials \cup {NoKey}]

\* What is judged is a license, and a fetched key leads to a second attempt only
\* out of the first.
Types ==
  /\ TypeOK
  /\ \A p \in Callers :
       /\ pc[p] # "idle" => attempt[p] # 0
       /\ pc[p] = "judge" => signed[p] \in Keys
       /\ pc[p] \in {"fetch", "merge", "resnap"} => attempt[p] = 1

LEMMA StoreType ==
  ASSUME NEW store
  PROVE  store \in Stores <=> /\ DOMAIN store \subseteq KeyIds
                              /\ store \in [DOMAIN store -> Materials]
  BY DEF Stores

\* MergeKeys adds to the store, and takes nothing but keys of the answer.
LEMMA MergeAdds ==
  ASSUME NEW store \in Stores, NEW answer \in Answers
  PROVE  /\ Merged(store, answer) \in Stores
         /\ DOMAIN store \subseteq DOMAIN Merged(store, answer)
         /\ \A id \in KeyIds :
              answer[id] # NoKey => id \in DOMAIN Merged(store, answer)
         /\ \A id \in DOMAIN Merged(store, answer) :
              \/ answer[id] # NoKey /\ Merged(store, answer)[id] = answer[id]
              \/ id \in DOMAIN store /\ Merged(store, answer)[id] = store[id]
<1> DEFINE usable == {id \in KeyIds : answer[id] # NoKey}
           merged == Merged(store, answer)
<1>1. merged = [id \in DOMAIN store \cup usable |->
                 IF answer[id] # NoKey THEN answer[id] ELSE store[id]]
  BY DEF Merged, Usable, Restrict
<1>2. DOMAIN store \subseteq KeyIds /\ store \in [DOMAIN store -> Materials]
  BY StoreType
<1> HIDE DEF merged
<1>3. DOMAIN merged = DOMAIN store \cup usable /\ DOMAIN merged \subseteq KeyIds
  BY <1>1, <1>2
<1>4. \A id \in DOMAIN merged :
        \/ answer[id] # NoKey /\ merged[id] = answer[id]
        \/ id \in DOMAIN store /\ merged[id] = store[id]
  BY <1>1, <1>2
<1>5. merged \in [DOMAIN merged -> Materials]
  BY <1>1, <1>2, <1>4 DEF Answers
<1>6. merged \in Stores
  BY <1>3, <1>5, StoreType
<1> QED BY <1>3, <1>4, <1>6 DEF merged

LEMMA TypesInit == Init => Types
<1> SUFFICES ASSUME Init PROVE Types
  OBVIOUS
<1> USE ActivationAssumption DEF Init
<1>1. keys \in Stores
  BY StoreType
<1>2. NoStore \in Stores
  BY StoreType DEF NoStore
<1>3. Nothing \in Answers
  BY DEF Nothing, Answers
<1>4. signing \in Keys /\ signing.id \in KeyIds /\ signing.mat \in Materials
  BY DEF Keys
<1>5. published \in Answers
  BY <1>4 DEF Answers
<1>6. offered \subseteq Keys
  BY <1>4 DEF Keys
<1> QED
  BY <1>1, <1>2, <1>3, <1>4, <1>5, <1>6 DEF Types, TypeOK, Phases, Results, Answers

LEMMA TypesStep == Types /\ [Next]_vars => Types'
<1> SUFFICES ASSUME Types, [Next]_vars PROVE Types'
  OBVIOUS
<1> USE ActivationAssumption DEF Types, TypeOK, Phases, Results
<1>1. CASE UNCHANGED vars
  BY <1>1 DEF vars, storeVars, callerVars, serverVars, bounds
<1>2. ASSUME NEW p \in Callers, Call(p)
      PROVE  Types'
  <2> USE DEF Goto, Set, Return, Fault, Issue, storeVars, serverVars, bounds
  <2>1. CASE Begin(p)
    <3>1. Nothing \in [KeyIds -> Materials \cup {NoKey}]
      BY DEF Nothing
    <3> QED BY <2>1, <3>1 DEF Begin
  <2>2. CASE Refresh(p)
    BY <2>2 DEF Refresh
  <2>3. CASE RefreshFails(p)
    BY <2>3 DEF RefreshFails
  <2>4. CASE Activate(p)
    BY <2>4 DEF Activate
  <2>5. CASE ActivateFails(p)
    <3>0. \/ UNCHANGED <<registered, activated>>
          \/ /\ registered' = TRUE
             /\ activated' = [activated EXCEPT ![p] = activated[p] + 1]
      BY <2>5 DEF ActivateFails
    <3>1. activated' \in [Callers -> Nat]
      BY <3>0
    <3>5. registered' \in BOOLEAN
      BY <3>0
    <3>3. pc' = [pc EXCEPT ![p] = "idle"] /\ result' = [result EXCEPT ![p] = "error"]
      BY <2>5 DEF ActivateFails
    <3>4. faults' \in 0..MaxFaults
      BY <2>5 DEF ActivateFails
    <3>2. UNCHANGED <<storeVars, attempt, snap, signed, fetched, revoked, signing,
                      published, offered, newKeys, revokes>>
      BY <2>5 DEF ActivateFails
    <3> QED BY <3>1, <3>2, <3>3, <3>4, <3>5
  <2>6. CASE Judge(p)
    BY <2>6 DEF Judge
  <2>7. CASE Fetch(p)
    BY <2>7 DEF Fetch
  <2>8. CASE FetchFails(p)
    BY <2>8 DEF FetchFails
  <2>9. CASE Merge(p)
    <3>1. Merged(keys, fetched[p]) \in Stores
      BY MergeAdds DEF Answers
    <3> QED BY <2>9, <3>1 DEF Merge
  <2>10. CASE Retry(p)
    BY <2>10 DEF Retry
  <2> QED
    BY <1>2, <2>1, <2>2, <2>3, <2>4, <2>5, <2>6, <2>7, <2>8, <2>9, <2>10
    DEF Call, InCall
<1>3. CASE Server
  <2>1. CASE NewSigningKey
    BY <2>1 DEF NewSigningKey, storeVars, callerVars
  <2>2. CASE Publish
    BY <2>2 DEF Publish, storeVars, callerVars, bounds, Keys
  <2>3. CASE Revoke
    <3>1. revoked' \in [Callers -> Nat]
      BY <2>3 DEF Revoke
    <3>2. revokes' \in 0..MaxRevokes
      BY <2>3 DEF Revoke
    <3> QED BY <2>3, <3>1, <3>2 DEF Revoke, storeVars
  <2> QED BY <1>3, <2>1, <2>2, <2>3 DEF Server
<1> QED BY <1>1, <1>2, <1>3 DEF Next, Call, Server

-----------------------------------------------------------------------------
(* Where keys come from *)

\* Every key in anybody's hand was baked in or published.
KeysOffered ==
  /\ \A id \in DOMAIN keys : [id |-> id, mat |-> keys[id]] \in offered
  /\ \A id \in KeyIds :
       published[id] # NoKey => [id |-> id, mat |-> published[id]] \in offered
  /\ \A p \in Callers :
       /\ \A id \in DOMAIN snap[p] : [id |-> id, mat |-> snap[p][id]] \in offered
       /\ \A id \in KeyIds :
            fetched[p][id] # NoKey => [id |-> id, mat |-> fetched[p][id]] \in offered

\* What a caller fetched reaches the snapshot of its second attempt.
FetchedReaches ==
  \A p \in Callers : \A id \in KeyIds :
    fetched[p][id] # NoKey =>
      /\ pc[p] = "resnap" => id \in DOMAIN keys
      /\ attempt[p] = 2 => id \in DOMAIN snap[p]

\* The server knows the device a caller has activated, until it is revoked.
RegisteredOnce ==
  \A p \in Callers :
    \/ activated[p] <= revoked[p]
    \/ activated[p] = 1 + revoked[p] /\ registered /\ pc[p] # "activate"

ActivationInv ==
  /\ Types /\ KeysOffered /\ FetchedReaches /\ RegisteredOnce
  /\ VerifiedByKnownKey /\ UnknownOnlyIfUnpublished

LEMMA ActivationInit == Init => ActivationInv
<1> SUFFICES ASSUME Init PROVE ActivationInv
  OBVIOUS
<1>1. Types
  BY TypesInit
<1>2. signing = [id |-> signing.id, mat |-> signing.mat]
  BY DEF Init, Keys
<1>3. KeysOffered
  BY <1>2, ActivationAssumption DEF Init, KeysOffered, NoStore, Nothing
<1>4. FetchedReaches /\ RegisteredOnce
  BY DEF Init, FetchedReaches, RegisteredOnce, Nothing
<1>5. VerifiedByKnownKey /\ UnknownOnlyIfUnpublished
  BY DEF Init, VerifiedByKnownKey, UnknownOnlyIfUnpublished
<1> QED BY <1>1, <1>3, <1>4, <1>5 DEF ActivationInv

LEMMA KeysOfferedStep ==
  ASSUME Types, KeysOffered, [Next]_vars
  PROVE  KeysOffered'
<1> USE ActivationAssumption DEF Types, TypeOK, KeysOffered
<1>1. CASE UNCHANGED vars
  BY <1>1 DEF vars, storeVars, callerVars, serverVars
<1>2. ASSUME NEW p \in Callers, Call(p)
      PROVE  KeysOffered'
  <2> USE DEF Set, serverVars, storeVars
  <2>1. CASE Begin(p)
    BY <2>1 DEF Begin, Nothing
  <2>2. CASE Fetch(p)
    BY <2>2 DEF Fetch
  <2>3. CASE Merge(p)
    <3>1. \A id \in DOMAIN keys' :
            \/ fetched[p][id] # NoKey /\ keys'[id] = fetched[p][id]
            \/ id \in DOMAIN keys /\ keys'[id] = keys[id]
      BY <2>3, MergeAdds DEF Merge, Answers
    <3>2. DOMAIN keys' \subseteq KeyIds
      BY <2>3, MergeAdds, StoreType DEF Merge, Answers
    <3>3. UNCHANGED <<snap, fetched, published, offered>>
      BY <2>3 DEF Merge
    <3> QED BY <3>1, <3>2, <3>3
  <2>4. CASE Retry(p)
    BY <2>4 DEF Retry
  <2>5. CASE UNCHANGED <<keys, snap, fetched, published, offered>>
    BY <2>5
  <2> QED
    BY <1>2, <2>1, <2>2, <2>3, <2>4, <2>5
    DEF Call, InCall, Refresh, RefreshFails, Activate, ActivateFails, Judge,
        FetchFails
<1>3. CASE NewSigningKey \/ Revoke
  BY <1>3 DEF NewSigningKey, Revoke, storeVars, callerVars
<1>4. CASE Publish
  <2>1. signing = [id |-> signing.id, mat |-> signing.mat]
    BY DEF Keys
  <2>2. offered \subseteq offered' /\ signing \in offered'
    BY <1>4 DEF Publish
  <2>3. \A id \in KeyIds :
          \/ id = signing.id /\ published'[id] = signing.mat
          \/ published'[id] \in {NoKey, published[id]}
    BY <1>4 DEF Publish
  <2>4. UNCHANGED <<keys, snap, fetched>>
    BY <1>4 DEF Publish, storeVars, callerVars
  <2> QED BY <2>1, <2>2, <2>3, <2>4
<1> QED BY <1>1, <1>2, <1>3, <1>4 DEF Next, Call

LEMMA VerifiedStep ==
  ASSUME Types, KeysOffered, VerifiedByKnownKey, [Next]_vars
  PROVE  VerifiedByKnownKey'
<1> SUFFICES ASSUME NEW q \in Callers,
                    pc'[q] = "idle", result'[q] = "verified"
             PROVE  signed'[q] \in offered'
  BY DEF VerifiedByKnownKey
<1> USE DEF Types, TypeOK
<1>1. offered \subseteq offered'
  BY DEF Next, Begin, InCall, Refresh, RefreshFails, Activate, ActivateFails, Judge,
         Fetch, FetchFails, Merge, Retry, NewSigningKey, Publish, Revoke, vars,
         serverVars
<1>2. CASE pc[q] = "idle" /\ result[q] = "verified" /\ signed'[q] = signed[q]
  BY <1>1, <1>2 DEF VerifiedByKnownKey
<1>3. CASE Judge(q)
  <2>1. /\ signed[q].id \in DOMAIN snap[q] /\ snap[q][signed[q].id] = signed[q].mat
        /\ signed' = signed
    BY <1>3 DEF Judge, Verifies, Return, Set, Goto
  <2>2. signed[q] = [id |-> signed[q].id, mat |-> signed[q].mat]
    BY <1>3 DEF Judge, Keys
  <2>3. [id |-> signed[q].id, mat |-> snap[q][signed[q].id]] \in offered
    BY <2>1 DEF KeysOffered
  <2> QED BY <1>1, <2>1, <2>2, <2>3
<1>4. ASSUME NEW p \in Callers, Call(p), p # q \/ ~Judge(p)
      PROVE  pc[q] = "idle" /\ result[q] = "verified" /\ signed'[q] = signed[q]
  <2> USE DEF Return, Set, Goto, Issue
  <2>1. CASE Begin(p) \/ Refresh(p) \/ RefreshFails(p)
    BY <2>1 DEF Begin, Refresh, RefreshFails
  <2>2. CASE Activate(p) \/ ActivateFails(p)
    BY <2>2 DEF Activate, ActivateFails
  <2>3. CASE Fetch(p) \/ FetchFails(p) \/ Merge(p) \/ Retry(p)
    BY <2>3 DEF Fetch, FetchFails, Merge, Retry
  <2>4. CASE Judge(p) /\ p # q
    BY <2>4 DEF Judge
  <2> QED BY <1>4, <2>1, <2>2, <2>3, <2>4 DEF Call, InCall
<1>5. CASE Server \/ UNCHANGED vars
  BY <1>2, <1>5
  DEF Server, NewSigningKey, Publish, Revoke, vars, callerVars
<1> QED BY <1>2, <1>3, <1>4, <1>5 DEF Next, Call, Server

LEMMA RegisteredStep ==
  ASSUME Types, RegisteredOnce, [Next]_vars
  PROVE  RegisteredOnce'
<1> USE DEF Types, TypeOK, RegisteredOnce
<1>1. CASE UNCHANGED vars
  BY <1>1 DEF vars, callerVars, serverVars
<1>2. ASSUME NEW p \in Callers, Call(p)
      PROVE  RegisteredOnce'
  <2> USE DEF Goto, Set, Return, serverVars
  <2>1. CASE Begin(p)
    BY <2>1 DEF Begin
  <2>2. CASE Refresh(p)
    BY <2>2 DEF Refresh
  <2>3. ASSUME pc[p] = "activate", pc'[p] # "activate", registered' = TRUE,
               activated' = [activated EXCEPT ![p] = activated[p] + 1],
               revoked' = revoked,
               \A q \in Callers \ {p} : pc'[q] = pc[q]
        PROVE  RegisteredOnce'
    <3>1. activated[p] <= revoked[p]
      BY <2>3
    <3>2. activated'[p] <= revoked'[p] \/ activated'[p] = 1 + revoked'[p]
      BY <2>3, <3>1
    <3>3. \A q \in Callers \ {p} : activated'[q] = activated[q]
      BY <2>3
    <3> QED BY <2>3, <3>2, <3>3
  <2>4. CASE Activate(p) \/ ActivateFails(p)
    <3>1. CASE registered' = TRUE /\ activated' = [activated EXCEPT ![p] = activated[p] + 1]
      BY <2>3, <2>4, <3>1 DEF Activate, ActivateFails
    <3>2. CASE UNCHANGED <<registered, activated>>
      BY <2>4, <3>2 DEF Activate, ActivateFails
    <3> QED BY <2>4, <3>1, <3>2 DEF Activate, ActivateFails
  <2>5. CASE RefreshFails(p) \/ Judge(p)
    BY <2>5 DEF RefreshFails, Judge
  <2>6. CASE Fetch(p) \/ FetchFails(p) \/ Merge(p) \/ Retry(p)
    BY <2>6 DEF Fetch, FetchFails, Merge, Retry
  <2> QED BY <1>2, <2>1, <2>2, <2>4, <2>5, <2>6 DEF Call, InCall
<1>3. CASE Revoke
  BY <1>3 DEF Revoke
<1>4. CASE NewSigningKey \/ Publish
  BY <1>4 DEF NewSigningKey, Publish, callerVars
<1> QED BY <1>1, <1>2, <1>3, <1>4 DEF Next, Call

\* A store only grows, so no merge takes away what another caller is about to
\* look up.
LEMMA StoreGrows ==
  ASSUME Types, [Next]_vars
  PROVE  DOMAIN keys \subseteq DOMAIN keys'
<1>1. ASSUME NEW p \in Callers, Merge(p)
      PROVE  DOMAIN keys \subseteq DOMAIN keys'
  BY <1>1, MergeAdds DEF Types, TypeOK, Merge, Answers
<1>2. CASE keys' = keys
  BY <1>2
<1> QED
  BY <1>1, <1>2
  DEF Next, Begin, InCall, Refresh, RefreshFails, Activate, ActivateFails, Judge,
      Fetch, FetchFails, Retry, NewSigningKey, Publish, Revoke, vars, storeVars

LEMMA FetchedStep ==
  ASSUME Types, FetchedReaches, UnknownOnlyIfUnpublished, [Next]_vars
  PROVE  FetchedReaches' /\ UnknownOnlyIfUnpublished'
<1> USE DEF Types, TypeOK
<1> SUFFICES ASSUME NEW q \in Callers
    PROVE  /\ \A id \in KeyIds :
                fetched'[q][id] # NoKey =>
                  /\ pc'[q] = "resnap" => id \in DOMAIN keys'
                  /\ attempt'[q] = 2 => id \in DOMAIN snap'[q]
           /\ pc'[q] = "idle" /\ result'[q] = "unknown_key" =>
                attempt'[q] = 1 \/ fetched'[q][signed'[q].id] = NoKey
  BY DEF FetchedReaches, UnknownOnlyIfUnpublished
<1>0. DOMAIN keys \subseteq DOMAIN keys'
  BY StoreGrows
<1> USE <1>0 DEF FetchedReaches, UnknownOnlyIfUnpublished
<1>1. ASSUME /\ pc'[q] = pc[q] /\ attempt'[q] = attempt[q]
             /\ snap'[q] = snap[q] /\ signed'[q] = signed[q]
             /\ fetched'[q] = fetched[q] /\ result'[q] = result[q]
      PROVE  /\ \A id \in KeyIds :
                  fetched'[q][id] # NoKey =>
                    /\ pc'[q] = "resnap" => id \in DOMAIN keys'
                    /\ attempt'[q] = 2 => id \in DOMAIN snap'[q]
             /\ pc'[q] = "idle" /\ result'[q] = "unknown_key" =>
                  attempt'[q] = 1 \/ fetched'[q][signed'[q].id] = NoKey
  BY <1>1
<1>2. CASE Server \/ UNCHANGED vars
  BY <1>1, <1>2
  DEF Server, NewSigningKey, Publish, Revoke, vars, callerVars
<1> USE DEF Goto, Set, Return, Issue
<1>3. ASSUME NEW p \in Callers \ {q}, Call(p)
      PROVE  /\ pc'[q] = pc[q] /\ attempt'[q] = attempt[q]
             /\ snap'[q] = snap[q] /\ signed'[q] = signed[q]
             /\ fetched'[q] = fetched[q] /\ result'[q] = result[q]
  <2>1. CASE Begin(p) \/ Refresh(p) \/ RefreshFails(p)
    BY <2>1 DEF Begin, Refresh, RefreshFails
  <2>2. CASE Activate(p) \/ ActivateFails(p)
    BY <2>2 DEF Activate, ActivateFails
  <2>3. CASE Judge(p) \/ Fetch(p) \/ FetchFails(p)
    BY <2>3 DEF Judge, Fetch, FetchFails
  <2>4. CASE Merge(p) \/ Retry(p)
    BY <2>4 DEF Merge, Retry
  <2> QED BY <1>3, <2>1, <2>2, <2>3, <2>4 DEF Call, InCall
<1>4. CASE Begin(q)
  BY <1>4 DEF Begin, Nothing
<1>5. CASE Refresh(q) \/ RefreshFails(q)
  BY <1>5 DEF Refresh, RefreshFails
<1>6. CASE Activate(q) \/ ActivateFails(q)
  BY <1>6 DEF Activate, ActivateFails
<1>7. CASE Judge(q)
  <2>1. signed[q].id \in KeyIds
    BY <1>7 DEF Judge, Keys
  <2> QED BY <1>7, <2>1 DEF Judge
<1>8. CASE Fetch(q) \/ FetchFails(q)
  BY <1>8 DEF Fetch, FetchFails
<1>9. CASE Merge(q)
  <2>1. \A id \in KeyIds : fetched[q][id] # NoKey => id \in DOMAIN keys'
    BY <1>9, MergeAdds DEF Merge, Answers
  <2> QED BY <1>9, <2>1 DEF Merge
<1>10. CASE Retry(q)
  BY <1>10 DEF Retry, storeVars
<1> QED
  BY <1>1, <1>2, <1>3, <1>4, <1>5, <1>6, <1>7, <1>8, <1>9, <1>10
  DEF Next, Call, InCall, Server

LEMMA ActivationStep == ActivationInv /\ [Next]_vars => ActivationInv'
  BY TypesStep, KeysOfferedStep, VerifiedStep, RegisteredStep, FetchedStep
  DEF ActivationInv

-----------------------------------------------------------------------------
(* Theorems *)

\* The variables keep their types, for any number of callers and keys.
THEOREM ActivationTypes == Spec => []TypeOK
<1>1. ActivationInv => TypeOK
  BY DEF ActivationInv, Types
<1> QED BY <1>1, ActivationInit, ActivationStep, PTL DEF Spec

\* Whatever fails, rotates or is revoked, no license passes whose key was
\* neither baked in nor published.
THEOREM NoForeignKeyPasses == Spec => []VerifiedByKnownKey
<1>1. ActivationInv => VerifiedByKnownKey
  BY DEF ActivationInv
<1> QED BY <1>1, ActivationInit, ActivationStep, PTL DEF Spec

\* A second attempt fails for an unknown key only if the key was not published.
THEOREM RetrySeesFetchedKeys == Spec => []UnknownOnlyIfUnpublished
<1>1. ActivationInv => UnknownOnlyIfUnpublished
  BY DEF ActivationInv
<1> QED BY <1>1, ActivationInit, ActivationStep, PTL DEF Spec

\* Each call registers the device at most once, and once more for each time it is
\* revoked during the call, whatever the other callers do.  Two calls that are
\* both told that the device is unknown may register it twice between them.
THEOREM ActivatesOnce == Spec => []OneActivation
<1>1. ActivationInv => OneActivation
  BY DEF ActivationInv, Types, TypeOK, RegisteredOnce, OneActivation
<1> QED BY <1>1, ActivationInit, ActivationStep, PTL DEF Spec

\* The store forgets no key_id.
THEOREM StoreForgetsNothing == Spec => KeysKept
<1>1. ActivationInv /\ [Next]_vars => [DOMAIN keys \subseteq DOMAIN keys']_vars
  BY StoreGrows DEF ActivationInv
<1> QED BY <1>1, ActivationInit, ActivationStep, PTL DEF Spec, KeysKept
=============================================================================
