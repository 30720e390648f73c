----------------------------- MODULE Activation -----------------------------
(***************************************************************************)
(* src/desktop/license.go and publickeys.go: a caller asks the server for  *)
(* its device's license (Refresh; Activate when the device is not known),  *)
(* looks the signing key up in a snapshot of the key store and verifies    *)
(* the signature; with the key unknown it fetches the published keys,      *)
(* merges them into the store and tries once more.  Several callers share  *)
(* one store and one device; the server changes its signing key and the    *)
(* user revokes the device at any time.                                    *)
(*                                                                         *)
(* A key is [id, mat]: a key_id and its material.  A signature verifies    *)
(* against the material that made it and no other.                         *)
(***************************************************************************)
EXTENDS Naturals, Functions

CONSTANTS
  Callers,     \* goroutines in ActivateOrRefreshWithKeys
  KeyIds,      \* the server's key_ids
  Materials,   \* public keys
  Baked,       \* the keys the store is seeded with, a function on key_ids
  NoKey,       \* no key: the entries MergeKeys skips, and no license
  MaxFaults,   \* bound on failed requests
  MaxKeys,     \* bound on the server's changes of its signing key
  MaxRevokes   \* bound on the device's revocations

ASSUME ActivationAssumption ==
  /\ NoKey \notin Materials
  /\ DOMAIN Baked \subseteq KeyIds
  /\ Baked \in [DOMAIN Baked -> Materials]
  /\ {MaxFaults, MaxKeys, MaxRevokes} \subseteq Nat

VARIABLES
  keys,       \* PublicKeyStore.keys
  pc,         \* where a caller is
  attempt,    \* its calls of ActivateOrRefresh so far
  snap,       \* the key snapshot that call was given
  signed,     \* the license it has received
  fetched,    \* the published keys it has received
  activated,  \* (history) the Activate requests the server took from its call
  revoked,    \* (history) revocations during its call
  result,     \* how its last call ended
  signing,    \* the server's signing key
  published,  \* the server's published keys, a function on all KeyIds
  offered,    \* (history) the keys baked into the store or ever published
  registered, \* the server knows the device
  faults, newKeys, revokes

storeVars  == <<keys>>
callerVars == <<pc, attempt, snap, signed, fetched, activated, revoked, result>>
serverVars == <<signing, published, offered, registered>>
bounds     == <<faults, newKeys, revokes>>
vars == <<storeVars, callerVars, serverVars, bounds>>

Keys   == [id : KeyIds, mat : Materials]
Phases == {"idle", "refresh", "activate", "judge", "fetch", "merge", "resnap"}
Results == {"none", "verified", "bad_signature", "unknown_key", "error"}
Stores == UNION {[D -> Materials] : D \in SUBSET KeyIds}
NoStore == [id \in {} |-> NoKey]

TypeOK ==
  /\ keys \in Stores
  /\ pc \in [Callers -> Phases]
  /\ attempt \in [Callers -> 0..2]
  /\ snap \in [Callers -> Stores]
  /\ signed \in [Callers -> Keys \cup {NoKey}]
  /\ fetched \in [Callers -> [KeyIds -> Materials \cup {NoKey}]]
  /\ activated \in [Callers -> Nat] /\ revoked \in [Callers -> Nat]
  /\ result \in [Callers -> Results]
  /\ signing \in Keys
  /\ published \in [KeyIds -> Materials \cup {NoKey}]
  /\ offered \subseteq Keys
  /\ registered \in BOOLEAN
  /\ faults \in 0..MaxFaults /\ newKeys \in 0..MaxKeys /\ revokes \in 0..MaxRevokes

Nothing == [id \in KeyIds |-> NoKey]

Init ==
  /\ keys = Baked
  /\ pc = [p \in Callers |-> "idle"]
  /\ attempt = [p \in Callers |-> 0]
  /\ snap = [p \in Callers |-> NoStore]
  /\ signed = [p \in Callers |-> NoKey]
  /\ fetched = [p \in Callers |-> Nothing]
  /\ activated = [p \in Callers |-> 0]
  /\ revoked = [p \in Callers |-> 0]
  /\ result = [p \in Callers |-> "none"]
  /\ signing \in Keys
  /\ published = [id \in KeyIds |-> IF id = signing.id THEN signing.mat ELSE NoKey]
  /\ offered = {signing} \cup {[id |-> id, mat |-> Baked[id]] : id \in DOMAIN Baked}
  /\ registered \in BOOLEAN
  /\ faults = 0 /\ newKeys = 0 /\ revokes = 0

-----------------------------------------------------------------------------
(* Helpers *)

Goto(p, phase) == pc' = [pc EXCEPT ![p] = phase]
Set(f, p, v) == [f EXCEPT ![p] = v]

Return(p, r) ==
  /\ Goto(p, "idle")
  /\ result' = Set(result, p, r)

\* The entries MergeKeys takes of an answer.
Usable(answer) == Restrict(answer, {id \in KeyIds : answer[id] # NoKey})

\* Faulty variant: empty entries are merged too.
MergedUnfiltered(store, answer) ==
  [id \in KeyIds |-> answer[id]]

\* A map with the entries of answer added or replaced.
Merged(store, answer) ==
  [id \in DOMAIN store \cup DOMAIN Usable(answer) |->
     IF answer[id] # NoKey THEN answer[id] ELSE store[id]]

\* Do returns an error other than a 404: no connection, no answer in time, a
\* status of 400 or more, an answer that does not decode.
Fault == faults < MaxFaults /\ faults' = faults + 1

\* Refresh and Activate answer with a license under the current signing key.
Issue(p) == signed' = Set(signed, p, signing)

\* Verify and Decode of the license, with the key found in the snapshot.
Verifies(p) == snap[p][signed[p].id] = signed[p].mat

-----------------------------------------------------------------------------
(* ActivateOrRefreshWithKeys *)

\* The first attempt: Snapshot, then ActivateOrRefresh.
Begin(p) ==
  /\ pc[p] = "idle"
  /\ snap' = Set(snap, p, keys)
  /\ attempt' = Set(attempt, p, 1)
  /\ signed' = Set(signed, p, NoKey)
  /\ fetched' = Set(fetched, p, Nothing)
  /\ activated' = Set(activated, p, 0)
  /\ revoked' = Set(revoked, p, 0)
  /\ Goto(p, "refresh")
  /\ UNCHANGED <<storeVars, result, serverVars, bounds>>

\* The server answers Refresh: a license, or 404 for a device it does not know.
Refresh(p) ==
  /\ pc[p] = "refresh"
  /\ \/ registered /\ Issue(p) /\ Goto(p, "judge")
     \/ ~registered /\ Goto(p, "activate") /\ UNCHANGED signed
  /\ UNCHANGED <<storeVars, attempt, snap, fetched, activated, revoked, result,
                 serverVars, bounds>>

\* Faulty variant: any error of Refresh leads to Activate.
RefreshFailsActivating(p) ==
  /\ pc[p] = "refresh" /\ Fault
  /\ Goto(p, "activate")
  /\ UNCHANGED <<storeVars, attempt, snap, signed, fetched, activated, revoked,
                 result, serverVars, newKeys, revokes>>

\* Any other error of Refresh is returned.
RefreshFails(p) ==
  /\ pc[p] = "refresh" /\ Fault
  /\ Return(p, "error")
  /\ UNCHANGED <<storeVars, attempt, snap, signed, fetched, activated, revoked,
                 serverVars, newKeys, revokes>>

Activate(p) ==
  /\ pc[p] = "activate"
  /\ registered' = TRUE
  /\ activated' = Set(activated, p, activated[p] + 1)
  /\ Issue(p)
  /\ Goto(p, "judge")
  /\ UNCHANGED <<storeVars, attempt, snap, fetched, revoked, result, signing,
                 published, offered, bounds>>

\* Activate fails: refused (no slot is left), or its answer is lost.
ActivateFails(p) ==
  /\ pc[p] = "activate" /\ Fault
  /\ \/ UNCHANGED <<registered, activated>>
     \/ registered' = TRUE /\ activated' = Set(activated, p, activated[p] + 1)
  /\ Return(p, "error")
  /\ UNCHANGED <<storeVars, attempt, snap, signed, fetched, revoked, signing,
                 published, offered, newKeys, revokes>>

\* Faulty variant: a known key_id is enough.
JudgeById(p) ==
  /\ pc[p] = "judge"
  /\ \/ /\ signed[p].id \in DOMAIN snap[p]
        /\ Return(p, "verified")
     \/ /\ signed[p].id \notin DOMAIN snap[p]
        /\ IF attempt[p] = 1 THEN Goto(p, "fetch") /\ UNCHANGED result
                             ELSE Return(p, "unknown_key")
  /\ UNCHANGED <<storeVars, attempt, snap, signed, fetched, activated, revoked,
                 serverVars, bounds>>

\* The lookup, Verify and Decode.  A signature that does not verify is final;
\* an unknown key_id is final the second time.
Judge(p) ==
  /\ pc[p] = "judge"
  /\ \/ /\ signed[p].id \in DOMAIN snap[p]
        /\ Return(p, IF Verifies(p) THEN "verified" ELSE "bad_signature")
     \/ /\ signed[p].id \notin DOMAIN snap[p]
        /\ IF attempt[p] = 1 THEN Goto(p, "fetch") /\ UNCHANGED result
                             ELSE Return(p, "unknown_key")
  /\ UNCHANGED <<storeVars, attempt, snap, signed, fetched, activated, revoked,
                 serverVars, bounds>>

\* PublicKeys.
Fetch(p) ==
  /\ pc[p] = "fetch"
  /\ fetched' = Set(fetched, p, published)
  /\ Goto(p, "merge")
  /\ UNCHANGED <<storeVars, attempt, snap, signed, activated, revoked, result,
                 serverVars, bounds>>

\* PublicKeys fails: the first error is returned, not this one.
FetchFails(p) ==
  /\ pc[p] = "fetch" /\ Fault
  /\ Return(p, "unknown_key")
  /\ UNCHANGED <<storeVars, attempt, snap, signed, fetched, activated, revoked,
                 serverVars, newKeys, revokes>>

\* Faulty variant: the answer replaces what the store held.
MergeReplacing(p) ==
  /\ pc[p] = "merge"
  /\ keys' = Usable(fetched[p])
  /\ Goto(p, "resnap")
  /\ UNCHANGED <<attempt, snap, signed, fetched, activated, revoked, result,
                 serverVars, bounds>>

\* MergeKeys, under the store's lock.
Merge(p) ==
  /\ pc[p] = "merge"
  /\ keys' = Merged(keys, fetched[p])
  /\ Goto(p, "resnap")
  /\ UNCHANGED <<attempt, snap, signed, fetched, activated, revoked, result,
                 serverVars, bounds>>

\* Faulty variant: the second attempt is given the first one's snapshot.
RetryStale(p) ==
  /\ pc[p] = "resnap"
  /\ attempt' = Set(attempt, p, 2)
  /\ Goto(p, "refresh")
  /\ UNCHANGED <<storeVars, snap, signed, fetched, activated, revoked, result,
                 serverVars, bounds>>

\* The second attempt: a new Snapshot, then all of ActivateOrRefresh again.
Retry(p) ==
  /\ pc[p] = "resnap"
  /\ snap' = Set(snap, p, keys)
  /\ attempt' = Set(attempt, p, 2)
  /\ Goto(p, "refresh")
  /\ UNCHANGED <<storeVars, signed, fetched, activated, revoked, result,
                 serverVars, bounds>>

-----------------------------------------------------------------------------
(* Environment *)

\* The server signs with another key from now on, and publishes it later.
NewSigningKey ==
  /\ newKeys < MaxKeys /\ newKeys' = newKeys + 1
  /\ \E k \in Keys \ {signing} : signing' = k
  /\ UNCHANGED <<storeVars, callerVars, published, offered, registered, faults,
                 revokes>>

\* The published keys catch up with the signing key; old ones may be dropped.
Publish ==
  /\ published' \in
       {[published EXCEPT ![signing.id] = signing.mat],
        [id \in KeyIds |-> IF id = signing.id THEN signing.mat ELSE NoKey]}
  /\ offered' = offered \cup {signing}
  /\ UNCHANGED <<storeVars, callerVars, signing, registered, bounds>>

\* devices.Revoke, from anywhere.
Revoke ==
  /\ registered /\ revokes < MaxRevokes
  /\ registered' = FALSE /\ revokes' = revokes + 1
  /\ revoked' = [p \in Callers |-> revoked[p] + 1]
  /\ UNCHANGED <<storeVars, pc, attempt, snap, signed, fetched, activated,
                 result, signing, published, offered, faults, newKeys>>

InCall(p) ==
  \/ Refresh(p) \/ RefreshFails(p) \/ Activate(p) \/ ActivateFails(p)
  \/ Judge(p) \/ Fetch(p) \/ FetchFails(p) \/ Merge(p) \/ Retry(p)

Next ==
  \/ \E p \in Callers : Begin(p) \/ InCall(p)
  \/ NewSigningKey \/ Publish \/ Revoke

Spec == Init /\ [][Next]_vars

-----------------------------------------------------------------------------
(* Properties *)

\* A caller is told the key is unknown only if the keys could not be fetched
\* or the answer did not hold the key: what it fetched is in the snapshot of
\* its second attempt, whatever others merge (publickeys.go:84-89).
UnknownOnlyIfUnpublished ==
  \A p \in Callers :
    pc[p] = "idle" /\ result[p] = "unknown_key" =>
      \/ attempt[p] = 1
      \/ fetched[p][signed[p].id] = NoKey

\* A store never forgets a key_id, so no caller's merge takes away the key of
\* a license another caller is about to verify (publickeys.go:57-66).
KeysKept == [][DOMAIN keys \subseteq DOMAIN keys']_vars

\* A license is called verified only if the key that signed it was baked into
\* the store or published for that key_id: through rotations, merges and
\* retries no other key passes (license.go:48-60, publickeys.go:79-90).
VerifiedByKnownKey ==
  \A p \in Callers :
    pc[p] = "idle" /\ result[p] = "verified" => signed[p] \in offered

\* One call makes the server register the device once, and once more for each
\* time it is revoked meanwhile: the retry refreshes what the first attempt
\* activated (license.go:30-42, publickeys.go:89).  It counts by call: two calls
\* that are both told that the device is unknown both register it.
OneActivation == \A p \in Callers : activated[p] <= 1 + revoked[p]
=============================================================================
