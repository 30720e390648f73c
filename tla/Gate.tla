-------------------------------- MODULE Gate --------------------------------
(***************************************************************************)
(* gate.Gate (src/gate/gate.go) under an application that uses it as       *)
(* docs/31-gate.md shows: several goroutines ask Check for one metered     *)
(* feature, use it when allowed, and then bump the local counter; now and  *)
(* then the usage is synchronised, which replaces the stored snapshot and  *)
(* takes the synchronised uses off the counter.                            *)
(*                                                                         *)
(* Check holds g.mu while it calls Loader, Now and LocalConsumption, but   *)
(* what those read - the store, the clock and the counter - is not behind  *)
(* that mutex, so Check is three steps between which they may change.      *)
(***************************************************************************)
EXTENDS License, FiniteSets

CONSTANTS
  Callers,       \* goroutines that call Check
  Feature,       \* the feature they ask for
  Snapshots,     \* the snapshots the store may hold at first, or Nil
  GraceWindow,   \* Options.GraceWindow
  MaxTime,       \* bound on the clock
  MaxUses,       \* bound on the uses made
  MaxSyncs,      \* bound on the synchronisations
  MaxFaults      \* bound on the errors of Loader and LocalConsumption

ASSUME GateAssumption ==
  /\ GraceWindow \in Int
  /\ {MaxTime, MaxUses, MaxSyncs, MaxFaults} \subseteq Nat
  /\ Nil \notin Callers

VARIABLES
  hasLoader, \* Options.Loader is set, for good
  now,      \* Options.Now
  stored,   \* the snapshot Loader reads, Nil when there is none
  local,    \* the counter LocalConsumption reads
  synced,   \* uses in the stored snapshot that are still on the counter
  mu,       \* the caller that holds g.mu, or Nil
  pc,       \* where each caller is
  loaded,   \* Check's payload
  access,   \* the FeatureAccess each caller's Check builds and returns
  seen,     \* (history) what a Check read: snapshot, time, counter, synced
  used,     \* (history) uses made
  first,    \* (history) the snapshot stored at first
  syncs,    \* synchronisations so far
  faults    \* errors so far

appVars == <<hasLoader, stored, local, synced, used, first, syncs>>
vars == <<now, appVars, mu, pc, loaded, access, seen, faults>>

NoAccess == [allowed |-> FALSE, hasFeature |-> FALSE, unlimited |-> FALSE,
             remaining |-> 0, reasonKind |-> "", state |-> "none"]

Init ==
  /\ hasLoader \in BOOLEAN
  /\ now = 0
  /\ stored \in Snapshots /\ first = stored
  /\ local = 0 /\ synced = 0 /\ used = 0 /\ syncs = 0 /\ faults = 0
  /\ mu = Nil
  /\ pc = [c \in Callers |-> "idle"]
  /\ loaded = [c \in Callers |-> Nil]
  /\ access = [c \in Callers |-> NoAccess]
  /\ seen = [c \in Callers |-> [payload |-> Nil, now |-> 0, consumed |-> 0,
                               synced |-> 0]]

Goto(c, phase) == pc' = [pc EXCEPT ![c] = phase]
Set(c, a) == access' = [access EXCEPT ![c] = a]
Deny(a, reason) == [a EXCEPT !.reasonKind = reason]

\* Check returns, and the deferred Unlock runs.
Return(c, a) ==
  /\ Set(c, a)
  /\ Goto(c, IF a.allowed THEN "allowed" ELSE "denied")
  /\ mu' = Nil
  /\ loaded' = [loaded EXCEPT ![c] = Nil]

-----------------------------------------------------------------------------
(* Check *)

\* Without a Loader the mutex is not even taken.
CheckNoLoader(c) ==
  /\ pc[c] = "idle" /\ ~hasLoader
  /\ Set(c, Deny(NoAccess, "no_loader"))
  /\ Goto(c, "denied")
  /\ UNCHANGED <<now, appVars, mu, loaded, seen, faults>>

Call(c) ==
  /\ pc[c] = "idle" /\ hasLoader
  /\ Goto(c, "lock")
  /\ UNCHANGED <<now, appVars, mu, loaded, access, seen, faults>>

\* g.mu.Lock() and the call of Loader.
Load(c) ==
  /\ pc[c] = "lock" /\ mu = Nil
  /\ IF stored = Nil
     THEN Return(c, Deny(NoAccess, "no_license"))
     ELSE /\ mu' = c
          /\ loaded' = [loaded EXCEPT ![c] = stored]
          /\ Goto(c, "judge")
          /\ Set(c, NoAccess)
  /\ UNCHANGED <<now, appVars, seen, faults>>

\* Faulty variant: the error return leaves the mutex locked.
LoadFailsLocked(c) ==
  /\ pc[c] = "lock" /\ mu = Nil /\ faults < MaxFaults
  /\ faults' = faults + 1
  /\ mu' = c
  /\ Set(c, Deny(NoAccess, "verify_failed"))
  /\ Goto(c, "denied")
  /\ UNCHANGED <<now, appVars, loaded, seen>>

LoadFails(c) ==
  /\ pc[c] = "lock" /\ mu = Nil /\ faults < MaxFaults
  /\ faults' = faults + 1
  /\ Return(c, Deny(NoAccess, "verify_failed"))
  /\ UNCHANGED <<now, appVars, seen>>

\* Faulty variant: an invalid license is not turned away.
JudgeExpiredOnly(c) ==
  LET state == ComputeState(loaded[c], GraceWindow, now)
      a == [access[c] EXCEPT !.state = state]
  IN /\ pc[c] = "judge"
     /\ IF state = "expired" THEN Return(c, Deny(a, "license_expired"))
        ELSE Set(c, a) /\ Goto(c, "count") /\ UNCHANGED <<mu, loaded>>
     /\ seen' = [seen EXCEPT ![c] = [payload |-> loaded[c], now |-> now,
                                  consumed |-> 0, synced |-> 0]]
     /\ UNCHANGED <<now, appVars, faults>>

\* The clock is read, and the state and the feature flag are judged by it.
Judge(c) ==
  LET payload == loaded[c]
      state == ComputeState(payload, GraceWindow, now)
      a == [access[c] EXCEPT !.state = state]
      flagged == Feature \in DOMAIN payload.features
  IN /\ pc[c] = "judge"
     /\ IF state = "expired" THEN Return(c, Deny(a, "license_expired"))
        ELSE IF state = "invalid" THEN Return(c, Deny(a, "license_invalid"))
        ELSE IF flagged /\ ~payload.features[Feature]
        THEN Return(c, Deny(a, "feature_disabled"))
        ELSE /\ Set(c, [a EXCEPT !.hasFeature = flagged])
             /\ Goto(c, "count")
             /\ UNCHANGED <<mu, loaded>>
     /\ seen' = [seen EXCEPT ![c] = [payload |-> loaded[c], now |-> now,
                                  consumed |-> 0, synced |-> 0]]
     /\ UNCHANGED <<now, appVars, faults>>

CountFails(c) ==
  /\ pc[c] = "count" /\ faults < MaxFaults
  /\ faults' = faults + 1
  /\ Return(c, Deny(access[c], "local_consumption_failed"))
  /\ UNCHANGED <<now, appVars, seen>>

\* Faulty variant: nothing remaining still allows one more use.
CountOneMore(c) ==
  LET r == ComputeRemaining(loaded[c], Feature, local)
      a == [access[c] EXCEPT !.unlimited = r.unlimited, !.remaining = r.remaining,
                             !.allowed = TRUE, !.hasFeature = TRUE]
  IN /\ pc[c] = "count" /\ r.known
     /\ Return(c, a)
     /\ seen' = [seen EXCEPT ![c].consumed = local, ![c].synced = synced]
     /\ UNCHANGED <<now, appVars, faults>>

\* Faulty variant: the last remaining use is denied.
CountOneLess(c) ==
  LET r == ComputeRemaining(loaded[c], Feature, local)
      a == [access[c] EXCEPT !.unlimited = r.unlimited, !.remaining = r.remaining]
  IN /\ pc[c] = "count" /\ r.known
     /\ Return(c, IF r.unlimited \/ r.remaining > 1
                  THEN [a EXCEPT !.allowed = TRUE, !.hasFeature = TRUE]
                  ELSE Deny(a, "limit_reached"))
     /\ seen' = [seen EXCEPT ![c].consumed = local, ![c].synced = synced]
     /\ UNCHANGED <<now, appVars, faults>>

\* LocalConsumption is called, and the decision made.
Count(c) ==
  LET r == ComputeRemaining(loaded[c], Feature, local)
      a == [access[c] EXCEPT !.unlimited = r.unlimited, !.remaining = r.remaining]
  IN /\ pc[c] = "count"
     /\ \/ /\ ~r.known /\ a.hasFeature
           /\ Return(c, [a EXCEPT !.allowed = TRUE, !.unlimited = TRUE])
        \/ /\ ~r.known /\ ~a.hasFeature
           /\ Return(c, Deny(a, "feature_missing"))
        \/ /\ r.known /\ (r.unlimited \/ r.remaining > 0)
           /\ Return(c, [a EXCEPT !.allowed = TRUE, !.hasFeature = TRUE])
        \/ /\ r.known /\ ~r.unlimited /\ r.remaining = 0
           /\ Return(c, Deny(a, "limit_reached"))
     /\ seen' = [seen EXCEPT ![c].consumed = local, ![c].synced = synced]
     /\ UNCHANGED <<now, appVars, faults>>

-----------------------------------------------------------------------------
(* The application *)

\* An allowed caller uses the feature and bumps the counter.
Use(c) ==
  /\ pc[c] = "allowed" /\ used < MaxUses
  /\ used' = used + 1
  /\ local' = local + 1
  /\ Goto(c, "idle")
  /\ UNCHANGED <<hasLoader, now, stored, synced, first, syncs, mu, loaded, access, seen,
                 faults>>

\* A denied caller does without the feature, and may ask again.
GiveUp(c) ==
  /\ pc[c] = "denied"
  /\ Goto(c, "idle")
  /\ UNCHANGED <<now, appVars, mu, loaded, access, seen, faults>>

\* A synchronisation stores a snapshot that accounts for the uses so far (only a
\* counter's does: no other meter looks at consumedAtIssue) ...
StoreSynced ==
  /\ stored # Nil /\ synced = 0 /\ local > 0 /\ syncs < MaxSyncs
  /\ Feature \in DOMAIN stored.usage /\ stored.usage[Feature].type = "counter"
  /\ stored' = [stored EXCEPT !.usage[Feature].consumedAtIssue = @ + local]
  /\ synced' = local
  /\ syncs' = syncs + 1
  /\ UNCHANGED <<hasLoader, now, local, used, first, mu, pc, loaded, access, seen, faults>>

\* ... and then takes them off the counter.
TakeOff ==
  /\ synced > 0
  /\ local' = local - synced
  /\ synced' = 0
  /\ UNCHANGED <<hasLoader, now, stored, used, first, syncs, mu, pc, loaded, access, seen,
                 faults>>

Tick ==
  /\ now < MaxTime
  /\ now' = now + 1
  /\ UNCHANGED <<appVars, mu, pc, loaded, access, seen, faults>>

-----------------------------------------------------------------------------
InCheck(c) == Load(c) \/ LoadFails(c) \/ Judge(c) \/ Count(c) \/ CountFails(c)

Next ==
  \/ \E c \in Callers : CheckNoLoader(c) \/ Call(c) \/ InCheck(c) \/ Use(c) \/ GiveUp(c)
  \/ StoreSynced \/ TakeOff \/ Tick

Spec == Init /\ [][Next]_vars

\* A Check that can go on does.  sync.Mutex hands itself to a waiter that has
\* waited for a millisecond, so a waiting Lock succeeds in the end.
Fairness ==
  \A c \in Callers : /\ WF_vars(InCheck(c))
                     /\ SF_vars(Load(c))

FairSpec == Spec /\ Fairness

-----------------------------------------------------------------------------
(* Properties *)

Reasons == {"", "no_loader", "no_license", "verify_failed", "license_expired",
            "license_invalid", "feature_disabled", "feature_missing",
            "limit_reached", "local_consumption_failed"}

TypeOK ==
  /\ now \in 0..MaxTime /\ faults \in 0..MaxFaults
  /\ used \in Nat /\ local \in Nat /\ synced \in 0..local /\ syncs \in 0..MaxSyncs
  /\ mu \in Callers \cup {Nil}
  /\ pc \in [Callers -> {"idle", "lock", "judge", "count", "allowed", "denied"}]
  /\ \A c \in Callers :
       /\ access[c].reasonKind \in Reasons
       /\ access[c].remaining \in 0..MaxUint64
       /\ loaded[c] # Nil <=> pc[c] \in {"judge", "count"}
       /\ mu = c <=> pc[c] \in {"judge", "count"}

\* The uses granted so far: those made, and those a caller is about to make.
Granted == used + Cardinality({c \in Callers : pc[c] = "allowed"})

\* The uses there were to grant when the first snapshot was issued.
Quota ==
  IF first = Nil \/ Feature \notin DOMAIN first.usage THEN MaxUint64
  ELSE LET m == first.usage[Feature]
       IN CASE m.type = "bool" -> IF m.enabled THEN MaxUint64 ELSE 0
            [] m.type = "count" -> IF m.limit = Nil THEN MaxUint64 ELSE m.limit
            [] m.type = "counter" ->
                 IF m.consumedAtIssue < m.allowance
                 THEN m.allowance - m.consumedAtIssue ELSE 0
            [] OTHER -> MaxUint64

\* A meter is overdrawn by no more than what the gap between a Check and the
\* bump that follows it explains: one use for every other caller, and a single
\* one for a synchronisation that slips between a Check's Loader and its
\* LocalConsumption, however many there are (gate.go:95-155).
OverdraftBounded ==
  Granted <= Quota + (Cardinality(Callers) - 1) + (IF syncs = 0 THEN 0 ELSE 1)

\* A decision follows the rules of docs/31-gate.md:152-165 on the snapshot,
\* the time and the counter that Check read, though it read them apart.
DecisionFollowsRules ==
  \A c \in Callers :
    LET a == access[c]
        s == seen[c]
        flag == IF Feature \in DOMAIN s.payload.features
                THEN s.payload.features[Feature] ELSE Nil
        r == ComputeRemaining(s.payload, Feature, s.consumed)
    IN pc[c] \in {"allowed", "denied"} /\ a.state # "none"
       /\ a.reasonKind # "local_consumption_failed" =>
         (a.allowed <=>
            /\ ComputeState(s.payload, GraceWindow, s.now) \in {"active", "trialing", "grace"}
            /\ flag # FALSE
            /\ IF r.known THEN r.remaining > 0 ELSE flag = TRUE)

\* A limit is reported as reached only when it is: the uses made, those in the
\* middle of a synchronisation counted twice, fill what there was to grant.
DenialHonest ==
  \A c \in Callers :
    pc[c] = "denied" /\ access[c].reasonKind = "limit_reached" =>
      used + seen[c].synced >= Quota

\* Every Check returns: no path out of it keeps the mutex (gate.go:95-96).
CheckReturns == \A c \in Callers : (pc[c] = "lock") ~> (pc[c] \in {"allowed", "denied"})
=============================================================================
