----------------------------- MODULE Gate_proofs -----------------------------
(***************************************************************************)
(* Proofs about Gate, for any number of callers, uses and synchronisations *)
(* and any meter, or none: what a decision follows from, when the limit is *)
(* reported as reached, and how far a meter can be overdrawn.              *)
(***************************************************************************)
EXTENDS Gate, FiniteSetTheorems, TLAPS

\* A meter of any type, known to ComputeRemaining or not, with fields of any value.
Meters ==
  [type : STRING, enabled : BOOLEAN, limit : 0..MaxUint64 \cup {Nil},
   allowance : 0..MaxUint64, consumedAtIssue : Nat]

Payloads ==
  [validUntil : Int \cup {Nil, Bad}, trialPlan : BOOLEAN,
   features : UNION {[D -> BOOLEAN] : D \in SUBSET {Feature, "__trial"}},
   usage : UNION {[D -> Meters] : D \in SUBSET {Feature}}]

Metered(p) == Feature \in DOMAIN p.usage
Meter(p) == p.usage[Feature]
Known(p) == Metered(p) /\ Meter(p).type \in {"bool", "count", "counter"}
Counted(p) == Metered(p) /\ Meter(p).type = "counter"

\* What a known meter allows, and what of it was used when the snapshot was issued.
Limit(p) ==
  IF Meter(p).type = "bool" THEN IF Meter(p).enabled THEN MaxUint64 ELSE 0
  ELSE IF Meter(p).type = "count"
       THEN IF Meter(p).limit = Nil THEN MaxUint64 ELSE Meter(p).limit
       ELSE Meter(p).allowance
Level(p) == IF Counted(p) THEN Meter(p).consumedAtIssue ELSE 0

\* The snapshots are what a license decodes to.
SnapshotsTyped ==
  /\ Nil \notin Payloads \cup BOOLEAN
  /\ \A s \in Snapshots \ {Nil} : s \in Payloads

\* Nobody uses the feature 2^63 times, and no counter is about to wrap when it is issued.
CountersFit ==
  /\ IsFiniteSet(Callers) /\ Callers # {} /\ SnapshotsTyped
  /\ 2 * MaxUses + 1 < Word
  /\ \A s \in Snapshots \ {Nil} : Level(s) + 2 * MaxUses + 1 < Word

LEMMA MeterType ==
  ASSUME NEW p \in Payloads, Metered(p)
  PROVE  Meter(p) \in Meters
<1>1. PICK D \in SUBSET {Feature} : p.usage \in [D -> Meters]
  BY DEF Payloads
<1> QED BY <1>1 DEF Metered, Meter

LEMMA LevelType == ASSUME NEW p \in Payloads PROVE Level(p) \in Nat
  BY MeterType DEF Level, Counted, Meters

LEMMA LimitType == ASSUME NEW p \in Payloads, Metered(p) PROVE Limit(p) \in 0..MaxUint64
<1>1. Meter(p) \in Meters
  BY MeterType
<1>2. MaxUint64 \in Nat
  BY LicenseAssumption DEF MaxUint64
<1> QED BY <1>1, <1>2 DEF Limit, Meters

\* Two snapshots with the same meter, which may have been used in between.
SameMeter(p, q) ==
  /\ Metered(p) <=> Metered(q)
  /\ Metered(p) => /\ Meter(p).type = Meter(q).type
                   /\ Meter(p).enabled = Meter(q).enabled
                   /\ Meter(p).limit = Meter(q).limit
                   /\ Meter(p).allowance = Meter(q).allowance

LEMMA SameLimit ==
  ASSUME NEW p, NEW q, SameMeter(p, q)
  PROVE  /\ SameMeter(q, p) /\ (Known(p) <=> Known(q)) /\ (Counted(p) <=> Counted(q))
         /\ Known(p) => Limit(p) = Limit(q)
  BY DEF SameMeter, Known, Counted, Limit

LEMMA SameTransitive ==
  ASSUME NEW p, NEW q, NEW r, SameMeter(p, q), SameMeter(q, r) PROVE SameMeter(p, r)
  BY DEF SameMeter

\* What a synchronisation makes of the stored snapshot.
LEMMA SyncedPayload ==
  ASSUME NEW p \in Payloads, Counted(p), NEW n \in Nat, NEW q,
         q = [p EXCEPT !.usage[Feature].consumedAtIssue = @ + n]
  PROVE  q \in Payloads /\ SameMeter(q, p) /\ Level(q) = Level(p) + n
<1>1. PICK D \in SUBSET {Feature} : p.usage \in [D -> Meters]
  BY DEF Payloads
<1> DEFINE m == [p.usage[Feature] EXCEPT
                   !.consumedAtIssue = p.usage[Feature].consumedAtIssue + n]
           u == [p.usage EXCEPT ![Feature] = m]
<1>2. Feature \in D /\ p.usage[Feature] \in Meters /\ p.usage[Feature].type = "counter"
  BY <1>1 DEF Counted, Metered, Meter
<1>3. /\ m \in Meters /\ m.allowance = p.usage[Feature].allowance
      /\ m.type = p.usage[Feature].type /\ m.enabled = p.usage[Feature].enabled
      /\ m.limit = p.usage[Feature].limit
      /\ m.consumedAtIssue = p.usage[Feature].consumedAtIssue + n
  BY <1>2 DEF Meters
<1> HIDE DEF m
<1>4. u \in [D -> Meters] /\ u[Feature] = m /\ DOMAIN u = D
  BY <1>1, <1>2, <1>3
<1>5. q = [p EXCEPT !.usage = u]
  BY DEF m
<1> HIDE DEF u
<1>6. q \in Payloads /\ q.usage = u
  BY <1>1, <1>4, <1>5 DEF Payloads
<1>7. Metered(q) /\ Metered(p) /\ Meter(q) = m /\ Meter(p) = p.usage[Feature]
  BY <1>1, <1>2, <1>4, <1>6 DEF Metered, Meter
<1> QED BY <1>2, <1>3, <1>6, <1>7 DEF SameMeter, Level, Counted

-----------------------------------------------------------------------------
(* ComputeRemaining *)

\* What ComputeRemaining answers for each type of meter but a counter, and for that.
LEMMA RemainingCases ==
  ASSUME NEW p, NEW n
  PROVE  /\ ~Known(p) => ComputeRemaining(p, Feature, n) = Unknown
         /\ Metered(p) /\ Meter(p).type = "bool" =>
              ComputeRemaining(p, Feature, n) =
                IF Meter(p).enabled THEN Unlimited ELSE Limited(0)
         /\ Metered(p) /\ Meter(p).type = "count" =>
              ComputeRemaining(p, Feature, n) =
                IF Meter(p).limit = Nil THEN Unlimited
                ELSE IF n >= Meter(p).limit THEN Limited(0)
                ELSE Limited(Meter(p).limit - n)
<1>1. CASE ~Metered(p)
  BY <1>1 DEF ComputeRemaining, Metered, Known
<1>2. CASE Metered(p)
  <2> DEFINE t == Meter(p).type
             R == ComputeRemaining(p, Feature, n)
  <2>1. t = "bool" => R = IF Meter(p).enabled THEN Unlimited ELSE Limited(0)
    BY <1>2 DEF ComputeRemaining, Metered, Meter
  <2>2. t = "count" => R = IF Meter(p).limit = Nil THEN Unlimited
                           ELSE IF n >= Meter(p).limit THEN Limited(0)
                           ELSE Limited(Meter(p).limit - n)
    BY <1>2 DEF ComputeRemaining, Metered, Meter
  <2>3. t \notin {"bool", "count", "counter"} => R = Unknown
    BY <1>2, Zenon DEF ComputeRemaining, Metered, Meter
  <2> QED BY <1>2, <2>1, <2>2, <2>3 DEF Known
<1> QED BY <1>1, <1>2

LEMMA CounterRemaining ==
  ASSUME NEW p, NEW n, Counted(p), NEW total, total = (Meter(p).consumedAtIssue + n) % Word
  PROVE  ComputeRemaining(p, Feature, n) =
           IF total >= Meter(p).allowance THEN Limited(0)
           ELSE Limited(Meter(p).allowance - total)
<1>1. Feature \in DOMAIN p.usage /\ p.usage[Feature].type = "counter"
  BY DEF Counted, Metered, Meter
<1> QED BY <1>1, Zenon DEF ComputeRemaining, Meter

Remains ==
  [remaining : 0..MaxUint64, unlimited : BOOLEAN, known : BOOLEAN]

LEMMA ModWord == \A n \in Nat : n % Word \in Nat /\ (n < Word => n % Word = n)
  BY LicenseAssumption

\* What is left is a uint64, even of a counter that wraps, and what is unlimited is
\* not used up.
LEMMA RemainingType ==
  ASSUME NEW p \in Payloads, NEW n \in Nat
  PROVE  /\ ComputeRemaining(p, Feature, n) \in Remains
         /\ ComputeRemaining(p, Feature, n).known <=> Known(p)
         /\ ComputeRemaining(p, Feature, n).unlimited =>
              ComputeRemaining(p, Feature, n).remaining > 0
<1> DEFINE r == ComputeRemaining(p, Feature, n)
           Fine == /\ r \in Remains /\ (r.known <=> Known(p))
                   /\ r.unlimited => r.remaining > 0
<1>1. MaxUint64 \in Nat /\ MaxUint64 > 0
  BY LicenseAssumption DEF MaxUint64
<1>2. /\ Unlimited \in Remains /\ Unlimited.known = TRUE /\ Unlimited.remaining > 0
      /\ Unknown \in Remains /\ Unknown.known = FALSE /\ Unknown.unlimited = FALSE
  BY <1>1 DEF Unlimited, Unknown, Remains
<1>3. \A k \in 0..MaxUint64 : /\ Limited(k) \in Remains /\ Limited(k).known = TRUE
                              /\ Limited(k).unlimited = FALSE
  BY DEF Limited, Remains
<1>4. \A k \in 0..MaxUint64, m \in Nat : ~(m >= k) => k - m \in 0..MaxUint64
  BY <1>1
<1>5. CASE ~Known(p)
  BY <1>2, <1>5, RemainingCases
<1>6. ASSUME Known(p) PROVE \E x : r = x /\ x \in Remains /\ x.known /\ (x.unlimited => x.remaining > 0)
  <2>1. Meter(p) \in Meters /\ Metered(p)
    BY <1>6, MeterType DEF Known
  <2>2. CASE Meter(p).type = "bool"
    BY <1>1, <1>2, <1>3, <2>1, <2>2, RemainingCases
  <2>3. CASE Meter(p).type = "count"
    <3>1. Meter(p).limit \in 0..MaxUint64 \cup {Nil}
      BY <2>1 DEF Meters
    <3> QED BY <1>1, <1>2, <1>3, <1>4, <2>1, <2>3, <3>1, RemainingCases
  <2>4. CASE Meter(p).type = "counter"
    <3> DEFINE total == (Meter(p).consumedAtIssue + n) % Word
    <3>1. total \in Nat /\ Meter(p).allowance \in 0..MaxUint64
      BY <2>1, ModWord DEF Meters
    <3>2. r = IF total >= Meter(p).allowance THEN Limited(0)
              ELSE Limited(Meter(p).allowance - total)
      BY <2>1, <2>4, CounterRemaining DEF Counted
    <3> HIDE DEF total, r
    <3> QED BY <1>1, <1>2, <1>3, <1>4, <3>1, <3>2
  <2> QED BY <1>6, <2>2, <2>3, <2>4 DEF Known
<1> HIDE DEF r
<1> QED BY <1>5, <1>6 DEF r

\* Without a wrap, something is left exactly below the limit.
LEMMA RemainingMeaning ==
  ASSUME NEW p \in Payloads, NEW n \in Nat, Known(p), Level(p) + n + 1 < Word
  PROVE  ComputeRemaining(p, Feature, n).remaining > 0 <=> Level(p) + n < Limit(p)
<1> DEFINE r == ComputeRemaining(p, Feature, n)
<1>1. Meter(p) \in Meters /\ Metered(p) /\ Word \in Nat /\ MaxUint64 = Word - 1
  BY MeterType, LicenseAssumption DEF Known, MaxUint64
<1>2. Unlimited.remaining = Word - 1 /\ \A k : Limited(k).remaining = k
  BY <1>1 DEF Unlimited, Limited
<1>3. CASE Meter(p).type = "bool"
  <2>1. Level(p) = 0 /\ Limit(p) = IF Meter(p).enabled THEN Word - 1 ELSE 0
    BY <1>1, <1>3 DEF Level, Limit, Counted
  <2>2. r = IF Meter(p).enabled THEN Unlimited ELSE Limited(0)
    BY <1>1, <1>3, RemainingCases
  <2> HIDE DEF r
  <2> QED BY <1>1, <1>2, <2>1, <2>2 DEF r
<1>4. CASE Meter(p).type = "count"
  <2>1. /\ Level(p) = 0 /\ Limit(p) = IF Meter(p).limit = Nil THEN Word - 1 ELSE Meter(p).limit
        /\ Meter(p).limit # Nil => Meter(p).limit \in Nat
    BY <1>1, <1>4 DEF Level, Limit, Counted, Meters
  <2>2. r = IF Meter(p).limit = Nil THEN Unlimited
            ELSE IF n >= Meter(p).limit THEN Limited(0) ELSE Limited(Meter(p).limit - n)
    BY <1>1, <1>4, RemainingCases
  <2> HIDE DEF r
  <2> QED BY <1>1, <1>2, <2>1, <2>2 DEF r
<1>5. CASE Meter(p).type = "counter"
  <2> DEFINE total == Level(p) + n
  <2>1. Level(p) = Meter(p).consumedAtIssue /\ Limit(p) = Meter(p).allowance
    BY <1>1, <1>5 DEF Level, Limit, Counted
  <2>2. total \in Nat /\ total % Word = total /\ Limit(p) \in Nat
    BY <1>1, <2>1, LevelType, ModWord DEF Meters
  <2>3. r = IF total >= Limit(p) THEN Limited(0) ELSE Limited(Limit(p) - total)
    <3>1. total = (Meter(p).consumedAtIssue + n) % Word
      BY <2>1, <2>2
    <3> HIDE DEF total
    <3> QED BY <1>1, <1>5, <2>1, <3>1, CounterRemaining DEF Counted
  <2> HIDE DEF r, total
  <2>4. r.remaining > 0 <=> total < Limit(p)
    BY <1>2, <2>2, <2>3
  <2> QED BY <2>4 DEF r, total
<1> QED BY <1>3, <1>4, <1>5 DEF Known

-----------------------------------------------------------------------------
(* Types, and the mutex *)

Accesses ==
  [allowed : BOOLEAN, hasFeature : BOOLEAN, unlimited : BOOLEAN,
   remaining : 0..MaxUint64, reasonKind : Reasons,
   state : {"none", "invalid", "active", "trialing", "grace", "expired"}]

InMutex(c) == pc[c] \in {"judge", "count"}

\* A caller in the mutex has a payload and no decision yet.
GateTypes ==
  /\ now \in 0..MaxTime /\ faults \in 0..MaxFaults
  /\ used \in 0..MaxUses /\ local \in 0..used /\ synced \in 0..local
  /\ syncs \in 0..MaxSyncs
  /\ mu \in Callers \cup {Nil}
  /\ stored \in Payloads \cup {Nil} /\ first \in Snapshots
  /\ pc \in [Callers -> {"idle", "lock", "judge", "count", "allowed", "denied"}]
  /\ loaded \in [Callers -> Payloads \cup {Nil}]
  /\ access \in [Callers -> Accesses]
  /\ DOMAIN seen = Callers
  /\ \A c \in Callers : /\ loaded[c] # Nil <=> InMutex(c)
                        /\ mu = c <=> InMutex(c)
                        /\ InMutex(c) => access[c].allowed = FALSE

\* What is on the counter and what the snapshot accounts for are the uses made,
\* before the first snapshot and since, those in the middle of a synchronisation
\* counted twice; and a loaded snapshot is the stored one or one of before.
Accounted ==
  /\ stored = Nil <=> first = Nil
  /\ stored # Nil => /\ SameMeter(stored, first)
                     /\ Level(stored) + local = Level(first) + used + synced
  /\ \A c \in Callers : InMutex(c) =>
       /\ stored # Nil /\ SameMeter(loaded[c], stored)
       /\ Level(loaded[c]) <= Level(stored)

LEMMA GateInit == SnapshotsTyped /\ Init => GateTypes /\ Accounted
<1> SUFFICES ASSUME SnapshotsTyped, Init PROVE GateTypes /\ Accounted
  OBVIOUS
<1>1. NoAccess \in Accesses
  BY LicenseAssumption DEF NoAccess, Accesses, Reasons, MaxUint64
<1>2. GateTypes
  BY <1>1, GateAssumption DEF Init, GateTypes, SnapshotsTyped, InMutex
<1>3. stored # Nil => Level(stored) \in Nat
  BY LevelType DEF Init, SnapshotsTyped
<1>4. Accounted
  BY <1>3 DEF Init, Accounted, InMutex, SameMeter
<1> QED BY <1>2, <1>4

LEMMA AccessTypes ==
  /\ NoAccess \in Accesses /\ NoAccess.allowed = FALSE
  /\ \A a \in Accesses, r \in Reasons : Deny(a, r) \in Accesses
<1>1. NoAccess \in Accesses /\ NoAccess.allowed = FALSE
  BY LicenseAssumption DEF NoAccess, Accesses, Reasons, MaxUint64
<1>2. ASSUME NEW a \in Accesses, NEW r \in Reasons PROVE Deny(a, r) \in Accesses
  BY <1>2 DEF Deny, Accesses
<1> QED BY <1>1, <1>2

\* The decision Count builds on, before it allows or denies.
LEMMA CountedAccess ==
  ASSUME NEW a \in Accesses, NEW r \in Remains
  PROVE  /\ [a EXCEPT !.unlimited = r.unlimited, !.remaining = r.remaining] \in Accesses
         /\ [a EXCEPT !.unlimited = r.unlimited, !.remaining = r.remaining].allowed = a.allowed
         /\ [a EXCEPT !.unlimited = r.unlimited, !.remaining = r.remaining].hasFeature
              = a.hasFeature
<1>1. r.unlimited \in BOOLEAN /\ r.remaining \in 0..MaxUint64
  BY DEF Remains
<1> QED BY <1>1 DEF Accesses

\* Check returns: the caller leaves the mutex with a decision.
LEMMA ReturnStep ==
  ASSUME GateTypes, Accounted, NEW c \in Callers, NEW a \in Accesses,
         InMutex(c) \/ (pc[c] = "lock" /\ mu = Nil),
         Return(c, a), DOMAIN seen' = Callers, faults' \in 0..MaxFaults,
         UNCHANGED <<now, appVars>>
  PROVE  GateTypes' /\ Accounted'
<1>1. /\ access' \in [Callers -> Accesses] /\ access' = [access EXCEPT ![c] = a]
      /\ loaded' \in [Callers -> Payloads \cup {Nil}]
      /\ loaded' = [loaded EXCEPT ![c] = Nil] /\ mu' = Nil
      /\ pc' = [pc EXCEPT ![c] = IF a.allowed THEN "allowed" ELSE "denied"]
  BY GateAssumption DEF GateTypes, Return, Set, Goto
<1>2. /\ pc' \in [Callers -> {"idle", "lock", "judge", "count", "allowed", "denied"}]
      /\ pc'[c] \in {"allowed", "denied"}
  <2>1. (IF a.allowed THEN "allowed" ELSE "denied") \in {"allowed", "denied"}
    OBVIOUS
  <2> QED BY <1>1, <2>1 DEF GateTypes
<1>3. \A d \in Callers : ~InMutex(d)'
  <2> SUFFICES ASSUME NEW d \in Callers PROVE ~InMutex(d)'
    OBVIOUS
  <2>1. CASE d = c
    BY <1>1, <1>2, <2>1 DEF InMutex
  <2>2. CASE d # c
    BY <1>1, <2>2, GateAssumption DEF InMutex, GateTypes
  <2> QED BY <2>1, <2>2
<1>4. \A d \in Callers : loaded'[d] = Nil /\ mu' # d
  BY <1>1, GateAssumption DEF InMutex, GateTypes
<1> QED BY <1>1, <1>2, <1>3, <1>4 DEF GateTypes, Accounted, appVars

LEMMA GateStep ==
  SnapshotsTyped /\ GateTypes /\ Accounted /\ [Next]_vars => GateTypes' /\ Accounted'
<1> SUFFICES ASSUME SnapshotsTyped, GateTypes, Accounted, [Next]_vars
             PROVE  GateTypes' /\ Accounted'
  OBVIOUS
<1> USE GateAssumption
<1>1. ASSUME NEW c \in Callers, CheckNoLoader(c)
      PROVE  GateTypes' /\ Accounted'
  <2>1. Deny(NoAccess, "no_loader") \in Accesses
    BY AccessTypes DEF Reasons
  <2>2. access' \in [Callers -> Accesses]
    BY <1>1, <2>1 DEF CheckNoLoader, Set, GateTypes
  <2> QED BY <1>1, <2>2 DEF CheckNoLoader, Set, Goto, GateTypes, Accounted, appVars, InMutex
<1>2. ASSUME NEW c \in Callers, Call(c)
      PROVE  GateTypes' /\ Accounted'
  BY <1>2 DEF Call, Goto, GateTypes, Accounted, appVars, InMutex
<1>3. ASSUME NEW c \in Callers, Load(c)
      PROVE  GateTypes' /\ Accounted'
  <2>1. CASE stored = Nil
    <3>1. Deny(NoAccess, "no_license") \in Accesses
      BY AccessTypes DEF Reasons
    <3> QED BY <1>3, <2>1, <3>1, ReturnStep DEF Load, GateTypes
  <2>2. CASE stored # Nil
    <3>1. NoAccess \in Accesses /\ NoAccess.allowed = FALSE
      BY LicenseAssumption DEF NoAccess, Accesses, Reasons, MaxUint64
    <3>2. /\ access' \in [Callers -> Accesses] /\ access'[c].allowed = FALSE
          /\ \A d \in Callers \ {c} : access'[d] = access[d]
      BY <1>3, <2>2, <3>1 DEF Load, Set, GateTypes
    <3>3. /\ pc' = [pc EXCEPT ![c] = "judge"] /\ mu' = c /\ mu = Nil
          /\ loaded' = [loaded EXCEPT ![c] = stored]
          /\ UNCHANGED <<now, appVars, seen, faults>>
      BY <1>3, <2>2 DEF Load, Goto
    <3>4. \A d \in Callers : InMutex(d)' <=> d = c
      BY <3>3 DEF GateTypes, InMutex
    <3>5. \A d \in Callers : loaded'[d] # Nil <=> d = c
      BY <2>2, <3>3 DEF GateTypes, InMutex
    <3>6. loaded'[c] = stored /\ stored \in Payloads
      BY <2>2, <3>3 DEF GateTypes
    <3>7. GateTypes'
      BY <3>2, <3>3, <3>4, <3>5, <3>6 DEF GateTypes, appVars
    <3>8. Level(stored) <= Level(stored) /\ SameMeter(stored, stored)
      BY <3>6, LevelType DEF SameMeter
    <3>9. /\ UNCHANGED <<stored, first, local, used, synced>>
          /\ \A d \in Callers : InMutex(d)' => loaded'[d] = stored
      BY <3>3, <3>4, <3>6 DEF appVars
    <3>10. Accounted'
      BY <2>2, <3>8, <3>9 DEF Accounted
    <3> QED BY <3>7, <3>10
  <2> QED BY <2>1, <2>2
<1>4. ASSUME NEW c \in Callers, LoadFails(c)
      PROVE  GateTypes' /\ Accounted'
  <2>1. Deny(NoAccess, "verify_failed") \in Accesses
    BY AccessTypes DEF Reasons
  <2>2. faults' \in 0..MaxFaults
    BY <1>4 DEF LoadFails, GateTypes
  <2> QED BY <1>4, <2>1, <2>2, ReturnStep DEF LoadFails, GateTypes
<1>5. ASSUME NEW c \in Callers, Judge(c)
      PROVE  GateTypes' /\ Accounted'
  <2> DEFINE state == ComputeState(loaded[c], GraceWindow, now)
             a == [access[c] EXCEPT !.state = state]
             flagged == Feature \in DOMAIN loaded[c].features
  <2>1. state \in {"none", "invalid", "active", "trialing", "grace", "expired"}
    BY DEF ComputeState
  <2> HIDE DEF state
  <2>2. /\ a \in Accesses /\ [a EXCEPT !.hasFeature = flagged] \in Accesses
        /\ a.allowed = access[c].allowed
        /\ [a EXCEPT !.hasFeature = flagged].allowed = access[c].allowed
    <3>1. access[c] \in Accesses /\ flagged \in BOOLEAN
      BY DEF GateTypes
    <3> HIDE DEF flagged
    <3> QED BY <2>1, <3>1 DEF Accesses
  <2>3. InMutex(c) /\ DOMAIN seen' = Callers /\ UNCHANGED <<now, appVars, faults>>
    BY <1>5 DEF Judge, InMutex, GateTypes
  <2>4. \A r \in Reasons : Deny(a, r) \in Accesses
    BY <2>2 DEF Deny, Accesses
  <2>5. \/ \E r \in Reasons : Return(c, Deny(a, r))
        \/ /\ Set(c, [a EXCEPT !.hasFeature = flagged])
           /\ Goto(c, "count") /\ UNCHANGED <<mu, loaded>>
    BY <1>5 DEF Judge, Reasons, state
  <2>6. CASE \E r \in Reasons : Return(c, Deny(a, r))
    BY <2>3, <2>4, <2>6, ReturnStep DEF GateTypes
  <2>7. CASE /\ Set(c, [a EXCEPT !.hasFeature = flagged])
             /\ Goto(c, "count") /\ UNCHANGED <<mu, loaded>>
    <3> DEFINE b == [a EXCEPT !.hasFeature = flagged]
    <3>1. b \in Accesses /\ b.allowed = FALSE
      BY <2>2, <2>3 DEF GateTypes
    <3> HIDE DEF b
    <3>2. /\ access' = [access EXCEPT ![c] = b] /\ access' \in [Callers -> Accesses]
          /\ pc' = [pc EXCEPT ![c] = "count"]
      BY <2>7, <3>1 DEF Set, Goto, GateTypes, b
    <3>3. \A d \in Callers : InMutex(d)' <=> InMutex(d)
      BY <2>3, <3>2 DEF GateTypes, InMutex
    <3>4. \A d \in Callers : access'[d].allowed = FALSE \/ access'[d] = access[d]
      BY <3>1, <3>2 DEF GateTypes
    <3>5. GateTypes'
      BY <2>3, <2>7, <3>2, <3>3, <3>4 DEF GateTypes, appVars
    <3>6. Accounted'
      BY <2>3, <2>7, <3>3 DEF Accounted, appVars
    <3> QED BY <3>5, <3>6
  <2> QED BY <2>5, <2>6, <2>7
<1>6. ASSUME NEW c \in Callers, CountFails(c)
      PROVE  GateTypes' /\ Accounted'
  <2>1. Deny(access[c], "local_consumption_failed") \in Accesses
    BY AccessTypes DEF Reasons, GateTypes
  <2>2. faults' \in 0..MaxFaults /\ InMutex(c)
    BY <1>6 DEF CountFails, GateTypes, InMutex
  <2> QED BY <1>6, <2>1, <2>2, ReturnStep DEF CountFails, GateTypes
<1>7. ASSUME NEW c \in Callers, Count(c)
      PROVE  GateTypes' /\ Accounted'
  <2> DEFINE r == ComputeRemaining(loaded[c], Feature, local)
             a == [access[c] EXCEPT !.unlimited = r.unlimited, !.remaining = r.remaining]
  <2>1. InMutex(c) /\ DOMAIN seen' = Callers /\ UNCHANGED <<now, appVars, faults>>
    BY <1>7 DEF Count, InMutex, GateTypes
  <2>2. r \in Remains
    <3>1. loaded[c] \in Payloads /\ local \in Nat
      BY <2>1 DEF GateTypes
    <3> QED BY <3>1, RemainingType
  <2> HIDE DEF r
  <2>3. a \in Accesses
    BY <2>2, CountedAccess DEF GateTypes
  <2>4. \E b \in {[a EXCEPT !.allowed = TRUE, !.unlimited = TRUE],
                  Deny(a, "feature_missing"),
                  [a EXCEPT !.allowed = TRUE, !.hasFeature = TRUE],
                  Deny(a, "limit_reached")} : Return(c, b)
    BY <1>7 DEF Count, r
  <2> HIDE DEF a
  <2>5. {[a EXCEPT !.allowed = TRUE, !.unlimited = TRUE], Deny(a, "feature_missing"),
         [a EXCEPT !.allowed = TRUE, !.hasFeature = TRUE],
         Deny(a, "limit_reached")} \subseteq Accesses
    BY <2>3 DEF Accesses, Deny, Reasons
  <2> QED BY <2>1, <2>4, <2>5, ReturnStep DEF GateTypes
<1>8. ASSUME NEW c \in Callers, Use(c)
      PROVE  GateTypes' /\ Accounted'
  <2>1. /\ pc' = [pc EXCEPT ![c] = "idle"] /\ pc[c] = "allowed"
        /\ used' = used + 1 /\ local' = local + 1 /\ used < MaxUses
        /\ UNCHANGED <<now, stored, synced, first, syncs, mu, loaded, access, seen, faults>>
    BY <1>8 DEF Use, Goto
  <2>2. \A d \in Callers : InMutex(d)' <=> InMutex(d)
    BY <2>1 DEF GateTypes, InMutex
  <2>3. GateTypes'
    BY <2>1, <2>2 DEF GateTypes
  <2>4. stored # Nil => /\ stored \in Payloads /\ first \in Payloads
                        /\ Level(stored) \in Nat /\ Level(first) \in Nat
    BY LevelType DEF GateTypes, Accounted, SnapshotsTyped
  <2>5. used \in Nat /\ local \in Nat /\ synced \in Nat
    BY DEF GateTypes
  <2>6. stored # Nil => Level(stored) + local' = Level(first) + used' + synced
    BY <2>1, <2>4, <2>5 DEF Accounted
  <2>7. Accounted'
    BY <2>1, <2>2, <2>6 DEF Accounted
  <2> QED BY <2>3, <2>7
<1>9. ASSUME NEW c \in Callers, GiveUp(c)
      PROVE  GateTypes' /\ Accounted'
  BY <1>9 DEF GiveUp, Goto, GateTypes, Accounted, appVars, InMutex
<1>10. CASE StoreSynced
  <2>1. /\ stored # Nil /\ Counted(stored) /\ synced = 0 /\ local > 0
        /\ stored' = [stored EXCEPT !.usage[Feature].consumedAtIssue = @ + local]
        /\ synced' = local /\ syncs < MaxSyncs /\ syncs' = syncs + 1
        /\ UNCHANGED <<hasLoader, now, local, used, first, mu, pc, loaded, access, seen, faults>>
    BY <1>10 DEF StoreSynced, Counted, Metered, Meter
  <2>2. /\ stored \in Payloads /\ local \in Nat /\ local <= used /\ used \in Nat
        /\ first # Nil /\ first \in Payloads
    BY <2>1 DEF GateTypes, Accounted, SnapshotsTyped
  <2>3. /\ stored' \in Payloads /\ SameMeter(stored', stored)
        /\ Level(stored') = Level(stored) + local
    BY <2>1, <2>2, SyncedPayload
  <2>4. stored' # Nil
    BY <2>3 DEF SnapshotsTyped
  <2>5. Level(stored) \in Nat /\ Level(first) \in Nat
    BY <2>2, LevelType
  <2>6. \A d \in Callers : InMutex(d)' <=> InMutex(d)
    BY <2>1 DEF InMutex
  <2>7. GateTypes'
    BY <2>1, <2>2, <2>3, <2>6 DEF GateTypes
  <2>8. ASSUME NEW d \in Callers, InMutex(d)
        PROVE  SameMeter(loaded'[d], stored') /\ Level(loaded'[d]) <= Level(stored')
    <3>1. /\ loaded[d] \in Payloads /\ SameMeter(loaded[d], stored)
          /\ Level(loaded[d]) <= Level(stored) /\ loaded'[d] = loaded[d]
      BY <2>1, <2>8 DEF GateTypes, Accounted
    <3>2. Level(loaded[d]) \in Nat
      BY <3>1, LevelType
    <3>3. SameMeter(loaded[d], stored')
      BY <2>3, <3>1, SameLimit, SameTransitive
    <3>4. Level(loaded[d]) <= Level(stored')
      BY <2>2, <2>3, <2>5, <3>1, <3>2
    <3> QED BY <3>1, <3>3, <3>4
  <2>9. SameMeter(stored', first)
    BY <2>1, <2>3, SameTransitive DEF Accounted
  <2>10. Level(stored') + local = Level(first) + used + local
    <3>1. Level(stored) + local = Level(first) + used + 0
      BY <2>1 DEF Accounted
    <3> QED BY <2>2, <2>3, <2>5, <3>1
  <2>11. Accounted'
    BY <2>1, <2>2, <2>4, <2>6, <2>8, <2>9, <2>10 DEF Accounted
  <2> QED BY <2>7, <2>11
<1>11. CASE TakeOff
  <2>1. /\ local' = local - synced /\ synced' = 0
        /\ UNCHANGED <<stored, first, used, pc, loaded>>
    BY <1>11 DEF TakeOff
  <2>2. GateTypes'
    BY <1>11 DEF TakeOff, GateTypes, InMutex
  <2>3. stored # Nil => Level(stored) \in Nat /\ Level(first) \in Nat
    BY LevelType DEF GateTypes, Accounted, SnapshotsTyped
  <2>4. used \in Nat /\ local \in Nat /\ synced \in Nat
    BY DEF GateTypes
  <2>5. stored # Nil => Level(stored) + local' = Level(first) + used + 0
    BY <2>1, <2>3, <2>4 DEF Accounted
  <2>6. Accounted'
    BY <2>1, <2>5 DEF Accounted, InMutex
  <2> QED BY <2>2, <2>6
<1>12. CASE Tick
  BY <1>12 DEF Tick, GateTypes, Accounted, appVars, InMutex
<1>13. CASE UNCHANGED vars
  BY <1>13 DEF vars, GateTypes, Accounted, appVars, InMutex
<1> QED
  BY <1>1, <1>2, <1>3, <1>4, <1>5, <1>6, <1>7, <1>8, <1>9, <1>10, <1>11, <1>12,
     <1>13 DEF Next, InCheck

LEMMA GateInvariant == ASSUME SnapshotsTyped PROVE Spec => [](GateTypes /\ Accounted)
<1>1. Init => GateTypes /\ Accounted
  BY GateInit
<1>2. GateTypes /\ Accounted /\ [Next]_vars => GateTypes' /\ Accounted'
  BY GateStep
<1> QED BY <1>1, <1>2, PTL DEF Spec

\* The variables keep their types, and the mutex has one holder, a caller that
\* has loaded a snapshot and not returned yet, whatever the callers, the uses and
\* the synchronisations (Gate.Check, gate.go:92-158).
THEOREM GateTypeCorrect == ASSUME SnapshotsTyped PROVE Spec => []TypeOK
<1>1. GateTypes => TypeOK
  BY GateAssumption DEF GateTypes, TypeOK, InMutex, Accesses
<1> QED BY <1>1, GateInvariant, PTL

-----------------------------------------------------------------------------
(* Denials *)

Sights == [payload : Payloads \cup {Nil}, now : 0..MaxTime, consumed : Nat, synced : Nat]

\* What a Check read is a snapshot, a time and a counter.
Sighted == seen \in [Callers -> Sights]

LEMMA SightedStep == GateTypes /\ Sighted /\ [Next]_vars => Sighted'
<1> SUFFICES ASSUME GateTypes, Sighted, [Next]_vars PROVE Sighted'
  OBVIOUS
<1>1. CASE UNCHANGED seen
  BY <1>1 DEF Sighted
<1>2. ASSUME NEW c \in Callers, Judge(c) PROVE Sighted'
  BY <1>2 DEF Judge, Sighted, Sights, GateTypes
<1>3. ASSUME NEW c \in Callers, Count(c) PROVE Sighted'
  <2>1. local \in Nat /\ synced \in Nat /\ seen[c] \in Sights
    BY GateAssumption DEF GateTypes, Sighted
  <2>2. [seen[c] EXCEPT !.consumed = local, !.synced = synced] \in Sights
    BY <2>1 DEF Sights
  <2> QED BY <1>3, <2>1, <2>2 DEF Count, Sighted, Sights
<1>4. CASE ~\E c \in Callers : Judge(c) \/ Count(c)
  BY <1>1, <1>4 DEF Next, InCheck, CheckNoLoader, Call, Load, LoadFails, CountFails,
     Use, GiveUp, StoreSynced, TakeOff, Tick, vars, appVars
<1> QED BY <1>2, <1>3, <1>4

LEMMA SightedInvariant ==
  ASSUME SnapshotsTyped PROVE Spec => [](GateTypes /\ Accounted /\ Sighted)
<1>1. Init => Sighted
  BY GateAssumption DEF Init, Sighted, Sights
<1>2. GateTypes /\ Sighted /\ [Next]_vars => Sighted'
  BY SightedStep
<1> QED BY <1>1, <1>2, GateInvariant, PTL DEF Spec

\* What there was to grant never changes.
LEMMA QuotaFixed == [Next]_vars => UNCHANGED <<first, Quota>>
<1> SUFFICES ASSUME [Next]_vars PROVE UNCHANGED <<first, Quota>>
  OBVIOUS
<1>1. UNCHANGED first
  BY DEF Next, InCheck, CheckNoLoader, Call, Load, LoadFails, Judge, Count,
     CountFails, Use, GiveUp, StoreSynced, TakeOff, Tick, vars, appVars
<1> QED BY <1>1 DEF Quota

\* It is what the meter had left, or out of reach.
LEMMA QuotaValue ==
  ASSUME SnapshotsTyped, GateTypes
  PROVE  /\ first # Nil /\ Known(first) =>
              Quota = IF Level(first) < Limit(first) THEN Limit(first) - Level(first) ELSE 0
         /\ ~(first # Nil /\ Known(first)) => Quota = Word - 1
<1>1. MaxUint64 \in Nat /\ MaxUint64 = Word - 1 /\ MaxUint64 > 0
  BY LicenseAssumption DEF MaxUint64
<1>2. CASE first = Nil \/ ~Metered(first)
  BY <1>1, <1>2 DEF Quota, Metered, Known
<1>3. CASE first # Nil /\ Metered(first)
  <2>1. first \in Payloads
    BY <1>3 DEF GateTypes, SnapshotsTyped
  <2> DEFINE m == Meter(first)
  <2>2. m \in Meters /\ m = first.usage[Feature]
    BY <1>3, <2>1, MeterType DEF Meter
  <2>3. /\ m.type = "bool" => Quota = IF m.enabled THEN MaxUint64 ELSE 0
        /\ m.type = "count" => Quota = IF m.limit = Nil THEN MaxUint64 ELSE m.limit
    BY <1>3, <2>2 DEF Quota, Metered
  <2>4. m.type = "counter" =>
          Quota = IF m.consumedAtIssue < m.allowance THEN m.allowance - m.consumedAtIssue ELSE 0
    BY <1>3, <2>2 DEF Quota, Metered
  <2>5. m.type \notin {"bool", "count", "counter"} => Quota = MaxUint64
    BY <1>3, <2>2, Zenon DEF Quota, Metered
  <2>6. CASE m.type = "bool"
    <3>1. Level(first) = 0 /\ Limit(first) = IF m.enabled THEN MaxUint64 ELSE 0
      BY <2>6 DEF Level, Limit, Counted
    <3> HIDE DEF m
    <3> QED BY <1>1, <1>3, <2>3, <2>6, <3>1 DEF Known, m
  <2>7. CASE m.type = "count"
    <3>1. Level(first) = 0 /\ Limit(first) = IF m.limit = Nil THEN MaxUint64 ELSE m.limit
      BY <2>7 DEF Level, Limit, Counted
    <3>2. Limit(first) \in Nat
      BY <1>1, <1>3, <2>1, LimitType
    <3>3. Quota = Limit(first) - 0
      BY <2>3, <2>7, <3>1, <3>2
    <3>4. Limit(first) > 0 \/ Limit(first) = 0
      BY <3>2
    <3> QED BY <1>3, <2>7, <3>1, <3>2, <3>3, <3>4 DEF Known
  <2>8. CASE m.type = "counter"
    BY <1>3, <2>4, <2>8 DEF Level, Limit, Counted, Known
  <2> QED BY <1>1, <1>3, <2>5, <2>6, <2>7, <2>8 DEF Known
<1> QED BY <1>2, <1>3

LEMMA QuotaType == ASSUME SnapshotsTyped, GateTypes PROVE Quota \in Nat
<1>1. CASE first # Nil /\ Known(first)
  <2>1. first \in Payloads /\ Metered(first)
    BY <1>1 DEF GateTypes, SnapshotsTyped, Known
  <2>2. Limit(first) \in Nat /\ Level(first) \in Nat
    BY <2>1, LevelType, LimitType, LicenseAssumption DEF MaxUint64
  <2> QED BY <1>1, <2>2, QuotaValue
<1>2. CASE ~(first # Nil /\ Known(first))
  BY <1>2, QuotaValue, LicenseAssumption
<1> QED BY <1>1, <1>2

\* The stored snapshot has the meter of the first and at least its level.
LEMMA StoredMeter ==
  ASSUME SnapshotsTyped, GateTypes, Accounted, stored # Nil
  PROVE  /\ stored \in Payloads /\ first \in Payloads /\ first # Nil
         /\ Level(stored) \in Nat /\ Level(first) \in Nat
         /\ Level(first) <= Level(stored)
         /\ Level(stored) + local = Level(first) + used + synced
         /\ local \in Nat /\ used \in Nat /\ synced \in Nat
         /\ used <= MaxUses /\ synced <= used
<1>1. stored \in Payloads /\ first \in Payloads /\ first # Nil
  BY DEF GateTypes, Accounted, SnapshotsTyped
<1>2. Level(stored) \in Nat /\ Level(first) \in Nat
  BY <1>1, LevelType
<1>3. /\ local \in Nat /\ used \in Nat /\ synced \in Nat
      /\ local <= used /\ used <= MaxUses /\ synced <= local
  BY GateAssumption DEF GateTypes
<1>4. Level(stored) + local = Level(first) + used + synced
  BY DEF Accounted
<1> QED BY <1>1, <1>2, <1>3, <1>4

\* So has one that a caller has loaded, whose counter does not wrap.
LEMMA LoadedMeter ==
  ASSUME SnapshotsTyped, GateTypes, Accounted, NEW c \in Callers, InMutex(c)
  PROVE  /\ stored # Nil /\ loaded[c] \in Payloads
         /\ Known(loaded[c]) <=> Known(first)
         /\ Known(first) => Limit(loaded[c]) = Limit(first)
<1>1. stored # Nil /\ loaded[c] \in Payloads /\ SameMeter(loaded[c], stored)
  BY DEF GateTypes, Accounted
<1>2. SameMeter(loaded[c], first)
  BY <1>1, SameTransitive DEF Accounted
<1> QED BY <1>1, <1>2, SameLimit

LEMMA LoadedLevel ==
  ASSUME CountersFit, GateTypes, Accounted, NEW c \in Callers, InMutex(c)
  PROVE  /\ Level(loaded[c]) \in Nat /\ Level(loaded[c]) <= Level(stored)
         /\ Level(loaded[c]) + local + 1 < Word
<1>1. stored # Nil /\ loaded[c] \in Payloads /\ Level(loaded[c]) <= Level(stored)
  BY DEF GateTypes, Accounted
<1>2. Level(loaded[c]) \in Nat
  BY <1>1, LevelType
<1>3. Level(first) + 2 * MaxUses + 1 < Word
  <2>1. first \in Snapshots \ {Nil}
    BY <1>1 DEF GateTypes, Accounted
  <2> QED BY <2>1 DEF CountersFit
<1>4. Word \in Nat /\ MaxUses \in Nat
  BY LicenseAssumption, GateAssumption
<1>5. /\ Level(stored) \in Nat /\ Level(first) \in Nat
      /\ Level(stored) + local = Level(first) + used + synced
      /\ local \in Nat /\ used \in Nat /\ synced \in Nat
      /\ used <= MaxUses /\ synced <= used
  BY <1>1, StoredMeter DEF CountersFit
<1> QED BY <1>1, <1>2, <1>3, <1>4, <1>5

\* No other way to deny for the limit than Count, and it sees the counter full.
LEMMA CountDeniesHonestly ==
  ASSUME CountersFit, GateTypes, Accounted, NEW c \in Callers, Count(c),
         Known(loaded[c]),
         ComputeRemaining(loaded[c], Feature, local).remaining = 0
  PROVE  used + synced >= Quota
<1>1. InMutex(c)
  BY DEF Count, InMutex
<1>2. SnapshotsTyped
  BY DEF CountersFit
<1>3. /\ stored # Nil /\ loaded[c] \in Payloads /\ Known(first)
      /\ Limit(loaded[c]) = Limit(first)
  BY <1>1, <1>2, LoadedMeter
<1>4. /\ Level(loaded[c]) \in Nat /\ Level(loaded[c]) <= Level(stored)
      /\ Level(loaded[c]) + local + 1 < Word
  BY <1>1, LoadedLevel
<1>5. /\ first \in Payloads /\ first # Nil /\ Level(stored) \in Nat /\ Level(first) \in Nat
      /\ Level(stored) + local = Level(first) + used + synced
      /\ local \in Nat /\ used \in Nat /\ synced \in Nat
  BY <1>2, <1>3, StoredMeter
<1>6. ~(Level(loaded[c]) + local < Limit(first))
  BY <1>3, <1>4, <1>5, RemainingMeaning
<1>7. Limit(first) \in Nat
  BY <1>3, <1>5, LimitType, LicenseAssumption DEF Known, MaxUint64
<1>8. Quota = IF Level(first) < Limit(first) THEN Limit(first) - Level(first) ELSE 0
  BY <1>2, <1>3, <1>5, QuotaValue
<1> QED BY <1>4, <1>5, <1>6, <1>7, <1>8

LEMMA ReturnEffect ==
  ASSUME GateTypes, NEW c \in Callers, NEW a \in Accesses, Return(c, a)
  PROVE  /\ access'[c] = a /\ pc'[c] = IF a.allowed THEN "allowed" ELSE "denied"
         /\ \A d \in Callers \ {c} : access'[d] = access[d] /\ pc'[d] = pc[d]
         /\ DOMAIN pc' = Callers
BY DEF GateTypes, Return, Set, Goto

\* The decision Count makes, out of four.
LEMMA CountChoice ==
  ASSUME GateTypes, NEW c \in Callers, Count(c)
  PROVE  \E b \in Accesses :
           /\ Return(c, b)
           /\ \/ b.reasonKind # "limit_reached" /\ ~b.allowed
              \/ /\ Known(loaded[c]) /\ ~b.allowed
                 /\ ComputeRemaining(loaded[c], Feature, local).remaining = 0
              \/ b.allowed /\ ~Known(loaded[c])
              \/ /\ b.allowed /\ Known(loaded[c])
                 /\ ComputeRemaining(loaded[c], Feature, local).remaining > 0
<1> DEFINE r == ComputeRemaining(loaded[c], Feature, local)
           a == [access[c] EXCEPT !.unlimited = r.unlimited, !.remaining = r.remaining]
<1>1. /\ InMutex(c) /\ access[c] \in Accesses /\ access[c].allowed = FALSE
      /\ loaded[c] \in Payloads /\ local \in Nat
  BY GateAssumption DEF Count, InMutex, GateTypes
<1>2. r \in Remains /\ (r.known <=> Known(loaded[c])) /\ (r.unlimited => r.remaining > 0)
  BY <1>1, RemainingType
<1>3. \/ ~r.known /\ Return(c, [a EXCEPT !.allowed = TRUE, !.unlimited = TRUE])
      \/ ~r.known /\ Return(c, Deny(a, "feature_missing"))
      \/ /\ r.known /\ (r.unlimited \/ r.remaining > 0)
         /\ Return(c, [a EXCEPT !.allowed = TRUE, !.hasFeature = TRUE])
      \/ r.known /\ r.remaining = 0 /\ Return(c, Deny(a, "limit_reached"))
  BY DEF Count
<1> HIDE DEF r
<1>4. a \in Accesses /\ a.allowed = FALSE
  BY <1>1, <1>2, CountedAccess
<1> HIDE DEF a
<1>5. /\ [a EXCEPT !.allowed = TRUE, !.unlimited = TRUE] \in Accesses
      /\ [a EXCEPT !.allowed = TRUE, !.unlimited = TRUE].allowed = TRUE
      /\ [a EXCEPT !.allowed = TRUE, !.hasFeature = TRUE] \in Accesses
      /\ [a EXCEPT !.allowed = TRUE, !.hasFeature = TRUE].allowed = TRUE
      /\ Deny(a, "feature_missing") \in Accesses /\ Deny(a, "limit_reached") \in Accesses
      /\ Deny(a, "feature_missing").allowed = FALSE
      /\ Deny(a, "feature_missing").reasonKind = "feature_missing"
      /\ Deny(a, "limit_reached").allowed = FALSE
  BY <1>4 DEF Accesses, Deny, Reasons
<1>6. CASE ~r.known /\ Return(c, [a EXCEPT !.allowed = TRUE, !.unlimited = TRUE])
  BY <1>2, <1>5, <1>6
<1>7. CASE ~r.known /\ Return(c, Deny(a, "feature_missing"))
  BY <1>5, <1>7
<1>8. CASE /\ r.known /\ (r.unlimited \/ r.remaining > 0)
           /\ Return(c, [a EXCEPT !.allowed = TRUE, !.hasFeature = TRUE])
  BY <1>2, <1>5, <1>8 DEF r
<1>9. CASE r.known /\ r.remaining = 0 /\ Return(c, Deny(a, "limit_reached"))
  BY <1>2, <1>5, <1>9 DEF r
<1> QED BY <1>3, <1>6, <1>7, <1>8, <1>9

\* Judge denies for reasons of its own, or goes on to Count.
LEMMA JudgeChoice ==
  ASSUME GateTypes, NEW c \in Callers, Judge(c)
  PROVE  \/ \E b \in Accesses : /\ Return(c, b) /\ ~b.allowed
                                /\ b.reasonKind # "limit_reached"
         \/ Goto(c, "count")
<1> DEFINE state == ComputeState(loaded[c], GraceWindow, now)
           a == [access[c] EXCEPT !.state = state]
<1>1. /\ state \in {"none", "invalid", "active", "trialing", "grace", "expired"}
      /\ access[c] \in Accesses /\ access[c].allowed = FALSE
  BY DEF ComputeState, Judge, GateTypes, InMutex
<1>2. \/ \E r \in Reasons \ {"limit_reached"} : Return(c, Deny(a, r))
      \/ Goto(c, "count")
  BY DEF Judge, Reasons
<1> HIDE DEF state
<1>3. a \in Accesses /\ a.allowed = FALSE
  BY <1>1 DEF Accesses
<1> HIDE DEF a
<1>4. \A r \in Reasons : /\ Deny(a, r) \in Accesses /\ Deny(a, r).allowed = FALSE
                         /\ Deny(a, r).reasonKind = r
  BY <1>3 DEF Accesses, Deny
<1> QED BY <1>2, <1>4

\* An early return of Check: before Count, nothing is allowed.
LEMMA EarlyReturn ==
  ASSUME GateTypes, NEW c \in Callers, LoadFails(c) \/ CountFails(c) \/ (Load(c) /\ stored = Nil)
  PROVE  \E b \in Accesses : /\ Return(c, b) /\ ~b.allowed
                             /\ b.reasonKind # "limit_reached"
<1> DEFINE Early == {"no_license", "verify_failed", "local_consumption_failed"}
<1>1. \E a \in {NoAccess, access[c]}, r \in Early : a.allowed = FALSE /\ Return(c, Deny(a, r))
  BY AccessTypes DEF Load, LoadFails, CountFails, GateTypes, InMutex
<1>2. access[c] \in Accesses
  BY DEF GateTypes
<1>3. \A a \in Accesses, r \in Early :
        /\ Deny(a, r) \in Accesses /\ Deny(a, r).allowed = a.allowed
        /\ Deny(a, r).reasonKind = r
  BY DEF Accesses, Deny, Reasons
<1> QED BY <1>1, <1>2, <1>3, AccessTypes

\* "limit_reached" is reported only by Count, with what it has read.
LEMMA DenialSource ==
  ASSUME GateTypes, Sighted, [Next]_vars, NEW c \in Callers,
         pc'[c] = "denied", access'[c].reasonKind = "limit_reached"
  PROVE  \/ /\ pc[c] = "denied" /\ access[c].reasonKind = "limit_reached"
            /\ seen'[c] = seen[c]
         \/ /\ Count(c) /\ Known(loaded[c])
            /\ ComputeRemaining(loaded[c], Feature, local).remaining = 0
            /\ seen'[c].synced = synced
<1> DEFINE Stays == /\ pc[c] = "denied" /\ access[c].reasonKind = "limit_reached"
                    /\ seen'[c] = seen[c]
           Reached == /\ Count(c) /\ Known(loaded[c])
                      /\ ComputeRemaining(loaded[c], Feature, local).remaining = 0
                      /\ seen'[c].synced = synced
<1> SUFFICES Stays \/ Reached
  OBVIOUS
<1>1. ASSUME NEW d \in Callers, NEW b \in Accesses, Return(d, b),
             b.allowed \/ b.reasonKind # "limit_reached",
             d # c => seen'[c] = seen[c]
      PROVE  Stays
  BY <1>1, ReturnEffect
<1>2. CASE \E d \in Callers : CheckNoLoader(d)
  BY <1>2, AccessTypes DEF CheckNoLoader, Set, Goto, Deny, GateTypes, Accesses
<1>3. CASE \E d \in Callers : Call(d) \/ Use(d) \/ GiveUp(d)
  BY <1>3 DEF Call, Use, GiveUp, Goto, GateTypes
<1>4. CASE \E d \in Callers : Load(d) /\ stored # Nil
  BY <1>4 DEF Load, Goto, Set, GateTypes
<1>5. ASSUME NEW d \in Callers, LoadFails(d) \/ CountFails(d) \/ (Load(d) /\ stored = Nil)
      PROVE  Stays
  <2>1. UNCHANGED seen
    BY <1>5 DEF LoadFails, CountFails, Load
  <2> QED BY <1>1, <1>5, <2>1, EarlyReturn
<1>6. ASSUME NEW d \in Callers, Judge(d)
      PROVE  Stays
  <2>1. d # c => seen'[c] = seen[c]
    BY <1>6 DEF Judge
  <2>2. CASE Goto(d, "count")
    <3>1. pc' = [pc EXCEPT ![d] = "count"] /\ d # c
      BY <2>2 DEF Goto, GateTypes
    <3>2. access'[c] = access[c]
      BY <1>6, <3>1 DEF Judge, Return, Set, GateTypes
    <3> QED BY <2>1, <3>1, <3>2 DEF GateTypes
  <2> QED BY <1>1, <1>6, <2>1, <2>2, JudgeChoice
<1>7. ASSUME NEW d \in Callers, Count(d)
      PROVE  Stays \/ Reached
  <2>1. d # c => seen'[c] = seen[c]
    BY <1>7 DEF Count, Sighted
  <2>2. d = c => seen'[c].synced = synced
    BY <1>7 DEF Count, Sighted, Sights
  <2>3. PICK b \in Accesses :
          /\ Return(d, b)
          /\ \/ b.reasonKind # "limit_reached"
             \/ b.allowed
             \/ /\ Known(loaded[d]) /\ ~b.allowed
                /\ ComputeRemaining(loaded[d], Feature, local).remaining = 0
    BY <1>7, CountChoice
  <2>4. CASE d # c
    BY <2>1, <2>3, <2>4, ReturnEffect
  <2>5. CASE d = c
    BY <1>1, <1>7, <2>1, <2>2, <2>3, <2>5
  <2> QED BY <2>4, <2>5
<1>8. CASE StoreSynced \/ TakeOff \/ Tick \/ UNCHANGED vars
  BY <1>8 DEF StoreSynced, TakeOff, Tick, vars
<1> QED
  BY <1>2, <1>3, <1>4, <1>5, <1>6, <1>7, <1>8 DEF Next, InCheck

LEMMA HonestStep ==
  CountersFit /\ GateTypes /\ Accounted /\ Sighted /\ DenialHonest /\ [Next]_vars
    => DenialHonest'
<1> SUFFICES ASSUME CountersFit, GateTypes, Accounted, Sighted, DenialHonest, [Next]_vars
             PROVE  DenialHonest'
  OBVIOUS
<1>1. SnapshotsTyped
  BY DEF CountersFit
<1>2. UNCHANGED Quota
  BY QuotaFixed
<1>3. used' >= used /\ used \in Nat /\ used' \in Nat
  <2>1. used' = used \/ used' = used + 1
    BY DEF Next, InCheck, CheckNoLoader, Call, Load, LoadFails, Judge, Count,
       CountFails, Use, GiveUp, StoreSynced, TakeOff, Tick, vars, appVars
  <2> QED BY <2>1, GateAssumption DEF GateTypes
<1>4. Quota \in Int /\ synced \in Nat
  <2>1. Quota \in Nat
    BY <1>1, QuotaType
  <2> QED BY <2>1 DEF GateTypes
<1>5. ASSUME NEW c \in Callers, pc'[c] = "denied",
             access'[c].reasonKind = "limit_reached"
      PROVE  used' + seen'[c].synced >= Quota'
  <2>1. CASE /\ pc[c] = "denied" /\ access[c].reasonKind = "limit_reached"
             /\ seen'[c] = seen[c]
    <3>1. used + seen[c].synced >= Quota /\ seen[c].synced \in Nat
      BY <2>1 DEF DenialHonest, Sighted, Sights
    <3> QED BY <1>2, <1>3, <1>4, <2>1, <3>1
  <2>2. CASE /\ Count(c) /\ Known(loaded[c])
             /\ ComputeRemaining(loaded[c], Feature, local).remaining = 0
             /\ seen'[c].synced = synced
    <3>1. used + synced >= Quota
      BY <2>2, CountDeniesHonestly
    <3>2. seen'[c].synced = synced
      BY <2>2
    <3>3. used' + synced >= Quota
      <4>1. \A m, n, k \in Nat, z \in Int : m >= n /\ n + k >= z => m + k >= z
        OBVIOUS
      <4> QED BY <1>3, <1>4, <3>1, <4>1
    <3> QED BY <1>2, <3>2, <3>3
  <2> QED BY <1>5, <2>1, <2>2, DenialSource
<1> QED BY <1>5 DEF DenialHonest

\* Whatever the meter, and whatever the callers and the synchronisations do between
\* the steps of a Check, it reports the limit as reached only when the uses made
\* fill what there was to grant, those of a synchronisation under way counted twice
\* (gate.go:133-154).
THEOREM DenialsAreHonest == ASSUME CountersFit PROVE Spec => []DenialHonest
<1>1. Init => DenialHonest
  BY DEF Init, DenialHonest
<1>2. GateTypes /\ Accounted /\ Sighted /\ DenialHonest /\ [Next]_vars => DenialHonest'
  BY HonestStep
<1>3. SnapshotsTyped
  BY DEF CountersFit
<1>4. Spec => [](GateTypes /\ Accounted /\ Sighted)
  BY <1>3, SightedInvariant
<1> QED BY <1>1, <1>2, <1>4, PTL DEF Spec

-----------------------------------------------------------------------------
(* How far a meter can be overdrawn *)

Allowed == {c \in Callers : pc[c] = "allowed"}
N == Cardinality(Callers)

\* The uses granted exceed the quota by those of the other callers, and by one
\* more only once a snapshot at the limit is stored and no Check holds an older
\* one.  A Check that does hold an older one keeps the others waiting, so the uses
\* granted are those of the stored snapshot and of the others.
Overdraft ==
  stored # Nil /\ Known(first) =>
    /\ \/ Granted <= Quota + (N - 1)
       \/ /\ syncs > 0 /\ Granted <= Quota + N /\ Level(stored) >= Limit(first)
          /\ \A c \in Callers : InMutex(c) => Level(loaded[c]) >= Limit(first)
    /\ \A c \in Callers : InMutex(c) /\ Level(loaded[c]) < Level(stored) =>
         syncs > 0 /\ Level(first) + Granted <= Level(stored) + (N - 1)

LEMMA AllowedCount ==
  ASSUME CountersFit, GateTypes
  PROVE  /\ Granted = used + Cardinality(Allowed) /\ N \in Nat /\ N > 0
         /\ IsFiniteSet(Allowed) /\ Cardinality(Allowed) \in 0..N
         /\ \A c \in Callers : pc[c] # "allowed" => Cardinality(Allowed) <= N - 1
<1>1. Allowed \in SUBSET Callers /\ IsFiniteSet(Callers) /\ Callers # {}
  BY DEF Allowed, CountersFit
<1>2. IsFiniteSet(Allowed) /\ Cardinality(Allowed) <= N
  BY <1>1, FS_Subset DEF N
<1>3. N \in Nat /\ Cardinality(Allowed) \in Nat
  BY <1>1, <1>2, FS_CardinalityType DEF N
<1>4. N # 0
  BY <1>1, FS_EmptySet DEF N
<1>5. ASSUME NEW c \in Callers, pc[c] # "allowed"
      PROVE  Cardinality(Allowed) <= N - 1
  <2>1. Cardinality(Callers \ {c}) = N - 1 /\ IsFiniteSet(Callers \ {c})
    BY <1>1, FS_RemoveElement DEF N
  <2>2. Allowed \in SUBSET (Callers \ {c})
    BY <1>5 DEF Allowed
  <2> QED BY <2>1, <2>2, FS_Subset
<1> QED BY <1>2, <1>3, <1>4, <1>5 DEF Granted, Allowed

\* A step grants a use only when Count allows one; a use made was granted before.
LEMMA GrantedStep ==
  ASSUME CountersFit, GateTypes, [Next]_vars
  PROVE  \/ Granted' = Granted
         \/ /\ Granted' = Granted + 1
            /\ \E c \in Callers, b \in Accesses : Count(c) /\ Return(c, b) /\ b.allowed
<1> DEFINE Grants == /\ Granted' = Granted + 1
                     /\ \E c \in Callers, b \in Accesses :
                          Count(c) /\ Return(c, b) /\ b.allowed
<1>0. /\ IsFiniteSet(Allowed) /\ Cardinality(Allowed) \in Nat
      /\ Granted = used + Cardinality(Allowed) /\ used \in Nat
      /\ Granted' = used' + Cardinality(Allowed')
  <2>1. used \in Nat
    BY GateAssumption DEF GateTypes
  <2>2. Granted' = used' + Cardinality(Allowed')
    BY DEF Granted, Allowed
  <2> QED BY <2>1, <2>2, AllowedCount
<1>1. ASSUME Allowed' = Allowed, UNCHANGED used
      PROVE  Granted' = Granted
  BY <1>0, <1>1
<1>2. ASSUME NEW c \in Callers, NEW b \in Accesses, Return(c, b), ~b.allowed,
             pc[c] # "allowed", UNCHANGED used
      PROVE  Granted' = Granted
  <2>1. Allowed' = Allowed
    BY <1>2, ReturnEffect DEF Allowed
  <2> QED BY <1>1, <1>2, <2>1
<1>3. CASE \E c \in Callers : CheckNoLoader(c)
  BY <1>1, <1>3 DEF CheckNoLoader, Goto, GateTypes, Allowed, appVars
<1>4. CASE \E c \in Callers : Call(c)
  BY <1>1, <1>4 DEF Call, Goto, GateTypes, Allowed, appVars
<1>5. CASE \E c \in Callers : GiveUp(c)
  BY <1>1, <1>5 DEF GiveUp, Goto, GateTypes, Allowed, appVars
<1>6. CASE \E c \in Callers : Load(c) /\ stored # Nil
  BY <1>1, <1>6 DEF Load, Goto, GateTypes, Allowed, appVars
<1>7. ASSUME NEW c \in Callers, LoadFails(c) \/ CountFails(c) \/ (Load(c) /\ stored = Nil)
      PROVE  Granted' = Granted
  <2>1. UNCHANGED used /\ pc[c] # "allowed"
    BY <1>7 DEF LoadFails, CountFails, Load, appVars
  <2> QED BY <1>2, <1>7, <2>1, EarlyReturn
<1>8. ASSUME NEW c \in Callers, Judge(c)
      PROVE  Granted' = Granted
  <2>1. UNCHANGED used /\ pc[c] = "judge"
    BY <1>8 DEF Judge, appVars
  <2>2. CASE Goto(c, "count")
    BY <1>1, <2>1, <2>2 DEF Goto, GateTypes, Allowed
  <2> QED BY <1>2, <1>8, <2>1, <2>2, JudgeChoice
<1>9. ASSUME NEW c \in Callers, Count(c)
      PROVE  Granted' = Granted \/ Grants
  <2>1. UNCHANGED used /\ pc[c] = "count"
    BY <1>9 DEF Count, appVars
  <2>2. PICK b \in Accesses : Return(c, b)
    BY <1>9, CountChoice
  <2>3. CASE b.allowed
    <3>1. Allowed' = Allowed \cup {c} /\ c \notin Allowed
      BY <2>1, <2>2, <2>3, ReturnEffect DEF Allowed
    <3>2. Cardinality(Allowed') = Cardinality(Allowed) + 1
      BY <1>0, <3>1, FS_AddElement
    <3> QED BY <1>0, <1>9, <2>1, <2>2, <2>3, <3>2
  <2>4. CASE ~b.allowed
    BY <1>2, <2>1, <2>2, <2>4
  <2> QED BY <2>3, <2>4
<1>10. ASSUME NEW c \in Callers, Use(c)
       PROVE  Granted' = Granted
  <2>1. Allowed' = Allowed \ {c} /\ c \in Allowed /\ used' = used + 1
    BY <1>10 DEF Use, Goto, GateTypes, Allowed
  <2>2. Cardinality(Allowed') = Cardinality(Allowed) - 1
    BY <1>0, <2>1, FS_RemoveElement
  <2> QED BY <1>0, <2>1, <2>2
<1>11. CASE StoreSynced \/ TakeOff \/ Tick \/ UNCHANGED vars
  BY <1>1, <1>11 DEF StoreSynced, TakeOff, Tick, Allowed, vars, appVars
<1> QED
  BY <1>3, <1>4, <1>5, <1>6, <1>7, <1>8, <1>9, <1>10, <1>11 DEF Next, InCheck

\* Who is in the mutex after a step was there before with the same snapshot, or has
\* just loaded the stored one.
LEMMA MutexStep ==
  ASSUME GateTypes, [Next]_vars, NEW c \in Callers, InMutex(c)'
  PROVE  \/ InMutex(c) /\ loaded'[c] = loaded[c]
         \/ loaded'[c] = stored /\ UNCHANGED stored /\ Load(c)
<1> DEFINE Held == InMutex(c) /\ loaded'[c] = loaded[c]
<1>1. ASSUME NEW d \in Callers, NEW b \in Accesses, Return(d, b) PROVE Held
  BY <1>1, ReturnEffect DEF Return, GateTypes, InMutex
<1>2. CASE \E d \in Callers : CheckNoLoader(d) \/ Call(d) \/ GiveUp(d) \/ Use(d)
  BY <1>2 DEF CheckNoLoader, Call, GiveUp, Use, Goto, GateTypes, InMutex
<1>3. ASSUME NEW d \in Callers, Load(d), stored # Nil
      PROVE  Held \/ (loaded'[c] = stored /\ UNCHANGED stored /\ Load(c))
  BY <1>3 DEF Load, Goto, GateTypes, InMutex, appVars
<1>4. ASSUME NEW d \in Callers, LoadFails(d) \/ CountFails(d) \/ (Load(d) /\ stored = Nil)
      PROVE  Held
  BY <1>1, <1>4, EarlyReturn
<1>5. ASSUME NEW d \in Callers, Judge(d) PROVE Held
  <2>1. CASE Goto(d, "count")
    <3>1. pc'[d] = "count"
      BY <2>1 DEF Goto, GateTypes
    <3>2. UNCHANGED loaded
      BY <1>5, <3>1 DEF Judge, Return, Goto, GateTypes
    <3> QED BY <1>5, <2>1, <3>2 DEF Judge, Goto, GateTypes, InMutex
  <2> QED BY <1>1, <1>5, <2>1, JudgeChoice
<1>6. ASSUME NEW d \in Callers, Count(d) PROVE Held
  BY <1>1, <1>6, CountChoice
<1>7. CASE StoreSynced \/ TakeOff \/ Tick \/ UNCHANGED vars
  BY <1>7 DEF StoreSynced, TakeOff, Tick, vars, appVars, InMutex
<1> QED BY <1>2, <1>3, <1>4, <1>5, <1>6, <1>7 DEF Next, InCheck

\* The stored snapshot changes only by a synchronisation, to the uses made.
LEMMA LevelStep ==
  ASSUME SnapshotsTyped, GateTypes, Accounted, [Next]_vars, stored' # Nil
  PROVE  /\ stored # Nil
         /\ Level(stored') \in Nat /\ Level(stored') >= Level(stored)
         /\ syncs \in Nat /\ syncs' \in Nat /\ syncs' >= syncs
         /\ Level(stored') # Level(stored) =>
              syncs' > 0 /\ Level(stored') = Level(first) + used /\ UNCHANGED <<used, pc>>
<1>1. syncs \in Nat
  BY DEF GateTypes
<1>2. CASE StoreSynced
  <2>1. stored # Nil /\ Counted(stored) /\ synced = 0
    BY <1>2 DEF StoreSynced, Counted, Metered, Meter
  <2>2. /\ stored \in Payloads /\ Level(stored) \in Nat /\ Level(first) \in Nat
        /\ Level(stored) + local = Level(first) + used + synced
        /\ local \in Nat /\ used \in Nat
    BY <2>1, StoredMeter
  <2>3. Level(stored') = Level(stored) + local
    BY <1>2, <2>1, <2>2, SyncedPayload DEF StoreSynced
  <2>4. syncs' = syncs + 1 /\ UNCHANGED <<used, pc>>
    BY <1>2 DEF StoreSynced
  <2> QED BY <1>1, <2>1, <2>2, <2>3, <2>4
<1>3. CASE ~StoreSynced
  <2>1. UNCHANGED <<stored, syncs>>
    BY <1>3 DEF Next, InCheck, CheckNoLoader, Call, Load, LoadFails, Judge, Count,
       CountFails, Use, GiveUp, TakeOff, Tick, vars, appVars
  <2>2. stored # Nil
    BY <2>1
  <2>3. Level(stored) \in Nat
    BY <2>2, StoredMeter
  <2> QED BY <1>1, <2>1, <2>2, <2>3
<1> QED BY <1>2, <1>3

\* Count grants a use of a known meter only below the limit, to the caller that
\* holds the mutex.
LEMMA GrantBelowLimit ==
  ASSUME CountersFit, GateTypes, Accounted, NEW c \in Callers, NEW b \in Accesses,
         Count(c), Return(c, b), b.allowed, Known(first)
  PROVE  Level(loaded[c]) + local < Limit(first)
<1>1. InMutex(c) /\ SnapshotsTyped
  BY DEF Count, InMutex, CountersFit
<1>2. loaded[c] \in Payloads /\ Known(loaded[c]) /\ Limit(loaded[c]) = Limit(first)
  BY <1>1, LoadedMeter
<1>3. PICK a \in Accesses :
        /\ Return(c, a)
        /\ a.allowed =>
             \/ ~Known(loaded[c])
             \/ ComputeRemaining(loaded[c], Feature, local).remaining > 0
  BY CountChoice
<1>4. a = b
  BY <1>3, ReturnEffect
<1>5. ComputeRemaining(loaded[c], Feature, local).remaining > 0
  BY <1>2, <1>3, <1>4
<1>6. local \in Nat
  BY DEF GateTypes
<1> QED BY <1>1, <1>2, <1>5, <1>6, LoadedLevel, RemainingMeaning

LEMMA OverdraftStep ==
  CountersFit /\ GateTypes /\ Accounted /\ Overdraft /\ [Next]_vars => Overdraft'
<1> SUFFICES ASSUME CountersFit, GateTypes, Accounted, Overdraft, [Next]_vars,
                    stored' # Nil, Known(first')
             PROVE  /\ \/ Granted' <= Quota' + (N - 1)
                       \/ /\ syncs' > 0 /\ Granted' <= Quota' + N
                          /\ Level(stored') >= Limit(first')
                          /\ \A c \in Callers : InMutex(c)' => Level(loaded'[c]) >= Limit(first')
                    /\ \A c \in Callers : InMutex(c)' /\ Level(loaded'[c]) < Level(stored') =>
                         syncs' > 0 /\ Level(first') + Granted' <= Level(stored') + (N - 1)
  BY DEF Overdraft, N
<1> DEFINE L == Limit(first)
           L0 == Level(first)
<1>0. SnapshotsTyped
  BY DEF CountersFit
<1>1. /\ stored # Nil
      /\ Level(stored') \in Nat /\ Level(stored') >= Level(stored)
      /\ syncs \in Nat /\ syncs' \in Nat /\ syncs' >= syncs
      /\ Level(stored') # Level(stored) =>
           syncs' > 0 /\ Level(stored') = L0 + used /\ UNCHANGED <<used, pc>>
  BY <1>0, LevelStep
<1>2. /\ first' = first /\ Quota' = Quota /\ Quota \in Nat
      /\ first # Nil /\ Known(first) /\ L \in Nat
      /\ Quota = IF L0 < L THEN L - L0 ELSE 0
  <2>1. first' = first /\ Quota' = Quota
    BY QuotaFixed
  <2>2. Known(first) /\ first # Nil /\ first \in Payloads
    BY <1>0, <1>1, <2>1, StoredMeter
  <2>3. L \in Nat
    BY <2>2, LimitType, LicenseAssumption DEF Known, MaxUint64
  <2> QED BY <1>0, <2>1, <2>2, <2>3, QuotaValue, QuotaType
<1>3. /\ L0 \in Nat /\ Level(stored) \in Nat /\ L0 <= Level(stored)
      /\ Level(stored) + local = L0 + used + synced
      /\ local \in Nat /\ used \in Nat /\ synced \in Nat
  BY <1>0, <1>1, StoredMeter
<1>4. /\ Granted \in Nat /\ N \in Nat /\ N > 0
      /\ \A c \in Callers : pc[c] # "allowed" => Granted <= used + (N - 1)
  BY <1>3, AllowedCount
<1>5. /\ \/ Granted <= Quota + (N - 1)
         \/ /\ syncs > 0 /\ Granted <= Quota + N /\ Level(stored) >= L
            /\ \A c \in Callers : InMutex(c) => Level(loaded[c]) >= L
      /\ \A c \in Callers : InMutex(c) /\ Level(loaded[c]) < Level(stored) =>
           syncs > 0 /\ L0 + Granted <= Level(stored) + (N - 1)
  BY <1>1, <1>2 DEF Overdraft
<1>6. \A c \in Callers : InMutex(c) =>
        Level(loaded[c]) \in Nat /\ Level(loaded[c]) <= Level(stored)
  BY LoadedLevel
<1>7. \A c \in Callers : InMutex(c)' =>
        \/ InMutex(c) /\ loaded'[c] = loaded[c]
        \/ loaded'[c] = stored /\ stored' = stored
  BY MutexStep
<1> HIDE DEF L, L0
<1>8. CASE Granted' = Granted
  <2>1. ASSUME NEW c \in Callers, InMutex(c)', Level(loaded'[c]) < Level(stored')
        PROVE  syncs' > 0 /\ L0 + Granted <= Level(stored') + (N - 1)
    <3>1. InMutex(c) /\ loaded'[c] = loaded[c]
      BY <1>1, <1>7, <2>1
    <3>2. CASE Level(loaded[c]) < Level(stored)
      BY <1>1, <1>3, <1>4, <1>5, <3>1, <3>2
    <3>3. CASE ~(Level(loaded[c]) < Level(stored))
      <4>1. Level(stored') # Level(stored)
        BY <1>1, <1>6, <2>1, <3>1, <3>3
      <4>2. pc[c] # "allowed"
        BY <3>1 DEF InMutex
      <4> QED BY <1>1, <1>3, <1>4, <4>1, <4>2
    <3> QED BY <3>2, <3>3
  <2>2. CASE Granted <= Quota + (N - 1)
    BY <1>2, <1>8, <2>1, <2>2 DEF L0
  <2>3. CASE /\ syncs > 0 /\ Granted <= Quota + N /\ Level(stored) >= L
             /\ \A c \in Callers : InMutex(c) => Level(loaded[c]) >= L
    <3>1. \A c \in Callers : InMutex(c)' => Level(loaded'[c]) >= L
      BY <1>7, <2>3
    <3>2. syncs' > 0 /\ Level(stored') >= L
      BY <1>1, <1>2, <1>3, <2>3
    <3> QED BY <1>2, <1>8, <2>1, <2>3, <3>1, <3>2 DEF L, L0
  <2> QED BY <1>5, <2>2, <2>3
<1>9. ASSUME NEW c \in Callers, NEW b \in Accesses, Count(c), Return(c, b), b.allowed,
             Granted' = Granted + 1
      PROVE  /\ \/ Granted' <= Quota + (N - 1)
                \/ syncs > 0 /\ Granted' <= Quota + N /\ Level(stored) >= L
             /\ UNCHANGED <<stored, syncs>> /\ \A d \in Callers : ~InMutex(d)'
  <2>1. InMutex(c) /\ pc[c] # "allowed" /\ UNCHANGED <<stored, syncs>>
    BY <1>9 DEF Count, InMutex, appVars
  <2>2. \A d \in Callers : ~InMutex(d)'
    <3>1. \A d \in Callers \ {c} : ~InMutex(d)
      BY <2>1, GateAssumption DEF GateTypes
    <3> QED BY <1>9, <3>1, ReturnEffect DEF InMutex
  <2>3. Level(loaded[c]) + local < L
    BY <1>2, <1>9, GrantBelowLimit DEF L
  <2>4. Granted <= Quota + (N - 1)
    BY <1>2, <1>3, <1>5, <1>6, <2>1, <2>3
  <2>5. CASE Level(loaded[c]) = Level(stored)
    <3>1. used < Quota
      BY <1>2, <1>3, <2>3, <2>5
    <3> QED BY <1>2, <1>3, <1>4, <1>9, <2>1, <2>2, <3>1
  <2>6. CASE Level(loaded[c]) # Level(stored)
    <3>1. syncs > 0 /\ L0 + Granted <= Level(stored) + (N - 1)
      BY <1>5, <1>6, <1>3, <2>1, <2>6
    <3>2. CASE Level(stored) >= L
      BY <1>2, <1>4, <1>9, <2>1, <2>2, <2>4, <3>1, <3>2
    <3>3. CASE ~(Level(stored) >= L)
      <4>1. L0 < L /\ Quota = L - L0
        BY <1>2, <1>3, <3>3
      <4>2. Granted + 1 <= Quota + (N - 1)
        BY <1>2, <1>3, <1>4, <3>1, <3>3, <4>1
      <4> QED BY <1>9, <2>1, <2>2, <4>2
    <3> QED BY <3>2, <3>3
  <2> QED BY <2>5, <2>6
<1>10. CASE Granted' # Granted
  <2>1. PICK c \in Callers, b \in Accesses :
          /\ Count(c) /\ Return(c, b) /\ b.allowed /\ Granted' = Granted + 1
    BY <1>10, GrantedStep
  <2> QED BY <1>2, <1>9, <2>1 DEF L
<1> QED BY <1>8, <1>10

\* However many callers check, use and are delayed, and however often the usage is
\* synchronised meanwhile, the uses granted of a meter of any type exceed what there
\* was to grant by those of the other callers at most, and by one more after a
\* synchronisation (gate.go:95-155, and the bump of docs/31-gate.md that follows
\* Check).
THEOREM OverdraftIsBounded == ASSUME CountersFit PROVE Spec => []OverdraftBounded
<1>0. SnapshotsTyped
  BY DEF CountersFit
<1>1. CountersFit /\ Init => Overdraft
  <2> SUFFICES ASSUME CountersFit, Init PROVE Overdraft
    OBVIOUS
  <2>1. GateTypes
    BY <1>0, GateInit
  <2>2. Granted = 0 /\ \A c \in Callers : ~InMutex(c)
    <3>1. Allowed = {} /\ used = 0
      BY DEF Allowed, Init
    <3> QED BY <3>1, FS_EmptySet DEF Granted, Allowed, Init, InMutex
  <2>3. Quota \in Nat /\ N \in Nat /\ N > 0
    BY <1>0, <2>1, QuotaType, AllowedCount
  <2> QED BY <2>2, <2>3 DEF Overdraft
<1>2. GateTypes /\ Accounted /\ Overdraft /\ [Next]_vars => Overdraft'
  BY OverdraftStep
<1>3. GateTypes /\ Accounted /\ Overdraft => OverdraftBounded
  <2> SUFFICES ASSUME GateTypes, Accounted, Overdraft PROVE OverdraftBounded
    OBVIOUS
  <2>1. /\ Granted = used + Cardinality(Allowed) /\ N \in Nat /\ N > 0
        /\ Cardinality(Allowed) \in 0..N /\ used \in 0..MaxUses
        /\ MaxUses \in Nat /\ syncs \in Nat /\ 2 * MaxUses + 1 < Word
    <3>1. used \in 0..MaxUses /\ syncs \in Nat
      BY GateAssumption DEF GateTypes
    <3>2. MaxUses \in Nat /\ 2 * MaxUses + 1 < Word
      BY GateAssumption DEF CountersFit
    <3> QED BY <3>1, <3>2, AllowedCount
  <2>2. CASE stored # Nil /\ Known(first)
    <3>1. Quota \in Nat
      BY <1>0, QuotaType
    <3> QED BY <2>1, <2>2, <3>1 DEF Overdraft, OverdraftBounded, N
  <2>3. CASE ~(stored # Nil /\ Known(first))
    <3>1. Quota = Word - 1 /\ Word \in Nat
      BY <1>0, <2>3, QuotaValue, LicenseAssumption DEF Accounted
    <3>2. Granted <= Quota + (N - 1)
      BY <2>1, <3>1
    <3> QED BY <2>1, <3>1, <3>2 DEF OverdraftBounded, N
  <2> QED BY <2>2, <2>3
<1>4. Spec => [](GateTypes /\ Accounted)
  BY <1>0, GateInvariant
<1> QED BY <1>1, <1>2, <1>3, <1>4, PTL DEF Spec

-----------------------------------------------------------------------------
(* Decisions *)

Flag(p) == IF Feature \in DOMAIN p.features THEN p.features[Feature] ELSE Nil

Grants(s) == /\ ComputeState(s.payload, GraceWindow, s.now) \in {"active", "trialing", "grace"}
             /\ Flag(s.payload) # FALSE
             /\ LET r == ComputeRemaining(s.payload, Feature, s.consumed)
                IN IF r.known THEN r.remaining > 0 ELSE Flag(s.payload) = TRUE

Decided(c, a) == /\ pc[c] \in {"allowed", "denied"} /\ a.state # "none"
                 /\ a.reasonKind # "local_consumption_failed"

\* Between Judge and Count a caller's payload has passed the state and the flag.
Ruled(c) ==
  /\ pc[c] = "count" =>
       /\ seen[c].payload = loaded[c]
       /\ ComputeState(loaded[c], GraceWindow, seen[c].now) \in {"active", "trialing", "grace"}
       /\ Flag(loaded[c]) # FALSE
       /\ access[c].hasFeature <=> Flag(loaded[c]) = TRUE
  /\ Decided(c, access[c]) => (access[c].allowed <=> Grants(seen[c]))

\* What one caller's step leaves alone.
LEMMA OthersStay ==
  ASSUME GateTypes, Sighted, [Next]_vars, NEW c \in Callers
  PROVE  \/ /\ pc'[c] = pc[c] /\ access'[c] = access[c]
            /\ seen'[c] = seen[c] /\ loaded'[c] = loaded[c]
         \/ CheckNoLoader(c) \/ Call(c) \/ InCheck(c) \/ Use(c) \/ GiveUp(c)
<1> DEFINE Same == /\ pc'[c] = pc[c] /\ access'[c] = access[c]
                   /\ seen'[c] = seen[c] /\ loaded'[c] = loaded[c]
<1>1. ASSUME NEW d \in Callers \ {c}, CheckNoLoader(d) \/ Call(d) \/ Use(d) \/ GiveUp(d)
      PROVE  Same
  BY <1>1 DEF CheckNoLoader, Call, Use, GiveUp, Set, Goto, GateTypes
<1>2. ASSUME NEW d \in Callers \ {c}, Load(d) \/ LoadFails(d) \/ CountFails(d)
      PROVE  Same
  BY <1>2 DEF Load, LoadFails, CountFails, Return, Set, Goto, GateTypes
<1>3. ASSUME NEW d \in Callers \ {c}, Judge(d) PROVE Same
  BY <1>3 DEF Judge, Return, Set, Goto, GateTypes, Sighted
<1>4. ASSUME NEW d \in Callers \ {c}, Count(d) PROVE Same
  BY <1>4 DEF Count, Return, Set, Goto, GateTypes, Sighted
<1>5. CASE StoreSynced \/ TakeOff \/ Tick \/ UNCHANGED vars
  BY <1>5 DEF StoreSynced, TakeOff, Tick, vars
<1> QED BY <1>1, <1>2, <1>3, <1>4, <1>5 DEF Next, InCheck

LEMMA FlagValue ==
  ASSUME SnapshotsTyped, NEW p \in Payloads
  PROVE  /\ Flag(p) \in BOOLEAN \/ Flag(p) = Nil
         /\ Feature \in DOMAIN p.features => Flag(p) \in BOOLEAN /\ Flag(p) = p.features[Feature]
         /\ Feature \notin DOMAIN p.features => Flag(p) # TRUE /\ Flag(p) # FALSE
<1>1. PICK D \in SUBSET {Feature, "__trial"} : p.features \in [D -> BOOLEAN]
  BY DEF Payloads
<1>2. Nil \notin BOOLEAN
  BY DEF SnapshotsTyped
<1> QED BY <1>1, <1>2 DEF Flag

LEMMA JudgeRules ==
  ASSUME SnapshotsTyped, GateTypes, Sighted, NEW c \in Callers, Judge(c)
  PROVE  Ruled(c)'
<1> DEFINE p == loaded[c]
           state == ComputeState(p, GraceWindow, now)
           a == [access[c] EXCEPT !.state = state]
           flagged == Feature \in DOMAIN p.features
           Good == {"active", "trialing", "grace"}
<1>1. /\ p \in Payloads /\ p # Nil /\ access[c] \in Accesses /\ access[c].allowed = FALSE
      /\ pc[c] = "judge"
  BY DEF Judge, GateTypes, InMutex
<1>2. state \in Good \cup {"expired", "invalid"}
  BY <1>1 DEF ComputeState
<1>3. /\ seen'[c] = [payload |-> p, now |-> now, consumed |-> 0, synced |-> 0]
      /\ UNCHANGED now
  BY DEF Judge, Sighted
<1>4. \/ state = "expired" /\ Return(c, Deny(a, "license_expired"))
      \/ state = "invalid" /\ Return(c, Deny(a, "license_invalid"))
      \/ Flag(p) = FALSE /\ Return(c, Deny(a, "feature_disabled"))
      \/ /\ state \in Good /\ Flag(p) # FALSE
         /\ Set(c, [a EXCEPT !.hasFeature = flagged])
         /\ Goto(c, "count") /\ UNCHANGED loaded
  <2>1. flagged => Flag(p) \in BOOLEAN /\ Flag(p) = p.features[Feature]
    BY <1>1, FlagValue
  <2>2. ~flagged => Flag(p) # FALSE
    BY <1>1, FlagValue
  <2> HIDE DEF p
  <2> QED BY <1>2, <2>1, <2>2 DEF Judge, p
<1>5. ASSUME NEW r \in {"license_expired", "license_invalid", "feature_disabled"},
             Return(c, Deny(a, r)), ~(state \in Good /\ Flag(p) # FALSE)
      PROVE  Ruled(c)'
  <2>1. /\ Deny(a, r) \in Accesses /\ Deny(a, r).allowed = FALSE
    <3> HIDE DEF state
    <3>1. a \in Accesses /\ a.allowed = FALSE /\ r \in Reasons
      BY <1>1, <1>2, <1>5 DEF Accesses, Reasons
    <3> QED BY <3>1 DEF Deny, Accesses
  <2>2. pc'[c] = "denied" /\ access'[c].allowed = FALSE
    BY <1>5, <2>1, ReturnEffect
  <2>3. ~Grants(seen'[c])
    <3>1. seen'[c].payload = p /\ seen'[c].now = now
      BY <1>3
    <3> QED BY <1>5, <3>1 DEF Grants
  <2> QED BY <2>2, <2>3 DEF Ruled, Grants, Flag
<1>6. CASE /\ state \in Good /\ Flag(p) # FALSE
           /\ Set(c, [a EXCEPT !.hasFeature = flagged])
           /\ Goto(c, "count") /\ UNCHANGED loaded
  <2>1. pc'[c] = "count" /\ loaded'[c] = p
    BY <1>6 DEF Goto, GateTypes
  <2>2. access'[c].hasFeature = flagged
    <3> HIDE DEF state, flagged
    <3>1. [a EXCEPT !.hasFeature = flagged].hasFeature = flagged
      BY <1>1 DEF Accesses
    <3> QED BY <1>6, <3>1 DEF Set, GateTypes
  <2>3. flagged <=> Flag(p) = TRUE
    BY <1>1, <1>6, FlagValue
  <2>4. seen'[c].payload = loaded'[c] /\ seen'[c].now = now
    BY <1>3, <2>1
  <2>5. /\ ComputeState(loaded'[c], GraceWindow, seen'[c].now) \in Good
        /\ Flag(loaded'[c]) # FALSE
    BY <1>6, <2>1, <2>4
  <2> QED BY <2>1, <2>2, <2>3, <2>4, <2>5 DEF Ruled, Decided, Flag
<1> QED BY <1>2, <1>4, <1>5, <1>6

LEMMA CountRules ==
  ASSUME GateTypes, Sighted, NEW c \in Callers, Count(c), Ruled(c)
  PROVE  Ruled(c)'
<1> DEFINE p == loaded[c]
           r == ComputeRemaining(p, Feature, local)
           a == [access[c] EXCEPT !.unlimited = r.unlimited, !.remaining = r.remaining]
<1>1. /\ pc[c] = "count" /\ p \in Payloads /\ InMutex(c) /\ access[c] \in Accesses
      /\ access[c].allowed = FALSE /\ local \in Nat
  BY DEF Count, GateTypes, InMutex
<1>2. /\ seen[c].payload = p /\ Flag(p) # FALSE
      /\ ComputeState(p, GraceWindow, seen[c].now) \in {"active", "trialing", "grace"}
      /\ access[c].hasFeature <=> Flag(p) = TRUE
  BY <1>1 DEF Ruled
<1>3. /\ seen'[c].payload = p /\ seen'[c].now = seen[c].now /\ seen'[c].consumed = local
  BY <1>2 DEF Count, Sighted, Sights
<1>4. Grants(seen'[c]) <=> IF r.known THEN r.remaining > 0 ELSE access[c].hasFeature
  BY <1>2, <1>3 DEF Grants
<1>5. r \in Remains /\ (r.unlimited => r.remaining > 0)
  BY <1>1, RemainingType
<1>6. \/ /\ ~r.known /\ a.hasFeature
         /\ Return(c, [a EXCEPT !.allowed = TRUE, !.unlimited = TRUE])
      \/ ~r.known /\ ~a.hasFeature /\ Return(c, Deny(a, "feature_missing"))
      \/ /\ r.known /\ (r.unlimited \/ r.remaining > 0)
         /\ Return(c, [a EXCEPT !.allowed = TRUE, !.hasFeature = TRUE])
      \/ r.known /\ r.remaining = 0 /\ Return(c, Deny(a, "limit_reached"))
  BY DEF Count
<1> HIDE DEF r
<1>7. a \in Accesses /\ a.allowed = FALSE /\ a.hasFeature = access[c].hasFeature
  BY <1>1, <1>5, CountedAccess
<1> HIDE DEF a
<1>8. /\ [a EXCEPT !.allowed = TRUE, !.unlimited = TRUE] \in Accesses
      /\ [a EXCEPT !.allowed = TRUE, !.unlimited = TRUE].allowed = TRUE
      /\ [a EXCEPT !.allowed = TRUE, !.hasFeature = TRUE] \in Accesses
      /\ [a EXCEPT !.allowed = TRUE, !.hasFeature = TRUE].allowed = TRUE
      /\ \A q \in Reasons : Deny(a, q) \in Accesses /\ Deny(a, q).allowed = FALSE
  BY <1>7 DEF Accesses, Deny
<1>9. \E b \in Accesses : Return(c, b) /\ (b.allowed <=> Grants(seen'[c]))
  <2>1. CASE /\ ~r.known /\ a.hasFeature
             /\ Return(c, [a EXCEPT !.allowed = TRUE, !.unlimited = TRUE])
    BY <1>4, <1>7, <1>8, <2>1
  <2>2. CASE ~r.known /\ ~a.hasFeature /\ Return(c, Deny(a, "feature_missing"))
    BY <1>4, <1>7, <1>8, <2>2 DEF Reasons
  <2>3. CASE /\ r.known /\ (r.unlimited \/ r.remaining > 0)
             /\ Return(c, [a EXCEPT !.allowed = TRUE, !.hasFeature = TRUE])
    BY <1>4, <1>5, <1>8, <2>3
  <2>4. CASE r.known /\ r.remaining = 0 /\ Return(c, Deny(a, "limit_reached"))
    <3>1. r.known /\ ~(r.remaining > 0)
      BY <2>4
    <3>2. ~Grants(seen'[c])
      BY <1>4, <3>1
    <3> QED BY <1>8, <2>4, <3>2 DEF Reasons
  <2> QED BY <1>6, <2>1, <2>2, <2>3, <2>4
<1>10. pc'[c] # "count" /\ (access'[c].allowed <=> Grants(seen'[c]))
  BY <1>9, ReturnEffect
<1> QED BY <1>10 DEF Ruled, Grants, Flag

LEMMA RuledStep ==
  ASSUME SnapshotsTyped, GateTypes, Sighted, [Next]_vars, NEW c \in Callers, Ruled(c)
  PROVE  Ruled(c)'
<1>1. CASE /\ pc'[c] = pc[c] /\ access'[c] = access[c]
           /\ seen'[c] = seen[c] /\ loaded'[c] = loaded[c]
  BY <1>1 DEF Ruled, Decided, Grants, Flag
<1>2. ASSUME pc'[c] \notin {"count", "allowed", "denied"} PROVE Ruled(c)'
  BY <1>2 DEF Ruled, Decided
<1>3. CASE Call(c) \/ Use(c) \/ GiveUp(c) \/ (Load(c) /\ stored # Nil)
  BY <1>2, <1>3 DEF Call, Use, GiveUp, Load, Goto, GateTypes
<1>4. ASSUME pc'[c] = "denied", access'[c].state = "none" PROVE Ruled(c)'
  BY <1>4 DEF Ruled, Decided
<1>5. \A r \in Reasons : /\ Deny(NoAccess, r) \in Accesses
                         /\ Deny(NoAccess, r).state = "none"
                         /\ Deny(NoAccess, r).allowed = FALSE
  <2>1. NoAccess \in Accesses /\ NoAccess.state = "none" /\ NoAccess.allowed = FALSE
    BY AccessTypes DEF NoAccess
  <2> QED BY <2>1 DEF Deny, Accesses
<1>6. CASE CheckNoLoader(c)
  BY <1>4, <1>5, <1>6 DEF CheckNoLoader, Set, Goto, GateTypes, Reasons
<1>7. CASE LoadFails(c) \/ (Load(c) /\ stored = Nil)
  <2>1. \E r \in Reasons : Return(c, Deny(NoAccess, r))
    BY <1>7 DEF LoadFails, Load, Reasons
  <2> QED BY <1>4, <1>5, <2>1, ReturnEffect
<1>8. CASE CountFails(c)
  <2>1. access[c] \in Accesses /\ access[c].allowed = FALSE
    BY <1>8 DEF CountFails, GateTypes, InMutex
  <2>2. /\ Deny(access[c], "local_consumption_failed") \in Accesses
        /\ Deny(access[c], "local_consumption_failed").allowed = FALSE
        /\ Deny(access[c], "local_consumption_failed").reasonKind = "local_consumption_failed"
    BY <2>1 DEF Deny, Accesses, Reasons
  <2>3. pc'[c] = "denied" /\ access'[c].reasonKind = "local_consumption_failed"
    BY <1>8, <2>2, ReturnEffect DEF CountFails
  <2> QED BY <2>3 DEF Ruled, Decided
<1>9. CASE Judge(c)
  BY <1>9, JudgeRules
<1>10. CASE Count(c)
  BY <1>10, CountRules
<1> QED
  BY <1>1, <1>3, <1>6, <1>7, <1>8, <1>9, <1>10, OthersStay DEF InCheck

\* Though a Check reads the snapshot, the clock and the counter apart, its decision
\* is the one docs/31-gate.md:152-165 gives for what it read (gate.go:92-158).
THEOREM DecisionsFollowRules == ASSUME SnapshotsTyped PROVE Spec => []DecisionFollowsRules
<1> DEFINE Ruling == \A c \in Callers : Ruled(c)
<1>1. Init => Ruling
  BY DEF Init, Ruled, Decided
<1>2. GateTypes /\ Sighted /\ Ruling /\ [Next]_vars => Ruling'
  BY RuledStep
<1>3. Ruling => DecisionFollowsRules
  BY DEF Ruled, Decided, Grants, Flag, DecisionFollowsRules
<1> HIDE DEF Ruling
<1> QED BY <1>1, <1>2, <1>3, SightedInvariant, PTL DEF Spec
=============================================================================
