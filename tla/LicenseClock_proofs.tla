------------------------- MODULE LicenseClock_proofs -------------------------
(***************************************************************************)
(* Proofs about License and LicenseClock, for every snapshot and every     *)
(* instant, as long as the dates fit into a time.Duration.                 *)
(***************************************************************************)
EXTENDS LicenseClock, TLAPS

\* Grace periods fit into a time.Duration, and so does the time from the epoch
\* of the clock to an expiry.
DatesFit ==
  /\ Nil \notin Payloads
  /\ \A p \in Payloads :
       /\ GraceDays(p) \in Int
       /\ GraceDays(p) * Day \in -HalfDuration..(HalfDuration - 1)
       /\ Parsed(p.validUntil) => p.validUntil < HalfDuration

ClockInv == payload \in Payloads /\ now \in Nat

LEMMA ClockInit == Init => ClockInv
  BY DEF Init, ClockInv

LEMMA ClockStep == ClockInv /\ [Next]_vars => ClockInv'
  BY DEF ClockInv, Next, Tick, Consume, vars

-----------------------------------------------------------------------------
(* Arithmetic *)

LEMMA Divide ==
  ASSUME NEW a \in Nat, NEW m \in Nat \ {0}
  PROVE  /\ a \div m \in Nat /\ a % m \in 0..(m - 1)
         /\ a = m * (a \div m) + (a % m)
<1>1. a = m * (a \div m) + (a % m) /\ a % m \in 0..(m - 1)
  OBVIOUS
<1>2. a \div m \in Nat
  OBVIOUS
<1> QED BY <1>1, <1>2

LEMMA SmallRemainder ==
  ASSUME NEW m \in Nat \ {0}, NEW a \in 0..(m - 1)
  PROVE  a % m = a
  OBVIOUS

\* A product that fits does not wrap.
LEMMA DurationFits ==
  ASSUME NEW d \in -HalfDuration..(HalfDuration - 1)
  PROVE  Duration(d) = d
<1>1. d + HalfDuration \in 0..(2 * HalfDuration - 1)
  BY LicenseAssumption
<1>2. 2 * HalfDuration \in Nat \ {0}
  BY LicenseAssumption
<1>3. (d + HalfDuration) % (2 * HalfDuration) = d + HalfDuration
  BY <1>1, <1>2, SmallRemainder
<1> QED BY <1>3, LicenseAssumption DEF Duration

\* A difference that is positive and fits is not cut.
LEMMA SubFits ==
  ASSUME NEW t \in Int, NEW u \in Int, t - u < HalfDuration
  PROVE  IF t - u <= 0 THEN Sub(t, u) <= 0 ELSE Sub(t, u) = t - u
  BY LicenseAssumption DEF Sub

\* DaysIn rounds up, and counts one day more where Hours() rounds up as well.
Extra(left) == IF RoundedUp(left) THEN 1 ELSE 0

LEMMA DaysCover ==
  ASSUME NEW left \in Nat \ {0}
  PROVE  /\ DaysIn(left) \in Nat
         /\ (DaysIn(left) - Extra(left) - 1) * Day < left
         /\ left <= (DaysIn(left) - Extra(left)) * Day
<1> DEFINE q == left \div Day
           r == left % Day
<1>1. q \in Nat /\ r \in 0..(Day - 1) /\ left = Day * q + r /\ Day \in Nat \ {0}
  BY Divide, LicenseAssumption
<1>2. DaysIn(left) = (IF RoundedUp(left) THEN q + 1 ELSE q) + (IF r > 0 THEN 1 ELSE 0)
  BY <1>1 DEF DaysIn
<1> HIDE DEF q, r
<1>3. /\ DaysIn(left) \in Nat
      /\ DaysIn(left) - Extra(left) = q + (IF r > 0 THEN 1 ELSE 0)
  BY <1>1, <1>2 DEF Extra
<1>4. CASE r = 0
  <2>1. DaysIn(left) - Extra(left) = q /\ left = Day * q
    BY <1>1, <1>3, <1>4
  <2>2. (q - 1) * Day = Day * q - Day
    BY <1>1
  <2> QED BY <1>1, <1>3, <2>1, <2>2
<1>5. CASE r > 0
  <2>1. DaysIn(left) - Extra(left) = q + 1 /\ (q + 1) * Day = Day * q + Day
    BY <1>1, <1>3, <1>5
  <2>2. (q + 1 - 1) * Day = Day * q
    BY <1>1
  <2> QED BY <1>1, <1>3, <1>5, <2>1, <2>2
<1> QED BY <1>1, <1>4, <1>5

-----------------------------------------------------------------------------
(* Theorems *)

\* license and lifecycle judge every dated snapshot alike at every instant.
THEOREM PackagesAgree == DatesFit => (Spec => []ExpiryAgrees)
<1> SUFFICES ASSUME DatesFit PROVE Spec => []ExpiryAgrees
  OBVIOUS
<1>1. ClockInv => ExpiryAgrees
  <2> SUFFICES ASSUME ClockInv, Parsed(payload.validUntil) PROVE ExpiryAgrees
    BY DEF ExpiryAgrees
  <2>1. payload # Nil /\ Window \in Int /\ payload.validUntil \in Int /\ now \in Int
    BY LicenseAssumption DEF ClockInv, DatesFit, Window, Parsed
  <2>2. Duration(Window) = Window
    BY DurationFits DEF ClockInv, DatesFit, Window
  <2> QED
    BY <2>1, <2>2 DEF ExpiryAgrees, State, ComputeState, IsExpired, IsInGrace, Parsed
<1> QED BY <1>1, ClockInit, ClockStep, PTL DEF Spec

\* Under one snapshot time never makes a license valid again.
THEOREM TimeOnlyExpires == DatesFit => (Spec => StateMovesForward)
<1> SUFFICES ASSUME DatesFit PROVE Spec => StateMovesForward
  OBVIOUS
<1>1. ClockInv /\ [Next]_vars => [Rank[State'] >= Rank[State]]_vars
  <2> SUFFICES ASSUME ClockInv, Next PROVE Rank[State'] >= Rank[State]
    BY DEF vars
  <2>1. /\ payload' = payload /\ payload # Nil /\ Window \in Int
        /\ now \in Int /\ now' \in Int /\ now <= now'
    BY LicenseAssumption DEF ClockInv, DatesFit, Window, Next, Tick, Consume
  <2>2. CASE ~Parsed(payload.validUntil)
    BY <2>1, <2>2 DEF State, ComputeState, Rank, Window
  <2>3. CASE Parsed(payload.validUntil)
    <3>1. payload.validUntil \in Int
      BY <2>3 DEF Parsed
    <3>2. \/ now <= payload.validUntil /\ Rank[State] = 1
          \/ /\ now > payload.validUntil /\ now <= payload.validUntil + Window
             /\ Rank[State] = 2
          \/ /\ now > payload.validUntil /\ now > payload.validUntil + Window
             /\ Rank[State] = 3
      BY <2>1, <2>3, <3>1 DEF State, ComputeState, Rank
    <3>3. \/ now' <= payload.validUntil /\ Rank[State'] = 1
          \/ /\ now' > payload.validUntil /\ now' <= payload.validUntil + Window
             /\ Rank[State'] = 2
          \/ /\ now' > payload.validUntil /\ now' > payload.validUntil + Window
             /\ Rank[State'] = 3
      BY <2>1, <2>3, <3>1 DEF State, ComputeState, Rank, Window
    <3> QED BY <2>1, <3>1, <3>2, <3>3
  <2> QED BY <2>2, <2>3
<1> QED BY <1>1, ClockInit, ClockStep, PTL DEF Spec, StateMovesForward

\* The badges count the days left of the state the license is in, rounded up, with
\* one more where Hours() rounds up as well.
THEOREM DaysLeftRounded == DatesFit => (Spec => []DaysLeftCovers)
<1> SUFFICES ASSUME DatesFit PROVE Spec => []DaysLeftCovers
  OBVIOUS
<1>1. ClockInv => DaysLeftCovers
  <2> SUFFICES ASSUME ClockInv PROVE DaysLeftCovers
    OBVIOUS
  <2> DEFINE left == payload.validUntil - now
             graceLeft == payload.validUntil + Window - now
             trial == TrialDaysLeft(payload, now)
             grace == GraceDaysLeft(payload, now)
  <2>1. payload # Nil /\ Window \in Int /\ now \in Nat /\ Window < HalfDuration
    BY LicenseAssumption DEF ClockInv, DatesFit, Window
  <2>2. CASE ~Parsed(payload.validUntil)
    <3>1. trial = 0 /\ grace = 0
      BY <2>1, <2>2 DEF TrialDaysLeft, GraceDaysLeft
    <3>2. State = "invalid"
      BY <2>1, <2>2 DEF State, ComputeState
    <3> QED BY <3>1, <3>2 DEF DaysLeftCovers
  <2>3. CASE Parsed(payload.validUntil)
    <3>1. /\ payload.validUntil \in Int /\ left \in Int /\ left < HalfDuration
          /\ graceLeft \in Int
      BY <2>1, <2>3, LicenseAssumption DEF ClockInv, DatesFit, Parsed
    <3>2. Duration(GraceDays(payload) * Day) = Window
      BY DurationFits DEF ClockInv, DatesFit, Window
    <3>3. State = IF now <= payload.validUntil
                  THEN IF isTrialPayload(payload) THEN "trialing" ELSE "active"
                  ELSE IF now <= payload.validUntil + Window THEN "grace" ELSE "expired"
      BY <2>1, <2>3 DEF State, ComputeState
    <3>4. IF State = "trialing" /\ left > 0 THEN trial = DaysIn(left) ELSE trial = 0
      BY <2>1, <2>3, <3>1, <3>3, SubFits DEF TrialDaysLeft
    <3>5. ASSUME State \in {"grace", "expired"}
          PROVE  IF graceLeft <= 0 THEN grace = 0 ELSE grace = DaysIn(graceLeft)
      <4>1. now > payload.validUntil
        BY <2>1, <3>1, <3>3, <3>5
      <4>2. payload.validUntil + Window \in Int /\ graceLeft < HalfDuration
        BY <2>1, <3>1, <4>1, LicenseAssumption
      <4> QED BY <2>1, <2>3, <3>1, <3>2, <4>1, <4>2, SubFits DEF GraceDaysLeft
    <3>6. State \in {"invalid", "active", "trialing"} /\ now # payload.validUntil
            => grace = 0
      BY <2>1, <2>3, <3>1, <3>3 DEF GraceDaysLeft
    <3>7. \A n \in Int : n > 0 => /\ (DaysIn(n) - Extra(n) - 1) * Day < n
                                  /\ n <= (DaysIn(n) - Extra(n)) * Day
      BY DaysCover
    <3> HIDE DEF left, graceLeft, trial, grace
    <3>8. IF State = "trialing"
          THEN IF left <= 0 THEN trial = 0
               ELSE /\ (trial - Extra(left) - 1) * Day < left
                    /\ left <= (trial - Extra(left)) * Day
          ELSE trial = 0
      BY <3>1, <3>4, <3>7
    <3>9. State \in {"grace", "expired"} =>
            IF graceLeft <= 0 THEN grace = 0
            ELSE /\ (grace - Extra(graceLeft) - 1) * Day < graceLeft
                 /\ graceLeft <= (grace - Extra(graceLeft)) * Day
      BY <3>1, <3>5, <3>7
    <3> QED
      BY <3>6, <3>8, <3>9
      DEF DaysLeftCovers, Extra, left, graceLeft, trial, grace
  <2> QED BY <2>2, <2>3
<1> QED BY <1>1, ClockInit, ClockStep, PTL DEF Spec

WindowDays(p) == IF p.updatesWindowDays = Nil THEN 0 ELSE p.updatesWindowDays

\* Windows for updates fit into a time.Duration.
WindowsFit ==
  \A p \in Payloads :
    /\ WindowDays(p) \in Int
    /\ WindowDays(p) * Day \in -HalfDuration..(HalfDuration - 1)

\* An update is covered by the later of the two dates that can be read.
THEOREM UpdatesCovered == WindowsFit => (Spec => []UpdatesFollowDates)
<1> SUFFICES ASSUME WindowsFit PROVE Spec => []UpdatesFollowDates
  OBVIOUS
<1>1. ClockInv => UpdatesFollowDates
  <2> SUFFICES ASSUME ClockInv PROVE UpdatesFollowDates
    OBVIOUS
  <2> DEFINE window == WindowDays(payload) * Day
  <2>1. window \in Int /\ now \in Int /\ Duration(window) = window
    BY DurationFits, LicenseAssumption DEF ClockInv, WindowsFit
  <2>2. CanUseUpdate(payload, now) <=>
          LET effective ==
                IF /\ payload.fallbackReleaseDate \in Int
                   /\ \/ payload.paidUpUntil \notin Int
                      \/ payload.fallbackReleaseDate > payload.paidUpUntil
                THEN payload.fallbackReleaseDate ELSE payload.paidUpUntil
          IN effective \in Int => now <= effective + window
    BY <2>1 DEF CanUseUpdate, Parsed, WindowDays
  <2> HIDE DEF window
  <2>3. UpdatesFollowDates <=>
          (CanUseUpdate(payload, now) <=>
             LET dates == {payload.paidUpUntil, payload.fallbackReleaseDate} \cap Int
             IN dates # {} => \E d \in dates : now <= d + window)
    BY DEF UpdatesFollowDates, window, WindowDays
  <2> QED BY <2>1, <2>2, <2>3
<1> QED BY <1>1, ClockInit, ClockStep, PTL DEF Spec

\* The meters of a snapshot fit into a uint64, with the uses to come.
MetersFit ==
  \A p \in Payloads : \A f \in DOMAIN p.usage :
    /\ p.usage[f].limit \in Nat \cup {Nil}
    /\ {p.usage[f].allowance, p.usage[f].consumedAtIssue} \subseteq Nat
    /\ p.usage[f].consumedAtIssue + MaxConsumed < Word

\* Recorded uses come off what is left, one for one.
THEOREM UsesComeOff == MetersFit => (Spec => ConsumptionCounts)
<1> SUFFICES ASSUME MetersFit PROVE Spec => ConsumptionCounts
  OBVIOUS
<1> DEFINE Inv == payload \in Payloads /\ consumedLocal \in 0..MaxConsumed
<1>1. Init => Inv
  BY LicenseClockAssumption DEF Init
<1>2. Inv /\ [Next]_vars => Inv'
  BY LicenseClockAssumption DEF Next, Tick, Consume, vars
<1>3. Inv /\ [Next]_vars =>
        [\A f \in DOMAIN payload.usage :
           LET before == Remaining(f).remaining
               n == consumedLocal' - consumedLocal
               after == before - n
           IN Remaining(f).known /\ ~Remaining(f).unlimited =>
                Remaining(f)'.remaining = IF after < 0 THEN 0 ELSE after]_vars
  <2> SUFFICES
        ASSUME Inv, Next, NEW f \in DOMAIN payload.usage,
               Remaining(f).known, ~Remaining(f).unlimited
        PROVE  Remaining(f)'.remaining =
                 IF Remaining(f).remaining - (consumedLocal' - consumedLocal) < 0
                 THEN 0
                 ELSE Remaining(f).remaining - (consumedLocal' - consumedLocal)
    BY DEF vars
  <2> DEFINE u == payload.usage[f]
  <2>1. /\ payload' = payload /\ consumedLocal' \in Nat /\ consumedLocal \in Nat
        /\ consumedLocal <= consumedLocal' /\ consumedLocal' <= MaxConsumed
    BY LicenseClockAssumption DEF Next, Tick, Consume
  <2>2. /\ u.limit \in Nat \cup {Nil} /\ u.allowance \in Nat
        /\ u.consumedAtIssue \in Nat /\ u.consumedAtIssue + MaxConsumed < Word
    BY DEF MetersFit
  <2> HIDE DEF u
  <2>3. ASSUME NEW c \in Nat, c <= MaxConsumed
        PROVE  (u.consumedAtIssue + c) % Word = u.consumedAtIssue + c
    <3>1. MaxConsumed \in Nat /\ Word \in Nat \ {0}
      BY LicenseAssumption, LicenseClockAssumption DEF MaxUint64
    <3>2. u.consumedAtIssue + c \in 0..(Word - 1)
      BY <2>2, <2>3, <3>1
    <3> QED BY <3>1, <3>2, SmallRemainder
  <2> USE DEF u
  <2>4. CASE u.type = "bool"
    BY <2>1, <2>4 DEF Remaining, ComputeRemaining, Unlimited, Limited
  <2>5. CASE u.type = "count"
    BY <2>1, <2>2, <2>5 DEF Remaining, ComputeRemaining, Unlimited, Limited
  <2>6. CASE u.type = "counter"
    BY <2>1, <2>2, <2>3, <2>6 DEF Remaining, ComputeRemaining, Unlimited, Limited
  <2>7. CASE u.type \notin {"bool", "count", "counter"}
    BY <2>1, <2>7 DEF Remaining, ComputeRemaining, Unknown
  <2> QED BY <2>4, <2>5, <2>6, <2>7
<1> QED BY <1>1, <1>2, <1>3, PTL DEF Spec, ConsumptionCounts

-----------------------------------------------------------------------------
(* Types *)

Uint64 == 0..MaxUint64

\* A snapshot as Decode returns it: dates that may be missing or unreadable, days
\* of any size, and meters of machine integers.
PayloadsTyped ==
  /\ Nil \notin Payloads
  /\ \A p \in Payloads :
       /\ p.validUntil \in Int \cup {Nil, Bad}
       /\ GraceDays(p) \in Int
       /\ \A f \in DOMAIN p.usage :
            /\ p.usage[f].limit \in Uint64 \cup {Nil}
            /\ {p.usage[f].allowance, p.usage[f].consumedAtIssue} \subseteq Uint64

\* What is left is a uint64, whatever wraps.
LEMMA RemainingType ==
  ASSUME PayloadsTyped, payload \in Payloads, consumedLocal \in Uint64,
         NEW f \in DOMAIN payload.usage
  PROVE  Remaining(f) \in [remaining : Uint64, unlimited : BOOLEAN, known : BOOLEAN]
<1> DEFINE u == payload.usage[f]
           total == (u.consumedAtIssue + consumedLocal) % Word
<1>1. /\ u.limit \in Uint64 \cup {Nil} /\ u.allowance \in Uint64
      /\ u.consumedAtIssue \in Uint64
  BY DEF PayloadsTyped
<1>2. MaxUint64 \in Nat /\ 0 \in Uint64 /\ MaxUint64 \in Uint64
  BY LicenseAssumption DEF MaxUint64, Uint64
<1> HIDE DEF u
<1>3. total \in Nat
  BY <1>1, LicenseAssumption, Divide DEF Uint64, MaxUint64
<1> HIDE DEF total
<1>4. ASSUME NEW n \in Uint64
      PROVE  Limited(n) \in [remaining : Uint64, unlimited : BOOLEAN, known : BOOLEAN]
  BY DEF Limited
<1>5. /\ Unlimited \in [remaining : Uint64, unlimited : BOOLEAN, known : BOOLEAN]
      /\ Unknown \in [remaining : Uint64, unlimited : BOOLEAN, known : BOOLEAN]
  BY <1>2 DEF Unlimited, Unknown
<1>6. ASSUME NEW n \in Uint64, NEW m \in Nat, m < n
      PROVE  n - m \in Uint64
  BY <1>2, <1>6 DEF Uint64
<1>7. CASE u.type = "bool"
  BY <1>2, <1>4, <1>5, <1>7 DEF Remaining, ComputeRemaining, u
<1>8. CASE u.type = "count"
  <2>1. Remaining(f) = IF u.limit = Nil THEN Unlimited
                       ELSE IF consumedLocal >= u.limit THEN Limited(0)
                       ELSE Limited(u.limit - consumedLocal)
    BY <1>8 DEF Remaining, ComputeRemaining, u
  <2>2. ~(consumedLocal >= u.limit) /\ u.limit \in Uint64 =>
          u.limit - consumedLocal \in Uint64
    BY <1>2, <1>6 DEF Uint64
  <2> QED BY <1>1, <1>2, <1>4, <1>5, <2>1, <2>2
<1>9. CASE u.type = "counter"
  <2>1. Remaining(f) = IF total >= u.allowance THEN Limited(0)
                       ELSE Limited(u.allowance - total)
    BY <1>9 DEF Remaining, ComputeRemaining, u, total
  <2>2. ~(total >= u.allowance) => u.allowance - total \in Uint64
    BY <1>1, <1>2, <1>3, <1>6 DEF Uint64
  <2> QED BY <1>1, <1>2, <1>4, <2>1, <2>2
<1>10. CASE u.type \notin {"bool", "count", "counter"}
  BY <1>5, <1>10 DEF Remaining, ComputeRemaining, u
<1> QED BY <1>7, <1>8, <1>9, <1>10

\* The products wrap and the differences saturate, and both stay integers.
LEMMA DurationType ==
  ASSUME NEW d \in Int PROVE Duration(d) \in Int
  BY LicenseAssumption DEF Duration

LEMMA SubType ==
  ASSUME NEW t \in Int, NEW u \in Int
  PROVE  Sub(t, u) \in Int
  BY LicenseAssumption DEF Sub

LEMMA SubNat ==
  ASSUME NEW t \in Int, NEW u \in Int, t > u
  PROVE  Sub(t, u) \in Nat
  BY LicenseAssumption DEF Sub

LEMMA DaysType ==
  ASSUME NEW n \in Nat PROVE DaysIn(n) \in Nat
<1> DEFINE q == n \div Day
<1>1. q \in Nat
  BY Divide, LicenseAssumption
<1>2. \/ DaysIn(n) = q \/ DaysIn(n) = q + 1 \/ DaysIn(n) = q + 1 + 1
  BY DEF DaysIn
<1> HIDE DEF q
<1> QED BY <1>1, <1>2

\* license and lifecycle return machine values for every snapshot whose fields
\* hold some, whatever wraps or is cut (license.go:59-88, lifecycle.go:20-86).
THEOREM ClockTypes == PayloadsTyped => (Spec => []TypeOK)
<1> SUFFICES ASSUME PayloadsTyped PROVE Spec => []TypeOK
  OBVIOUS
<1> DEFINE Inv == /\ payload \in Payloads /\ now \in 0..MaxTime
                  /\ consumedLocal \in 0..MaxConsumed
<1>1. Init => Inv
  BY LicenseClockAssumption DEF Init, MaxUint64
<1>2. Inv /\ [Next]_vars => Inv'
  BY LicenseClockAssumption DEF Next, Tick, Consume, vars, MaxUint64
<1>3. Inv => TypeOK
  <2> SUFFICES ASSUME Inv PROVE TypeOK
    OBVIOUS
  <2>1. /\ payload # Nil /\ payload.validUntil \in Int \cup {Nil, Bad} /\ now \in Int
        /\ GraceDays(payload) * Day \in Int /\ Window \in Int
    BY LicenseAssumption, LicenseClockAssumption DEF PayloadsTyped, Window
  <2>2. \A f \in DOMAIN payload.usage :
          Remaining(f) \in [remaining : 0..MaxUint64, unlimited : BOOLEAN, known : BOOLEAN]
    <3>1. consumedLocal \in Uint64
      BY LicenseAssumption, LicenseClockAssumption DEF Uint64, MaxUint64
    <3> QED BY <3>1, RemainingType DEF Uint64
  <2>3. TrialDaysLeft(payload, now) \in Nat
    <3>1. ASSUME payload.validUntil \in Int, now < payload.validUntil
          PROVE  DaysIn(Sub(payload.validUntil, now)) \in Nat
      <4>1. now \in Int /\ payload.validUntil > now
        BY <2>1, <3>1
      <4>2. Sub(payload.validUntil, now) \in Nat
        BY <3>1, <4>1, SubNat
      <4> QED BY <4>2, DaysType
    <3> QED BY <2>1, <3>1 DEF TrialDaysLeft, Parsed
  <2>4. GraceDaysLeft(payload, now) \in Nat
    <3> DEFINE delta == Sub(payload.validUntil + Duration(GraceDays(payload) * Day), now)
    <3>1. ASSUME payload.validUntil \in Int, ~(delta <= 0)
          PROVE  DaysIn(delta) \in Nat
      <4>1. Duration(GraceDays(payload) * Day) \in Int
        BY <2>1, DurationType
      <4>2. payload.validUntil + Duration(GraceDays(payload) * Day) \in Int
        BY <3>1, <4>1
      <4>3. delta \in Int
        BY <2>1, <4>2, SubType
      <4> HIDE DEF delta
      <4> QED BY <3>1, <4>3, DaysType
    <3> QED BY <2>1, <3>1 DEF GraceDaysLeft, Parsed
  <2>5. State \in {"invalid", "active", "trialing", "grace", "expired"}
    BY <2>1 DEF State, ComputeState
  <2> QED BY <2>1, <2>2, <2>3, <2>4, <2>5 DEF TypeOK
<1> QED BY <1>1, <1>2, <1>3, PTL DEF Spec
=============================================================================
