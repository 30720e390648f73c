---------------------------- MODULE LicenseClock ----------------------------
(***************************************************************************)
(* A device that keeps one snapshot while its clock advances and its local *)
(* consumption grows: the setting in which the functions of License are    *)
(* called again and again, and in which their answers must fit together.   *)
(***************************************************************************)
EXTENDS License

CONSTANTS
  Payloads,     \* the snapshots considered
  MaxTime,      \* bound on the clock
  MaxConsumed   \* bound on the local consumption

ASSUME LicenseClockAssumption == MaxTime \in Nat /\ MaxConsumed \in 0..MaxUint64

VARIABLES
  payload,       \* the snapshot on the device
  now,           \* its clock
  consumedLocal  \* usage recorded since the snapshot was issued

vars == <<payload, now, consumedLocal>>

Init ==
  /\ payload \in Payloads
  /\ now = 0
  /\ consumedLocal = 0

Tick ==
  /\ now < MaxTime
  /\ now' = now + 1
  /\ UNCHANGED <<payload, consumedLocal>>

\* The application records n uses of the feature it meters.
Consume(n) ==
  /\ consumedLocal + n <= MaxConsumed
  /\ consumedLocal' = consumedLocal + n
  /\ UNCHANGED <<payload, now>>

Next == Tick \/ \E n \in 1..MaxConsumed : Consume(n)

Spec == Init /\ [][Next]_vars

-----------------------------------------------------------------------------
(* Properties *)

Window == GraceDays(payload) * Day
State == ComputeState(payload, Window, now)
Remaining(f) == ComputeRemaining(payload, f, consumedLocal)

\* The functions return machine values: a uint64, a number of days, a state.
TypeOK ==
  /\ payload.validUntil \in Int \cup {Nil, Bad}
  /\ now \in 0..MaxTime
  /\ consumedLocal \in 0..MaxConsumed
  /\ \A f \in DOMAIN payload.usage :
       Remaining(f) \in [remaining : 0..MaxUint64, unlimited : BOOLEAN, known : BOOLEAN]
  /\ TrialDaysLeft(payload, now) \in Nat
  /\ GraceDaysLeft(payload, now) \in Nat
  /\ State \in {"invalid", "active", "trialing", "grace", "expired"}

Rank == [none |-> 0, invalid |-> 0, active |-> 1, trialing |-> 1,
         grace |-> 2, expired |-> 3]

\* Under one snapshot time only moves the state forward: a license never
\* becomes valid again by itself, and a trial never outlives its dates
\* (lifecycle.go:20-44).
StateMovesForward == [][Rank[State'] >= Rank[State]]_vars

\* The two packages judge a dated snapshot alike at every instant, the first
\* and last of each period included (license.go:90-105, lifecycle.go:32-43).
ExpiryAgrees ==
  Parsed(payload.validUntil) =>
    /\ State \in {"active", "trialing"} <=> ~IsExpired(payload, now)
    /\ State = "expired" <=>
         IsExpired(payload, now) /\ ~IsInGrace(payload, Window, now)

\* In every state of the license its badge counts the days that are left of that
\* state: none once they are over, never too few before, and one too many only
\* where Hours() rounds up.  A license that is no trial shows no trial days, and one
\* that cannot be read or has time left before its expiry shows no grace days.  At
\* the instant of the expiry nothing is said of the grace days: the state is not
\* "grace" yet, and GraceDaysLeft counts all of them (lifecycle.go:20-86).
DaysLeftCovers ==
  LET Covers(days, left) ==
        IF left <= 0 THEN days = 0
        ELSE LET extra == IF RoundedUp(left) THEN 1 ELSE 0
             IN (days - extra - 1) * Day < left /\ left <= (days - extra) * Day
      trial == TrialDaysLeft(payload, now)
      grace == GraceDaysLeft(payload, now)
  IN /\ IF State = "trialing" THEN Covers(trial, payload.validUntil - now)
                              ELSE trial = 0
     /\ State \in {"grace", "expired"} =>
          Covers(grace, payload.validUntil + Window - now)
     /\ State \in {"invalid", "active", "trialing"} /\ now # payload.validUntil =>
          grace = 0

\* Recording n uses lowers what is reported as remaining by exactly n, down
\* to zero (license.go:59-88).
ConsumptionCounts ==
  [][\A f \in DOMAIN payload.usage :
       LET before == Remaining(f).remaining
           n == consumedLocal' - consumedLocal
           after == before - n
       IN Remaining(f).known /\ ~Remaining(f).unlimited =>
            Remaining(f)'.remaining = IF after < 0 THEN 0 ELSE after]_vars

\* An update may be used exactly when it was released no later than the
\* window after the later of the two dates that can be read, and always when
\* there is neither (license.go:107-140; docs/30-license.md:150-154).
UpdatesFollowDates ==
  LET dates == {payload.paidUpUntil, payload.fallbackReleaseDate} \cap Int
      days == IF payload.updatesWindowDays = Nil THEN 0 ELSE payload.updatesWindowDays
  IN CanUseUpdate(payload, now) <=>
       (dates # {} => \E d \in dates : now <= d + days * Day)
=============================================================================
