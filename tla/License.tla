------------------------------ MODULE License ------------------------------
(***************************************************************************)
(* The pure functions of src/license/license.go and                        *)
(* src/lifecycle/lifecycle.go: what a license snapshot grants at a given   *)
(* time and after a given local consumption.                               *)
(*                                                                         *)
(* Times are integers; Day is the number of them in 24 hours.  The widths  *)
(* of the machine integers are parameters, so that a run can reach them:   *)
(* Word is 2^64 for a uint64, and a time.Duration is an integer from       *)
(* -HalfDuration to HalfDuration - 1 that wraps (2^63 nanoseconds).        *)
(* A timestamp field holds a time, Nil when absent or empty, or Bad when   *)
(* time.Parse rejects it.                                                  *)
(*                                                                         *)
(* Hours() is a float64, which cannot tell the last instants before the    *)
(* end of a long period's day from that end.  Lost(d) is how many they are *)
(* after d whole days: none for d < 170, then one nanosecond, and never    *)
(* more than 838 of them.                                                  *)
(***************************************************************************)
EXTENDS Integers

CONSTANTS Word, HalfDuration, Day, Nil, Bad, Lost(_)

ASSUME LicenseAssumption ==
  /\ Word \in Nat \ {0, 1}
  /\ HalfDuration \in Nat \ {0}
  /\ Day \in Nat \ {0}
  /\ Nil \notin Int /\ Bad \notin Int /\ Nil # Bad

ASSUME LostAssumption == \A d \in 0..HalfDuration : Lost(d) \in 0..(Day - 1)

MaxUint64 == Word - 1

\* time.Duration(d): conversions and products keep the low 64 bits.
Duration(d) == ((d + HalfDuration) % (2 * HalfDuration)) - HalfDuration

\* t.Sub(u) saturates instead.
Sub(t, u) ==
  LET d == t - u
  IN IF d >= HalfDuration THEN HalfDuration - 1
     ELSE IF d < -HalfDuration THEN -HalfDuration
     ELSE d

Parsed(t) == t \in Int

-----------------------------------------------------------------------------
(* package license *)

Unlimited == [remaining |-> MaxUint64, unlimited |-> TRUE, known |-> TRUE]
Limited(n) == [remaining |-> n, unlimited |-> FALSE, known |-> TRUE]
Unknown == [remaining |-> 0, unlimited |-> FALSE, known |-> FALSE]

\* Faulty variant: what is left over the allowance is not cut at zero.
RemainingUnsaturated(payload, feature, consumedLocal) ==
  IF feature \notin DOMAIN payload.usage THEN Unknown
  ELSE LET state == payload.usage[feature]
       IN Limited((state.allowance - state.consumedAtIssue - consumedLocal) % Word)

ComputeRemaining(payload, feature, consumedLocal) ==
  IF feature \notin DOMAIN payload.usage THEN Unknown
  ELSE LET state == payload.usage[feature]
           total == (state.consumedAtIssue + consumedLocal) % Word
       IN CASE state.type = "bool" ->
                 IF state.enabled THEN Unlimited ELSE Limited(0)
            [] state.type = "count" ->
                 IF state.limit = Nil THEN Unlimited
                 ELSE IF consumedLocal >= state.limit THEN Limited(0)
                 ELSE Limited(state.limit - consumedLocal)
            [] state.type = "counter" ->
                 IF total >= state.allowance THEN Limited(0)
                 ELSE Limited(state.allowance - total)
            [] OTHER -> Unknown

IsExpired(payload, now) ==
  Parsed(payload.validUntil) => now > payload.validUntil

\* Faulty variant: the last instant of the grace window is outside it.
IsInGraceStrict(payload, window, now) ==
  Parsed(payload.validUntil) /\ now < payload.validUntil + Duration(window)

IsInGrace(payload, window, now) ==
  Parsed(payload.validUntil) /\ now <= payload.validUntil + Duration(window)

\* Faulty variant: the fallback date is used whenever there is one.
CanUseUpdateFallbackFirst(payload, releaseDate) ==
  LET base == IF Parsed(payload.fallbackReleaseDate)
              THEN payload.fallbackReleaseDate ELSE payload.paidUpUntil
      days == IF payload.updatesWindowDays = Nil THEN 0
              ELSE payload.updatesWindowDays
  IN Parsed(base) => releaseDate <= base + Duration(days * Day)

CanUseUpdate(payload, releaseDate) ==
  LET paidUp   == payload.paidUpUntil
      fallback == payload.fallbackReleaseDate
      effective ==
        IF Parsed(fallback) /\ (~Parsed(paidUp) \/ fallback > paidUp)
        THEN fallback ELSE paidUp
      windowDays == IF payload.updatesWindowDays = Nil THEN 0
                    ELSE payload.updatesWindowDays
  IN Parsed(effective) =>
       releaseDate <= effective + Duration(windowDays * Day)

-----------------------------------------------------------------------------
(* package lifecycle *)

\* The "__trial" feature flag, or a plan key that ends in ":trial".
isTrialPayload(payload) ==
  \/ "__trial" \in DOMAIN payload.features /\ payload.features["__trial"]
  \/ payload.trialPlan

\* Faulty variant: the comparison with the end of the grace window is reversed.
ComputeStateReversed(payload, graceWindow, now) ==
  IF payload = Nil THEN "none"
  ELSE IF ~Parsed(payload.validUntil) THEN "invalid"
  ELSE IF now <= payload.validUntil
       THEN IF isTrialPayload(payload) THEN "trialing" ELSE "active"
  ELSE IF now <= payload.validUntil + graceWindow THEN "expired"
  ELSE "grace"

ComputeState(payload, graceWindow, now) ==
  IF payload = Nil THEN "none"
  ELSE IF ~Parsed(payload.validUntil) THEN "invalid"
  ELSE IF now <= payload.validUntil
       THEN IF isTrialPayload(payload) THEN "trialing" ELSE "active"
  ELSE IF now <= payload.validUntil + graceWindow THEN "grace"
  ELSE "expired"

\* delta.Hours() rounds delta up to the end of its last day.
RoundedUp(delta) == (delta % Day) + Lost(delta \div Day) >= Day

\* Days in a positive duration: int(delta.Hours() / 24), and one more for a
\* started day.
DaysIn(delta) ==
  LET days == IF RoundedUp(delta) THEN (delta \div Day) + 1 ELSE delta \div Day
  IN IF delta % Day > 0 THEN days + 1 ELSE days

TrialDaysLeft(payload, now) ==
  IF payload = Nil \/ ~isTrialPayload(payload) THEN 0
  ELSE IF ~Parsed(payload.validUntil) \/ now >= payload.validUntil THEN 0
  ELSE DaysIn(Sub(payload.validUntil, now))

GraceDays(payload) ==
  IF payload.offlineGraceDays = Nil THEN 7 ELSE payload.offlineGraceDays

\* Faulty variant: a started day is not counted.
GraceDaysLeftFloor(payload, now) ==
  LET delta == Sub(payload.validUntil + Duration(GraceDays(payload) * Day), now)
  IN IF ~Parsed(payload.validUntil) \/ now < payload.validUntil \/ delta <= 0
     THEN 0 ELSE delta \div Day

\* Faulty variant: the end of the grace period is not looked at.
GraceDaysLeftUncut(payload, now) ==
  IF ~Parsed(payload.validUntil) \/ now < payload.validUntil THEN 0
  ELSE DaysIn(Sub(payload.validUntil + Duration(GraceDays(payload) * Day), now))

GraceDaysLeft(payload, now) ==
  IF payload = Nil \/ ~Parsed(payload.validUntil) THEN 0
  ELSE IF now < payload.validUntil THEN 0
  ELSE LET graceUntil == payload.validUntil + Duration(GraceDays(payload) * Day)
           delta == Sub(graceUntil, now)
       IN IF delta <= 0 THEN 0 ELSE DaysIn(delta)
=============================================================================
