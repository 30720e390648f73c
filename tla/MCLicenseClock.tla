--------------------------- MODULE MCLicenseClock ---------------------------
(***************************************************************************)
(* LicenseClock with days of three instants, of which Hours() rounds up    *)
(* the last one from the sixth day of a period on.  The snapshots differ   *)
(* in one group of fields at a time: dates and trial flags, usage, update  *)
(* dates.                                                                  *)
(***************************************************************************)
EXTENDS LicenseClock

MCLost(d) == IF d >= 5 THEN 1 ELSE 0

Plain ==
  [validUntil |-> 4, trialPlan |-> FALSE, features |-> [x \in {} |-> TRUE],
   usage |-> [x \in {} |-> Nil], offlineGraceDays |-> Nil, paidUpUntil |-> Nil,
   fallbackReleaseDate |-> Nil, updatesWindowDays |-> Nil]

Dated ==
  { [Plain EXCEPT !.validUntil = v, !.offlineGraceDays = g, !.trialPlan = t,
                  !.features = fs] :
      v \in {4, 5, Nil, Bad}, g \in {Nil, 0, 1, 2}, t \in BOOLEAN,
      fs \in {Plain.features, [x \in {"__trial"} |-> TRUE],
              [x \in {"__trial"} |-> FALSE]} }

Usage(type, enabled, limit, allowance, consumedAtIssue) ==
  [type |-> type, enabled |-> enabled, limit |-> limit, allowance |-> allowance,
   consumedAtIssue |-> consumedAtIssue]

Metered ==
  { [Plain EXCEPT !.usage = [x \in {"feature"} |-> u]] :
      u \in {Usage("bool", b, Nil, 0, 0) : b \in BOOLEAN}
            \cup {Usage("count", FALSE, l, 0, 0) : l \in {Nil, 0, 1, 3}}
            \cup {Usage("counter", FALSE, Nil, a, c) : a \in 0..4, c \in 0..5}
            \cup {Usage("other", FALSE, Nil, 0, 0)} }

Updatable ==
  { [Plain EXCEPT !.paidUpUntil = p, !.fallbackReleaseDate = b,
                  !.updatesWindowDays = w] :
      p \in {Nil, Bad, 2, 5}, b \in {Nil, Bad, 3, 5},
      w \in {Nil, 0, 1, 2} }

MCPayloads == Dated \cup Metered \cup Updatable
=============================================================================
