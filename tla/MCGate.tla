------------------------------- MODULE MCGate -------------------------------
(***************************************************************************)
(* Gate on small instances: every kind of meter, a plain feature flag, no  *)
(* feature at all, and snapshots that expire, cannot be read or are        *)
(* missing.                                                                *)
(***************************************************************************)
EXTENDS Gate, TLC

\* Gate shows no days.
MCLost(d) == 0

Payload(until, features, usage) ==
  [validUntil |-> until, trialPlan |-> FALSE, features |-> features,
   usage |-> usage]

None == [x \in {} |-> Nil]
Flag(b) == Feature :> b
Meter(type, enabled, limit, allowance, consumed) ==
  Feature :> [type |-> type, enabled |-> enabled, limit |-> limit,
              allowance |-> allowance, consumedAtIssue |-> consumed]
Counter(allowance, consumed) == Meter("counter", FALSE, Nil, allowance, consumed)

\* Other meters, and counters that were in use, or used up, when they were issued.
OtherMeters ==
  {Meter("bool", b, Nil, 0, 0) : b \in BOOLEAN}
  \cup {Meter("count", FALSE, 1, 0, 0), Meter("weekly", FALSE, Nil, 0, 0)}
  \cup {Counter(0, 0), Counter(1, 2)}

AllSnapshots ==
  {Nil, Payload(Bad, Flag(TRUE), Counter(1, 0))}
  \cup {Payload(1, f, u) : f \in {None, Flag(FALSE)}, u \in {None, Counter(1, 0)}}
  \cup {Payload(1, Flag(TRUE), u) : u \in {None, Counter(2, 1)}}
  \cup {Payload(1, None, u) : u \in OtherMeters}
=============================================================================
