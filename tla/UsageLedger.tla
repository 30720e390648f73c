---------------------------- MODULE UsageLedger ----------------------------
(***************************************************************************)
(* What the usage package promises its caller, with no buffer, request or  *)
(* goroutine in sight: usage is recorded, and every recorded unit is       *)
(* reported as delivered at most once.                                     *)
(***************************************************************************)

CONSTANTS
  Units,
  Reports     \* identities of the reports of delivery

VARIABLES
  recorded,   \* units the application handed to Tracker.TrackDelta
  delivered   \* Reports: the units a Flush reported as synchronised in it

vars == <<recorded, delivered>>

Init ==
  /\ recorded = {}
  /\ delivered = [r \in Reports |-> {}]

Record(D) ==
  /\ D \cap recorded = {}
  /\ recorded' = recorded \cup D
  /\ UNCHANGED delivered

\* Only what was recorded is delivered, and what no report has delivered yet.
Deliver(D, r) ==
  /\ UNCHANGED recorded
  /\ D \subseteq recorded /\ delivered[r] = {}
  /\ delivered' = [delivered EXCEPT ![r] = D]
  /\ \A q \in Reports : D \cap delivered[q] = {}

\* (The inequality only spares TLC the search for D in the other steps.)
Next ==
  \/ \E D \in (SUBSET Units) \ {{}} : Record(D)
  \/ /\ delivered' # delivered
     /\ \E D \in (SUBSET Units) \ {{}}, r \in Reports : Deliver(D, r)

Spec == Init /\ [][Next]_vars
=============================================================================
