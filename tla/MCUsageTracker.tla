--------------------------- MODULE MCUsageTracker ---------------------------
(***************************************************************************)
(* UsageTracker on small instances.  Every unit has the same feature: the  *)
(* features' part in Restore is checked by MCUsageFlush.                   *)
(***************************************************************************)
EXTENDS UsageTracker

CONSTANTS f1

MCFeatures == {f1}
MCFeatureOf == [u \in Units |-> f1]
MCFlushers == Owners \cup Runs
=============================================================================
