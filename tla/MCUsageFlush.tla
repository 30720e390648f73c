---------------------------- MODULE MCUsageFlush ----------------------------
(***************************************************************************)
(* UsageFlush on a small instance: two flushers, two units of one feature  *)
(* and one of another.                                                     *)
(***************************************************************************)
EXTENDS UsageFlush, TLC

CONSTANTS u1, u2, u3, f1, f2, p1, p2

MCUnits == {u1, u2, u3}
MCFeatures == {f1, f2}
MCFeatureOf == (u1 :> f1) @@ (u2 :> f1) @@ (u3 :> f2)
MCFlushers == {p1, p2}

Symmetry ==
  Permutations({u1, u2}) \cup Permutations(MCFlushers)
=============================================================================
