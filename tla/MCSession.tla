------------------------------ MODULE MCSession ------------------------------
(***************************************************************************)
(* Session on a small instance: two customers with a token each.           *)
(***************************************************************************)
EXTENDS Session

CONSTANTS a, b, t1, t2

MCCustomers == {a, b}
MCTokens == {t1, t2}
MCOwnerOf == [t \in MCTokens |-> IF t = t1 THEN a ELSE b]

Plan(features, allowed) == [features |-> features, allowed |-> allowed]
MCPlans ==
  {Plan({"pro"}, TRUE), Plan({"pro"}, FALSE), Plan({}, TRUE), Plan({}, FALSE)}
=============================================================================
