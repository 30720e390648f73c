---------------------------- MODULE MCActivation ----------------------------
(***************************************************************************)
(* Activation on a small instance: a store baked with one key, a server    *)
(* with another key_id to move to and two materials.                       *)
(***************************************************************************)
EXTENDS Activation, TLC

CONSTANTS k1, k2, m1, m2

MCKeyIds == {k1, k2}
MCMaterials == {m1, m2}
MCBaked == k1 :> m1

Symmetry == Permutations(Callers)
=============================================================================
