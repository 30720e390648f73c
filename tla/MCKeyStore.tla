----------------------------- MODULE MCKeyStore -----------------------------
(***************************************************************************)
(* KeyStore on small instances: the devices on which the key must hold,    *)
(* and the one on which it does not.                                       *)
(***************************************************************************)
EXTENDS KeyStore, TLC

\* With a debug file either backend may fail; without one, neither does.
Sound == {[hasFile |-> TRUE, flaky |-> "keyring"],
          [hasFile |-> TRUE, flaky |-> "file"],
          [hasFile |-> FALSE, flaky |-> "nothing"]}

\* A release build on a device whose keychain fails now and then.
Release == {[hasFile |-> FALSE, flaky |-> "keyring"]}

Symmetry == Permutations(Keys)
=============================================================================
