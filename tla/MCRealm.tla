------------------------------ MODULE MCRealm ------------------------------
(* Realm with the objects but the root interchangeable. *)
EXTENDS Realm, TLC

Symmetry == Permutations(Object \ {Root})
=============================================================================
