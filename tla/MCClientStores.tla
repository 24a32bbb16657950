--------------------------- MODULE MCClientStores ---------------------------
(* Identity keys are only compared with each other, so runs that differ by *)
(* a permutation of them are the same.                                     *)
EXTENDS ClientStores

Symmetry == Permutations(Identities)
=============================================================================
