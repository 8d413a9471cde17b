--------------------------- MODULE MCMercureUpdates ---------------------------
(* Small instances of MercureUpdates for TLC.                              *)
EXTENDS MercureUpdates

CONSTANTS w1, w2

Symmetry == Permutations(Workers)
=============================================================================
