-------------------------- MODULE MCServiceCatalog --------------------------
(* Two overlapping requests, two services of one name, two images. *)
EXTENDS ServiceCatalog, TLC

CONSTANTS w1, w2, i1, i2

Alike == Permutations(Workers) \cup Permutations(Images)
=============================================================================
