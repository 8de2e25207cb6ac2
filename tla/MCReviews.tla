----------------------------- MODULE MCReviews -----------------------------
(* Two overlapping requests, four details, one technician.                *)
EXTENDS Reviews, TLC

CONSTANTS w1, w2, d1, d2, d3, d4

Alike == Permutations(Workers) \cup Permutations(Details)
=============================================================================
