------------------------- MODULE MCHypersyncBuckets -------------------------
(* Every pair of a key count 0..9 and a snapshot height 1..4.               *)
EXTENDS HypersyncBuckets

MCTotals == 0..9
MCSnapHeights == 1..4
=============================================================================
