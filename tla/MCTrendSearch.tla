----------------------------- MODULE MCTrendSearch -----------------------------
(* TrendSearch with pages of two rows and two candidates of each ranking.       *)
EXTENDS TrendSearch

MCGrades == 0..2
=============================================================================
