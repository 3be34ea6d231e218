--------------------------- MODULE MCAnalyticsCache ---------------------------
(* Small instances of AnalyticsCache for TLC.                              *)
EXTENDS AnalyticsCache, TLC

MCSymmetry == Permutations(Readers) \cup Permutations(Writers)
===============================================================================
