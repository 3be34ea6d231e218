--------------------------- MODULE MCCycleDetection ---------------------------
(* Small graphs for CycleDetection.                                        *)
EXTENDS CycleDetection, TLC

MCSymmetry == Permutations(Names)
===============================================================================
