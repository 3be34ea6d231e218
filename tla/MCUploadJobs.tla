----------------------------- MODULE MCUploadJobs -----------------------------
(* Small instances of UploadJobs for TLC.                                  *)
EXTENDS UploadJobs, TLC

\* Jobs, callbacks and fallbacks are each interchangeable.
MCSymmetry ==
  Permutations(Jobs) \cup Permutations(Callbacks) \cup Permutations(Fallbacks)
===============================================================================
