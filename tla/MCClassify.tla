----------------------------- MODULE MCClassify -----------------------------
(***************************************************************************)
(* Instance of Classify for TLC: two videos, both within the window of every *)
(* start, one caller (the spool's worker) and a channel of one place, which  *)
(* the walk and the caller compete for.                                      *)
(***************************************************************************)
EXTENDS Classify, TLC

Interchangeable == Permutations(Worker)
=============================================================================
