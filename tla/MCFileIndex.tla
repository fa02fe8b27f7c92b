---------------------------- MODULE MCFileIndex ----------------------------
(***************************************************************************)
(* Instance of FileIndex for TLC: two videos, so that the poster works on    *)
(* one while the walk and the classifier work on the other, and two sidecars *)
(* recorded per video (a pending one and its outcome).                       *)
(***************************************************************************)
EXTENDS FileIndex
=============================================================================
