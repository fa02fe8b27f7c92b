----------------------------- MODULE MCStorage -----------------------------
(***************************************************************************)
(* Three calls, one of them without attachments, and two slots, so that     *)
(* calls may and may not contend.                                           *)
(***************************************************************************)
EXTENDS Storage, TLC

CONSTANTS c1, c2, c3

MCAttachments == c1 :> 1 @@ c2 :> 1 @@ c3 :> 0
=============================================================================
