---------------------------- MODULE MCPowerLoss ----------------------------
(***************************************************************************)
(* Two messages, so that the item of one is removed while the other is      *)
(* published, with a call that fails and two losses of power: the second    *)
(* may fall on what the first has brought back.                             *)
(* There is no outage, in which the worker would fill the journal without   *)
(* bound, and no limit of the spool, which nothing here depends on.         *)
(***************************************************************************)
EXTENDS PowerLoss

MCMsg == 1..2
MCSize == <<1, 1>>
=============================================================================
