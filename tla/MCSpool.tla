------------------------------ MODULE MCSpool ------------------------------
(***************************************************************************)
(* Instances of Spool for TLC: three deliveries, whose ids order them as    *)
(* their numbers do.  With MaxBytes = 3 one large message fills the spool,  *)
(* and the bound of SpoolBound is reached exactly: the worker puts one back *)
(* while the other is measured against an empty spool.                      *)
(***************************************************************************)
EXTENDS Spool

MCMsg == 1..3
MCSize == <<3, 3, 2>>
=============================================================================
