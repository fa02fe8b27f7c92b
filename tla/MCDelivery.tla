----------------------------- MODULE MCDelivery -----------------------------
(***************************************************************************)
(* Two deliveries, so that one is stored while the other arrives or waits   *)
(* behind it.  A message is begun three times at most: again after a crash, *)
(* and after an outage or a removal that failed.                            *)
(***************************************************************************)
EXTENDS Delivery

MCMsg == 1..2
MCSize == <<2, 2>>

\* What is explored: a call fails, or there is an outage and the service misses
\* videos, but not both; the crash comes in either.  (Delivered loses nothing by
\* it: whatever is left out has a failing call, which Delivered excepts.)
OneTrouble == faults = 0 \/ (outages = 0 /\ spared = {})
=============================================================================
