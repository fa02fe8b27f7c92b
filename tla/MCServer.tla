------------------------------ MODULE MCServer ------------------------------
(***************************************************************************)
(* Instance of Server for TLC: two sessions and two messages, one of them    *)
(* malformed, each sent up to twice, one outage, one kill and one reply that *)
(* its client misses.                                                        *)
(***************************************************************************)
EXTENDS Server
=============================================================================
