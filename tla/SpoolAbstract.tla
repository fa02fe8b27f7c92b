--------------------------- MODULE SpoolAbstract ---------------------------
(***************************************************************************)
(* What the local spool promises to the cameras that send mail, and nothing *)
(* of how it does it (internal/spool, README "Local durable spool"):        *)
(*                                                                          *)
(*  - 250 is answered only for a message the system keeps;                  *)
(*  - a message that is kept stays kept: it leaves the spool only when a    *)
(*    complete copy is in storage_root, or for the quarantine (failed/);    *)
(*  - a message that is refused leaves nothing behind.                      *)
(*                                                                          *)
(* The same message may be stored again: the promise is "at least once".    *)
(***************************************************************************)
CONSTANT Msg          \* the deliveries the cameras attempt

VARIABLES kept,       \* kept[m]: the places that hold a copy of m
          answer      \* answer[m]: what the SMTP client was told

vars == <<kept, answer>>

Place == {"spool", "store", "quarantine"}

TypeOK == /\ kept \in [Msg -> SUBSET Place]
          /\ answer \in [Msg -> {"none", "ok", "refused"}]

Init == /\ kept = [m \in Msg |-> {}]
        /\ answer = [m \in Msg |-> "none"]

Take(m) == /\ answer[m] = "none"
           /\ kept[m] = {}
           /\ kept' = [kept EXCEPT ![m] = {"spool"}]
           /\ UNCHANGED answer

Accept(m) == /\ answer[m] = "none"
             /\ kept[m] # {}
             /\ answer' = [answer EXCEPT ![m] = "ok"]
             /\ UNCHANGED kept

Refuse(m) == /\ answer[m] = "none"
             /\ kept[m] = {}
             /\ answer' = [answer EXCEPT ![m] = "refused"]
             /\ UNCHANGED kept

Store(m) == /\ "spool" \in kept[m]
            /\ kept' = [kept EXCEPT ![m] = @ \cup {"store"}]
            /\ UNCHANGED answer

Release(m) == /\ {"spool", "store"} \subseteq kept[m]
              /\ kept' = [kept EXCEPT ![m] = @ \ {"spool"}]
              /\ UNCHANGED answer

Quarantine(m) == /\ "spool" \in kept[m]
                 /\ kept' = [kept EXCEPT ![m] = (@ \ {"spool"}) \cup {"quarantine"}]
                 /\ UNCHANGED answer

Next == \E m \in Msg : \/ Take(m) \/ Accept(m) \/ Refuse(m)
                       \/ Store(m) \/ Release(m) \/ Quarantine(m)

Spec == Init /\ [][Next]_vars
=============================================================================
