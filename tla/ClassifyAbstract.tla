-------------------------- MODULE ClassifyAbstract --------------------------
(***************************************************************************)
(* What internal/classify/service.go promises to those who store videos and *)
(* to those who are notified, and nothing of its channel, its workers, its  *)
(* walk and the writes of its sidecars:                                     *)
(*                                                                          *)
(*  - the event of a video is published once or never, and only for a video *)
(*    that Enqueue was given when its message was completely stored;        *)
(*  - a stored video gets a verdict, or is spared it: the queue was full,   *)
(*    the verdict could not be written, or a walk could not read the video. *)
(*    A verdict may be taken back by a new classification, which owes       *)
(*    another.                                                              *)
(***************************************************************************)
CONSTANT Video

VARIABLES
  file,     \* file[v]: "absent", "writing" or "stored", as the callers leave it
  verdict,  \* the videos whose sidecar says how the classification ended
  spared,   \* the videos dropped or missed, or with a sidecar write that failed
  event     \* event[v]: "none", "due" to be queued, "owed" or "paid"

vars == <<file, verdict, spared, event>>

Init ==
  /\ file \in [Video -> {"absent", "stored"}]
  /\ verdict \in SUBSET {v \in Video : file[v] = "stored"}
  /\ spared = {}
  /\ event = [v \in Video |-> "none"]

\* A caller stores a message with video v: it begins ...
Appear(v) ==
  /\ file[v] = "absent"
  /\ file' = [file EXCEPT ![v] = "writing"]
  /\ UNCHANGED <<verdict, spared, event>>

\* ... and, unless that fails and nothing more is done, calls Enqueue next.
Complete(v) ==
  /\ file[v] = "writing"
  /\ file' = [file EXCEPT ![v] = "stored"]
  /\ event' = [event EXCEPT ![v] = "due"]
  /\ UNCHANGED <<verdict, spared>>

\* Enqueue accepts v.
Accept(v) ==
  /\ event[v] = "due"
  /\ event' = [event EXCEPT ![v] = "owed"]
  /\ UNCHANGED <<file, verdict, spared>>

Refused(v) == event[v] = "due" /\ event' = [event EXCEPT ![v] = "none"]

\* Enqueue refuses v: the walk was first.
Refuse(v) == Refused(v) /\ UNCHANGED <<file, verdict, spared>>

\* A classification without an event ends: the provider failed, or could not
\* be asked.  Or there is none to publish.
NoEvent(v) == event[v] = "owed" /\ event' = [event EXCEPT ![v] = "none"]

WriteOff(v) == NoEvent(v) /\ UNCHANGED <<file, verdict, spared>>

\* The sidecar gets its verdict.
Decide(v) ==
  /\ file[v] # "absent"
  /\ verdict' = verdict \cup {v}
  /\ UNCHANGED event \/ NoEvent(v)
  /\ UNCHANGED <<file, spared>>

\* The channel is full, a sidecar is not written, or a walk does not see v.
Spare(v) ==
  /\ file[v] # "absent"
  /\ spared' = spared \cup {v}
  /\ UNCHANGED event \/ NoEvent(v) \/ Refused(v)
  /\ UNCHANGED <<file, verdict>>

\* A new classification begins.
Reopen(v) ==
  /\ v \in verdict
  /\ verdict' = verdict \ {v}
  /\ UNCHANGED <<file, spared, event>>

\* The event is published, for a verdict.
Announce(v) ==
  /\ event[v] = "owed" /\ v \in verdict \cup spared
  /\ event' = [event EXCEPT ![v] = "paid"]
  /\ UNCHANGED <<file, verdict, spared>>

\* The process dies.
Forget ==
  /\ event' = [v \in Video |-> IF event[v] = "paid" THEN "paid" ELSE "none"]
  /\ UNCHANGED <<file, verdict, spared>>

Serve(v) ==
  Accept(v) \/ Refuse(v) \/ WriteOff(v) \/ Decide(v) \/ Spare(v) \/ Reopen(v) \/ Announce(v)

Next == Forget \/ \E v \in Video : Appear(v) \/ Complete(v) \/ Serve(v)

Spec == Init /\ [][Next]_vars

Settled(v) == v \in verdict \cup spared

\* What follows a video that is stored.
Decided == \A v \in Video : (file[v] = "stored") ~> Settled(v)
=============================================================================
