------------------------------ MODULE Delivery ------------------------------
(***************************************************************************)
(* The way of a message through the process that main.go puts together with *)
(* a spool: Spool as it is, and beside it the classification service as     *)
(* ClassifyAbstract promises it (Classify keeps that promise), joined where *)
(* main joins them.  The spool's worker is the service's only caller: while *)
(* it stores a message the message's video appears under storage_root,      *)
(* where the service's walk may find it, and its call of postStore is what  *)
(* gives the service the video.  The process is one: both die together; and *)
(* so is storage_root: while it is away no sidecar is written, and a walk   *)
(* finds no video.                                                          *)
(*                                                                          *)
(* Each message carries one video.  A message may be stored, or begun to    *)
(* be, more than once; <<m, k>> is the video of the k-th time.              *)
(***************************************************************************)
EXTENDS Spool

CONSTANTS
  MaxSets,     \* bound: how often the video of one message is begun
  MaxMissed    \* bound: how many videos are missed while storage_root is there

ASSUME ServiceBoundAssumption == MaxSets \in Nat /\ MaxMissed \in Nat

VARIABLES file, verdict, spared, event

spool   == vars
service == <<file, verdict, spared, event>>

Video == Msg \X (1..MaxSets)

Service == INSTANCE ClassifyAbstract

\* The copies of m somebody has begun to write; the last of them.
Begun(m) == {k \in 1..MaxSets : file[<<m, k>>] # "absent"}
Latest(m) == <<m, Max(Begun(m))>>

DeliveryInit ==
  /\ Init
  /\ Service!Init
  /\ \A v \in Video : file[v] = "absent"

\* The service misses v: the queue is full, a sidecar cannot be written, or a
\* walk does not find the video.
Miss(v) == Service!Spare(v) /\ (up => Cardinality(spared') <= MaxMissed)

-----------------------------------------------------------------------------

\* ProcessAndStore begins with the item the worker has claimed; its files
\* appear, under names of their own.
BeginVideo ==
  /\ StoreBody
  /\ \E k \in 1..MaxSets : Begun(cur) = 1..(k - 1) /\ Service!Appear(<<cur, k>>)

\* ProcessAndStore returns, and the video will be given to the service.
CompleteVideo == StoreAttachments /\ Service!Complete(Latest(cur))

\* postStore: Enqueue of the video ...
GiveVideo ==
  /\ wpc = "post" /\ event[Latest(cur)] = "due"
  /\ \/ Service!Accept(Latest(cur)) \/ Service!Refuse(Latest(cur))
     \/ Miss(Latest(cur)) /\ event'[Latest(cur)] = "none"
  /\ UNCHANGED spool

\* ... and its return.
VideoGiven == PostStore /\ event[Latest(cur)] # "due" /\ UNCHANGED service

SpoolWorker ==
  \/ BeginVideo \/ CompleteVideo \/ GiveVideo \/ VideoGiven
  \/ /\ Recover \/ StartFlush \/ NextPending \/ Claim \/ ReadItem \/ ReadItemFails
        \/ ParseFails \/ StoreUnavailable \/ StoreFails \/ RemoveItem
     /\ UNCHANGED service

\* The service's own goroutines run as long as the process does.  A verdict is
\* written, and taken back by a sidecar that says pending, in storage_root.
Serving(v) ==
  /\ wpc # "down"
  /\ \/ Service!WriteOff(v) \/ Service!Announce(v)
     \/ up /\ (Service!Decide(v) \/ Service!Reopen(v))
     \/ Miss(v) /\ (event[v] = "due" => UNCHANGED event)
  /\ UNCHANGED spool

\* Clients, and the session that holds the spool's mutex.
Arrive == (\E m \in Msg : BeginEnqueue(m)) /\ UNCHANGED service
Enqueue == EnqueueStep /\ UNCHANGED service

StorageChanges == (StorageDown \/ StorageUp) /\ UNCHANGED service
Die == Crash /\ Service!Forget
Revive == Restart /\ UNCHANGED service

DeliveryNext ==
  \/ Arrive \/ Enqueue \/ SpoolWorker \/ \E v \in Video : Serving(v)
  \/ StorageChanges \/ Die \/ Revive

delivery == <<spool, service>>

DeliverySpec == DeliveryInit /\ [][DeliveryNext]_delivery

\* m has a complete copy that is settled.
IsSettled(m) == \E k \in 1..MaxSets : file[<<m, k>>] = "stored" /\ Service!Settled(<<m, k>>)

\* The service settles a copy of a message that has none settled.
Settle(m) ==
  /\ ~IsSettled(m) /\ \E k \in 1..MaxSets : file[<<m, k>>] = "stored" /\ Serving(<<m, k>>)
  /\ IsSettled(m)'

\* The fairness of Spool, and of the service less than what Classify is shown
\* to do (Decided): of the stored copies of a message it settles one, if only
\* by missing it.
DeliveryFairSpec ==
  /\ DeliverySpec
  /\ WF_delivery(Enqueue) /\ WF_delivery(SpoolWorker) /\ WF_delivery(Revive)
  /\ \A m \in Msg : WF_delivery(Settle(m))

-----------------------------------------------------------------------------
(* Properties. *)

Alerts(m) == Cardinality({k \in 1..MaxSets : event[<<m, k>>] = "paid"})

\* A camera's message is announced only when it is completely stored and its
\* client was not told to send it again, and once for each complete copy at
\* most: two alerts for one message mean a crash, or a removal that failed,
\* between storing and removing (spool.go:197).
AlertsAreEarned ==
  \A m \in Msg :
    /\ Alerts(m) <= copies[m]
    /\ Alerts(m) <= 1 + crashes + faults
    /\ Alerts(m) > 0 => reply[m] # "refused"

\* From the spool to the sidecar, across crashes and outages: if storage_root
\* comes back for good, every message in the spool, and so every message that
\* was answered with 250, is stored and its video decided, unless it is
\* malformed or a disk fails.  No item waits for ever behind another, none is
\* left in processing after a crash, and none is stored without being given to
\* the service or looked for by its walk.  A video may miss its verdict only
\* for a full queue, or because storage_root went away again after the message
\* was stored, or failed (service.go:143, 193, 336).
Delivered ==
  <>[]up => \A m \in Msg :
    (m \in Queued) ~> (m \in failed \/ faults > 0 \/ IsSettled(m))
=============================================================================
