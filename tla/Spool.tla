------------------------------- MODULE Spool -------------------------------
(***************************************************************************)
(* The local disk spool of internal/spool/spool.go with its two users: the  *)
(* SMTP sessions, whose DATA handler calls Enqueue (smtpserver/server.go),  *)
(* and the single background worker that Start launches.  They share four   *)
(* directories; the mutex q.mu is taken by Enqueue alone, so the worker's   *)
(* renames interleave with Enqueue's measurement of the spool.              *)
(*                                                                          *)
(* The state of a file is the directory it is in.  A message is an element  *)
(* of Msg, a number ordered as the spool ids are: newID starts with the     *)
(* UTC time the DATA handler read, and ids are compared as strings.  A      *)
(* client that retries a delivery is another element of Msg.                *)
(*                                                                          *)
(* Around the code: storage_root goes away and comes back (StorageDown,     *)
(* StorageUp), the process dies at any step and systemd restarts it (Crash, *)
(* Restart), and one call on the local disk or on storage_root fails with   *)
(* an error IsUnavailableError does not know (every use of Fault).          *)
(***************************************************************************)
EXTENDS Naturals, FiniteSets, FiniteSetsExt

CONSTANTS
  Msg,           \* the deliveries attempted, numbered in the order of their ids
  None,          \* no message
  Size,          \* Size[m]: bytes of the raw message m
  MetaSize,      \* bytes of the metadata line Enqueue writes before it
  MaxBytes,      \* spool.max_bytes; 0 is no limit
  Unparsable,    \* the messages parseMessage refuses
  MaxCrashes,    \* bound: how often the process dies
  MaxFaults,     \* bound: how many single calls fail with an unexpected error
  MaxOutages     \* bound: how often storage_root goes away

ASSUME MsgAssumption == Msg \subseteq Nat
ASSUME NoneAssumption == None \notin Msg
ASSUME SizeAssumption == Size \in [Msg -> Nat] /\ MetaSize \in Nat
ASSUME LimitAssumption == MaxBytes \in Nat
ASSUME UnparsableAssumption == Unparsable \subseteq Msg
ASSUME BoundAssumption == /\ MaxCrashes \in Nat
                          /\ MaxFaults \in Nat
                          /\ MaxOutages \in Nat

VARIABLES
  tmp, pending, processing, failed,  \* the items in each spool directory
  mu,         \* the message whose Enqueue holds q.mu
  epc,        \* the next step of that Enqueue
  walk,       \* sizeLocked: names listed and not yet measured
  total,      \* sizeLocked: bytes measured so far
  reply,      \* reply[m]: what became of the DATA command that carried m
  wpc,        \* the next step of the worker; "down" while the process is dead
  cur,        \* the item the worker has picked
  toRecover,  \* recoverProcessing: names listed and not yet moved back
  up,         \* storage_root is reachable
  copies,     \* copies[m]: complete copies of m in storage_root
  partials,   \* partials[m]: sets of files of m that will never be complete
  posted,     \* posted[m]: calls of the postStore handler for m
  crashes, faults, outages           \* how much of each bound is used

dirs   == <<tmp, pending, processing, failed>>
enq    == <<mu, epc, walk, total>>
worker == <<wpc, cur, toRecover>>
files  == <<copies, partials>>
bounds == <<crashes, faults, outages>>
vars   == <<dirs, enq, reply, worker, up, files, posted, bounds>>

Queued   == pending \cup processing
InSpool  == Queued \cup failed

\* The name sort.Strings puts first, and the one WalkDir visits first.
Oldest(S) == Min(S)

\* os.DirEntry.Info().Size() of an item: the metadata line and the message.
FileSize(m) == MetaSize + Size[m]

\* One call fails that need not have: the bound on unexpected errors.
Fault == faults < MaxFaults /\ faults' = faults + 1

Init ==
  /\ tmp = {} /\ pending = {} /\ processing = {} /\ failed = {}
  /\ mu = None /\ epc = "free" /\ walk = {} /\ total = 0
  /\ reply = [m \in Msg |-> "none"]
  /\ wpc = "recover" /\ cur = None /\ toRecover = {}
  /\ up = TRUE
  /\ copies = [m \in Msg |-> 0]
  /\ partials = [m \in Msg |-> 0]
  /\ posted = [m \in Msg |-> 0]
  /\ crashes = 0 /\ faults = 0 /\ outages = 0

-----------------------------------------------------------------------------
(* Enqueue, by the SMTP session that carries mu, under q.mu.               *)

\* The DATA handler has read the message and Enqueue takes the mutex.
BeginEnqueue(m) ==
  /\ wpc # "down"
  /\ mu = None
  /\ reply[m] = "none"
  /\ mu' = m
  /\ epc' = IF MaxBytes > 0 THEN "measure" ELSE "create"
  /\ reply' = [reply EXCEPT ![m] = "waiting"]
  /\ UNCHANGED <<dirs, walk, total, worker, up, files, posted, bounds>>

\* Enqueue returns an error and Data answers 452.
Refuse ==
  /\ mu' = None /\ epc' = "free" /\ walk' = {} /\ total' = 0
  /\ reply' = [reply EXCEPT ![mu] = "refused"]

\* sizeLocked lists pending ...
ListPending ==
  /\ epc = "measure"
  /\ walk' = pending
  /\ epc' = "pending"
  /\ UNCHANGED <<dirs, mu, total, reply, worker, up, files, posted, bounds>>

\* ... then, when all its names are measured, processing.
ListProcessing ==
  /\ epc = "pending" /\ walk = {}
  /\ walk' = processing
  /\ epc' = "processing"
  /\ UNCHANGED <<dirs, mu, total, reply, worker, up, files, posted, bounds>>

\* d.Info() measures a name where the walk listed it; a name that has moved
\* since fails the walk with ErrNotExist, and with it the whole Enqueue.
Measure(phase, dir) ==
  /\ epc = phase /\ walk # {}
  /\ LET m == Oldest(walk) IN
       IF m \in dir
         THEN /\ total' = total + FileSize(m)
              /\ walk' = walk \ {m}
              /\ UNCHANGED <<mu, epc, reply>>
         ELSE Refuse
  /\ UNCHANGED <<dirs, worker, up, files, posted, bounds>>

\* The walk ends with an error of another kind: a directory cannot be listed,
\* or one of its names measured.
MeasureFails ==
  /\ epc \in {"measure", "pending"} \/ (epc = "processing" /\ walk # {})
  /\ Fault /\ Refuse
  /\ UNCHANGED <<dirs, worker, up, files, posted, crashes, outages>>

\* Mutant: the message that arrives is not counted.
FitsWithout(m) == total <= MaxBytes

\* The raw message must fit; the metadata line is not in the comparison.
Fits(m) == total + Size[m] <= MaxBytes

CheckSize ==
  /\ epc = "processing" /\ walk = {}
  /\ IF Fits(mu)
       THEN /\ epc' = "create" /\ total' = 0
            /\ UNCHANGED <<mu, walk, reply>>
       ELSE Refuse
  /\ UNCHANGED <<dirs, worker, up, files, posted, bounds>>

CreateTmp ==
  /\ epc = "create"
  /\ \/ /\ tmp' = tmp \cup {mu}
        /\ epc' = "write"
        /\ UNCHANGED <<mu, walk, total, reply, faults>>
     \/ Fault /\ Refuse /\ UNCHANGED tmp
  /\ UNCHANGED <<pending, processing, failed, worker, up, files, posted, crashes, outages>>

\* Write, Sync and Close, then the rename that publishes the item.
Publish ==
  /\ epc = "write"
  /\ tmp' = tmp \ {mu}
  /\ pending' = pending \cup {mu}
  /\ epc' = "return"
  /\ UNCHANGED <<processing, failed, mu, walk, total, reply, worker, up, files, posted, bounds>>

\* One of them fails; the error path removes the temporary file, if it can.
PublishFails ==
  /\ epc = "write"
  /\ Fault
  /\ tmp' \in {tmp, tmp \ {mu}}
  /\ Refuse
  /\ UNCHANGED <<pending, processing, failed, worker, up, files, posted, crashes, outages>>

\* Enqueue returns the id, the mutex is released and Data answers 250.
ReturnOK ==
  /\ epc = "return"
  /\ reply' = [reply EXCEPT ![mu] = "ok"]
  /\ mu' = None /\ epc' = "free"
  /\ UNCHANGED <<dirs, walk, total, worker, up, files, posted, bounds>>

EnqueueStep == \/ ListPending
               \/ Measure("pending", pending)
               \/ ListProcessing
               \/ Measure("processing", processing)
               \/ MeasureFails
               \/ CheckSize \/ CreateTmp \/ Publish \/ PublishFails \/ ReturnOK

-----------------------------------------------------------------------------
(* The worker: run, flush and processOne.                                  *)

\* recoverProcessing moves the listed items back one by one.
Recover ==
  /\ wpc = "recover" /\ toRecover # {}
  /\ LET m == Oldest(toRecover) IN
       /\ toRecover' = toRecover \ {m}
       /\ \/ /\ processing' = processing \ {m}
             /\ pending' = pending \cup {m}
             /\ UNCHANGED faults
          \/ Fault /\ UNCHANGED <<processing, pending>>
  /\ UNCHANGED <<tmp, failed, enq, reply, wpc, cur, up, files, posted, crashes, outages>>

\* The first flush follows the recovery, every later one a tick.
StartFlush ==
  /\ \/ wpc = "recover" /\ toRecover = {}
     \/ wpc = "idle"
  /\ wpc' = "next"
  /\ UNCHANGED <<dirs, enq, reply, cur, toRecover, up, files, posted, bounds>>

\* nextPending: the first name in order, or the end of this flush; a pending
\* directory that cannot be read counts as empty.
NextPending ==
  /\ wpc = "next"
  /\ \/ /\ pending # {}
        /\ cur' = Oldest(pending)
        /\ wpc' = "claim"
        /\ UNCHANGED faults
     \/ pending = {} /\ wpc' = "idle" /\ UNCHANGED <<cur, faults>>
     \/ Fault /\ wpc' = "idle" /\ UNCHANGED cur
  /\ UNCHANGED <<dirs, enq, reply, toRecover, up, files, posted, crashes, outages>>

\* processOne is over: the flush goes on with the next item, or stops.
Done(next) == wpc' = next /\ cur' = None

\* Mutant: the item is copied instead of renamed.
ClaimByCopy ==
  /\ wpc = "claim"
  /\ processing' = processing \cup {cur}
  /\ wpc' = "read"
  /\ UNCHANGED <<tmp, pending, failed, enq, reply, cur, toRecover, up, files, posted, bounds>>

\* The rename that claims the item; when it fails the flush tries again.
Claim ==
  /\ wpc = "claim"
  /\ \/ /\ pending' = pending \ {cur}
        /\ processing' = processing \cup {cur}
        /\ wpc' = "read"
        /\ UNCHANGED <<cur, faults>>
     \/ Fault /\ Done("next") /\ UNCHANGED <<pending, processing>>
  /\ UNCHANGED <<tmp, failed, enq, reply, toRecover, up, files, posted, crashes, outages>>

\* moveToFailed after `used` faults; a rename that fails leaves the item.
MoveToFailed(used) ==
  /\ faults + used <= MaxFaults
  /\ \/ /\ processing' = processing \ {cur}
        /\ failed' = failed \cup {cur}
        /\ faults' = faults + used
     \/ /\ faults + used < MaxFaults
        /\ faults' = faults + used + 1
        /\ UNCHANGED <<processing, failed>>
  /\ Done("next")
  /\ UNCHANGED <<tmp, pending>>

\* Mutant: an unavailable storage loses the claimed item.
PutBackNowhere ==
  /\ processing' = processing \ {cur}
  /\ Done("idle")
  /\ UNCHANGED <<tmp, pending, failed, faults>>

\* Mutant: the claimed item is left in processing.
PutBackLater ==
  /\ Done("idle")
  /\ UNCHANGED <<dirs, faults>>

\* The rename back to pending after an unavailability; its error is ignored.
PutBack ==
  /\ \/ /\ processing' = processing \ {cur}
        /\ pending' = pending \cup {cur}
        /\ UNCHANGED faults
     \/ Fault /\ UNCHANGED <<processing, pending>>
  /\ Done("idle")
  /\ UNCHANGED <<tmp, failed>>

\* readItem; a bad received_at only changes the time used.
ReadItem ==
  /\ wpc = "read"
  /\ wpc' = "store"
  /\ UNCHANGED <<dirs, enq, reply, cur, toRecover, up, files, posted, bounds>>

ReadItemFails ==
  /\ wpc = "read"
  /\ MoveToFailed(1)
  /\ UNCHANGED <<enq, reply, toRecover, up, files, posted, crashes, outages>>

\* Mutant: the item is removed before it is complete in storage_root.
StoreBodyReleases ==
  /\ wpc = "store"
  /\ cur \notin Unparsable
  /\ up
  /\ wpc' = "attach"
  /\ processing' = processing \ {cur}
  /\ UNCHANGED <<tmp, pending, failed, enq, reply, cur, toRecover, up, files, posted, bounds>>

\* ProcessAndStore up to the body file: the message parses, the directory and
\* the body are written.
StoreBody ==
  /\ wpc = "store"
  /\ cur \notin Unparsable
  /\ up
  /\ wpc' = "attach"
  /\ UNCHANGED <<dirs, enq, reply, cur, toRecover, up, files, posted, bounds>>

ParseFails ==
  /\ wpc = "store"
  /\ cur \in Unparsable
  /\ MoveToFailed(0)
  /\ UNCHANGED <<enq, reply, toRecover, up, files, posted, crashes, outages>>

\* ProcessAndStore after the body: the attachments.
StoreAttachments ==
  /\ wpc = "attach"
  /\ up
  /\ copies' = [copies EXCEPT ![cur] = @ + 1]
  /\ wpc' = "remove"
  /\ UNCHANGED <<dirs, enq, reply, cur, toRecover, up, partials, posted, bounds>>

\* What ProcessAndStore leaves when it ends early: the body it has written.
Abandon == partials' = IF wpc = "attach" THEN [partials EXCEPT ![cur] = @ + 1] ELSE partials

\* Mutant: every error is final, an unavailable storage_root too.
StoreUnavailableIsFinal ==
  /\ wpc \in {"store", "attach"} /\ ~up
  /\ Abandon
  /\ MoveToFailed(0)
  /\ UNCHANGED <<enq, reply, toRecover, up, copies, posted, crashes, outages>>

StoreUnavailable ==
  /\ \/ wpc = "store" /\ cur \notin Unparsable
     \/ wpc = "attach"
  /\ ~up
  /\ Abandon
  /\ PutBack
  /\ UNCHANGED <<enq, reply, toRecover, up, copies, posted, crashes, outages>>

\* An error IsUnavailableError does not list: the item is given up.
StoreFails ==
  /\ \/ wpc = "store" /\ cur \notin Unparsable
     \/ wpc = "attach"
  /\ Abandon
  /\ MoveToFailed(1)
  /\ UNCHANGED <<enq, reply, toRecover, up, copies, posted, crashes, outages>>

\* Mutant: an error of os.Remove is returned, as the errors before it are.
RemoveItemOrReturn ==
  /\ wpc = "remove"
  /\ \/ processing' = processing \ {cur} /\ wpc' = "post" /\ UNCHANGED <<cur, faults>>
     \/ Fault /\ Done("next") /\ UNCHANGED processing
  /\ UNCHANGED <<tmp, pending, failed, enq, reply, toRecover, up, files, posted, crashes, outages>>

\* Mutant: the claimed item stays in processing although it is stored.
RemoveItemForgotten ==
  /\ wpc = "remove"
  /\ wpc' = "post"
  /\ UNCHANGED <<dirs, enq, reply, cur, toRecover, up, files, posted, bounds>>

\* os.Remove of the claimed item; its failure is only logged.
RemoveItem ==
  /\ wpc = "remove"
  /\ \/ processing' = processing \ {cur} /\ UNCHANGED faults
     \/ Fault /\ UNCHANGED processing
  /\ wpc' = "post"
  /\ UNCHANGED <<tmp, pending, failed, enq, reply, cur, toRecover, up, files, posted, crashes, outages>>

\* postStore: classification and indexing of what was stored.
PostStore ==
  /\ wpc = "post"
  /\ posted' = [posted EXCEPT ![cur] = @ + 1]
  /\ Done("next")
  /\ UNCHANGED <<dirs, enq, reply, toRecover, up, files, bounds>>

WorkerStep == \/ Recover \/ StartFlush \/ NextPending \/ Claim
              \/ ReadItem \/ ReadItemFails
              \/ StoreBody \/ ParseFails \/ StoreAttachments
              \/ StoreUnavailable \/ StoreFails
              \/ RemoveItem \/ PostStore

-----------------------------------------------------------------------------
(* The surroundings.                                                       *)

StorageDown ==
  /\ up /\ outages < MaxOutages
  /\ up' = FALSE /\ outages' = outages + 1
  /\ UNCHANGED <<dirs, enq, reply, worker, files, posted, crashes, faults>>

StorageUp ==
  /\ ~up
  /\ up' = TRUE
  /\ UNCHANGED <<dirs, enq, reply, worker, files, posted, bounds>>

\* The process dies: nothing handles a signal, so a stop is the same.  The
\* session that waited for an answer gets none.
Crash ==
  /\ wpc # "down" /\ crashes < MaxCrashes
  /\ crashes' = crashes + 1
  /\ Abandon
  /\ wpc' = "down" /\ cur' = None /\ toRecover' = {}
  /\ mu' = None /\ epc' = "free" /\ walk' = {} /\ total' = 0
  /\ reply' = [m \in Msg |-> IF reply[m] = "waiting" THEN "lost" ELSE reply[m]]
  /\ UNCHANGED <<dirs, up, copies, posted, faults, outages>>

\* Mutant: run goes straight to the first flush.
RestartWithoutRecovery ==
  /\ wpc = "down"
  /\ wpc' = "recover" /\ toRecover' = {}
  /\ UNCHANGED <<dirs, enq, reply, cur, up, files, posted, bounds>>

\* main builds the queue again and Start launches run, which lists processing
\* before the worker moves anything; a directory that cannot be read leaves
\* everything there until the next start.
Restart ==
  /\ wpc = "down"
  /\ wpc' = "recover"
  /\ \/ toRecover' = processing /\ UNCHANGED faults
     \/ Fault /\ toRecover' = {}
  /\ UNCHANGED <<dirs, enq, reply, cur, up, files, posted, crashes, outages>>

Next == \/ \E m \in Msg : BeginEnqueue(m)
        \/ EnqueueStep
        \/ WorkerStep
        \/ StorageDown \/ StorageUp
        \/ Crash \/ Restart

Spec == Init /\ [][Next]_vars

\* The goroutines are scheduled, the ticker ticks, and systemd restarts the
\* service that failed.  Nothing is assumed of storage_root or of clients.
FairSpec == /\ Spec
            /\ WF_vars(EnqueueStep)
            /\ WF_vars(WorkerStep)
            /\ WF_vars(Restart)
-----------------------------------------------------------------------------
(* Correctness.                                                            *)

Answer == {"none", "waiting", "ok", "refused", "lost"}

TypeOK ==
  /\ tmp \subseteq Msg /\ pending \subseteq Msg
  /\ processing \subseteq Msg /\ failed \subseteq Msg
  /\ mu \in Msg \cup {None}
  /\ epc \in {"free", "measure", "pending", "processing", "create", "write", "return"}
  /\ walk \subseteq Msg
  /\ total \in Nat
  /\ reply \in [Msg -> Answer]
  /\ wpc \in {"down", "recover", "idle", "next", "claim", "read", "store", "attach", "remove", "post"}
  /\ cur \in Msg \cup {None}
  /\ toRecover \subseteq Msg
  /\ up \in BOOLEAN
  /\ copies \in [Msg -> Nat]
  /\ partials \in [Msg -> Nat]
  /\ posted \in [Msg -> Nat]
  /\ crashes \in 0..MaxCrashes
  /\ faults \in 0..MaxFaults
  /\ outages \in 0..MaxOutages

\* A message answered with 250 is on the local disk or complete in
\* storage_root, whatever crashed or failed since (Enqueue publishes before it
\* returns; processOne removes only what ProcessAndStore has written).
Custody == \A m \in Msg : reply[m] = "ok" => m \in InSpool \/ copies[m] > 0

\* A message answered with 452 leaves nothing the worker would store, so the
\* client's retry of it is not a duplicate (every error path of Enqueue).
RefusedLeavesNothing ==
  \A m \in Msg : reply[m] = "refused" => m \notin InSpool /\ copies[m] = 0

\* f[m] of something for each m, from a number on, one by one: <<m, k>> is the
\* k-th of m.
Pieces(f, from) == UNION {{m} \X (from..f[m]) : m \in DOMAIN f}

\* What the spool leaves behind is paid for, piece by piece: a copy too many by
\* a crash between ProcessAndStore and os.Remove, or by a Remove that failed; a
\* set of files that will never be complete by an outage, a crash or an error in
\* the middle of ProcessAndStore; a file in tmp/ that is nobody's by a crash or
\* an error path that could not remove it; an item in failed/ by its own content
\* or an error.  Neither tmp/ nor failed/ is measured or emptied (spool.go:253),
\* so this is all that bounds them.
DebrisBudget ==
  /\ Cardinality(Pieces(copies, 2)) <= crashes + faults
  /\ Cardinality(Pieces(partials, 1)) <= crashes + faults + outages
  /\ Cardinality(tmp \ {mu}) <= crashes + faults
  /\ Cardinality(failed \ Unparsable) <= faults

\* However long storage_root is away, an outage quarantines nothing: without
\* unexpected errors failed/ holds unparsable messages only.
OutageSparesMessages == faults = 0 => failed \subseteq Unparsable

\* Classification and indexing start only from complete copies, once for each.
PostOnlyStored == \A m \in Msg : posted[m] <= copies[m]

\* And from each of them: a copy that classification and index are not given is
\* the one the worker is about to give them, or was lost to a crash between
\* ProcessAndStore and postStore, one to each (spool.go:197; its notification is
\* never sent, and only the walks of the next start find its files).
EachCopyIsGiven ==
  Cardinality(Pieces(copies, 1) \ Pieces(posted, 1))
    <= crashes + (IF wpc \in {"remove", "post"} THEN 1 ELSE 0)

\* While no rename or removal has failed, everything in processing/ has an
\* owner: the worker holds it, recovery will move it, or the process is down.
\* (Without an owner it would stay there until the next restart.)
NothingStranded ==
  faults = 0 /\ wpc # "down" =>
    /\ processing \subseteq {cur} \cup toRecover
    /\ Cardinality(processing) <= 1

\* The bytes of some items.
Bytes(S) == Cardinality(Pieces([m \in S |-> FileSize(m)], 1))

\* max_bytes, which "bounds accepted queued messages" (README.md:45), does so
\* only up to one metadata line and one item that the worker put back in
\* pending after pending was listed and before processing was: the size is
\* measured while the worker renames (spool.go:251).
SpoolBound ==
  MaxBytes > 0 /\ faults = 0 /\ Queued # {} =>
    \E m \in Msg : Bytes(Queued) <= MaxBytes + MetaSize + FileSize(m)

\* A message put in the spool is never forgotten: at every later step it is in
\* the spool, in the quarantine or complete in storage_root.
NeverForgotten ==
  [][\A m \in Msg : (m \in InSpool \/ copies[m] > 0) => (m \in InSpool \/ copies[m] > 0)']_vars

\* The spool implements what it promises to the clients.
Promise == INSTANCE SpoolAbstract WITH
  kept <- [m \in Msg |-> (IF m \in Queued THEN {"spool"} ELSE {})
                         \cup (IF m \in failed THEN {"quarantine"} ELSE {})
                         \cup (IF copies[m] > 0 THEN {"store"} ELSE {})],
  answer <- [m \in Msg |-> IF reply[m] \in {"ok", "refused"} THEN reply[m] ELSE "none"]

KeepsPromise == Promise!Spec
=============================================================================
