----------------------------- MODULE SpoolProofs -----------------------------
(***************************************************************************)
(* Theorems about Spool, for every set of messages, every size limit and    *)
(* every bound on crashes, faults and outages.  IInv is the inductive       *)
(* invariant: Custody and the others do not say by themselves why the       *)
(* worker's rename or removal is safe, its parts do.                        *)
(***************************************************************************)
EXTENDS Spool, WellFoundedInduction, FiniteSetTheorems, TLAPS

Busy   == {"read", "store", "attach", "remove"}
Ashore == {"down", "recover", "idle", "next"}

Safe(m) == m \in InSpool \/ copies[m] > 0

\* The directories hold an item once: a rename moves it.
OncePerItem == /\ pending \cap processing = {}
               /\ pending \cap failed = {}
               /\ processing \cap failed = {}
               /\ tmp \cap InSpool = {}

\* The session in Enqueue: no file of its message is in the spool before the
\* rename, and one copy is safe after it.
SessionInv ==
  /\ mu = None <=> epc = "free"
  /\ \A m \in Msg : reply[m] = "waiting" <=> m = mu
  /\ mu # None /\ epc # "return" => ~Safe(mu)
  /\ epc = "return" => Safe(mu)

\* The messages that have not come, and those that were refused.
OutsideInv == \A m \in Msg : reply[m] \in {"none", "refused"} => ~Safe(m)

\* The worker: the item it holds is where its program counter says.
WorkerInv ==
  /\ wpc \in Ashore <=> cur = None
  /\ wpc = "claim" => cur \in pending
  /\ wpc \in Busy => cur \in processing
  /\ wpc \in {"remove", "post"} => copies[cur] > 0
  /\ wpc = "down" => mu = None
  /\ toRecover \subseteq processing
  /\ toRecover # {} => wpc = "recover"

\* What does not depend on the disks keeping everything: it holds of the spool
\* whatever a loss of power leaves of it (see PowerLoss).
CoreInv == TypeOK /\ OncePerItem /\ SessionInv /\ OutsideInv /\ WorkerInv

\* Without a failed rename one item at most is in processing, and it has an
\* owner unless the process is down.
OwnedInv ==
  faults = 0 =>
    /\ \A m, n \in processing : m = n
    /\ wpc # "down" => processing \subseteq {cur} \cup toRecover
    /\ wpc = "post" => cur \notin processing

\* A copy that is complete and not yet followed by postStore.
PostInv == PostOnlyStored /\ (wpc \in {"remove", "post"} => posted[cur] < copies[cur])

IInv == CoreInv /\ Custody /\ OwnedInv /\ OutageSparesMessages /\ PostInv

-----------------------------------------------------------------------------
(* Lemmas about the operators.                                             *)

\* The name that sorts first is one of the names.
LEMMA OldestIn ==
  ASSUME NEW S, S \subseteq Msg, S # {}
  PROVE  Oldest(S) \in S
<1>1. PICK x \in S : \A y \in S : ~ (<<y, x>> \in OpToRel(<, Nat))
  BY WFMin, NatLessThanWellFounded, MsgAssumption
<1>2. \A y \in S : x <= y
  <2>1. SUFFICES ASSUME NEW y \in S, y < x PROVE FALSE
    BY MsgAssumption
  <2>2. <<y, x>> \in OpToRel(<, Nat)
    BY <2>1, MsgAssumption DEF OpToRel
  <2>3. QED BY <1>1, <2>2
<1>3. QED BY <1>2 DEF Oldest, Min

\* A file has a size.
LEMMA FileSizeType == \A m \in Msg : FileSize(m) \in Nat
  BY SizeAssumption DEF FileSize

-----------------------------------------------------------------------------
(* IInv is an invariant: it holds initially, and each step of a session, of *)
(* the worker and of the surroundings keeps it.                             *)

LEMMA InitInv == Init => IInv
  BY NoneAssumption, BoundAssumption
  DEF Init, IInv, CoreInv, TypeOK, OncePerItem, SessionInv, OutsideInv, WorkerInv, Custody, OwnedInv,
      OutageSparesMessages, PostInv, PostOnlyStored, Safe, InSpool, Queued, Busy, Ashore, Answer

\* The start of Enqueue; the assumption on answers gives ~Safe(m).
LEMMA BeginEnqueueCore ==
  ASSUME CoreInv, NEW m \in Msg, BeginEnqueue(m)
  PROVE  CoreInv'
  BY NoneAssumption
  DEF BeginEnqueue, CoreInv, TypeOK, OncePerItem, SessionInv, OutsideInv, WorkerInv, Safe, InSpool,
      Queued, Busy, Ashore, Answer, dirs, worker, files, bounds

\* The rest of Enqueue: only Publish puts an item in the spool, and it is new.
LEMMA EnqueueCore ==
  ASSUME CoreInv, EnqueueStep
  PROVE  CoreInv'
<1> USE DEF CoreInv, TypeOK, OncePerItem, SessionInv, OutsideInv, WorkerInv, Safe, InSpool, Queued,
            Busy, Ashore, Answer, dirs, enq, worker, files, bounds
<1>1. CASE ListPending
  BY <1>1 DEF ListPending
<1>2. CASE Measure("pending", pending)
  BY <1>2, NoneAssumption, OldestIn, FileSizeType DEF Measure, Refuse
<1>3. CASE ListProcessing
  BY <1>3 DEF ListProcessing
<1>4. CASE Measure("processing", processing)
  BY <1>4, NoneAssumption, OldestIn, FileSizeType DEF Measure, Refuse
<1>5. CASE CheckSize
  BY <1>5, NoneAssumption DEF CheckSize, Refuse
<1>6. CASE CreateTmp
  BY <1>6, NoneAssumption, BoundAssumption DEF CreateTmp, Refuse, Fault
<1>7. CASE Publish
  BY <1>7 DEF Publish
<1>8. CASE PublishFails
  BY <1>8, NoneAssumption, BoundAssumption DEF PublishFails, Refuse, Fault
<1>9. CASE ReturnOK
  BY <1>9, NoneAssumption DEF ReturnOK
<1>10. CASE MeasureFails
  BY <1>10, NoneAssumption, BoundAssumption DEF MeasureFails, Refuse, Fault
<1>11. QED BY <1>1, <1>2, <1>3, <1>4, <1>5, <1>6, <1>7, <1>8, <1>9, <1>10 DEF EnqueueStep

\* The worker: each rename moves the item it holds, and RemoveItem comes after the
\* complete copy.
LEMMA WorkerCore ==
  ASSUME CoreInv, WorkerStep
  PROVE  CoreInv'
<1> USE DEF CoreInv, TypeOK, OncePerItem, SessionInv, OutsideInv, WorkerInv, Safe, InSpool, Queued,
            Busy, Ashore, Answer, dirs, enq, worker, files, bounds
<1>1. CASE Recover
  BY <1>1, OldestIn, BoundAssumption DEF Recover, Fault
<1>2. CASE StartFlush
  BY <1>2 DEF StartFlush
<1>3. CASE NextPending
  BY <1>3, NoneAssumption, OldestIn, BoundAssumption DEF NextPending, Fault
<1>4. CASE Claim
  BY <1>4, NoneAssumption, BoundAssumption DEF Claim, Done, Fault
<1>5. CASE ReadItem
  BY <1>5 DEF ReadItem
<1>6. CASE ReadItemFails
  BY <1>6, NoneAssumption, BoundAssumption DEF ReadItemFails, MoveToFailed, Done
<1>7. CASE StoreBody
  BY <1>7 DEF StoreBody
<1>8. CASE ParseFails
  BY <1>8, NoneAssumption, BoundAssumption DEF ParseFails, MoveToFailed, Done
<1>9. CASE StoreAttachments
  BY <1>9 DEF StoreAttachments
<1>10. CASE StoreUnavailable
  BY <1>10, NoneAssumption, BoundAssumption DEF StoreUnavailable, Abandon, PutBack, Done, Fault
<1>11. CASE StoreFails
  BY <1>11, NoneAssumption, BoundAssumption DEF StoreFails, Abandon, MoveToFailed, Done
<1>12. CASE RemoveItem
  BY <1>12, BoundAssumption DEF RemoveItem, Fault
<1>13. CASE PostStore
  BY <1>13, NoneAssumption DEF PostStore, Done
<1>14. QED BY <1>1, <1>2, <1>3, <1>4, <1>5, <1>6, <1>7, <1>8, <1>9, <1>10, <1>11, <1>12, <1>13 DEF WorkerStep

\* Outages, crashes, restarts and stuttering: a crash changes no directory.
LEMMA SurroundingsCore ==
  ASSUME CoreInv, StorageDown \/ StorageUp \/ Crash \/ Restart \/ UNCHANGED vars
  PROVE  CoreInv'
<1> USE DEF CoreInv, TypeOK, OncePerItem, SessionInv, OutsideInv, WorkerInv, Safe, InSpool, Queued,
            Busy, Ashore, Answer, dirs, enq, worker, files, bounds
<1>1. CASE StorageDown
  <2>1. outages' \in 0..MaxOutages
    BY <1>1, BoundAssumption DEF StorageDown
  <2>2. up' \in BOOLEAN
    BY <1>1 DEF StorageDown
  <2>3. UNCHANGED <<dirs, enq, reply, worker, files, posted, crashes, faults>>
    BY <1>1 DEF StorageDown
  <2>4. TypeOK'
    BY <2>1, <2>2, <2>3
  <2>5. QED BY <2>3, <2>4
<1>2. CASE StorageUp
  BY <1>2 DEF StorageUp
<1>3. CASE Crash
  BY <1>3, NoneAssumption, BoundAssumption DEF Crash, Abandon
<1>4. CASE Restart
  BY <1>4, NoneAssumption, BoundAssumption DEF Restart, Fault
<1>5. CASE UNCHANGED vars
  BY <1>5 DEF vars
<1>6. QED BY <1>1, <1>2, <1>3, <1>4, <1>5

LEMMA StepCore ==
  ASSUME CoreInv, [Next]_vars
  PROVE  CoreInv'
  BY BeginEnqueueCore, EnqueueCore, WorkerCore, SurroundingsCore DEF Next

\* No step takes the last copy of a message away.
LEMMA StepSafe ==
  ASSUME CoreInv, [Next]_vars, NEW m \in Msg, Safe(m)
  PROVE  Safe(m)'
<1> USE DEF CoreInv, TypeOK, WorkerInv, OncePerItem, Safe, InSpool, Queued, Busy, Ashore,
            dirs, enq, worker, files, bounds
<1>1. CASE \E n \in Msg : BeginEnqueue(n)
  BY <1>1 DEF BeginEnqueue
<1>2. CASE EnqueueStep
  BY <1>2 DEF EnqueueStep, ListPending, Measure, MeasureFails, ListProcessing, CheckSize, CreateTmp,
              Publish, PublishFails, ReturnOK
<1>3. CASE Recover \/ StartFlush \/ NextPending \/ Claim \/ ReadItem
  BY <1>3 DEF Recover, StartFlush, NextPending, Claim, ReadItem
<1>4. CASE ReadItemFails \/ ParseFails \/ StoreFails
  BY <1>4 DEF ReadItemFails, ParseFails, StoreFails, MoveToFailed
<1>5. CASE StoreBody \/ StoreUnavailable
  BY <1>5 DEF StoreBody, StoreUnavailable, PutBack
<1>6. CASE StoreAttachments
  BY <1>6 DEF StoreAttachments
<1>7. CASE RemoveItem
  BY <1>7 DEF RemoveItem
<1>8. CASE PostStore
  BY <1>8 DEF PostStore
<1>9. CASE StorageDown \/ StorageUp \/ Crash \/ Restart \/ UNCHANGED vars
  BY <1>9 DEF StorageDown, StorageUp, Crash, Restart, vars
<1>10. QED
  BY <1>1, <1>2, <1>3, <1>4, <1>5, <1>6, <1>7, <1>8, <1>9 DEF Next, WorkerStep

\* An answer 250 is given by ReturnOK alone, for a message that is safe.
LEMMA StepCustody ==
  ASSUME CoreInv, Custody, [Next]_vars
  PROVE  Custody'
<1> SUFFICES ASSUME NEW m \in Msg, reply'[m] = "ok" PROVE Safe(m)'
  BY DEF Custody, Safe
<1>1. CASE reply[m] = "ok"
  BY <1>1, StepSafe DEF Custody, Safe
<1>2. CASE ReturnOK
  BY <1>1, <1>2, StepSafe, NoneAssumption DEF ReturnOK, CoreInv, TypeOK, SessionInv
<1>3. CASE reply[m] # "ok" /\ ~ReturnOK
  BY <1>3, NoneAssumption
  DEF CoreInv, TypeOK, SessionInv, Next, BeginEnqueue, EnqueueStep, ListPending, Measure, MeasureFails, ListProcessing,
      CheckSize, CreateTmp, Publish, PublishFails, Refuse, WorkerStep, Recover, StartFlush, NextPending,
      Claim, ReadItem, ReadItemFails, StoreBody, ParseFails, StoreAttachments, StoreUnavailable,
      StoreFails, RemoveItem, PostStore, StorageDown, StorageUp, Crash, Restart, vars, enq
<1>4. QED BY <1>1, <1>2, <1>3

\* What the worker owns, quarantines and posts.
LEMMA StepOwned ==
  ASSUME IInv, [Next]_vars
  PROVE  (OwnedInv /\ OutageSparesMessages /\ PostInv)'
<1> USE DEF IInv, CoreInv, TypeOK, WorkerInv, OwnedInv, OutageSparesMessages, PostInv, PostOnlyStored,
            Busy, Ashore, dirs, enq, worker, files, bounds
<1>1. CASE \E m \in Msg : BeginEnqueue(m)
  BY <1>1 DEF BeginEnqueue
<1>2. CASE EnqueueStep
  BY <1>2, BoundAssumption
  DEF EnqueueStep, ListPending, Measure, MeasureFails, ListProcessing, CheckSize, CreateTmp, Publish,
      PublishFails, ReturnOK, Fault
<1>3. CASE Recover
  BY <1>3, OldestIn, BoundAssumption DEF Recover, Fault
<1>4. CASE StartFlush \/ ReadItem \/ StoreBody
  BY <1>4 DEF StartFlush, ReadItem, StoreBody
<1>5. CASE NextPending
  BY <1>5, NoneAssumption, OldestIn, BoundAssumption DEF NextPending, Fault
<1>6. CASE Claim
  BY <1>6, NoneAssumption, BoundAssumption DEF Claim, Done, Fault
<1>7. CASE ReadItemFails \/ ParseFails \/ StoreFails
  BY <1>7, NoneAssumption, BoundAssumption DEF ReadItemFails, ParseFails, StoreFails, Abandon, MoveToFailed, Done
<1>8. CASE StoreAttachments
  BY <1>8 DEF StoreAttachments
<1>9. CASE StoreUnavailable
  BY <1>9, NoneAssumption, BoundAssumption DEF StoreUnavailable, Abandon, PutBack, Done, Fault
<1>10. CASE RemoveItem
  BY <1>10, BoundAssumption DEF RemoveItem, Fault
<1>11. CASE PostStore
  <2>1. /\ cur \in Msg /\ posted[cur] < copies[cur] /\ wpc = "post"
        /\ posted' = [posted EXCEPT ![cur] = posted[cur] + 1]
        /\ UNCHANGED <<copies, processing, failed, faults, toRecover>> /\ wpc' = "next" /\ cur' = None
    BY <1>11 DEF PostStore, Done
  <2>2. PostOnlyStored'
    BY <2>1
  <2>3. QED BY <2>1, <2>2
<1>12. CASE StorageDown \/ StorageUp \/ UNCHANGED vars
  BY <1>12 DEF StorageDown, StorageUp, vars
<1>13. CASE Crash
  BY <1>13, NoneAssumption DEF Crash
<1>14. CASE Restart
  <2>1. /\ UNCHANGED <<copies, posted, processing, failed, cur>> /\ wpc = "down" /\ wpc' = "recover"
        /\ (toRecover' = processing /\ faults' = faults) \/ faults' = faults + 1
    BY <1>14 DEF Restart, Fault
  <2>2. faults' = 0 => faults = 0 /\ toRecover' = processing
    BY <2>1, BoundAssumption
  <2>3. QED BY <2>1, <2>2
<1>15. QED
  BY <1>1, <1>2, <1>3, <1>4, <1>5, <1>6, <1>7, <1>8, <1>9, <1>10, <1>11, <1>12, <1>13, <1>14
  DEF Next, WorkerStep

\* IInv, what each program counter of worker and session implies, is inductive
\* (Enqueue, processOne, recoverProcessing).
THEOREM Invariance == Spec => []IInv
<1>1. IInv /\ [Next]_vars => IInv'
  BY StepCore, StepCustody, StepOwned DEF IInv
<1>2. QED BY InitInv, <1>1, PTL DEF Spec

-----------------------------------------------------------------------------
(* What follows from it.                                                   *)

\* Every variable keeps its type: total never goes below zero and the bounds
\* are kept.
THEOREM TypeCorrect == Spec => []TypeOK
<1>1. IInv => TypeOK BY DEF IInv, CoreInv
<1>2. QED BY Invariance, <1>1, PTL

\* No message answered with 250 is ever lost (Enqueue, processOne).
THEOREM CustodyHolds == Spec => []Custody
<1>1. IInv => Custody BY DEF IInv
<1>2. QED BY Invariance, <1>1, PTL

\* A message answered with 452 leaves nothing to store (the error paths of
\* Enqueue).
THEOREM RefusedLeavesNothingHolds == Spec => []RefusedLeavesNothing
<1>1. IInv => RefusedLeavesNothing
  BY DEF IInv, CoreInv, TypeOK, OutsideInv, RefusedLeavesNothing, Safe
<1>2. QED BY Invariance, <1>1, PTL

\* An outage of any length quarantines nothing (processOne puts the item back).
THEOREM OutageSparesMessagesHolds == Spec => []OutageSparesMessages
<1>1. IInv => OutageSparesMessages BY DEF IInv
<1>2. QED BY Invariance, <1>1, PTL

\* postStore runs at most once for each complete copy (the end of processOne).
THEOREM PostOnlyStoredHolds == Spec => []PostOnlyStored
<1>1. IInv => PostOnlyStored BY DEF IInv, PostInv
<1>2. QED BY Invariance, <1>1, PTL

\* Without failed renames nothing waits in processing without an owner, after
\* any number of crashes (recoverProcessing).
THEOREM NothingStrandedHolds == Spec => []NothingStranded
<1>1. ASSUME IInv PROVE NothingStranded
  <2>1. CASE processing = {}
    BY <1>1, <2>1, FS_EmptySet DEF IInv, CoreInv, OwnedInv, NothingStranded
  <2>2. ASSUME faults = 0, NEW m \in processing PROVE processing = {m}
    BY <1>1, <2>2 DEF IInv, OwnedInv
  <2>3. CASE processing # {}
    <3>1. faults = 0 => Cardinality(processing) = 1
      <4>1. SUFFICES ASSUME faults = 0 PROVE Cardinality(processing) = 1
        OBVIOUS
      <4>2. PICK m : m \in processing
        BY <2>3
      <4>3. processing = {m}
        BY <2>2, <4>1, <4>2
      <4>4. QED BY <4>3, FS_Singleton
    <3>2. QED BY <1>1, <3>1 DEF IInv, OwnedInv, NothingStranded
  <2>4. QED BY <2>1, <2>3
<1>2. QED BY Invariance, <1>1, PTL

\* Once in the spool a message is never forgotten: no step of a session, the
\* worker, a crash or a failing call takes the last copy away.
THEOREM NeverForgottenHolds == Spec => NeverForgotten
<1>1. ASSUME IInv, [Next]_vars, NEW m \in Msg, Safe(m) PROVE Safe(m)'
  BY <1>1, StepSafe DEF IInv
<1>2. IInv /\ [Next]_vars => [\A m \in Msg : Safe(m) => Safe(m)']_vars
  BY <1>1
<1>3. QED BY Invariance, <1>2, PTL DEF Spec, NeverForgotten, Safe

-----------------------------------------------------------------------------
(* What is left behind: each part of DebrisBudget needs to know what is about *)
(* to be left.                                                               *)

\* The items that will be stored again although they are stored.
Repeats == {m \in Queued : copies[m] > 0} \ (IF wpc = "remove" THEN {cur} ELSE {})

\* ProcessAndStore is under way and cannot end well.
Doomed == IF wpc = "attach" /\ ~up THEN 1 ELSE 0

CopyAccount ==
  /\ IsFiniteSet(Pieces(copies, 2)) /\ IsFiniteSet(Repeats)
  /\ Cardinality(Pieces(copies, 2)) + Cardinality(Repeats) <= crashes + faults

PartialAccount ==
  /\ IsFiniteSet(Pieces(partials, 1))
  /\ Cardinality(Pieces(partials, 1)) + Doomed <= crashes + faults + outages

TmpAccount ==
  /\ \A m \in Msg : reply[m] = "none" => m \notin tmp
  /\ mu # None /\ epc # "write" => mu \notin tmp
  /\ IsFiniteSet(tmp \ {mu})
  /\ Cardinality(tmp \ {mu}) <= crashes + faults

FailedAccount ==
  /\ IsFiniteSet(failed \ Unparsable)
  /\ Cardinality(failed \ Unparsable) <= faults

\* Of m there are the pieces from `from` to f[m].
LEMMA PiecesDef ==
  ASSUME NEW f, NEW from \in Nat
  PROVE  \A p : p \in Pieces(f, from) <=> \E m \in DOMAIN f : \E k \in from..f[m] : p = <<m, k>>
  BY DEF Pieces

\* One more of m is one more piece.
LEMMA OneMore ==
  ASSUME NEW S, NEW f \in [S -> Nat], NEW m \in S, NEW from \in Nat \ {0},
         IsFiniteSet(Pieces(f, from)),
         NEW g \in [S -> Nat], g[m] = f[m] + 1, \A n \in S \ {m} : g[n] = f[n]
  PROVE  /\ IsFiniteSet(Pieces(g, from))
         /\ Cardinality(Pieces(g, from)) =
              Cardinality(Pieces(f, from)) + (IF f[m] + 1 >= from THEN 1 ELSE 0)
<1>1. <<m, f[m] + 1>> \notin Pieces(f, from)
  <2> SUFFICES ASSUME <<m, f[m] + 1>> \in Pieces(f, from) PROVE FALSE
    OBVIOUS
  <2>1. PICK n \in S : \E k \in from..f[n] : <<m, f[m] + 1>> = <<n, k>>
    BY PiecesDef
  <2>2. n = m /\ f[m] + 1 \in from..f[m]
    BY <2>1
  <2>3. QED BY <2>2
<1>2. DOMAIN f = S /\ DOMAIN g = S /\ \A n \in S : from..g[n] = IF n = m THEN from..(f[n] + 1) ELSE from..f[n]
  OBVIOUS
<1>3. ASSUME NEW q PROVE q \in Pieces(f, from) <=> \E n \in S : \E k \in from..f[n] : q = <<n, k>>
  BY <1>2, PiecesDef
<1>4. ASSUME NEW q PROVE q \in Pieces(g, from) <=> \E n \in S : \E k \in from..g[n] : q = <<n, k>>
  BY <1>2, PiecesDef
<1>5. CASE f[m] + 1 >= from
  <2>1. from..(f[m] + 1) = (from..f[m]) \cup {f[m] + 1}
    BY <1>5
  <2>2. ASSUME NEW q PROVE q \in Pieces(g, from) <=> q \in Pieces(f, from) \/ q = <<m, f[m] + 1>>
    <3>1. ASSUME NEW n \in S, NEW k \in from..g[n] PROVE k \in from..f[n] \/ (n = m /\ k = f[m] + 1)
      BY <1>2, <2>1
    <3>2. ASSUME NEW n \in S, NEW k \in from..f[n] PROVE k \in from..g[n]
      BY <1>2, <2>1
    <3>3. f[m] + 1 \in from..g[m]
      BY <1>2, <2>1
    <3>4. QED BY <1>3, <1>4, <3>1, <3>2, <3>3, Zenon
  <2>3. Pieces(g, from) = Pieces(f, from) \cup {<<m, f[m] + 1>>}
    BY <2>2, Zenon
  <2>4. /\ IsFiniteSet(Pieces(f, from) \cup {<<m, f[m] + 1>>})
        /\ Cardinality(Pieces(f, from) \cup {<<m, f[m] + 1>>}) = Cardinality(Pieces(f, from)) + 1
    BY <1>1, FS_AddElement
  <2>5. QED BY <1>5, <2>3, <2>4
<1>6. CASE ~(f[m] + 1 >= from)
  <2>1. \A n \in S : from..g[n] = from..f[n]
    BY <1>2, <1>6
  <2>2. ASSUME NEW q PROVE q \in Pieces(g, from) <=> q \in Pieces(f, from)
    BY <1>3, <1>4, <2>1, Zenon
  <2>3. Pieces(g, from) = Pieces(f, from)
    BY <2>2, Zenon
  <2>4. Cardinality(Pieces(f, from)) \in Nat
    BY FS_CardinalityType
  <2>5. QED BY <1>6, <2>3, <2>4
<1>7. QED BY <1>5, <1>6

\* Nothing of anything is no piece.
LEMMA NoPieces ==
  ASSUME NEW S, NEW from \in Nat \ {0}
  PROVE  Pieces([m \in S |-> 0], from) = {}
<1>1. \A m \in S : from..0 = {}
  OBVIOUS
<1>2. QED BY <1>1, PiecesDef

\* One element more at most.
LEMMA AtMostOneMore ==
  ASSUME NEW A, IsFiniteSet(A), NEW x, NEW B, B \subseteq A \cup {x}
  PROVE  /\ IsFiniteSet(B) /\ Cardinality(B) \in Nat /\ Cardinality(A) \in Nat
         /\ Cardinality(B) <= Cardinality(A) + 1
<1>1. /\ IsFiniteSet(A \cup {x}) /\ Cardinality(A) \in Nat
      /\ Cardinality(A \cup {x}) = IF x \in A THEN Cardinality(A) ELSE Cardinality(A) + 1
  BY FS_AddElement, FS_CardinalityType
<1>2. /\ IsFiniteSet(B) /\ Cardinality(B) <= Cardinality(A \cup {x})
      /\ Cardinality(B) \in Nat
  BY <1>1, FS_Subset, FS_CardinalityType
<1>3. QED BY <1>1, <1>2

LEMMA CountsType ==
  ASSUME TypeOK
  PROVE  crashes \in Nat /\ faults \in Nat /\ outages \in Nat
  BY BoundAssumption DEF TypeOK

LEMMA SumsType == \A a, b, c \in Nat : a + b \in Nat /\ a + b + c \in Nat
  OBVIOUS

\* p pieces and r that are about to come, within a budget: one more is covered
\* by a budget that grew.
LEMMA Paid == \A p, r, q, a, b \in Nat : p + r <= a /\ q <= r + 1 /\ b > a => p + q <= b
  OBVIOUS

LEMMA PaidAlone == \A r, q, a, b \in Nat : r <= a /\ q <= r + 1 /\ b > a => q <= b
  OBVIOUS

\* A call that fails is counted, and nothing is taken off the counts.
LEMMA CountsGrow ==
  ASSUME CoreInv, [Next]_vars
  PROVE  crashes' >= crashes /\ faults' >= faults /\ outages' >= outages
<1> USE DEF bounds
<1>1. TypeOK /\ TypeOK'
  BY StepCore DEF CoreInv
<1>2. crashes \in Nat /\ faults \in Nat /\ outages \in Nat
  BY <1>1, CountsType
<1>3. CASE \E m \in Msg : BeginEnqueue(m)
  BY <1>2, <1>3 DEF BeginEnqueue
<1>4. CASE EnqueueStep
  BY <1>2, <1>4 DEF EnqueueStep, ListPending, Measure, MeasureFails, ListProcessing, CheckSize, CreateTmp, Publish,
                    PublishFails, ReturnOK, Fault
<1>5. CASE WorkerStep
  BY <1>2, <1>5 DEF WorkerStep, Recover, StartFlush, NextPending, Claim, ReadItem, ReadItemFails, StoreBody,
                    ParseFails, StoreAttachments, StoreUnavailable, StoreFails, RemoveItem, PostStore,
                    MoveToFailed, PutBack, Fault
<1>6. CASE StorageDown \/ StorageUp \/ Crash \/ Restart \/ UNCHANGED vars
  BY <1>2, <1>6 DEF StorageDown, StorageUp, Crash, Restart, Fault, vars
<1>7. QED BY <1>3, <1>4, <1>5, <1>6 DEF Next

\* Copies: storing one that is stored already was paid for when the item was
\* left in the spool.
LEMMA StepCopyAccount ==
  ASSUME CoreInv, CopyAccount, [Next]_vars
  PROVE  CopyAccount'
<1>0. CoreInv /\ CoreInv'
  BY StepCore
<1>1. /\ copies \in [Msg -> Nat] /\ crashes \in Nat /\ faults \in Nat /\ crashes' \in Nat /\ faults' \in Nat
      /\ crashes' >= crashes /\ faults' >= faults
  BY <1>0, CountsType, CountsGrow DEF CoreInv, TypeOK
<1>2. Cardinality(Pieces(copies, 2)) \in Nat /\ Cardinality(Repeats) \in Nat
  BY FS_CardinalityType DEF CopyAccount
<1>3. CASE StoreAttachments
  <2>1. /\ cur \in Queued /\ cur \in Msg /\ wpc' = "remove" /\ cur' = cur /\ wpc = "attach"
        /\ copies' = [copies EXCEPT ![cur] = @ + 1] /\ Queued' = Queued /\ Queued \subseteq Msg
        /\ crashes' = crashes /\ faults' = faults
    BY <1>0, <1>3 DEF StoreAttachments, CoreInv, TypeOK, WorkerInv, Busy, Queued, dirs, bounds
  <2>2. Repeats' = Repeats \ {cur} /\ (cur \in Repeats <=> copies[cur] > 0)
    BY <1>1, <2>1 DEF Repeats
  <2>3. /\ IsFiniteSet(Repeats')
        /\ Cardinality(Repeats') = Cardinality(Repeats) - (IF copies[cur] > 0 THEN 1 ELSE 0)
    BY <1>2, <2>2, FS_RemoveElement DEF CopyAccount
  <2>4. /\ IsFiniteSet(Pieces(copies', 2))
        /\ Cardinality(Pieces(copies', 2)) = Cardinality(Pieces(copies, 2)) + (IF copies[cur] + 1 >= 2 THEN 1 ELSE 0)
    <3>1. IsFiniteSet(Pieces(copies, 2))
      BY DEF CopyAccount
    <3>2. copies' \in [Msg -> Nat] /\ copies'[cur] = copies[cur] + 1 /\ \A n \in Msg \ {cur} : copies'[n] = copies[n]
      BY <1>1, <2>1
    <3>3. 2 \in Nat \ {0}
      OBVIOUS
    <3>4. copies \in [Msg -> Nat] /\ cur \in Msg
      BY <1>1, <2>1
    <3>5. PICK g : g = copies'
      OBVIOUS
    <3>6. g \in [Msg -> Nat] /\ g[cur] = copies[cur] + 1 /\ \A n \in Msg \ {cur} : g[n] = copies[n]
      BY <3>2, <3>5
    <3>7. /\ IsFiniteSet(Pieces(g, 2))
          /\ Cardinality(Pieces(g, 2)) = Cardinality(Pieces(copies, 2)) + (IF copies[cur] + 1 >= 2 THEN 1 ELSE 0)
      BY <3>1, <3>3, <3>4, <3>6, OneMore
    <3>8. QED BY <3>5, <3>7
  <2>5. copies[cur] > 0 <=> copies[cur] + 1 >= 2
    BY <1>1, <2>1
  <2>6. QED BY <1>1, <1>2, <2>1, <2>3, <2>4, <2>5 DEF CopyAccount
<1>4. CASE UNCHANGED copies /\ crashes' + faults' > crashes + faults /\ \E x : Repeats' \subseteq Repeats \cup {x}
  <2>1. PICK x : Repeats' \subseteq Repeats \cup {x}
    BY <1>4
  <2>2. /\ IsFiniteSet(Repeats') /\ Cardinality(Repeats') \in Nat
        /\ Cardinality(Repeats') <= Cardinality(Repeats) + 1
    BY <2>1, AtMostOneMore DEF CopyAccount
  <2>3. Pieces(copies, 2)' = Pieces(copies, 2)
    BY <1>4
  <2>4. Cardinality(Pieces(copies, 2)) + Cardinality(Repeats) <= crashes + faults
    BY DEF CopyAccount
  <2>5. Cardinality(Pieces(copies, 2)) + Cardinality(Repeats') <= crashes' + faults'
    BY <1>1, <1>2, <1>4, <2>2, <2>4, Paid, SumsType, Zenon
  <2>6. QED BY <2>2, <2>3, <2>5 DEF CopyAccount
<1>5. CASE UNCHANGED copies /\ Repeats' \subseteq Repeats
  <2>1. IsFiniteSet(Repeats') /\ Cardinality(Repeats') <= Cardinality(Repeats) /\ Cardinality(Repeats') \in Nat
    BY <1>5, FS_Subset, FS_CardinalityType DEF CopyAccount
  <2>2. QED BY <1>1, <1>2, <1>5, <2>1 DEF CopyAccount
<1>6. CASE RemoveItem
  <2>1. UNCHANGED copies /\ wpc = "remove" /\ wpc' = "post" /\ cur' = cur /\ cur \notin pending
    BY <1>0, <1>6 DEF RemoveItem, files, CoreInv, OncePerItem, WorkerInv, Busy
  <2>2. CASE processing' = processing \ {cur}
    BY <1>5, <1>6, <2>1, <2>2 DEF RemoveItem, Repeats, Queued
  <2>3. CASE Fault /\ UNCHANGED processing
    <3>1. Repeats' \subseteq Repeats \cup {cur}
      BY <1>6, <2>1, <2>3 DEF RemoveItem, Repeats, Queued
    <3>2. crashes' + faults' > crashes + faults
      BY <1>1, <1>6, <2>3 DEF RemoveItem, Fault
    <3>3. QED BY <1>4, <2>1, <3>1, <3>2
  <2>4. QED BY <1>6, <2>2, <2>3 DEF RemoveItem
<1>7. CASE Crash
  <2>1. Repeats' \subseteq Repeats \cup {cur} /\ UNCHANGED copies
    BY <1>7 DEF Crash, Repeats, Queued, dirs
  <2>2. crashes' + faults' > crashes + faults
    BY <1>1, <1>7 DEF Crash
  <2>3. QED BY <1>4, <2>1, <2>2
<1>8. CASE ~StoreAttachments /\ ~RemoveItem /\ ~Crash
  <2> USE DEF Repeats, Queued, CoreInv, TypeOK, WorkerInv, SessionInv, Safe, InSpool, Busy, Ashore, dirs, enq, worker, files
  <2>1. CASE \E m \in Msg : BeginEnqueue(m)
    BY <1>0, <1>5, <2>1 DEF BeginEnqueue
  <2>2. CASE EnqueueStep
    BY <1>0, <1>1, <1>5, <2>2, NoneAssumption
    DEF EnqueueStep, ListPending, Measure, MeasureFails, ListProcessing, CheckSize, CreateTmp, Publish, PublishFails, ReturnOK
  <2>3. CASE Recover
    BY <1>0, <1>5, <2>3, OldestIn DEF Recover
  <2>4. CASE StartFlush \/ NextPending \/ ReadItem \/ StoreBody \/ PostStore
    BY <1>0, <1>5, <2>4 DEF StartFlush, NextPending, ReadItem, StoreBody, PostStore, Done
  <2>5. CASE Claim
    BY <1>0, <1>5, <2>5 DEF Claim, Done
  <2>6. CASE ReadItemFails \/ ParseFails \/ StoreFails
    BY <1>0, <1>5, <2>6 DEF ReadItemFails, ParseFails, StoreFails, MoveToFailed, Done
  <2>7. CASE StoreUnavailable
    BY <1>0, <1>5, <2>7 DEF StoreUnavailable, PutBack, Done
  <2>8. CASE StorageDown \/ StorageUp \/ Restart \/ UNCHANGED vars
    BY <1>0, <1>5, <2>8 DEF StorageDown, StorageUp, Restart, vars
  <2>9. QED BY <1>8, <2>1, <2>2, <2>3, <2>4, <2>5, <2>6, <2>7, <2>8 DEF Next, WorkerStep
<1>9. QED BY <1>3, <1>6, <1>7, <1>8

\* Partial sets of files: an outage pays for the ProcessAndStore it hits.
LEMMA StepPartialAccount ==
  ASSUME CoreInv, PartialAccount, [Next]_vars
  PROVE  PartialAccount'
<1>0. CoreInv /\ CoreInv'
  BY StepCore
<1>1. /\ partials \in [Msg -> Nat] /\ crashes \in Nat /\ faults \in Nat /\ outages \in Nat
      /\ crashes' \in Nat /\ faults' \in Nat /\ outages' \in Nat
      /\ crashes' >= crashes /\ faults' >= faults /\ outages' >= outages
  BY <1>0, CountsType, CountsGrow DEF CoreInv, TypeOK
<1>2. /\ IsFiniteSet(Pieces(partials, 1)) /\ Cardinality(Pieces(partials, 1)) \in Nat
      /\ Cardinality(Pieces(partials, 1)) + Doomed <= crashes + faults + outages
  BY FS_CardinalityType DEF PartialAccount
<1>3. CASE UNCHANGED partials /\ Doomed' <= Doomed
  <2>1. Pieces(partials, 1)' = Pieces(partials, 1)
    BY <1>3
  <2>2. Doomed \in {0, 1} /\ Doomed' \in {0, 1}
    BY DEF Doomed
  <2>3. Cardinality(Pieces(partials, 1)) + Doomed' <= crashes' + faults' + outages'
    BY <1>1, <1>2, <1>3, <2>2
  <2>4. QED BY <1>2, <2>1, <2>3 DEF PartialAccount
<1>4. CASE StorageDown
  <2>1. UNCHANGED partials /\ crashes' = crashes /\ faults' = faults /\ outages' = outages + 1 /\ Doomed = 0
    BY <1>4 DEF StorageDown, Doomed, files
  <2>2. Doomed' \in {0, 1} /\ Pieces(partials, 1)' = Pieces(partials, 1)
    BY <2>1 DEF Doomed
  <2>3. Cardinality(Pieces(partials, 1)) + Doomed' <= crashes' + faults' + outages'
    BY <1>1, <1>2, <2>1, <2>2
  <2>4. QED BY <1>2, <2>2, <2>3 DEF PartialAccount
<1>5. ASSUME Abandon, wpc = "attach", wpc' # "attach",
             crashes' + faults' + outages' + Doomed >= crashes + faults + outages + 1
      PROVE  PartialAccount'
  <2>1. cur \in Msg
    BY <1>0, <1>5 DEF CoreInv, TypeOK, WorkerInv, Busy
  <2>2. PICK g : g = partials'
    OBVIOUS
  <2>3. /\ g \in [Msg -> Nat] /\ g[cur] = partials[cur] + 1
        /\ \A n \in Msg \ {cur} : g[n] = partials[n]
    BY <1>1, <1>5, <2>1, <2>2 DEF Abandon
  <2>4. IsFiniteSet(Pieces(g, 1)) /\ Cardinality(Pieces(g, 1)) = Cardinality(Pieces(partials, 1)) + 1
    BY <1>1, <1>2, <2>1, <2>3, OneMore
  <2>5. Doomed' = 0 /\ Doomed \in {0, 1}
    BY <1>5 DEF Doomed
  <2>6. Cardinality(Pieces(g, 1)) + 0 <= crashes' + faults' + outages'
    <3>1. \A p, d, a, x \in Nat : p + d <= a /\ x + d >= a + 1 => p + 1 + 0 <= x
      OBVIOUS
    <3>2. Cardinality(Pieces(partials, 1)) + 1 + 0 <= crashes' + faults' + outages'
      <4>1. /\ Cardinality(Pieces(partials, 1)) + Doomed <= crashes + faults + outages
            /\ crashes' + faults' + outages' + Doomed >= crashes + faults + outages + 1
        BY <1>2, <1>5
      <4>2. crashes + faults + outages \in Nat /\ crashes' + faults' + outages' \in Nat
        BY <1>1, SumsType, Zenon
      <4>3. Doomed \in Nat
        BY <2>5
      <4>4. QED BY <1>2, <3>1, <4>1, <4>2, <4>3, Zenon
    <3>3. QED BY <2>4, <3>2
  <2>7. Pieces(partials, 1)' = Pieces(g, 1)
    BY <2>2
  <2>8. QED BY <2>4, <2>5, <2>6, <2>7 DEF PartialAccount
<1>6. CASE StoreUnavailable \/ StoreFails \/ Crash
  <2>1. CASE wpc = "attach"
    <3>1. Abandon /\ wpc' # "attach"
      BY <1>6, <2>1 DEF StoreUnavailable, StoreFails, Crash, MoveToFailed, PutBack, Done
    <3>2. CASE StoreUnavailable
      <4>1. Doomed = 1
        BY <2>1, <3>2 DEF StoreUnavailable, Doomed
      <4>2. crashes' + faults' + outages' + Doomed >= crashes + faults + outages + 1
        <5>1. \A a, b, c, x, y, z \in Nat : x >= a /\ y >= b /\ z >= c => x + y + z + 1 >= a + b + c + 1
          OBVIOUS
        <5>2. QED BY <1>1, <4>1, <5>1, Zenon
      <4>3. QED BY <1>5, <2>1, <3>1, <4>2
    <3>3. CASE StoreFails \/ Crash
      <4>1. faults' >= faults + 1 \/ crashes' >= crashes + 1
        BY <1>1, <3>3 DEF StoreFails, MoveToFailed, Crash
      <4>2. Doomed \in Nat
        BY DEF Doomed
      <4>3. crashes' + faults' + outages' + Doomed >= crashes + faults + outages + 1
        <5>1. \A a, b, c, x, y, z, d \in Nat :
                x >= a /\ y >= b /\ z >= c /\ (y >= b + 1 \/ x >= a + 1) => x + y + z + d >= a + b + c + 1
          OBVIOUS
        <5>2. QED BY <1>1, <4>1, <4>2, <5>1, Zenon
      <4>4. QED BY <1>5, <2>1, <3>1, <4>3
    <3>4. QED BY <1>6, <3>2, <3>3
  <2>2. CASE wpc # "attach"
    <3>1. UNCHANGED partials /\ wpc' # "attach"
      BY <1>6, <2>2 DEF StoreUnavailable, StoreFails, Crash, Abandon, MoveToFailed, PutBack, Done
    <3>2. QED BY <1>3, <3>1 DEF Doomed
  <2>3. QED BY <2>1, <2>2
<1>7. CASE \E m \in Msg : BeginEnqueue(m)
  BY <1>3, <1>7 DEF BeginEnqueue, worker, files, Doomed
<1>8. CASE EnqueueStep
  BY <1>3, <1>8
  DEF EnqueueStep, ListPending, Measure, MeasureFails, ListProcessing, CheckSize, CreateTmp, Publish, PublishFails,
      ReturnOK, worker, files, Doomed
<1>9. CASE WorkerStep /\ ~StoreUnavailable /\ ~StoreFails
  BY <1>3, <1>9
  DEF WorkerStep, Recover, StartFlush, NextPending, Claim, ReadItem, ReadItemFails, StoreBody, ParseFails,
      StoreAttachments, RemoveItem, PostStore, MoveToFailed, Done, files, Doomed
<1>10. CASE StorageUp \/ Restart \/ UNCHANGED vars
  BY <1>3, <1>10 DEF StorageUp, Restart, vars, worker, files, Doomed
<1>11. QED BY <1>4, <1>6, <1>7, <1>8, <1>9, <1>10 DEF Next

\* Temporary files: the session that writes one has q.mu, and the name is new.
LEMMA StepTmpAccount ==
  ASSUME CoreInv, TmpAccount, [Next]_vars
  PROVE  TmpAccount'
<1>0. CoreInv /\ CoreInv'
  BY StepCore
<1>1. /\ tmp \subseteq Msg /\ crashes \in Nat /\ faults \in Nat /\ crashes' \in Nat /\ faults' \in Nat
      /\ crashes' >= crashes /\ faults' >= faults
  BY <1>0, CountsType, CountsGrow DEF CoreInv, TypeOK
<1>2. IsFiniteSet(tmp \ {mu}) /\ Cardinality(tmp \ {mu}) \in Nat /\ Cardinality(tmp \ {mu}) <= crashes + faults
  BY FS_CardinalityType DEF TmpAccount
<1>3. ASSUME tmp' \ {mu'} = tmp \ {mu}
      PROVE  IsFiniteSet(tmp' \ {mu'}) /\ Cardinality(tmp' \ {mu'}) <= crashes' + faults'
  BY <1>1, <1>2, <1>3
<1>4. ASSUME tmp' \ {mu'} \subseteq (tmp \ {mu}) \cup {mu}, crashes' + faults' > crashes + faults
      PROVE  IsFiniteSet(tmp' \ {mu'}) /\ Cardinality(tmp' \ {mu'}) <= crashes' + faults'
  <2>1. /\ IsFiniteSet(tmp' \ {mu'}) /\ Cardinality(tmp' \ {mu'}) \in Nat
        /\ Cardinality(tmp' \ {mu'}) <= Cardinality(tmp \ {mu}) + 1
    BY <1>2, <1>4, AtMostOneMore
  <2>2. Cardinality(tmp' \ {mu'}) <= crashes' + faults'
    BY <1>1, <1>2, <1>4, <2>1, PaidAlone, SumsType, Zenon
  <2>3. QED BY <2>1, <2>2
<1>5. CASE \E m \in Msg : BeginEnqueue(m)
  BY <1>0, <1>1, <1>3, <1>5, NoneAssumption DEF BeginEnqueue, TmpAccount, CoreInv, TypeOK, SessionInv, dirs
<1>6. CASE EnqueueStep /\ ~CreateTmp /\ ~PublishFails
  BY <1>0, <1>1, <1>3, <1>6, NoneAssumption
  DEF EnqueueStep, ListPending, Measure, MeasureFails, Refuse, ListProcessing, CheckSize, Publish, ReturnOK,
      TmpAccount, CoreInv, TypeOK, SessionInv, dirs, enq
<1>7. CASE CreateTmp
  BY <1>0, <1>1, <1>3, <1>7, NoneAssumption DEF CreateTmp, Refuse, TmpAccount, CoreInv, TypeOK, SessionInv
<1>8. CASE PublishFails
  <2>1. crashes' + faults' > crashes + faults /\ tmp' \ {mu'} \subseteq (tmp \ {mu}) \cup {mu}
    BY <1>1, <1>8 DEF PublishFails, Fault
  <2>2. QED BY <1>0, <1>4, <1>8, <2>1, NoneAssumption
            DEF PublishFails, Refuse, TmpAccount, CoreInv, TypeOK, SessionInv
<1>9. CASE Crash
  <2>1. crashes' + faults' > crashes + faults /\ tmp' \ {mu'} \subseteq (tmp \ {mu}) \cup {mu}
    BY <1>1, <1>9 DEF Crash, dirs
  <2>2. QED BY <1>0, <1>4, <1>9, <2>1 DEF Crash, TmpAccount, CoreInv, TypeOK, dirs
<1>10. CASE WorkerStep
  <2>1. UNCHANGED <<tmp, mu, epc, reply>>
    BY <1>10
    DEF WorkerStep, Recover, StartFlush, NextPending, Claim, ReadItem, ReadItemFails, StoreBody, ParseFails,
        StoreAttachments, StoreUnavailable, StoreFails, RemoveItem, PostStore, MoveToFailed, PutBack, dirs, enq
  <2>2. QED BY <1>3, <2>1 DEF TmpAccount
<1>11. CASE StorageDown \/ StorageUp \/ Restart \/ UNCHANGED vars
  <2>1. UNCHANGED <<tmp, mu, epc, reply>>
    BY <1>11 DEF StorageDown, StorageUp, Restart, vars, dirs, enq
  <2>2. QED BY <1>3, <2>1 DEF TmpAccount
<1>12. QED BY <1>5, <1>6, <1>7, <1>8, <1>9, <1>10, <1>11 DEF Next

\* The quarantine: an item comes by its content or by an error of its own.
LEMMA StepFailedAccount ==
  ASSUME CoreInv, FailedAccount, [Next]_vars
  PROVE  FailedAccount'
<1>0. CoreInv /\ CoreInv'
  BY StepCore
<1>1. faults \in Nat /\ faults' \in Nat /\ faults' >= faults
  BY <1>0, CountsType, CountsGrow DEF CoreInv, TypeOK
<1>2. /\ IsFiniteSet(failed \ Unparsable) /\ Cardinality(failed \ Unparsable) \in Nat
      /\ Cardinality(failed \ Unparsable) <= faults
  BY FS_CardinalityType DEF FailedAccount
<1>3. ASSUME failed' \ Unparsable = failed \ Unparsable PROVE FailedAccount'
  BY <1>1, <1>2, <1>3 DEF FailedAccount
<1>4. CASE ReadItemFails \/ StoreFails
  <2>1. failed' \ Unparsable \subseteq (failed \ Unparsable) \cup {cur} /\ faults' >= faults + 1
    BY <1>1, <1>4 DEF ReadItemFails, StoreFails, MoveToFailed
  <2>2. /\ IsFiniteSet(failed' \ Unparsable) /\ Cardinality(failed' \ Unparsable) \in Nat
        /\ Cardinality(failed' \ Unparsable) <= Cardinality(failed \ Unparsable) + 1
    BY <1>2, <2>1, AtMostOneMore
  <2>3. QED BY <1>1, <1>2, <2>1, <2>2 DEF FailedAccount
<1>5. CASE ParseFails
  BY <1>3, <1>5 DEF ParseFails, MoveToFailed
<1>6. CASE WorkerStep /\ ~ReadItemFails /\ ~StoreFails /\ ~ParseFails
  BY <1>3, <1>6
  DEF WorkerStep, Recover, StartFlush, NextPending, Claim, ReadItem, StoreBody, StoreAttachments,
      StoreUnavailable, RemoveItem, PostStore, PutBack, dirs
<1>7. CASE EnqueueStep
  BY <1>3, <1>7
  DEF EnqueueStep, ListPending, Measure, MeasureFails, ListProcessing, CheckSize, CreateTmp, Publish, PublishFails, ReturnOK, dirs
<1>8. CASE (\E m \in Msg : BeginEnqueue(m)) \/ StorageDown \/ StorageUp \/ Crash \/ Restart \/ UNCHANGED vars
  BY <1>3, <1>8 DEF BeginEnqueue, StorageDown, StorageUp, Crash, Restart, vars, dirs
<1>9. QED BY <1>4, <1>5, <1>6, <1>7, <1>8 DEF Next

Accounts == CopyAccount /\ PartialAccount /\ TmpAccount /\ FailedAccount

LEMMA InitAccounts == Init => Accounts
<1> SUFFICES ASSUME Init PROVE Accounts
  OBVIOUS
<1>1. Pieces(copies, 2) = {} /\ Pieces(partials, 1) = {}
  BY NoPieces DEF Init
<1>2. Repeats = {} /\ Doomed = 0
  BY DEF Init, Repeats, Queued, Doomed
<1>3. tmp \ {mu} = {} /\ failed \ Unparsable = {} /\ mu = None /\ tmp = {}
  BY DEF Init
<1>4. crashes = 0 /\ faults = 0 /\ outages = 0
  BY DEF Init
<1>5. IsFiniteSet({}) /\ Cardinality({}) = 0
  BY FS_EmptySet
<1>6. QED BY <1>1, <1>2, <1>3, <1>4, <1>5
          DEF Accounts, CopyAccount, PartialAccount, TmpAccount, FailedAccount

\* Every copy too many, every partial set of files, every file left in tmp/ and
\* every message in failed/ that could be parsed is paid for by a crash, an
\* outage or a failed call of its own (processOne, Enqueue, moveToFailed).
THEOREM DebrisBudgetHolds == Spec => []DebrisBudget
<1>1. IInv /\ Accounts /\ [Next]_vars => Accounts'
  BY StepCopyAccount, StepPartialAccount, StepTmpAccount, StepFailedAccount DEF IInv, Accounts
<1>2. IInv /\ Accounts => DebrisBudget
  <2> SUFFICES ASSUME IInv, Accounts PROVE DebrisBudget
    OBVIOUS
  <2>1. /\ Cardinality(Pieces(copies, 2)) \in Nat /\ Cardinality(Repeats) \in Nat
        /\ Cardinality(Pieces(partials, 1)) \in Nat
    BY FS_CardinalityType DEF Accounts, CopyAccount, PartialAccount
  <2>2. crashes \in Nat /\ faults \in Nat /\ outages \in Nat
    BY CountsType DEF IInv, CoreInv
  <2>3. Cardinality(Pieces(copies, 2)) + Cardinality(Repeats) <= crashes + faults
    BY DEF Accounts, CopyAccount
  <2>4. Cardinality(Pieces(partials, 1)) + Doomed <= crashes + faults + outages /\ Doomed \in {0, 1}
    BY DEF Accounts, PartialAccount, Doomed
  <2>5. Cardinality(Pieces(copies, 2)) <= crashes + faults
    BY <2>1, <2>2, <2>3
  <2>6. Cardinality(Pieces(partials, 1)) <= crashes + faults + outages
    BY <2>1, <2>2, <2>4
  <2>7. QED BY <2>5, <2>6 DEF Accounts, TmpAccount, FailedAccount, DebrisBudget
<1>3. QED BY Invariance, InitAccounts, <1>1, <1>2, PTL DEF Spec

-----------------------------------------------------------------------------
(* Which copies postStore is not called for.                                 *)

Ungiven == Pieces(copies, 1) \ Pieces(posted, 1)
AtHand == IF wpc \in {"remove", "post"} THEN 1 ELSE 0

GivenInv == IsFiniteSet(Ungiven) /\ Cardinality(Ungiven) <= crashes + AtHand

\* What f counts beyond g.
LEMMA LeftOver ==
  ASSUME NEW f \in [Msg -> Nat], NEW g \in [Msg -> Nat]
  PROVE  \A p : p \in Pieces(f, 1) \ Pieces(g, 1) <=>
           \E m \in Msg, k \in Nat : p = <<m, k>> /\ g[m] < k /\ 0 < k /\ k <= f[m]
<1>1. ASSUME NEW p PROVE p \in Pieces(f, 1) <=> \E m \in Msg : \E k \in 1..f[m] : p = <<m, k>>
  BY PiecesDef
<1>2. ASSUME NEW p PROVE p \in Pieces(g, 1) <=> \E m \in Msg : \E k \in 1..g[m] : p = <<m, k>>
  BY PiecesDef
<1>3. ASSUME NEW p \in Pieces(f, 1) \ Pieces(g, 1)
      PROVE  \E m \in Msg, k \in Nat : p = <<m, k>> /\ g[m] < k /\ 0 < k /\ k <= f[m]
  <2>1. PICK m \in Msg : \E k \in 1..f[m] : p = <<m, k>>
    BY <1>1, <1>3
  <2>2. PICK k \in 1..f[m] : p = <<m, k>>
    BY <2>1
  <2>3. k \notin 1..g[m]
    BY <1>2, <1>3, <2>2
  <2>4. k \in Nat /\ g[m] < k /\ 0 < k /\ k <= f[m]
    BY <2>2, <2>3
  <2>5. QED BY <2>2, <2>4
<1>4. ASSUME NEW p, NEW m \in Msg, NEW k \in Nat, p = <<m, k>>, g[m] < k, 0 < k, k <= f[m]
      PROVE  p \in Pieces(f, 1) \ Pieces(g, 1)
  <2>1. k \in 1..f[m] /\ k \notin 1..g[m]
    BY <1>4
  <2>2. \A n \in Msg : \A j \in 1..g[n] : <<n, j>> # p
    BY <1>4, <2>1
  <2>3. QED BY <1>1, <1>2, <1>4, <2>1, <2>2
<1>5. QED BY <1>3, <1>4

LEMMA StepGiven ==
  ASSUME CoreInv, PostInv, GivenInv, [Next]_vars
  PROVE  GivenInv'
<1>0. CoreInv /\ CoreInv'
  BY StepCore
<1>1. /\ copies \in [Msg -> Nat] /\ posted \in [Msg -> Nat] /\ crashes \in Nat /\ crashes' \in Nat
      /\ copies' \in [Msg -> Nat] /\ posted' \in [Msg -> Nat]
      /\ crashes' >= crashes /\ Cardinality(Ungiven) \in Nat /\ IsFiniteSet(Ungiven)
      /\ Cardinality(Ungiven) <= crashes + AtHand
  BY <1>0, CountsType, CountsGrow, FS_CardinalityType DEF CoreInv, TypeOK, GivenInv
<1>2. CASE StoreAttachments
  <2>1. /\ cur \in Msg /\ copies' = [copies EXCEPT ![cur] = @ + 1] /\ posted' = posted /\ crashes' = crashes
        /\ AtHand = 0 /\ AtHand' = 1
    BY <1>0, <1>2 DEF StoreAttachments, CoreInv, TypeOK, WorkerInv, Busy, bounds, AtHand
  <2>2. ASSUME NEW p \in Ungiven', p # <<cur, copies[cur] + 1>> PROVE p \in Ungiven
    <3>0. p \in Pieces(copies', 1) \ Pieces(posted', 1)
      BY <2>2 DEF Ungiven
    <3>1. PICK m \in Msg, k \in Nat : p = <<m, k>> /\ posted'[m] < k /\ 0 < k /\ k <= copies'[m]
      BY <1>1, <3>0, LeftOver
    <3>2. k <= copies[m]
      BY <1>1, <2>1, <2>2, <3>1
    <3>3. QED BY <1>1, <2>1, <3>1, <3>2, LeftOver DEF Ungiven
  <2>3. Ungiven' \subseteq Ungiven \cup {<<cur, copies[cur] + 1>>}
    BY <2>2
  <2>4. IsFiniteSet(Ungiven') /\ Cardinality(Ungiven') \in Nat /\ Cardinality(Ungiven') <= Cardinality(Ungiven) + 1
    BY <1>1, <2>3, AtMostOneMore
  <2>5. QED BY <1>1, <2>1, <2>4 DEF GivenInv
<1>3. CASE PostStore
  <2>1. /\ cur \in Msg /\ posted[cur] < copies[cur] /\ posted' = [posted EXCEPT ![cur] = @ + 1]
        /\ copies' = copies /\ crashes' = crashes /\ AtHand = 1 /\ AtHand' = 0
    BY <1>0, <1>3 DEF PostStore, Done, CoreInv, TypeOK, WorkerInv, Busy, PostInv, files, bounds, AtHand
  <2>2. <<cur, posted[cur] + 1>> \in Ungiven
    BY <1>1, <2>1, LeftOver DEF Ungiven
  <2>3. ASSUME NEW p \in Ungiven' PROVE p \in Ungiven \ {<<cur, posted[cur] + 1>>}
    <3>0. p \in Pieces(copies', 1) \ Pieces(posted', 1)
      BY <2>3 DEF Ungiven
    <3>1. PICK m \in Msg, k \in Nat : p = <<m, k>> /\ posted'[m] < k /\ 0 < k /\ k <= copies'[m]
      BY <1>1, <3>0, LeftOver
    <3>2. posted[m] < k /\ <<m, k>> # <<cur, posted[cur] + 1>>
      BY <1>1, <2>1, <3>1
    <3>3. QED BY <1>1, <2>1, <3>1, <3>2, LeftOver DEF Ungiven
  <2>4. /\ IsFiniteSet(Ungiven \ {<<cur, posted[cur] + 1>>})
        /\ Cardinality(Ungiven \ {<<cur, posted[cur] + 1>>}) = Cardinality(Ungiven) - 1
    BY <1>1, <2>2, FS_RemoveElement
  <2>5. Ungiven' \subseteq Ungiven \ {<<cur, posted[cur] + 1>>}
    BY <2>3
  <2>6. IsFiniteSet(Ungiven') /\ Cardinality(Ungiven') \in Nat /\ Cardinality(Ungiven') <= Cardinality(Ungiven) - 1
    BY <2>4, <2>5, FS_Subset, FS_CardinalityType
  <2>7. QED BY <1>1, <2>1, <2>6 DEF GivenInv
<1>4. CASE UNCHANGED <<copies, posted>> /\ crashes' + AtHand' >= crashes + AtHand
  <2>1. Ungiven' = Ungiven
    BY <1>4 DEF Ungiven
  <2>2. crashes + AtHand \in Nat /\ crashes' + AtHand' \in Nat
    <3>1. AtHand \in Nat /\ AtHand' \in Nat
      BY DEF AtHand
    <3>2. QED BY <1>1, <3>1, SumsType
  <2>3. \A n, a, b \in Nat : n <= a /\ b >= a => n <= b
    OBVIOUS
  <2>4. Cardinality(Ungiven) <= crashes' + AtHand'
    BY <1>1, <1>4, <2>2, <2>3, Zenon
  <2>5. QED BY <1>1, <2>1, <2>4 DEF GivenInv
<1>5. CASE Crash
  <2>1. UNCHANGED <<copies, posted>> /\ crashes' = crashes + 1
    BY <1>5 DEF Crash, files
  <2>2. crashes' + AtHand' >= crashes + AtHand
    BY <1>1, <2>1 DEF AtHand
  <2>3. QED BY <1>4, <2>1, <2>2
<1>6. CASE (\E m \in Msg : BeginEnqueue(m)) \/ EnqueueStep \/ StorageDown \/ StorageUp \/ Restart \/ UNCHANGED vars
  <2>1. UNCHANGED <<copies, posted, crashes>> /\ AtHand' = AtHand
    BY <1>6 DEF BeginEnqueue, EnqueueStep, ListPending, Measure, MeasureFails, ListProcessing, CheckSize, CreateTmp, Publish,
                PublishFails, ReturnOK, StorageDown, StorageUp, Restart, vars, files, worker, bounds, AtHand
  <2>2. crashes' + AtHand' >= crashes + AtHand
    BY <1>1, <2>1 DEF AtHand
  <2>3. QED BY <1>4, <2>1, <2>2
<1>7. CASE WorkerStep /\ ~StoreAttachments /\ ~PostStore
  <2>1. UNCHANGED <<copies, posted, crashes>> /\ AtHand' = AtHand
    BY <1>7 DEF WorkerStep, Recover, StartFlush, NextPending, Claim, ReadItem, ReadItemFails, StoreBody,
                ParseFails, StoreUnavailable, StoreFails, RemoveItem, MoveToFailed, PutBack, Abandon, Done,
                files, bounds, AtHand
  <2>2. crashes' + AtHand' >= crashes + AtHand
    BY <1>1, <2>1 DEF AtHand
  <2>3. QED BY <1>4, <2>1, <2>2
<1>8. QED BY <1>2, <1>3, <1>5, <1>6, <1>7 DEF Next

\* A complete copy is not given to classification and index only when a crash
\* comes between its last file and its postStore, one copy for each crash; a
\* failed removal, which is only logged, takes nothing from them (processOne).
THEOREM EachCopyIsGivenHolds == Spec => []EachCopyIsGiven
<1>1. IInv /\ GivenInv /\ [Next]_vars => GivenInv'
  BY StepGiven DEF IInv
<1>2. Init => GivenInv
  <2> SUFFICES ASSUME Init PROVE GivenInv
    OBVIOUS
  <2>1. Pieces(copies, 1) = {} /\ crashes = 0 /\ AtHand = 0
    BY NoPieces DEF Init, AtHand
  <2>2. QED BY <2>1, FS_EmptySet DEF GivenInv, Ungiven
<1>3. GivenInv => EachCopyIsGiven
  BY DEF GivenInv, EachCopyIsGiven, Ungiven, AtHand
<1>4. QED BY Invariance, <1>1, <1>2, <1>3, PTL DEF Spec

-----------------------------------------------------------------------------
(* What max_bytes bounds.  Enqueue counts what it meets while the worker      *)
(* renames, and nothing is published meanwhile: q.mu is held.                 *)

Weight(S) == Pieces([m \in S |-> FileSize(m)], 1)

\* While the spool is measured, one item at most is neither counted nor still
\* listed: the one that was in processing when pending was listed.  When the new
\* message is let in, there was room for it next to all the others.
RoomInv ==
  /\ IsFiniteSet(Weight(Queued))
  /\ MaxBytes > 0 /\ faults = 0 =>
       /\ epc \in {"pending", "processing"} =>
            \E x \in Msg : Bytes(Queued \ (walk \cup {x})) <= total
       /\ epc \in {"create", "write"} =>
            \E x \in Msg : Bytes(Queued \ {x}) + Size[mu] <= MaxBytes

LEMMA WeightDef ==
  ASSUME NEW S, NEW p
  PROVE  p \in Weight(S) <=> \E m \in S : \E k \in 1..FileSize(m) : p = <<m, k>>
<1>1. /\ DOMAIN [m \in S |-> FileSize(m)] = S
      /\ \A n \in S : [m \in S |-> FileSize(m)][n] = FileSize(n)
  OBVIOUS
<1>2. p \in Weight(S) <=> \E n \in S : \E k \in 1..([m \in S |-> FileSize(m)][n]) : p = <<n, k>>
  BY <1>1, PiecesDef DEF Weight
<1>3. QED BY <1>1, <1>2, Zenon

LEMMA NothingWeighsNothing == Weight({}) = {}
<1> SUFFICES ASSUME NEW p \in Weight({}) PROVE FALSE
  OBVIOUS
<1>1. \E m \in {} : \E k \in 1..FileSize(m) : p = <<m, k>>
  BY WeightDef
<1>2. QED BY <1>1

\* Fewer items have fewer bytes.
LEMMA FewerBytes ==
  ASSUME NEW S, IsFiniteSet(Weight(S)), NEW T, T \subseteq S
  PROVE  /\ IsFiniteSet(Weight(T))
         /\ Bytes(S) \in Nat /\ Bytes(T) \in Nat /\ Bytes(T) <= Bytes(S)
<1>1. Weight(T) \subseteq Weight(S)
  <2> SUFFICES ASSUME NEW p \in Weight(T) PROVE p \in Weight(S)
    OBVIOUS
  <2>1. \E m \in S : \E k \in 1..FileSize(m) : p = <<m, k>>
    BY WeightDef
  <2>2. QED BY <2>1, WeightDef
<1>2. /\ IsFiniteSet(Weight(T)) /\ Cardinality(Weight(T)) <= Cardinality(Weight(S))
      /\ Cardinality(Weight(S)) \in Nat /\ Cardinality(Weight(T)) \in Nat
  BY <1>1, FS_Subset, FS_CardinalityType
<1>3. QED BY <1>2 DEF Bytes, Weight

\* One item more has its bytes more.
LEMMA MoreBytes ==
  ASSUME NEW S, IsFiniteSet(Weight(S)), NEW m \in Msg, NEW T, T \subseteq S \cup {m}
  PROVE  /\ IsFiniteSet(Weight(T))
         /\ Bytes(S) \in Nat /\ Bytes(T) \in Nat /\ Bytes(T) <= Bytes(S) + FileSize(m)
<1>1. FileSize(m) \in Nat
  BY FileSizeType
<1>2. IsFiniteSet({m} \X (1..FileSize(m))) /\ Cardinality({m} \X (1..FileSize(m))) = FileSize(m)
  <2>1. IsFiniteSet({m}) /\ Cardinality({m}) = 1
    BY FS_Singleton
  <2>2. IsFiniteSet(1..FileSize(m)) /\ Cardinality(1..FileSize(m)) = FileSize(m)
    BY <1>1, FS_Interval
  <2>3. /\ IsFiniteSet({m} \X (1..FileSize(m)))
        /\ Cardinality({m} \X (1..FileSize(m))) = Cardinality({m}) * Cardinality(1..FileSize(m))
    BY <2>1, <2>2, FS_Product
  <2>4. \A n \in Nat : 1 * n = n
    OBVIOUS
  <2>5. QED BY <1>1, <2>1, <2>2, <2>3, <2>4
<1>3. Weight(S \cup {m}) \subseteq Weight(S) \cup ({m} \X (1..FileSize(m)))
  BY WeightDef
<1>4. /\ IsFiniteSet(Weight(S) \cup ({m} \X (1..FileSize(m))))
      /\ Cardinality(Weight(S) \cup ({m} \X (1..FileSize(m)))) <= Bytes(S) + FileSize(m)
      /\ Bytes(S) \in Nat
  <2>1. Cardinality(Weight(S)) \in Nat /\ Bytes(S) = Cardinality(Weight(S))
    BY FS_CardinalityType DEF Bytes, Weight
  <2>2. Cardinality(Weight(S) \cap ({m} \X (1..FileSize(m)))) \in Nat
    BY FS_Intersection, FS_CardinalityType
  <2>3. IsFiniteSet(Weight(S) \cup ({m} \X (1..FileSize(m))))
    BY <1>2, FS_Union
  <2>4. Cardinality(Weight(S) \cup ({m} \X (1..FileSize(m)))) =
          Cardinality(Weight(S)) + FileSize(m) - Cardinality(Weight(S) \cap ({m} \X (1..FileSize(m))))
    BY <1>2, FS_Union
  <2>5. QED BY <1>1, <2>1, <2>2, <2>3, <2>4
<1>5. /\ IsFiniteSet(Weight(S \cup {m})) /\ Cardinality(Weight(S \cup {m})) \in Nat
      /\ Cardinality(Weight(S \cup {m})) <= Bytes(S) + FileSize(m)
  <2>1. /\ IsFiniteSet(Weight(S \cup {m})) /\ Cardinality(Weight(S \cup {m})) \in Nat
        /\ Cardinality(Weight(S) \cup ({m} \X (1..FileSize(m)))) \in Nat
        /\ Cardinality(Weight(S \cup {m})) <= Cardinality(Weight(S) \cup ({m} \X (1..FileSize(m))))
    BY <1>3, <1>4, FS_Subset, FS_CardinalityType
  <2>2. QED BY <1>1, <1>4, <2>1
<1>6. Bytes(S \cup {m}) <= Bytes(S) + FileSize(m) /\ Bytes(S \cup {m}) \in Nat
  BY <1>5 DEF Bytes, Weight
<1>7. IsFiniteSet(Weight(T)) /\ Bytes(T) \in Nat /\ Bytes(T) <= Bytes(S \cup {m})
  BY <1>5, FewerBytes
<1>8. QED BY <1>1, <1>4, <1>6, <1>7

\* A step that puts nothing in the spool keeps its bounds, unless it begins or
\* continues to measure.
LEMMA StepRoomShrinks ==
  ASSUME CoreInv, RoomInv, SpoolBound, CoreInv', faults' >= faults, Queued' \subseteq Queued,
         UNCHANGED enq \/ epc' \in {"free", "measure", "return"} \/ MaxBytes = 0
  PROVE  (RoomInv /\ SpoolBound)'
<1>1. IsFiniteSet(Weight(Queued)')
  <2>1. Weight(Queued)' = Weight(Queued')
    BY DEF Weight, FileSize
  <2>2. QED BY <2>1, FewerBytes DEF RoomInv
<1>2. ASSUME NEW T, NEW U, U \subseteq Queued, T \subseteq U
      PROVE  Bytes(T) \in Nat /\ Bytes(U) \in Nat /\ Bytes(T) <= Bytes(U)
  BY <1>2, FewerBytes DEF RoomInv
<1>3. ASSUME MaxBytes > 0, faults' = 0
      PROVE  /\ epc' \in {"pending", "processing"} =>
                  \E x \in Msg : Bytes(Queued' \ (walk' \cup {x})) <= total'
             /\ epc' \in {"create", "write"} =>
                  \E x \in Msg : Bytes(Queued' \ {x}) + Size[mu'] <= MaxBytes
  <2>1. faults = 0 /\ MaxBytes # 0
    BY <1>3, CountsType, LimitAssumption DEF CoreInv
  <2>2. CASE epc' \in {"free", "measure", "return"}
    BY <2>2
  <2>3. CASE UNCHANGED enq /\ epc \in {"pending", "processing"}
    <3>1. PICK x \in Msg : Bytes(Queued \ (walk \cup {x})) <= total
      BY <1>3, <2>1, <2>3 DEF RoomInv
    <3>2. Queued' \ (walk' \cup {x}) \subseteq Queued \ (walk \cup {x})
      BY <2>3 DEF enq
    <3>3. /\ Bytes(Queued' \ (walk' \cup {x})) \in Nat /\ Bytes(Queued \ (walk \cup {x})) \in Nat
          /\ Bytes(Queued' \ (walk' \cup {x})) <= Bytes(Queued \ (walk \cup {x}))
      BY <1>2, <3>2
    <3>4. total \in Nat /\ total' = total /\ epc' = epc
      BY <2>3 DEF enq, CoreInv, TypeOK
    <3>5. Bytes(Queued' \ (walk' \cup {x})) <= total'
      BY <3>1, <3>3, <3>4
    <3>6. QED BY <2>3, <3>4, <3>5
  <2>4. CASE UNCHANGED enq /\ epc \in {"create", "write"}
    <3>1. PICK x \in Msg : Bytes(Queued \ {x}) + Size[mu] <= MaxBytes
      BY <1>3, <2>1, <2>4 DEF RoomInv
    <3>2. /\ Bytes(Queued' \ {x}) \in Nat /\ Bytes(Queued \ {x}) \in Nat
          /\ Bytes(Queued' \ {x}) <= Bytes(Queued \ {x})
      BY <1>2
    <3>3. Size[mu] \in Nat /\ mu' = mu /\ epc' = epc /\ MaxBytes \in Nat
      BY <2>4, SizeAssumption, LimitAssumption DEF enq, CoreInv, TypeOK, SessionInv
    <3>4. Bytes(Queued' \ {x}) + Size[mu'] <= MaxBytes
      BY <3>1, <3>2, <3>3
    <3>5. QED BY <2>4, <3>3, <3>4
  <2>5. QED BY <2>1, <2>2, <2>3, <2>4 DEF enq
<1>4. ASSUME MaxBytes > 0, faults' = 0, Queued' # {}
      PROVE  \E m \in Msg : Bytes(Queued') <= MaxBytes + MetaSize + FileSize(m)
  <2>1. faults = 0 /\ Queued # {}
    BY <1>4, CountsType DEF CoreInv
  <2>2. PICK m \in Msg : Bytes(Queued) <= MaxBytes + MetaSize + FileSize(m)
    BY <1>4, <2>1 DEF SpoolBound
  <2>3. Bytes(Queued') \in Nat /\ Bytes(Queued) \in Nat /\ Bytes(Queued') <= Bytes(Queued)
    BY <1>2
  <2>4. MaxBytes + MetaSize + FileSize(m) \in Nat
    BY SizeAssumption, LimitAssumption, FileSizeType
  <2>5. Bytes(Queued') <= MaxBytes + MetaSize + FileSize(m)
    BY <2>2, <2>3, <2>4
  <2>6. QED BY <2>5
<1>5. RoomInv'
  BY <1>1, <1>3 DEF RoomInv, Bytes, FileSize
<1>6. SpoolBound'
  BY <1>4 DEF SpoolBound, Bytes, FileSize
<1>7. QED BY <1>5, <1>6

\* The measurement itself, and the message it lets in.
LEMMA StepRoom ==
  ASSUME IInv, RoomInv, SpoolBound, [Next]_vars
  PROVE  (RoomInv /\ SpoolBound)'
<1>0. CoreInv /\ CoreInv' /\ faults' >= faults
  BY StepCore, CountsGrow DEF IInv
<1> DEFINE Still == UNCHANGED <<pending, processing, faults, mu>>
<1>1. ASSUME Still, epc' \in {"pending", "processing"},
             MaxBytes > 0 /\ faults = 0 => \E x \in Msg : Bytes(Queued \ (walk' \cup {x})) <= total'
      PROVE  (RoomInv /\ SpoolBound)'
  <2>1. Queued' = Queued
    BY <1>1 DEF Queued
  <2>2. MaxBytes > 0 /\ faults' = 0 => \E x \in Msg : Bytes(Queued' \ (walk' \cup {x})) <= total'
    BY <1>1, <2>1
  <2>3. Weight(Queued)' = Weight(Queued)
    BY <2>1 DEF Weight, FileSize
  <2>4. RoomInv'
    BY <1>1, <2>2, <2>3 DEF RoomInv, Bytes, FileSize
  <2>5. SpoolBound'
    BY <1>1, <2>1 DEF SpoolBound, Bytes, FileSize
  <2>6. QED BY <2>4, <2>5
<1>2. ASSUME Still, epc' \in {"create", "write"},
             MaxBytes > 0 /\ faults = 0 => \E x \in Msg : Bytes(Queued \ {x}) + Size[mu] <= MaxBytes
      PROVE  (RoomInv /\ SpoolBound)'
  <2>1. Queued' = Queued
    BY <1>2 DEF Queued
  <2>2. MaxBytes > 0 /\ faults' = 0 => \E x \in Msg : Bytes(Queued' \ {x}) + Size[mu'] <= MaxBytes
    BY <1>2, <2>1
  <2>3. Weight(Queued)' = Weight(Queued)
    BY <2>1 DEF Weight, FileSize
  <2>4. RoomInv'
    BY <1>2, <2>2, <2>3 DEF RoomInv, Bytes, FileSize
  <2>5. SpoolBound'
    BY <1>2, <2>1 DEF SpoolBound, Bytes, FileSize
  <2>6. QED BY <2>4, <2>5
<1>3. CASE \E m \in Msg : BeginEnqueue(m)
  <2>1. Queued' = Queued /\ (epc' \in {"free", "measure", "return"} \/ MaxBytes = 0)
    BY <1>3, LimitAssumption DEF BeginEnqueue, Queued, dirs
  <2>2. QED BY <1>0, <2>1, StepRoomShrinks
<1>4. CASE ListPending
  <2>1. Still /\ epc' = "pending" /\ walk' = pending /\ total' = total
    BY <1>4 DEF ListPending, dirs, bounds
  <2>2. ASSUME MaxBytes > 0, faults = 0
        PROVE  \E x \in Msg : Bytes(Queued \ (walk' \cup {x})) <= total'
    <3>1. PICK x \in Msg : processing \subseteq {x}
      <4>1. mu \in Msg
        BY <1>0, <1>4, NoneAssumption DEF ListPending, CoreInv, TypeOK, SessionInv
      <4>2. processing \subseteq Msg /\ \A m, n \in processing : m = n
        BY <1>0, <2>2 DEF IInv, OwnedInv, CoreInv, TypeOK
      <4>3. CASE processing = {}
        BY <4>1, <4>3
      <4>4. CASE processing # {}
        BY <4>2, <4>4
      <4>5. QED BY <4>3, <4>4
    <3>2. Queued \ (walk' \cup {x}) = {}
      BY <2>1, <3>1 DEF Queued
    <3>3. Bytes({}) = 0
      <4>1. Weight({}) = {}
        BY NothingWeighsNothing
      <4>2. QED BY <4>1, FS_EmptySet DEF Bytes, Weight
    <3>4. total \in Nat
      BY <1>0 DEF CoreInv, TypeOK
    <3>5. QED BY <2>1, <3>2, <3>3, <3>4
  <2>3. QED BY <1>1, <2>1, <2>2
<1>5. ASSUME NEW dir, Measure("pending", dir) \/ Measure("processing", dir)
      PROVE  (RoomInv /\ SpoolBound)'
  <2>1. Queued' = Queued
    BY <1>5 DEF Measure, Queued, dirs
  <2>2. CASE Oldest(walk) \in dir
    <3> DEFINE m == Oldest(walk)
    <3>1. /\ Still /\ epc' = epc /\ epc \in {"pending", "processing"}
          /\ walk' = walk \ {m} /\ total' = total + FileSize(m) /\ walk # {}
      BY <1>5, <2>2 DEF Measure, dirs, bounds
    <3>2. m \in walk /\ m \in Msg /\ FileSize(m) \in Nat /\ total \in Nat
      BY <1>0, <3>1, OldestIn, FileSizeType DEF CoreInv, TypeOK
    <3>3. ASSUME MaxBytes > 0, faults = 0
          PROVE  \E x \in Msg : Bytes(Queued \ (walk' \cup {x})) <= total'
      <4> HIDE DEF m
      <4>1. PICK x \in Msg : Bytes(Queued \ (walk \cup {x})) <= total
        BY <3>1, <3>3 DEF RoomInv
      <4>2. Queued \ (walk' \cup {x}) \subseteq (Queued \ (walk \cup {x})) \cup {m}
        BY <3>1
      <4>3. IsFiniteSet(Weight(Queued \ (walk \cup {x})))
        BY FewerBytes DEF RoomInv
      <4>4. /\ Bytes(Queued \ (walk \cup {x})) \in Nat /\ Bytes(Queued \ (walk' \cup {x})) \in Nat
            /\ Bytes(Queued \ (walk' \cup {x})) <= Bytes(Queued \ (walk \cup {x})) + FileSize(m)
        BY <3>2, <4>2, <4>3, MoreBytes
      <4>5. Bytes(Queued \ (walk' \cup {x})) <= total + FileSize(m)
        BY <3>2, <4>1, <4>4
      <4>6. QED BY <3>1, <4>5
    <3>4. QED BY <1>1, <3>1, <3>3
  <2>3. CASE Oldest(walk) \notin dir
    <3>1. epc' = "free"
      BY <1>5, <2>3 DEF Measure, Refuse
    <3>2. QED BY <1>0, <2>1, <3>1, StepRoomShrinks
  <2>4. QED BY <2>2, <2>3
<1>6. CASE ListProcessing
  <2>1. Still /\ epc = "pending" /\ epc' = "processing" /\ walk = {} /\ total' = total
    BY <1>6 DEF ListProcessing, dirs, bounds
  <2>2. ASSUME MaxBytes > 0, faults = 0
        PROVE  \E x \in Msg : Bytes(Queued \ (walk' \cup {x})) <= total'
    <3>1. PICK x \in Msg : Bytes(Queued \ (walk \cup {x})) <= total
      BY <2>1, <2>2 DEF RoomInv
    <3>2. Queued \ (walk' \cup {x}) \subseteq Queued \ (walk \cup {x})
      BY <2>1
    <3>3. /\ Bytes(Queued \ (walk' \cup {x})) \in Nat /\ Bytes(Queued \ (walk \cup {x})) \in Nat
          /\ Bytes(Queued \ (walk' \cup {x})) <= Bytes(Queued \ (walk \cup {x}))
      <4>1. IsFiniteSet(Weight(Queued \ (walk \cup {x})))
        BY FewerBytes DEF RoomInv
      <4>2. QED BY <3>2, <4>1, FewerBytes
    <3>4. total \in Nat
      BY <1>0 DEF CoreInv, TypeOK
    <3>5. QED BY <2>1, <3>1, <3>3, <3>4
  <2>3. QED BY <1>1, <2>1, <2>2
<1>7. CASE CheckSize
  <2>1. Queued' = Queued
    BY <1>7 DEF CheckSize, Queued, dirs
  <2>2. CASE Fits(mu)
    <3>1. Still /\ epc = "processing" /\ epc' = "create" /\ walk = {} /\ total + Size[mu] <= MaxBytes
      BY <1>7, <2>2 DEF CheckSize, Fits, dirs, bounds
    <3>2. ASSUME MaxBytes > 0, faults = 0
          PROVE  \E x \in Msg : Bytes(Queued \ {x}) + Size[mu] <= MaxBytes
      <4>1. PICK x \in Msg : Bytes(Queued \ (walk \cup {x})) <= total
        BY <3>1, <3>2 DEF RoomInv
      <4>2. Queued \ (walk \cup {x}) = Queued \ {x}
        BY <3>1
      <4>3. Bytes(Queued \ {x}) \in Nat
        BY FewerBytes DEF RoomInv
      <4>4. Size[mu] \in Nat /\ total \in Nat /\ MaxBytes \in Nat
        BY <1>0, <3>1, SizeAssumption, LimitAssumption DEF CoreInv, TypeOK, SessionInv
      <4>5. Bytes(Queued \ {x}) + Size[mu] <= MaxBytes
        BY <3>1, <4>1, <4>2, <4>3, <4>4
      <4>6. QED BY <4>5
    <3>3. QED BY <1>2, <3>1, <3>2
  <2>3. CASE ~Fits(mu)
    <3>1. epc' = "free"
      BY <1>7, <2>3 DEF CheckSize, Refuse
    <3>2. QED BY <1>0, <2>1, <3>1, StepRoomShrinks
  <2>4. QED BY <2>2, <2>3
<1>8. CASE CreateTmp
  <2>1. Queued' = Queued
    BY <1>8 DEF CreateTmp, Queued
  <2>2. CASE epc' = "free"
    BY <1>0, <2>1, <2>2, StepRoomShrinks
  <2>3. CASE Still /\ epc = "create" /\ epc' = "write"
    BY <1>2, <2>3 DEF RoomInv
  <2>4. QED BY <1>8, <2>2, <2>3 DEF CreateTmp, Refuse
<1>9. CASE Publish
  <2>1. /\ UNCHANGED <<processing, mu, faults>> /\ epc = "write" /\ epc' = "return"
        /\ Queued' = Queued \cup {mu} /\ mu \in Msg
    BY <1>0, <1>9 DEF Publish, Queued, bounds, CoreInv, TypeOK, SessionInv
  <2>2. IsFiniteSet(Weight(Queued'))
    BY <2>1, MoreBytes DEF RoomInv
  <2>3. ASSUME MaxBytes > 0, faults = 0
        PROVE  \E m \in Msg : Bytes(Queued') <= MaxBytes + MetaSize + FileSize(m)
    <3>1. PICK x \in Msg : Bytes(Queued \ {x}) + Size[mu] <= MaxBytes
      BY <2>1, <2>3 DEF RoomInv
    <3>2. /\ IsFiniteSet(Weight(Queued \ {x})) /\ Bytes(Queued \ {x}) \in Nat
      BY FewerBytes DEF RoomInv
    <3>3. /\ IsFiniteSet(Weight((Queued \ {x}) \cup {x})) /\ Bytes((Queued \ {x}) \cup {x}) \in Nat
          /\ Bytes((Queued \ {x}) \cup {x}) <= Bytes(Queued \ {x}) + FileSize(x)
      BY <3>2, MoreBytes
    <3>4. Queued' \subseteq ((Queued \ {x}) \cup {x}) \cup {mu}
      BY <2>1
    <3>5. Bytes(Queued') \in Nat /\ Bytes(Queued') <= Bytes((Queued \ {x}) \cup {x}) + FileSize(mu)
      BY <2>1, <3>3, <3>4, MoreBytes
    <3>6. /\ FileSize(mu) = MetaSize + Size[mu] /\ Size[mu] \in Nat /\ MetaSize \in Nat
          /\ FileSize(x) \in Nat /\ MaxBytes \in Nat
      BY <2>1, SizeAssumption, LimitAssumption, FileSizeType DEF FileSize
    <3>7. \A q, r, b, f, u, n, k \in Nat :
            q <= r + (n + u) /\ r <= b + f /\ b + u <= k => q <= k + n + f
      OBVIOUS
    <3>8. Bytes(Queued') <= MaxBytes + MetaSize + FileSize(x)
      BY <3>1, <3>2, <3>3, <3>5, <3>6, <3>7, Zenon
    <3>9. QED BY <3>8
  <2>4. RoomInv'
    BY <2>1, <2>2 DEF RoomInv, Weight, FileSize
  <2>5. SpoolBound'
    BY <2>1, <2>3 DEF SpoolBound, Bytes, FileSize
  <2>6. QED BY <2>4, <2>5
<1>10. CASE PublishFails \/ ReturnOK \/ MeasureFails
  <2>1. Queued' = Queued /\ epc' = "free"
    BY <1>10 DEF PublishFails, MeasureFails, ReturnOK, Refuse, Queued, dirs
  <2>2. QED BY <1>0, <2>1, StepRoomShrinks
<1>11. CASE WorkerStep
  <2>1. UNCHANGED enq
    BY <1>11
    DEF WorkerStep, Recover, StartFlush, NextPending, Claim, ReadItem, ReadItemFails, StoreBody, ParseFails,
        StoreAttachments, StoreUnavailable, StoreFails, RemoveItem, PostStore
  <2>2. Queued' \subseteq Queued
    BY <1>0, <1>11, OldestIn
    DEF WorkerStep, Recover, StartFlush, NextPending, Claim, ReadItem, ReadItemFails, StoreBody, ParseFails,
        StoreAttachments, StoreUnavailable, StoreFails, RemoveItem, PostStore, MoveToFailed, PutBack, Queued, dirs,
        CoreInv, TypeOK, WorkerInv, Busy
  <2>3. QED BY <1>0, <2>1, <2>2, StepRoomShrinks
<1>12. CASE StorageDown \/ StorageUp \/ Crash \/ Restart \/ UNCHANGED vars
  <2>1. Queued' = Queued /\ (UNCHANGED enq \/ epc' = "free")
    BY <1>12 DEF StorageDown, StorageUp, Crash, Restart, vars, Queued, dirs
  <2>2. QED BY <1>0, <2>1, StepRoomShrinks
<1>13. QED
  BY <1>3, <1>4, <1>5, <1>6, <1>7, <1>8, <1>9, <1>10, <1>11, <1>12 DEF Next, EnqueueStep

\* While no call has failed, the spool exceeds max_bytes by one metadata line and
\* one item at most, whatever the worker moves during the measurement (sizeLocked,
\* Enqueue).
THEOREM SpoolBoundHolds == Spec => []SpoolBound
<1>1. Init => RoomInv /\ SpoolBound
  <2> SUFFICES ASSUME Init PROVE RoomInv /\ SpoolBound
    OBVIOUS
  <2>1. Queued = {} /\ epc = "free"
    BY DEF Init, Queued
  <2>2. Weight({}) = {}
    BY NothingWeighsNothing
  <2>3. QED BY <2>1, <2>2, FS_EmptySet DEF RoomInv, SpoolBound
<1>2. IInv /\ RoomInv /\ SpoolBound /\ [Next]_vars => (RoomInv /\ SpoolBound)'
  BY StepRoom
<1>3. QED BY Invariance, <1>1, <1>2, PTL DEF Spec

-----------------------------------------------------------------------------
(* The spool implements SpoolAbstract.                                     *)

\* What the abstract specification sees of message m.
Kept(m)   == (IF m \in Queued THEN {"spool"} ELSE {})
             \cup (IF m \in failed THEN {"quarantine"} ELSE {})
             \cup (IF copies[m] > 0 THEN {"store"} ELSE {})
Told(m)   == IF reply[m] \in {"ok", "refused"} THEN reply[m] ELSE "none"

\* A step that moves no copy of any message and answers nobody is a stutter.
LEMMA Stutter ==
  ASSUME \A m \in Msg : Kept(m)' = Kept(m) /\ Told(m)' = Told(m)
  PROVE  UNCHANGED Promise!vars
  BY DEF Promise!vars, Kept, Told

\* The refinement mapping as functions, to state a change of one message.
KeptFn == [m \in Msg |-> Kept(m)]
ToldFn == [m \in Msg |-> Told(m)]

\* Only n changes, and it gains a copy in storage_root.
LEMMA OneStored ==
  ASSUME NEW n \in Msg, "spool" \in Kept(n),
         \A m \in Msg : Told(m)' = Told(m) /\ Kept(m)' = IF m = n THEN Kept(n) \cup {"store"} ELSE Kept(m)
  PROVE  Promise!Store(n)
<1>1. KeptFn' = [KeptFn EXCEPT ![n] = KeptFn[n] \cup {"store"}] /\ ToldFn' = ToldFn
  BY DEF KeptFn, ToldFn
<1>2. "spool" \in KeptFn[n]
  BY DEF KeptFn
<1>3. QED BY <1>1, <1>2 DEF Promise!Store, KeptFn, ToldFn, Kept, Told

\* Only n changes, and it leaves the spool for good.
LEMMA OneReleased ==
  ASSUME NEW n \in Msg, {"spool", "store"} \subseteq Kept(n),
         \A m \in Msg : Told(m)' = Told(m) /\ Kept(m)' = IF m = n THEN Kept(n) \ {"spool"} ELSE Kept(m)
  PROVE  Promise!Release(n)
<1>1. KeptFn' = [KeptFn EXCEPT ![n] = KeptFn[n] \ {"spool"}] /\ ToldFn' = ToldFn
  BY DEF KeptFn, ToldFn
<1>2. {"spool", "store"} \subseteq KeptFn[n]
  BY DEF KeptFn
<1>3. QED BY <1>1, <1>2 DEF Promise!Release, KeptFn, ToldFn, Kept, Told

\* Only n changes, from the spool to failed/.
LEMMA OneQuarantined ==
  ASSUME NEW n \in Msg, "spool" \in Kept(n),
         \A m \in Msg : Told(m)' = Told(m) /\ Kept(m)' = IF m = n THEN (Kept(n) \ {"spool"}) \cup {"quarantine"} ELSE Kept(m)
  PROVE  Promise!Quarantine(n)
<1>1. KeptFn' = [KeptFn EXCEPT ![n] = (KeptFn[n] \ {"spool"}) \cup {"quarantine"}] /\ ToldFn' = ToldFn
  BY DEF KeptFn, ToldFn
<1>2. "spool" \in KeptFn[n]
  BY DEF KeptFn
<1>3. QED BY <1>1, <1>2 DEF Promise!Quarantine, KeptFn, ToldFn, Kept, Told

\* The rename that publishes an item is the moment the spool takes it.  (Here
\* and below n stands for the message the session or the worker holds: the
\* abstract step is that of a fixed message.)
LEMMA PublishTakes ==
  ASSUME IInv, Publish, NEW n \in Msg, n = mu
  PROVE  Promise!Take(n)
<1> USE DEF IInv, CoreInv, TypeOK, SessionInv, Safe, InSpool, Queued, Kept, Told, worker, files, bounds
<1>1. Told(n) = "none" /\ Kept(n) = {}
  BY NoneAssumption DEF Publish
<1>2. \A m \in Msg : Told(m)' = Told(m) /\ Kept(m)' = IF m = n THEN {"spool"} ELSE Kept(m)
  BY <1>1 DEF Publish
<1>3. QED BY <1>1, <1>2 DEF Promise!Take

\* An Enqueue that gives up refuses; its message is nowhere.
LEMMA RefuseRefuses ==
  ASSUME IInv, epc # "return", Refuse, UNCHANGED <<pending, processing, failed, copies>>,
         NEW n \in Msg, n = mu
  PROVE  Promise!Refuse(n)
<1> USE DEF IInv, CoreInv, TypeOK, SessionInv, Safe, InSpool, Queued, Kept, Told
<1>1. Told(n) = "none" /\ Kept(n) = {}
  BY NoneAssumption
<1>2. \A m \in Msg : Kept(m)' = Kept(m) /\ Told(m)' = IF m = n THEN "refused" ELSE Told(m)
  BY DEF Refuse
<1>3. QED BY <1>1, <1>2 DEF Promise!Refuse

\* Data answers 250 for a message that is kept.
LEMMA ReturnAccepts ==
  ASSUME IInv, ReturnOK, NEW n \in Msg, n = mu
  PROVE  Promise!Accept(n)
<1> USE DEF IInv, CoreInv, TypeOK, SessionInv, Safe, InSpool, Queued, Kept, Told, dirs, files
<1>1. Told(n) = "none" /\ Kept(n) # {}
  BY NoneAssumption DEF ReturnOK
<1>2. \A m \in Msg : Kept(m)' = Kept(m) /\ Told(m)' = IF m = n THEN "ok" ELSE Told(m)
  BY <1>1 DEF ReturnOK
<1>3. QED BY <1>1, <1>2 DEF Promise!Accept

\* The complete copy is written while the item is still in processing.
LEMMA AttachmentsStore ==
  ASSUME IInv, StoreAttachments, NEW n \in Msg, n = cur
  PROVE  Promise!Store(n)
<1>1. n \in Queued
  BY DEF StoreAttachments, IInv, CoreInv, WorkerInv, Busy, Queued
<1>2. \A m \in Msg : /\ Told(m)' = Told(m)
                     /\ Kept(m)' = IF m = n THEN Kept(n) \cup {"store"} ELSE Kept(m)
  BY <1>1 DEF StoreAttachments, IInv, CoreInv, TypeOK, Queued, Kept, Told, dirs
<1>3. "spool" \in Kept(n)
  BY <1>1 DEF Kept
<1>4. QED BY <1>2, <1>3, OneStored

\* The item is removed after its complete copy, or stays where it is.
LEMMA RemoveReleases ==
  ASSUME IInv, RemoveItem, NEW n \in Msg, n = cur
  PROVE  Promise!Release(n) \/ UNCHANGED Promise!vars
<1>1. /\ n \in processing /\ n \notin pending /\ copies[n] > 0
      /\ UNCHANGED <<pending, failed, reply, copies>>
  BY DEF RemoveItem, IInv, CoreInv, OncePerItem, WorkerInv, Busy, files
<1>2. CASE processing' = processing \ {n}
  <2>1. \A m \in Msg : /\ Told(m)' = Told(m)
                       /\ Kept(m)' = IF m = n THEN Kept(n) \ {"spool"} ELSE Kept(m)
    BY <1>1, <1>2 DEF Queued, Kept, Told
  <2>2. {"spool", "store"} \subseteq Kept(n)
    BY <1>1 DEF Queued, Kept
  <2>3. QED BY <2>1, <2>2, OneReleased
<1>3. CASE processing' = processing
  BY <1>1, <1>3, Stutter DEF Queued, Kept, Told
<1>4. QED BY <1>2, <1>3 DEF RemoveItem

\* moveToFailed is the quarantine, unless its rename fails.
LEMMA FailedQuarantines ==
  ASSUME IInv, wpc \in Busy, UNCHANGED <<reply, copies>>,
         MoveToFailed(0) \/ MoveToFailed(1), NEW n \in Msg, n = cur
  PROVE  Promise!Quarantine(n) \/ UNCHANGED Promise!vars
<1>1. n \in processing /\ n \notin pending /\ UNCHANGED pending
  BY DEF MoveToFailed, IInv, CoreInv, OncePerItem, WorkerInv
<1>2. CASE processing' = processing \ {n} /\ failed' = failed \cup {n}
  <2>1. \A m \in Msg :
          /\ Told(m)' = Told(m)
          /\ Kept(m)' = IF m = n THEN (Kept(n) \ {"spool"}) \cup {"quarantine"} ELSE Kept(m)
    BY <1>1, <1>2 DEF Queued, Kept, Told
  <2>2. "spool" \in Kept(n)
    BY <1>1 DEF Queued, Kept
  <2>3. QED BY <2>1, <2>2, OneQuarantined
<1>3. CASE UNCHANGED <<processing, failed>>
  BY <1>1, <1>3, Stutter DEF Queued, Kept, Told
<1>4. QED BY <1>2, <1>3 DEF MoveToFailed

\* Every other step moves an item between pending and processing, or nothing.
LEMMA OthersStutter ==
  ASSUME IInv,
         \/ \E m \in Msg : BeginEnqueue(m)
         \/ ListPending \/ ListProcessing
         \/ Recover \/ StartFlush \/ NextPending \/ Claim \/ ReadItem \/ StoreBody
         \/ StoreUnavailable \/ PostStore
         \/ StorageDown \/ StorageUp \/ Crash \/ Restart \/ UNCHANGED vars
  PROVE  UNCHANGED Promise!vars
<1>1. UNCHANGED Queued
  <2> USE DEF IInv, CoreInv, WorkerInv, Busy, Queued, dirs, enq
  <2>1. CASE Recover
    BY <2>1, OldestIn DEF Recover, TypeOK
  <2>2. CASE Claim
    BY <2>2 DEF Claim
  <2>3. CASE StoreUnavailable
    BY <2>3 DEF StoreUnavailable, PutBack
  <2>4. QED BY <2>1, <2>2, <2>3
            DEF BeginEnqueue, ListPending, ListProcessing, StartFlush, NextPending, ReadItem,
                StoreBody, PostStore, StorageDown, StorageUp, Crash, Restart, vars
<1>2. UNCHANGED <<failed, copies>>
  BY DEF BeginEnqueue, ListPending, ListProcessing, Recover, StartFlush, NextPending, Claim,
         ReadItem, StoreBody, StoreUnavailable, PutBack, PostStore, StorageDown, StorageUp, Crash,
         Restart, vars, dirs, files
<1>3. \A m \in Msg : Told(m)' = Told(m)
  <2> USE DEF IInv, CoreInv, TypeOK, Told
  <2>1. CASE \E n \in Msg : BeginEnqueue(n)
    BY <2>1 DEF BeginEnqueue
  <2>2. CASE Crash
    BY <2>2 DEF Crash
  <2>3. QED BY <2>1, <2>2
            DEF ListPending, ListProcessing, Recover, StartFlush, NextPending, Claim, ReadItem,
                StoreBody, StoreUnavailable, PostStore, StorageDown, StorageUp, Restart, vars
<1>4. QED BY <1>1, <1>2, <1>3, Stutter DEF Kept

\* Every behaviour of the spool is one of SpoolAbstract: whatever crashes,
\* fails or goes away, 250 is answered only for a message that is kept, what is
\* kept stays kept, and what is refused leaves nothing.
THEOREM SpoolKeepsPromise == Spec => KeepsPromise
<1>1. Init => Promise!Init
  BY DEF Init, Promise!Init, Queued
<1>2. ASSUME IInv, [Next]_vars PROVE [Promise!Next]_(Promise!vars)
  <2>1. CASE EnqueueStep
    <3>1. PICK n \in Msg : n = mu
      BY <1>2, <2>1, NoneAssumption
      DEF IInv, CoreInv, TypeOK, SessionInv, EnqueueStep, ListPending, Measure, MeasureFails, ListProcessing, CheckSize,
          CreateTmp, Publish, PublishFails, ReturnOK
    <3>2. CASE Publish
      BY <1>2, <3>1, <3>2, PublishTakes DEF Promise!Next
    <3>3. CASE ReturnOK
      BY <1>2, <3>1, <3>3, ReturnAccepts DEF Promise!Next
    <3>4. CASE ListPending \/ ListProcessing
      BY <1>2, <3>4, OthersStutter
    <3>5. CASE \/ Measure("pending", pending) \/ Measure("processing", processing)
               \/ CheckSize \/ CreateTmp \/ PublishFails \/ MeasureFails
      <4>1. /\ epc # "return" /\ UNCHANGED <<pending, processing, failed, copies>>
            /\ Refuse \/ UNCHANGED reply
        BY <3>5 DEF Measure, MeasureFails, CheckSize, CreateTmp, PublishFails, dirs, files
      <4>2. CASE Refuse
        BY <1>2, <3>1, <4>1, <4>2, RefuseRefuses DEF Promise!Next
      <4>3. CASE UNCHANGED reply
        BY <4>1, <4>3, Stutter DEF Kept, Told, Queued
      <4>4. QED BY <4>1, <4>2, <4>3
    <3>6. QED BY <2>1, <3>2, <3>3, <3>4, <3>5 DEF EnqueueStep
  <2>2. CASE StoreAttachments \/ RemoveItem \/ ReadItemFails \/ ParseFails \/ StoreFails
    <3>1. wpc \in Busy
      BY <2>2 DEF Busy, StoreAttachments, RemoveItem, ReadItemFails, ParseFails, StoreFails
    <3>2. PICK n \in Msg : n = cur
      BY <1>2, <3>1 DEF IInv, CoreInv, TypeOK, WorkerInv, Ashore, Busy
    <3>3. CASE StoreAttachments
      BY <1>2, <3>2, <3>3, AttachmentsStore DEF Promise!Next
    <3>4. CASE RemoveItem
      BY <1>2, <3>2, <3>4, RemoveReleases DEF Promise!Next
    <3>5. CASE ReadItemFails \/ ParseFails \/ StoreFails
      <4>1. UNCHANGED <<reply, copies>> /\ (MoveToFailed(0) \/ MoveToFailed(1))
        BY <3>5 DEF ReadItemFails, ParseFails, StoreFails, files
      <4>2. QED BY <1>2, <3>1, <3>2, <4>1, FailedQuarantines DEF Promise!Next
    <3>6. QED BY <2>2, <3>3, <3>4, <3>5
  <2>3. QED BY <1>2, <2>1, <2>2, OthersStutter DEF Next, WorkerStep
<1>3. QED BY Invariance, <1>1, <1>2, PTL DEF Spec, KeepsPromise, Promise!Spec

\* What one step of SpoolAbstract may do to a message.
LEMMA PromisedStep ==
  ASSUME [Promise!Next]_(Promise!vars), NEW m \in Msg
  PROVE  \/ Kept(m)' = Kept(m) /\ Told(m)' = Told(m)
         \/ Told(m)' = Told(m) /\ Told(m) # "refused" /\ Kept(m)' # {}
         \/ Told(m)' = Told(m) /\ Kept(m) # {} /\ Kept(m)' # {}
         \/ Kept(m)' = Kept(m) /\ Told(m)' = "ok" /\ Kept(m) # {}
         \/ Kept(m)' = Kept(m) /\ Told(m)' = "refused" /\ Kept(m) = {}
<1>1. /\ KeptFn[m] = Kept(m) /\ ToldFn[m] = Told(m) /\ KeptFn'[m] = Kept(m)' /\ ToldFn'[m] = Told(m)'
      /\ DOMAIN KeptFn = Msg /\ DOMAIN ToldFn = Msg
  BY DEF KeptFn, ToldFn
<1>2. CASE UNCHANGED Promise!vars
  <2>1. KeptFn' = KeptFn /\ ToldFn' = ToldFn
    BY <1>2 DEF Promise!vars, KeptFn, ToldFn, Kept, Told
  <2>2. QED BY <1>1, <2>1
<1>3. ASSUME NEW n \in Msg, Promise!Take(n)
      PROVE  KeptFn' = [KeptFn EXCEPT ![n] = {"spool"}] /\ ToldFn' = ToldFn /\ ToldFn[n] = "none"
  BY <1>3 DEF Promise!Take, KeptFn, ToldFn, Kept, Told
<1>4. ASSUME NEW n \in Msg, Promise!Accept(n)
      PROVE  KeptFn' = KeptFn /\ ToldFn' = [ToldFn EXCEPT ![n] = "ok"] /\ KeptFn[n] # {}
  BY <1>4 DEF Promise!Accept, KeptFn, ToldFn, Kept, Told
<1>5. ASSUME NEW n \in Msg, Promise!Refuse(n)
      PROVE  KeptFn' = KeptFn /\ ToldFn' = [ToldFn EXCEPT ![n] = "refused"] /\ KeptFn[n] = {}
  BY <1>5 DEF Promise!Refuse, KeptFn, ToldFn, Kept, Told
<1>6. ASSUME NEW n \in Msg, Promise!Store(n)
      PROVE  KeptFn' = [KeptFn EXCEPT ![n] = @ \cup {"store"}] /\ ToldFn' = ToldFn /\ "spool" \in KeptFn[n]
  BY <1>6 DEF Promise!Store, KeptFn, ToldFn, Kept, Told
<1>7. ASSUME NEW n \in Msg, Promise!Release(n)
      PROVE  /\ KeptFn' = [KeptFn EXCEPT ![n] = @ \ {"spool"}] /\ ToldFn' = ToldFn
             /\ {"spool", "store"} \subseteq KeptFn[n]
  BY <1>7 DEF Promise!Release, KeptFn, ToldFn, Kept, Told
<1>8. ASSUME NEW n \in Msg, Promise!Quarantine(n)
      PROVE  /\ KeptFn' = [KeptFn EXCEPT ![n] = (@ \ {"spool"}) \cup {"quarantine"}] /\ ToldFn' = ToldFn
             /\ "spool" \in KeptFn[n]
  BY <1>8 DEF Promise!Quarantine, KeptFn, ToldFn, Kept, Told
<1>9. CASE Promise!Next
  <2>1. PICK n \in Msg : \/ Promise!Take(n) \/ Promise!Accept(n) \/ Promise!Refuse(n)
                         \/ Promise!Store(n) \/ Promise!Release(n) \/ Promise!Quarantine(n)
    BY <1>9 DEF Promise!Next
  <2>2. CASE Promise!Take(n)
    BY <1>1, <1>3, <2>2
  <2>3. CASE Promise!Accept(n)
    BY <1>1, <1>4, <2>3
  <2>4. CASE Promise!Refuse(n)
    BY <1>1, <1>5, <2>4
  <2>5. CASE Promise!Store(n)
    BY <1>1, <1>6, <2>5
  <2>6. CASE Promise!Release(n)
    BY <1>1, <1>7, <2>6
  <2>7. CASE Promise!Quarantine(n)
    BY <1>1, <1>8, <2>7
  <2>8. QED BY <2>1, <2>2, <2>3, <2>4, <2>5, <2>6, <2>7
<1>10. QED BY <1>2, <1>9

\* The promise says enough: whatever keeps SpoolAbstract, in whatever way, keeps
\* what it accepts, has nothing of what it refuses, and forgets nothing, which is
\* what the clients of Enqueue rely on.
THEOREM PromiseSaysEnough ==
  Promise!Spec => [](Custody /\ \A m \in Msg : reply[m] = "refused" => ~Safe(m)) /\ NeverForgotten
<1> DEFINE Promised == \A m \in Msg : /\ Told(m) = "ok" => Kept(m) # {}
                                      /\ Told(m) = "refused" => Kept(m) = {}
<1>1. Promise!Init => Promised
  <2> SUFFICES ASSUME Promise!Init, NEW m \in Msg PROVE Told(m) = "none"
    OBVIOUS
  <2>1. ToldFn = [n \in Msg |-> "none"]
    BY DEF Promise!Init, ToldFn, Told
  <2>2. QED BY <2>1 DEF ToldFn
<1>2. Promised /\ [Promise!Next]_(Promise!vars) => Promised'
  BY PromisedStep
<1>3. \A m \in Msg : Kept(m) # {} <=> Safe(m)
  BY DEF Kept, InSpool, Queued, Safe
<1>4. Promised => Custody /\ \A m \in Msg : reply[m] = "refused" => ~Safe(m)
  BY <1>3 DEF Custody, Told, Safe
<1>5. Promised /\ [Promise!Next]_(Promise!vars) =>
        [\A m \in Msg : (m \in InSpool \/ copies[m] > 0) => (m \in InSpool \/ copies[m] > 0)']_vars
  BY PromisedStep DEF Kept, InSpool, Queued
<1>6. QED BY <1>1, <1>2, <1>4, <1>5, PTL DEF Promise!Spec, NeverForgotten
=============================================================================
