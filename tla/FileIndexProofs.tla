-------------------------- MODULE FileIndexProofs --------------------------
(***************************************************************************)
(* Theorems about FileIndex, for any number of videos, sidecars, crashes    *)
(* and failed calls.                                                        *)
(***************************************************************************)
EXTENDS FileIndex, TLAPS

\* A refresher that is busy is busy with a video.
TargetInv == \A r \in Refresher : pc[r] # "idle" => target[r] \in Video

\* Whoever moves v out of sight leaves a right row, or v among the exceptions.
Inv == TypeOK /\ TargetInv /\ RowIsRight

LEMMA InitInv == Init => Inv
BY BoundsAssumption DEF Init, Inv, TypeOK, TargetInv, RowIsRight, Quiet, State, Refresher

LEMMA StatusType ==
  ASSUME NEW s \in State \cup {"none"}
  PROVE  Status(s) \in State
BY DEF Status, State

\* What a write of the row leaves behind.
LEMMA SetRowFacts ==
  ASSUME TypeOK, NEW v \in Video, NEW s \in State \cup {"none"}, SetRow(v, s)
  PROVE  /\ row' \in [Video -> State \cup {"absent"}] /\ overtaken' \subseteq Video
         /\ \A u \in Video \ {v} : row'[u] = row[u] /\ (u \in overtaken <=> u \in overtaken')
         /\ v \in overtaken' \/ row'[v] = Status(sidecar[v])
<1>1. row' = [row EXCEPT ![v] = Status(s)] /\ Status(s) \in State
  BY StatusType DEF SetRow
<1>2. row' \in [Video -> State \cup {"absent"}] /\ row'[v] = Status(s)
  BY <1>1 DEF TypeOK
<1>3. overtaken' \in {overtaken \ {v}, overtaken \cup {v}} /\ overtaken \subseteq Video
  BY DEF SetRow, TypeOK
<1>4. v \in overtaken' \/ Status(s) = Status(sidecar[v])
  BY DEF SetRow
<1>5. \A u \in Video \ {v} : row'[u] = row[u]
  BY <1>1 DEF TypeOK
<1>6. QED BY <1>2, <1>3, <1>4, <1>5

LEMMA FailsFacts ==
  ASSUME TypeOK, NEW v \in Video, Fails(v)
  PROVE  failed' = failed \cup {v} /\ failed' \subseteq Video /\ faults' \in 0..MaxFaults
<1>1. failed' = failed \cup {v} /\ failed' \subseteq Video
  BY DEF Fails, TypeOK
<1>2. MaxFaults \in Nat /\ faults \in 0..MaxFaults /\ faults < MaxFaults /\ faults' = faults + 1
  BY BoundsAssumption DEF Fails, TypeOK
<1>3. faults' \in 0..MaxFaults
  BY <1>2
<1>4. QED BY <1>1, <1>3

-----------------------------------------------------------------------------
(* The refreshers. *)

LEMMA StoreInv ==
  ASSUME Inv, NEW v \in Video, Store(v)
  PROVE  Inv'
<1>1. /\ stored' = stored \cup {v}
      /\ pc' = [pc EXCEPT ![Poster] = "load"] /\ target' = [target EXCEPT ![Poster] = v]
      /\ UNCHANGED <<sidecar, row, read, due, recorders, overtaken, failed, crashes, faults>>
  BY DEF Store
<1>2. Poster \in Refresher
  BY DEF Refresher
<1>3. TypeOK'
  BY <1>1, <1>2 DEF Inv, TypeOK, recorders
<1>4. TargetInv'
  BY <1>1, <1>2 DEF Inv, TypeOK, TargetInv
<1>5. pc[Poster] = "idle" /\ pc'[Poster] = "load" /\ target'[Poster] = v
  BY <1>1, <1>2 DEF Inv, TypeOK, Store
<1>6. \A r \in Refresher \ {Poster} : pc'[r] = pc[r] /\ target'[r] = target[r]
  BY <1>1 DEF Inv, TypeOK
<1>7. \A u \in Video : Quiet(u)' => u # v /\ Quiet(u)
  BY <1>1, <1>2, <1>5, <1>6 DEF Quiet, recorders
<1>8. RowIsRight'
  BY <1>1, <1>7 DEF Inv, TypeOK, RowIsRight
<1>9. QED BY <1>3, <1>4, <1>8 DEF Inv

LEMMA VisitInv ==
  ASSUME Inv, NEW v \in Video, Visit(v)
  PROVE  Inv'
<1>1. /\ due' = due \ {v}
      /\ pc' = [pc EXCEPT ![Walker] = "load"] /\ target' = [target EXCEPT ![Walker] = v]
      /\ UNCHANGED <<stored, sidecar, row, read, recorders, overtaken, failed, crashes, faults>>
  BY DEF Visit
<1>2. Walker \in Refresher
  BY DEF Refresher
<1>3. TypeOK'
  BY <1>1, <1>2 DEF Inv, TypeOK, recorders
<1>4. TargetInv'
  BY <1>1, <1>2 DEF Inv, TypeOK, TargetInv
<1>5. pc[Walker] = "idle" /\ pc'[Walker] = "load" /\ target'[Walker] = v
  BY <1>1, <1>2 DEF Inv, TypeOK, Visit
<1>6. \A r \in Refresher \ {Walker} : pc'[r] = pc[r] /\ target'[r] = target[r]
  BY <1>1 DEF Inv, TypeOK
<1>7. \A u \in Video : Quiet(u)' => Quiet(u)
  BY <1>1, <1>2, <1>5, <1>6 DEF Quiet, recorders
<1>8. RowIsRight'
  BY <1>1, <1>7 DEF Inv, TypeOK, RowIsRight
<1>9. QED BY <1>3, <1>4, <1>8 DEF Inv

\* What the walk misses is among the exceptions.
LEMMA WalkMissesInv ==
  ASSUME Inv, WalkMisses
  PROVE  Inv'
<1>1. PICK missed \in SUBSET due : due' = due \ missed /\ failed' = failed \cup missed
  BY DEF WalkMisses
<1>2. /\ faults < MaxFaults /\ faults' = faults + 1
      /\ UNCHANGED <<stored, sidecar, row, pc, target, read, recorders, overtaken, crashes>>
  BY DEF WalkMisses
<1>3. faults' \in 0..MaxFaults
  <2>1. MaxFaults \in Nat /\ faults \in 0..MaxFaults
    BY BoundsAssumption DEF Inv, TypeOK
  <2>2. QED BY <1>2, <2>1
<1>4. TypeOK'
  BY <1>1, <1>2, <1>3 DEF Inv, TypeOK, recorders
<1>5. TargetInv'
  BY <1>2 DEF Inv, TargetInv
<1>6. \A u \in Video : Quiet(u)' => Quiet(u) \/ u \in failed'
  BY <1>1, <1>2 DEF Quiet, recorders
<1>7. RowIsRight'
  BY <1>1, <1>2, <1>6 DEF Inv, TypeOK, RowIsRight
<1>8. QED BY <1>4, <1>5, <1>7 DEF Inv

\* What a read of the sidecar leaves behind, whether it fails or not.
LEMMA LoadSidecarFacts ==
  ASSUME TypeOK, NEW v \in Video, NEW s \in State \cup {"none"}, LoadSidecar(v, s)
  PROVE  failed \subseteq failed' /\ failed' \subseteq Video /\ faults' \in 0..MaxFaults
<1>1. CASE UNCHANGED <<failed, faults>>
  BY <1>1 DEF TypeOK
<1>2. CASE Fails(v)
  BY <1>2, FailsFacts
<1>3. QED BY <1>1, <1>2 DEF LoadSidecar

LEMMA LoadInv ==
  ASSUME Inv, NEW r \in Refresher, Load(r)
  PROVE  Inv'
<1>1. /\ pc' = [pc EXCEPT ![r] = "upsert"]
      /\ UNCHANGED <<stored, sidecar, row, target, due, recorders, overtaken, crashes>>
      /\ pc[r] = "load" /\ target[r] \in Video
  BY DEF Load, Inv, TargetInv
<1>2. PICK s \in State \cup {"none"} : LoadSidecar(target[r], s) /\ read' = [read EXCEPT ![r] = s]
  BY DEF Load
<1>3. failed \subseteq failed' /\ failed' \subseteq Video /\ faults' \in 0..MaxFaults
  BY <1>1, <1>2, LoadSidecarFacts DEF Inv
<1>4. TypeOK'
  BY <1>1, <1>2, <1>3 DEF Inv, TypeOK, recorders
<1>5. TargetInv'
  BY <1>1 DEF Inv, TypeOK, TargetInv
<1>6. \A q \in Refresher : (pc'[q] = "idle") = (pc[q] = "idle")
  BY <1>1 DEF Inv, TypeOK
<1>7. \A u \in Video : Quiet(u)' => Quiet(u)
  BY <1>1, <1>6 DEF Quiet, recorders
<1>8. RowIsRight'
  BY <1>1, <1>3, <1>7 DEF Inv, TypeOK, RowIsRight
<1>9. QED BY <1>4, <1>5, <1>8 DEF Inv

LEMMA UpsertInv ==
  ASSUME Inv, NEW r \in Refresher, Upsert(r)
  PROVE  Inv'
<1>1. /\ pc[r] = "upsert" /\ pc' = [pc EXCEPT ![r] = "idle"]
      /\ UNCHANGED <<stored, sidecar, target, read, due, recorders, failed, crashes, faults>>
  BY DEF Upsert
<1>2. PICK v \in Video : v = target[r]
  BY <1>1 DEF Inv, TargetInv
<1>3. read[r] \in State \cup {"none"} /\ SetRow(v, read[r])
  BY <1>2 DEF Inv, TypeOK, Upsert
<1>4. /\ row' \in [Video -> State \cup {"absent"}] /\ overtaken' \subseteq Video
      /\ \A u \in Video \ {v} : row'[u] = row[u] /\ (u \in overtaken <=> u \in overtaken')
      /\ v \in overtaken' \/ row'[v] = Status(sidecar[v])
  BY <1>3, SetRowFacts DEF Inv
<1>5. TypeOK'
  BY <1>1, <1>4 DEF Inv, TypeOK, recorders
<1>6. TargetInv'
  BY <1>1 DEF Inv, TypeOK, TargetInv
<1>7. \A q \in Refresher \ {r} : pc'[q] = pc[q]
  BY <1>1 DEF Inv, TypeOK
<1>8. \A u \in Video \ {v} : Quiet(u)' => Quiet(u)
  BY <1>1, <1>2, <1>7 DEF Quiet, recorders
<1>9. RowIsRight'
  BY <1>1, <1>4, <1>8 DEF Inv, TypeOK, RowIsRight
<1>10. QED BY <1>5, <1>6, <1>9 DEF Inv

LEMMA RefreshFailsInv ==
  ASSUME Inv, NEW r \in Refresher, RefreshFails(r)
  PROVE  Inv'
<1>1. /\ pc[r] # "idle" /\ pc' = [pc EXCEPT ![r] = "idle"]
      /\ UNCHANGED <<stored, sidecar, row, target, read, due, recorders, overtaken, crashes>>
  BY DEF RefreshFails
<1>2. PICK v \in Video : v = target[r]
  BY <1>1 DEF Inv, TargetInv
<1>3. failed' = failed \cup {v} /\ failed' \subseteq Video /\ faults' \in 0..MaxFaults
  BY <1>2, FailsFacts DEF Inv, RefreshFails
<1>4. TypeOK'
  BY <1>1, <1>3 DEF Inv, TypeOK, recorders
<1>5. TargetInv'
  BY <1>1 DEF Inv, TypeOK, TargetInv
<1>6. \A q \in Refresher \ {r} : pc'[q] = pc[q]
  BY <1>1 DEF Inv, TypeOK
<1>7. \A u \in Video \ {v} : Quiet(u)' => Quiet(u)
  BY <1>1, <1>2, <1>6 DEF Quiet, recorders
<1>8. RowIsRight'
  BY <1>1, <1>3, <1>7 DEF Inv, TypeOK, RowIsRight
<1>9. QED BY <1>4, <1>5, <1>8 DEF Inv

-----------------------------------------------------------------------------
(* The classifier. *)

LEMMA RecordInv ==
  ASSUME Inv, NEW v \in Video, Record(v)
  PROVE  Inv'
<1>1. /\ records' = [records EXCEPT ![v] = @ + 1] /\ records[v] < MaxRecords
      /\ rpc' = [rpc EXCEPT ![v] = "load"]
      /\ UNCHANGED <<stored, row, refreshers, loaded, overtaken, crashes>>
  BY DEF Record, RGoto
<1>2. PICK s \in State :
        /\ said' = [said EXCEPT ![v] = s]
        /\ \/ sidecar' = [sidecar EXCEPT ![v] = s] /\ UNCHANGED <<failed, faults>>
           \/ Fails(v) /\ UNCHANGED sidecar
  BY DEF Record
<1>3. records' \in [Video -> 0..MaxRecords]
  <2>1. MaxRecords \in Nat /\ records[v] \in 0..MaxRecords
    BY BoundsAssumption DEF Inv, TypeOK
  <2>2. records[v] + 1 \in 0..MaxRecords
    BY <1>1, <2>1
  <2>3. QED BY <1>1, <2>2 DEF Inv, TypeOK
<1>4. /\ sidecar' \in [Video -> State \cup {"none"}]
      /\ \A u \in Video \ {v} : sidecar'[u] = sidecar[u]
      /\ failed \subseteq failed' /\ failed' \subseteq Video /\ faults' \in 0..MaxFaults
  <2>1. CASE sidecar' = [sidecar EXCEPT ![v] = s] /\ UNCHANGED <<failed, faults>>
    BY <2>1 DEF Inv, TypeOK
  <2>2. CASE Fails(v) /\ UNCHANGED sidecar
    BY <2>2, FailsFacts DEF Inv, TypeOK
  <2>3. QED BY <1>2, <2>1, <2>2
<1>5. rpc' \in [Video -> {"idle", "load", "upsert", "update"}] /\ said' \in [Video -> State \cup {"none"}]
  BY <1>1, <1>2 DEF Inv, TypeOK
<1>6. TypeOK'
  BY <1>1, <1>3, <1>4, <1>5 DEF Inv, TypeOK, refreshers
<1>7. TargetInv'
  BY <1>1 DEF Inv, TargetInv, refreshers
<1>8. \A u \in Video : Quiet(u)' => u # v /\ Quiet(u)
  BY <1>1 DEF Quiet, refreshers, Inv, TypeOK
<1>9. RowIsRight'
  BY <1>1, <1>4, <1>8 DEF Inv, TypeOK, RowIsRight
<1>10. QED BY <1>6, <1>7, <1>9 DEF Inv

\* A step of UpsertSidecar that does not end it.
LEMMA UpsertSidecarInv ==
  ASSUME Inv, NEW v \in Video, UpsertSidecar(v) \/ UpsertSidecarFails(v)
  PROVE  Inv'
<1>1. TargetInv'
  BY DEF UpsertSidecar, UpsertSidecarFails, RecordLoads, RecordUpserts, Update, Inv, TargetInv, refreshers
<1>2. CASE RecordLoads(v)
  <2>0. PICK s \in State \cup {"none"} : LoadSidecar(v, s) /\ loaded' = [loaded EXCEPT ![v] = s]
    BY <1>2 DEF RecordLoads
  <2>1. /\ rpc' = [rpc EXCEPT ![v] = "upsert"] /\ loaded' = [loaded EXCEPT ![v] = s]
        /\ failed \subseteq failed' /\ failed' \subseteq Video /\ faults' \in 0..MaxFaults
        /\ UNCHANGED <<stored, sidecar, row, refreshers, said, records, overtaken, crashes>>
    BY <1>2, <2>0, LoadSidecarFacts DEF RecordLoads, RGoto, Inv
  <2>2. TypeOK'
    BY <2>1 DEF Inv, TypeOK, refreshers
  <2>3. \A u \in Video : Quiet(u)' => Quiet(u)
    BY <1>2, <2>1 DEF Quiet, refreshers, Inv, TypeOK
  <2>4. RowIsRight'
    BY <2>1, <2>3 DEF Inv, TypeOK, RowIsRight
  <2>5. QED BY <1>1, <2>2, <2>4 DEF Inv
<1>3. ASSUME NEW s \in State \cup {"none"}, SetRow(v, s), NEW where \in {"idle", "update"},
             rpc' = [rpc EXCEPT ![v] = where],
             UNCHANGED <<stored, sidecar, refreshers, said, loaded, records, failed, crashes, faults>>
      PROVE  Inv'
  <2>1. /\ row' \in [Video -> State \cup {"absent"}] /\ overtaken' \subseteq Video
        /\ \A u \in Video \ {v} : row'[u] = row[u] /\ (u \in overtaken <=> u \in overtaken')
        /\ v \in overtaken' \/ row'[v] = Status(sidecar[v])
    BY <1>3, SetRowFacts DEF Inv
  <2>2. TypeOK'
    BY <1>3, <2>1 DEF Inv, TypeOK, refreshers
  <2>3. \A u \in Video \ {v} : Quiet(u)' => Quiet(u)
    BY <1>3 DEF Quiet, refreshers, Inv, TypeOK
  <2>4. RowIsRight'
    BY <1>3, <2>1, <2>3 DEF Inv, TypeOK, RowIsRight
  <2>5. QED BY <1>1, <2>2, <2>4 DEF Inv
<1>4. CASE RecordUpserts(v)
  <2>1. loaded[v] \in State \cup {"none"}
    BY DEF Inv, TypeOK
  <2>2. QED BY <1>3, <1>4, <2>1 DEF RecordUpserts, RGoto
<1>5. CASE Update(v)
  <2>1. said[v] \in State \cup {"none"}
    BY DEF Inv, TypeOK
  <2>2. QED BY <1>3, <1>5, <2>1 DEF Update, RGoto
<1>6. CASE UpsertSidecarFails(v)
  <2>1. /\ rpc' = [rpc EXCEPT ![v] = "idle"]
        /\ failed' = failed \cup {v} /\ failed' \subseteq Video /\ faults' \in 0..MaxFaults
        /\ UNCHANGED <<stored, sidecar, row, refreshers, said, loaded, records, overtaken, crashes>>
    BY <1>6, FailsFacts DEF UpsertSidecarFails, RGoto, Inv
  <2>2. TypeOK'
    BY <2>1 DEF Inv, TypeOK, refreshers
  <2>3. \A u \in Video \ {v} : Quiet(u)' => Quiet(u)
    BY <2>1 DEF Quiet, refreshers, Inv, TypeOK
  <2>4. RowIsRight'
    BY <2>1, <2>3 DEF Inv, TypeOK, RowIsRight
  <2>5. QED BY <1>1, <2>2, <2>4 DEF Inv
<1>7. QED BY <1>2, <1>4, <1>5, <1>6 DEF UpsertSidecar

-----------------------------------------------------------------------------

LEMMA CrashInv ==
  ASSUME Inv, Crash
  PROVE  Inv'
<1>1. /\ crashes < MaxCrashes /\ crashes' = crashes + 1 /\ due' = stored
      /\ UNCHANGED <<stored, sidecar, row, records, overtaken, failed, faults>>
      /\ pc' = [r \in Refresher |-> "idle"] /\ target' = [r \in Refresher |-> NoVideo]
      /\ read' = [r \in Refresher |-> "none"]
      /\ rpc' = [v \in Video |-> "idle"] /\ said' = [v \in Video |-> "none"]
      /\ loaded' = [v \in Video |-> "none"]
  BY DEF Crash, Forget
<1>2. crashes' \in 0..MaxCrashes
  <2>1. MaxCrashes \in Nat /\ crashes \in 0..MaxCrashes
    BY BoundsAssumption DEF Inv, TypeOK
  <2>2. QED BY <1>1, <2>1
<1>3. TypeOK'
  BY <1>1, <1>2 DEF Inv, TypeOK
<1>4. TargetInv'
  BY <1>1 DEF TargetInv
<1>5. \A v \in stored' : ~Quiet(v)'
  BY <1>1 DEF Quiet
<1>6. RowIsRight'
  BY <1>5 DEF RowIsRight
<1>7. QED BY <1>3, <1>4, <1>6 DEF Inv

\* The rows are right in every reachable state, and so is the inductive invariant.
THEOREM Invariance == Spec => []Inv
<1>1. Inv /\ [Next]_vars => Inv'
  <2> SUFFICES ASSUME Inv, [Next]_vars PROVE Inv'
    OBVIOUS
  <2>1. CASE UNCHANGED vars
    BY <2>1 DEF vars, Inv, TypeOK, TargetInv, RowIsRight, Quiet
  <2>2. ASSUME NEW r \in Refresher, Refresh(r) \/ RefreshFails(r) PROVE Inv'
    BY <2>2, LoadInv, UpsertInv, RefreshFailsInv DEF Refresh
  <2>3. QED BY <2>1, <2>2, StoreInv, VisitInv, WalkMissesInv, RecordInv, UpsertSidecarInv, CrashInv DEF Next
<1>2. QED BY InitInv, <1>1, PTL DEF Spec

\* Type correctness; the walk is due only what is stored.
THEOREM TypeCorrect == Spec => []TypeOK
<1>1. Inv => TypeOK
  BY DEF Inv
<1>2. QED BY Invariance, <1>1, PTL

\* The row of a video nobody works on says what its sidecar says, whatever died
\* between a file or a sidecar and its row: only a failed call or read, a walk
\* that met an error or an overtaken UpsertPath (index.go:172) leaves a wrong one.
THEOREM RowIsRightHolds == Spec => []RowIsRight
<1>1. Inv => RowIsRight
  BY DEF Inv
<1>2. QED BY Invariance, <1>1, PTL

-----------------------------------------------------------------------------

\* Who writes a row leaves one.
LEMMA SetRowLists ==
  ASSUME TypeOK, NEW v \in Video, NEW s \in State \cup {"none"}, SetRow(v, s)
  PROVE  /\ row'[v] # "absent" /\ \A u \in Video : row'[u] = "absent" => row[u] = "absent"
<1>1. row' = [row EXCEPT ![v] = Status(s)] /\ Status(s) # "absent"
  BY StatusType DEF SetRow, State
<1>2. QED BY <1>1 DEF TypeOK

\* A stored video without a row is coming: the safety half of EventuallyListed
\* (Backfill, UpsertPath and their callers).
THEOREM UnlistedIsComingHolds == Spec => []UnlistedIsComing
<1>1. Init => UnlistedIsComing
  BY DEF Init, UnlistedIsComing
<1>2. ASSUME Inv, UnlistedIsComing, [Next]_vars PROVE UnlistedIsComing'
  <2> USE <1>2 DEF Inv, UnlistedIsComing
  <2>1. CASE \E v \in Video : Store(v) \/ Visit(v)
    <3>1. PICK v \in Video : Store(v) \/ Visit(v)
      BY <2>1
    <3>2. PICK r \in Refresher : /\ pc[r] = "idle" /\ pc' = [pc EXCEPT ![r] = "load"]
                                 /\ target' = [target EXCEPT ![r] = v]
      BY <3>1 DEF Store, Visit, Refresher
    <3>3. /\ row' = row /\ failed' = failed /\ due \subseteq due' \cup {v} /\ stored' \subseteq stored \cup {v}
          /\ pc'[r] = "load" /\ target'[r] = v
          /\ \A q \in Refresher : pc[q] # "idle" => pc'[q] = pc[q] /\ target'[q] = target[q]
      BY <3>1, <3>2 DEF Store, Visit, TypeOK
    <3>4. QED BY <3>3
  <2>2. CASE \E r \in Refresher : Load(r)
    <3>1. PICK r \in Refresher : Load(r)
      BY <2>2
    <3>2. /\ UNCHANGED <<row, due, stored, target>> /\ failed \subseteq failed'
          /\ \A q \in Refresher : pc[q] # "idle" => pc'[q] # "idle"
      BY <3>1 DEF Load, LoadSidecar, Fails, TypeOK
    <3>3. QED BY <3>2
  <2>3. CASE \E r \in Refresher : Upsert(r) \/ RefreshFails(r)
    <3>1. PICK r \in Refresher : Upsert(r) \/ RefreshFails(r)
      BY <2>3
    <3>2. PICK v \in Video : v = target[r]
      BY <3>1 DEF TargetInv, Upsert, RefreshFails
    <3>3. /\ UNCHANGED <<due, stored, target>>
          /\ \A q \in Refresher \ {r} : pc'[q] = pc[q]
      BY <3>1 DEF Upsert, RefreshFails, TypeOK
    <3>4. /\ failed \subseteq failed'
          /\ \A u \in Video : row'[u] = "absent" => row[u] = "absent"
          /\ row'[v] # "absent" \/ v \in failed'
      <4>1. CASE Upsert(r)
        BY <3>2, <4>1, SetRowLists DEF Upsert, TypeOK
      <4>2. CASE RefreshFails(r)
        BY <3>2, <4>2 DEF RefreshFails, Fails
      <4>3. QED BY <3>1, <4>1, <4>2
    <3>5. QED BY <3>2, <3>3, <3>4 DEF TypeOK
  <2>4. CASE \E v \in Video : Record(v) \/ UpsertSidecar(v) \/ UpsertSidecarFails(v)
    <3>1. PICK v \in Video : Record(v) \/ UpsertSidecar(v) \/ UpsertSidecarFails(v)
      BY <2>4
    <3>2. UNCHANGED <<stored, refreshers>> /\ failed \subseteq failed'
      BY <3>1 DEF Record, UpsertSidecar, RecordLoads, RecordUpserts, Update, UpsertSidecarFails, LoadSidecar, Fails
    <3>3. \A u \in Video : row'[u] = "absent" => row[u] = "absent"
      <4>1. loaded[v] \in State \cup {"none"} /\ said[v] \in State \cup {"none"}
        BY DEF TypeOK
      <4>2. QED BY <3>1, <4>1, SetRowLists
            DEF Record, UpsertSidecar, RecordLoads, RecordUpserts, Update, UpsertSidecarFails
    <3>4. QED BY <3>2, <3>3 DEF refreshers, TypeOK
  <2>5. CASE Crash
    BY <2>5 DEF Crash
  <2>6. CASE WalkMisses
    BY <2>6 DEF WalkMisses
  <2>7. CASE UNCHANGED vars
    BY <2>7 DEF vars
  <2>8. QED BY <2>1, <2>2, <2>3, <2>4, <2>5, <2>6, <2>7 DEF Next, Refresh
<1>3. QED BY Invariance, <1>1, <1>2, PTL DEF Spec
=============================================================================
