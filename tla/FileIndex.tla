----------------------------- MODULE FileIndex -----------------------------
(***************************************************************************)
(* The SQLite index of internal/fileindex/index.go and those who write it:  *)
(* the goroutine that stores messages (UpsertPath, after the classifier has *)
(* been given the video), the backfill walk of startup (UpsertPath), and    *)
(* the classifier (UpsertSidecar, after each sidecar it writes; one worker  *)
(* at a time for a video, which is OneHolder of Classify).  UpsertPath      *)
(* reads the sidecar and then writes the row, with nothing held between.    *)
(*                                                                          *)
(* A row is reduced to its detection state, and only videos are modelled:   *)
(* the row of any other file never changes once written.                    *)
(***************************************************************************)
EXTENDS Naturals, FiniteSets

CONSTANTS
  Video,
  NoVideo,
  Poster,       \* the goroutine that stores
  Walker,       \* the goroutine of Backfill
  MaxRecords,   \* bound: sidecars written for a video
  MaxCrashes,   \* bound: how often the process dies
  MaxFaults     \* bound: failed sidecar reads and writes, walk errors, failed index calls

ASSUME NoVideoAssumption == NoVideo \notin Video
ASSUME RefresherAssumption == Poster # Walker
ASSUME BoundsAssumption == {MaxRecords, MaxCrashes, MaxFaults} \subseteq Nat

VARIABLES
  stored,       \* the videos under storage_root
  sidecar,      \* sidecar[v]: the state in v's sidecar, "none" without one
  row,          \* row[v]: detect_state of v's row, "absent" without one
  pc, target, read,   \* a refresher's next step, its video and the state it has read
  due,          \* videos the walk is still to visit
  rpc, said, loaded,  \* the classifier's next step for v, the sidecar it records, the state UpsertPath read
  records,      \* records[v]: sidecars recorded
  overtaken,    \* videos whose row was last written from an outdated read
  failed,       \* videos with a failed call, or missed by the walk
  crashes, faults

refreshers == <<pc, target, read, due>>
recorders  == <<rpc, said, loaded, records>>
vars == <<stored, sidecar, row, pc, target, read, due, rpc, said, loaded, records,
          overtaken, failed, crashes, faults>>

Refresher == {Poster, Walker}
State == {"pending", "success", "failed"}

\* classify.DetectionStatus, and the state of a video without a sidecar.
Status(s) == IF s = "none" THEN "pending" ELSE s

Init ==
  /\ stored \in SUBSET Video
  /\ sidecar = [v \in Video |-> "none"]
  /\ row = [v \in Video |-> "absent"]
  /\ pc = [r \in Refresher |-> "idle"]
  /\ target = [r \in Refresher |-> NoVideo]
  /\ read = [r \in Refresher |-> "none"]
  /\ due = stored
  /\ rpc = [v \in Video |-> "idle"]
  /\ said = [v \in Video |-> "none"]
  /\ loaded = [v \in Video |-> "none"]
  /\ records = [v \in Video |-> 0]
  /\ overtaken = {} /\ failed = {}
  /\ crashes = 0 /\ faults = 0

Fails(v) ==
  /\ faults < MaxFaults
  /\ faults' = faults + 1
  /\ failed' = failed \cup {v}

\* upsert and the UPDATE: one statement, after which the row is as old as the
\* read it was made from.
SetRow(v, s) ==
  /\ row' = [row EXCEPT ![v] = Status(s)]
  /\ overtaken' = IF Status(s) = Status(sidecar[v]) THEN overtaken \ {v} ELSE overtaken \cup {v}

-----------------------------------------------------------------------------
(* UpsertPath, by the goroutine that stores or by the walk. *)

\* A message is stored; the classifier may have its video from here on.
Store(v) ==
  /\ pc[Poster] = "idle" /\ v \notin stored
  /\ stored' = stored \cup {v}
  /\ pc' = [pc EXCEPT ![Poster] = "load"]
  /\ target' = [target EXCEPT ![Poster] = v]
  /\ UNCHANGED <<sidecar, row, read, due, recorders, overtaken, failed, crashes, faults>>

\* Mutant: the walk takes a video for done that has a row.
VisitMissing(v) ==
  /\ pc[Walker] = "idle" /\ v \in due
  /\ due' = due \ {v}
  /\ IF row[v] # "absent" THEN UNCHANGED <<pc, target>>
     ELSE pc' = [pc EXCEPT ![Walker] = "load"] /\ target' = [target EXCEPT ![Walker] = v]
  /\ UNCHANGED <<stored, sidecar, row, read, recorders, overtaken, failed, crashes, faults>>

\* The walk comes across v.
Visit(v) ==
  /\ pc[Walker] = "idle" /\ v \in due
  /\ due' = due \ {v}
  /\ pc' = [pc EXCEPT ![Walker] = "load"]
  /\ target' = [target EXCEPT ![Walker] = v]
  /\ UNCHANGED <<stored, sidecar, row, read, recorders, overtaken, failed, crashes, faults>>

\* The walk gets an error for some of what it is still to visit, for the root
\* too, and goes on without it and without a word.
WalkMisses ==
  /\ pc[Walker] = "idle"
  /\ \E missed \in SUBSET due \ {{}} :
       /\ due' = due \ missed
       /\ failed' = failed \cup missed
  /\ faults < MaxFaults /\ faults' = faults + 1
  /\ UNCHANGED <<stored, sidecar, row, pc, target, read, recorders, overtaken, crashes>>

\* LoadSidecar of v yields s: what is there, or nothing because it fails, which
\* UpsertPath takes for a pending video and for no error.
LoadSidecar(v, s) ==
  \/ s = sidecar[v] /\ UNCHANGED <<failed, faults>>
  \/ s = "none" /\ Fails(v)

Load(r) ==
  /\ pc[r] = "load"
  /\ \E s \in State \cup {"none"} :
       LoadSidecar(target[r], s) /\ read' = [read EXCEPT ![r] = s]
  /\ pc' = [pc EXCEPT ![r] = "upsert"]
  /\ UNCHANGED <<stored, sidecar, row, target, due, recorders, overtaken, crashes>>

Upsert(r) ==
  /\ pc[r] = "upsert"
  /\ SetRow(target[r], read[r])
  /\ pc' = [pc EXCEPT ![r] = "idle"]
  /\ UNCHANGED <<stored, sidecar, target, read, due, recorders, failed, crashes, faults>>

\* os.Stat or the database fails; the callers log it.
RefreshFails(r) ==
  /\ pc[r] \in {"load", "upsert"}
  /\ Fails(target[r])
  /\ pc' = [pc EXCEPT ![r] = "idle"]
  /\ UNCHANGED <<stored, sidecar, row, target, read, due, recorders, overtaken, crashes>>

Refresh(r) == Load(r) \/ Upsert(r)

-----------------------------------------------------------------------------
(* The classifier: WriteSidecar, then UpsertSidecar, whatever WriteSidecar   *)
(* returned.  A video is pending first, in every process that classifies it. *)

RGoto(v, where) == rpc' = [rpc EXCEPT ![v] = where]

Record(v) ==
  /\ rpc[v] = "idle" /\ v \in stored /\ records[v] < MaxRecords
  /\ records' = [records EXCEPT ![v] = @ + 1]
  /\ \E s \in State :
       /\ s = "pending" \/ said[v] = "pending"
       /\ said' = [said EXCEPT ![v] = s]
       /\ \/ sidecar' = [sidecar EXCEPT ![v] = s] /\ UNCHANGED <<failed, faults>>
          \/ Fails(v) /\ UNCHANGED sidecar
  /\ RGoto(v, "load")
  /\ UNCHANGED <<stored, row, refreshers, loaded, overtaken, crashes>>

RecordLoads(v) ==
  /\ rpc[v] = "load"
  /\ \E s \in State \cup {"none"} : LoadSidecar(v, s) /\ loaded' = [loaded EXCEPT ![v] = s]
  /\ RGoto(v, "upsert")
  /\ UNCHANGED <<stored, sidecar, row, refreshers, said, records, overtaken, crashes>>

RecordUpserts(v) ==
  /\ rpc[v] = "upsert"
  /\ SetRow(v, loaded[v])
  /\ RGoto(v, "update")
  /\ UNCHANGED <<stored, sidecar, refreshers, said, loaded, records, failed, crashes, faults>>

Update(v) ==
  /\ rpc[v] = "update"
  /\ SetRow(v, said[v])
  /\ RGoto(v, "idle")
  /\ UNCHANGED <<stored, sidecar, refreshers, said, loaded, records, failed, crashes, faults>>

\* UpsertSidecar returns an error, which indexSidecar logs.
UpsertSidecarFails(v) ==
  /\ rpc[v] \in {"load", "upsert", "update"}
  /\ Fails(v)
  /\ RGoto(v, "idle")
  /\ UNCHANGED <<stored, sidecar, row, refreshers, said, loaded, records, overtaken, crashes>>

UpsertSidecar(v) == RecordLoads(v) \/ RecordUpserts(v) \/ Update(v)

-----------------------------------------------------------------------------

\* What a process does not find again.
Forget ==
  /\ pc' = [r \in Refresher |-> "idle"]
  /\ target' = [r \in Refresher |-> NoVideo]
  /\ read' = [r \in Refresher |-> "none"]
  /\ rpc' = [v \in Video |-> "idle"]
  /\ said' = [v \in Video |-> "none"]
  /\ loaded' = [v \in Video |-> "none"]

\* Mutant: no walk at the next start.
CrashWithoutBackfill ==
  /\ crashes < MaxCrashes
  /\ crashes' = crashes + 1
  /\ Forget
  /\ due' = {}
  /\ UNCHANGED <<stored, sidecar, row, records, overtaken, failed, faults>>

\* The process dies and is started again; the database is on disk.
Crash ==
  /\ crashes < MaxCrashes
  /\ crashes' = crashes + 1
  /\ Forget
  /\ due' = stored
  /\ UNCHANGED <<stored, sidecar, row, records, overtaken, failed, faults>>

Next ==
  \/ \E v \in Video : Store(v) \/ Visit(v) \/ Record(v) \/ UpsertSidecar(v) \/ UpsertSidecarFails(v)
  \/ \E r \in Refresher : Refresh(r) \/ RefreshFails(r)
  \/ WalkMisses
  \/ Crash

Spec == Init /\ [][Next]_vars

\* Goroutines are scheduled and the database answers.
FairSpec ==
  /\ Spec
  /\ WF_vars(\E v \in Video : Visit(v))
  /\ \A r \in Refresher : WF_vars(Refresh(r))
  /\ \A v \in Video : WF_vars(UpsertSidecar(v))

-----------------------------------------------------------------------------

TypeOK ==
  /\ stored \subseteq Video
  /\ sidecar \in [Video -> State \cup {"none"}]
  /\ row \in [Video -> State \cup {"absent"}]
  /\ pc \in [Refresher -> {"idle", "load", "upsert"}]
  /\ target \in [Refresher -> Video \cup {NoVideo}]
  /\ read \in [Refresher -> State \cup {"none"}]
  /\ due \subseteq stored
  /\ rpc \in [Video -> {"idle", "load", "upsert", "update"}]
  /\ said \in [Video -> State \cup {"none"}]
  /\ loaded \in [Video -> State \cup {"none"}]
  /\ records \in [Video -> 0..MaxRecords]
  /\ overtaken \subseteq Video
  /\ failed \subseteq Video
  /\ crashes \in 0..MaxCrashes
  /\ faults \in 0..MaxFaults

Quiet(v) == rpc[v] = "idle" /\ v \notin due /\ \A r \in Refresher : pc[r] = "idle" \/ target[r] # v

\* The dashboard is right about every video nobody is working on, even when the
\* process died between a file or a sidecar and its row: the walk of the next
\* start repairs it.  Only a failed call or read, a walk that met an error, or an
\* UpsertPath overtaken by the classifier between its read and its write leaves a
\* row that is wrong.
RowIsRight ==
  \A v \in stored : Quiet(v) /\ v \notin failed \cup overtaken => row[v] = Status(sidecar[v])

\* A stored video that the dashboard does not show yet is on the walk's way or in
\* the hands of one who will give it a row, after any crash too, or a call for it
\* has failed, the walk's error for it included: nothing else keeps it from being shown, whatever the classifier does.
UnlistedIsComing ==
  \A v \in stored : row[v] = "absent" =>
    v \in due \cup failed \/ \E r \in Refresher : pc[r] # "idle" /\ target[r] = v

\* A stored video appears on the dashboard, across crashes, unless a call for it
\* failed or the walk met an error at it.
EventuallyListed == \A v \in Video : (v \in stored) ~> (row[v] # "absent" \/ v \in failed)

\* index.go:172, "UpsertPath refreshes metadata for one file path": an upsert
\* does not replace a right state by an outdated one.
RefreshIsFresh ==
  [][\A v \in Video : row[v] = Status(sidecar[v]) /\ UNCHANGED sidecar
        => row'[v] = Status(sidecar[v])]_vars
=============================================================================
