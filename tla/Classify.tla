------------------------------ MODULE Classify ------------------------------
(***************************************************************************)
(* The classification service of internal/classify/service.go: a bounded    *)
(* channel of jobs, the set "queued" that keeps a video from being queued   *)
(* twice (its mutex is held for one access at a time, never across the      *)
(* channel operation), the workers that run processWithRetry and persist a  *)
(* sidecar per video, and the backfill walk of startup.                     *)
(*                                                                          *)
(* Callers are the goroutines that store messages and then call Enqueue for *)
(* what they stored: the spool's worker, or the SMTP sessions without one.  *)
(* A message is reduced to one video; file[v] is "writing" until the whole  *)
(* message is stored.  The sidecar's content is reduced to its state, and   *)
(* to whether it records a publication.                                     *)
(***************************************************************************)
EXTENDS Naturals, Sequences, FiniteSets

CONSTANTS
  Video,         \* paths of video attachments
  Recent,        \* those within the backfill window at every start
  NoVideo,
  Caller,        \* the goroutines that store and enqueue
  Walker,        \* the backfill goroutine
  Worker,        \* the classification workers
  QueueSize,     \* capacity of the channel
  RetryMax,
  MaxCrashes,    \* bound: how often the process dies
  MaxFaults      \* bound: how many sidecar writes fail

ASSUME RecentAssumption == Recent \subseteq Video
ASSUME NoVideoAssumption == NoVideo \notin Video
ASSUME WalkerAssumption == Walker \notin Caller
ASSUME BoundsAssumption == {QueueSize, RetryMax, MaxCrashes, MaxFaults} \subseteq Nat

VARIABLES
  file,        \* file[v]: "absent", "writing" or "stored"
  sidecar,     \* sidecar[v]: what <video>.detections.json says
  chan,        \* the channel of jobs
  queued,      \* Service.queued
  ppc, item,   \* ppc[p], item[p]: a producer's next step and its video
  walk,        \* walk[v]: is v "due" to the walk, may it come across v, or has it "seen" it
  wpc, job,    \* wpc[w], job[w]: a worker's next step and its job
  attempt,     \* attempt[w]
  notified,    \* notified[v]: the detection events published
  dropped,     \* videos some producer found no room for
  unwritten,   \* videos with a sidecar write that failed
  missed,      \* videos some walk owed a visit and did not see
  crashes, faults

producers == <<ppc, item, walk>>
workers   == <<wpc, job, attempt>>
history   == <<notified, dropped, missed>>
writes    == <<sidecar, unwritten, faults>>
vars == <<file, sidecar, chan, queued, ppc, item, walk, wpc, job, attempt,
          notified, dropped, missed, unwritten, crashes, faults>>

Producer == Caller \cup {Walker}

Final == {"success", "failed", "skipped"}

\* "outdated" is a success of an older schema version.
SidecarStates == {"none", "outdated", "pending"} \cup Final

Sidecar(state, published) == [state |-> state, published |-> published]
Job(v, notify) == [video |-> v, notify |-> notify]
NoJob == Job(NoVideo, FALSE)

\* What the walk of a process that finds these files must, may and will not visit.
StartWalk(files) ==
  [v \in Video |-> IF files[v] = "absent" THEN "maybe" ELSE IF v \in Recent THEN "due" ELSE "seen"]

\* Earlier processes have left videos that were never classified, that were, or
\* that an older version classified.
Init ==
  /\ file \in [Video -> {"absent", "stored"}]
  /\ sidecar \in [Video -> {Sidecar(s, FALSE) : s \in {"none", "outdated", "success"}}]
  /\ \A v \in Video : file[v] = "absent" => sidecar[v].state = "none"
  /\ chan = <<>> /\ queued = {}
  /\ ppc = [p \in Producer |-> "idle"] /\ item = [p \in Producer |-> NoVideo]
  /\ walk = StartWalk(file)
  /\ wpc = [w \in Worker |-> "idle"] /\ job = [w \in Worker |-> NoJob]
  /\ attempt = [w \in Worker |-> 0]
  /\ notified = [v \in Video |-> 0]
  /\ dropped = {} /\ unwritten = {} /\ missed = {}
  /\ crashes = 0 /\ faults = 0

\* WriteSidecar: a temporary file renamed, so the old or the new content; its
\* error is logged or ignored.
Write(v, s) ==
  \/ /\ sidecar' = [sidecar EXCEPT ![v] = s]
     /\ UNCHANGED <<unwritten, faults>>
  \/ /\ faults < MaxFaults
     /\ faults' = faults + 1
     /\ unwritten' = unwritten \cup {v}
     /\ UNCHANGED sidecar

-----------------------------------------------------------------------------
(* Producers: callers of Enqueue and the backfill walk. *)

Goto(p, where) == ppc' = [ppc EXCEPT ![p] = where]

\* A caller begins to write a message with video v ...
StartStoring(c, v) ==
  /\ ppc[c] = "idle" /\ file[v] = "absent"
  /\ file' = [file EXCEPT ![v] = "writing"]
  /\ item' = [item EXCEPT ![c] = v]
  /\ Goto(c, "store")
  /\ UNCHANGED <<walk, workers, writes, chan, queued, history, crashes>>

\* ... and has written it all: Enqueue is next ...
Stored(c) ==
  /\ ppc[c] = "store"
  /\ file' = [file EXCEPT ![item[c]] = "stored"]
  /\ Goto(c, "mark")
  /\ UNCHANGED <<item, walk, workers, writes, chan, queued, history, crashes>>

\* ... or fails, and leaves what it has written.
StoringFails(c) ==
  /\ ppc[c] = "store"
  /\ Goto(c, "idle")
  /\ UNCHANGED <<file, item, walk, workers, writes, chan, queued, history, crashes>>

\* Mutant: every video with a sidecar is skipped.
VisitUntouched(v) ==
  /\ ppc[Walker] = "idle" /\ walk[v] # "seen" /\ file[v] # "absent"
  /\ walk' = [walk EXCEPT ![v] = "seen"]
  /\ IF sidecar[v].state # "none" THEN UNCHANGED <<ppc, item>>
     ELSE Goto(Walker, "mark") /\ item' = [item EXCEPT ![Walker] = v]
  /\ UNCHANGED <<file, workers, writes, chan, queued, history, crashes>>

\* backfill comes across v, and reads its sidecar, which says success and is of
\* this version, or says something else or cannot be read.
Visit(v) ==
  /\ ppc[Walker] = "idle" /\ walk[v] # "seen" /\ file[v] # "absent"
  /\ walk' = [walk EXCEPT ![v] = "seen"]
  /\ \/ sidecar[v].state = "success" /\ UNCHANGED <<ppc, item>>
     \/ Goto(Walker, "mark") /\ item' = [item EXCEPT ![Walker] = v]
  /\ UNCHANGED <<file, workers, writes, chan, queued, history, crashes>>

\* The video, a directory above it or storage_root cannot be read: the walk goes
\* on without a word, or is over without having begun.
WalkMisses(v) ==
  /\ ppc[Walker] = "idle" /\ walk[v] = "due"
  /\ walk' = [walk EXCEPT ![v] = "seen"]
  /\ missed' = missed \cup {v}
  /\ UNCHANGED <<file, ppc, item, workers, writes, chan, queued, notified, dropped, crashes>>

\* The walk ends when it has visited or missed all it found; it need not come
\* across what was stored after it had listed a directory.
WalkEnds ==
  /\ ppc[Walker] = "idle" /\ \A v \in Video : walk[v] # "due"
  /\ Goto(Walker, "ended")
  /\ UNCHANGED <<file, item, walk, workers, writes, chan, queued, history, crashes>>

\* Enqueue and enqueueBackfill under the mutex: a queued video is refused.
Mark(p) ==
  /\ ppc[p] = "mark"
  /\ \/ /\ item[p] \in queued
        /\ Goto(p, "idle")
        /\ UNCHANGED queued
     \/ /\ item[p] \notin queued
        /\ queued' = queued \cup {item[p]}
        /\ Goto(p, "send")
  /\ UNCHANGED <<file, item, walk, workers, writes, chan, history, crashes>>

\* Mutant: the walk asks for notifications too.
SendNotifying(p) ==
  /\ ppc[p] = "send" /\ Len(chan) < QueueSize
  /\ chan' = Append(chan, Job(item[p], TRUE))
  /\ Goto(p, "idle")
  /\ UNCHANGED <<file, item, walk, workers, writes, queued, history, crashes>>

\* The non-blocking send: only a caller's job publishes notifications.
Send(p) ==
  /\ ppc[p] = "send" /\ Len(chan) < QueueSize
  /\ chan' = Append(chan, Job(item[p], p # Walker))
  /\ Goto(p, "idle")
  /\ UNCHANGED <<file, item, walk, workers, writes, queued, history, crashes>>

\* The channel is full: the video is dropped ...
SendFull(p) ==
  /\ ppc[p] = "send" /\ Len(chan) = QueueSize
  /\ dropped' = dropped \cup {item[p]}
  /\ Goto(p, "unmark")
  /\ UNCHANGED <<file, item, walk, workers, writes, chan, queued, notified, missed, crashes>>

\* Mutant: a dropped video stays queued.
UnmarkForgotten(p) ==
  /\ ppc[p] = "unmark"
  /\ Goto(p, "idle")
  /\ UNCHANGED <<file, item, walk, workers, writes, chan, queued, history, crashes>>

\* ... and the mutex taken again to delete it from queued.
Unmark(p) ==
  /\ ppc[p] = "unmark"
  /\ queued' = queued \ {item[p]}
  /\ Goto(p, "idle")
  /\ UNCHANGED <<file, item, walk, workers, writes, chan, history, crashes>>

Produce(p) == Mark(p) \/ Send(p) \/ SendFull(p) \/ Unmark(p)

-----------------------------------------------------------------------------
(* Workers. *)

WGoto(w, where) == wpc' = [wpc EXCEPT ![w] = where]

\* Mutant: the video leaves queued when its job leaves the channel.
TakeReleases(w) ==
  /\ wpc[w] = "idle" /\ chan # <<>>
  /\ job' = [job EXCEPT ![w] = Head(chan)]
  /\ chan' = Tail(chan)
  /\ WGoto(w, "reset")
  /\ queued' = queued \ {Head(chan).video}
  /\ UNCHANGED <<file, producers, attempt, writes, history, crashes>>

Take(w) ==
  /\ wpc[w] = "idle" /\ chan # <<>>
  /\ job' = [job EXCEPT ![w] = Head(chan)]
  /\ chan' = Tail(chan)
  /\ WGoto(w, "reset")
  /\ UNCHANGED <<file, producers, attempt, writes, queued, history, crashes>>

\* processWithRetry begins: whatever the sidecar said, it is pending.
Reset(w) ==
  /\ wpc[w] = "reset"
  /\ Write(job[w].video, Sidecar("pending", FALSE))
  /\ attempt' = [attempt EXCEPT ![w] = 1]
  /\ WGoto(w, "try")
  /\ UNCHANGED <<file, producers, job, chan, queued, history, crashes>>

StartAttempt(w) ==
  /\ wpc[w] = "try"
  /\ Write(job[w].video, Sidecar("pending", FALSE))
  /\ WGoto(w, "run")
  /\ UNCHANGED <<file, producers, job, attempt, chan, queued, history, crashes>>

\* ffmpeg is not installed: no retry.
Skip(w) ==
  /\ wpc[w] = "run"
  /\ Write(job[w].video, Sidecar("skipped", FALSE))
  /\ WGoto(w, "release")
  /\ UNCHANGED <<file, producers, job, attempt, chan, queued, history, crashes>>

\* Mutant: one attempt too many.
AttemptFailsOnceMore(w) ==
  /\ wpc[w] = "run" /\ attempt[w] <= RetryMax + 1
  /\ attempt' = [attempt EXCEPT ![w] = @ + 1]
  /\ WGoto(w, "try")
  /\ UNCHANGED <<file, producers, job, writes, chan, queued, history, crashes>>

\* Mutant: the attempts are not counted.
AttemptFailsAgain(w) ==
  /\ wpc[w] = "run"
  /\ WGoto(w, "try")
  /\ UNCHANGED <<file, producers, job, attempt, writes, chan, queued, history, crashes>>

\* Frame extraction or the provider fails: the next attempt after a pause.
AttemptFails(w) ==
  /\ wpc[w] = "run" /\ attempt[w] <= RetryMax
  /\ attempt' = [attempt EXCEPT ![w] = @ + 1]
  /\ WGoto(w, "try")
  /\ UNCHANGED <<file, producers, job, writes, chan, queued, history, crashes>>

\* ... or, after the last, the failed sidecar.
GiveUp(w) ==
  /\ wpc[w] = "run" /\ attempt[w] > RetryMax
  /\ Write(job[w].video, Sidecar("failed", FALSE))
  /\ WGoto(w, "release")
  /\ UNCHANGED <<file, producers, job, attempt, chan, queued, history, crashes>>

\* Mutant: the event is published before the sidecar is written.
SucceedUnwritten(w) ==
  /\ wpc[w] = "run"
  /\ IF job[w].notify THEN UNCHANGED writes ELSE Write(job[w].video, Sidecar("success", FALSE))
  /\ WGoto(w, IF job[w].notify THEN "publish" ELSE "release")
  /\ UNCHANGED <<file, producers, job, attempt, chan, queued, history, crashes>>

\* The provider answers.
Succeed(w) ==
  /\ wpc[w] = "run"
  /\ Write(job[w].video, Sidecar("success", FALSE))
  /\ WGoto(w, IF job[w].notify THEN "publish" ELSE "release")
  /\ UNCHANGED <<file, producers, job, attempt, chan, queued, history, crashes>>

\* PublishClassification: no event for a category nobody asked for, which is no
\* error, and an error after the event if the motion state cannot be published.
Publish(w) ==
  /\ wpc[w] = "publish"
  /\ \/ notified' = [notified EXCEPT ![job[w].video] = @ + 1]
     \/ UNCHANGED notified
  /\ \E where \in {"published", "unpublished"} : WGoto(w, where)
  /\ UNCHANGED <<file, producers, job, attempt, writes, chan, queued, dropped, missed, crashes>>

\* There is no notifier: notifications are not configured.
PublishNothing(w) ==
  /\ wpc[w] = "publish"
  /\ WGoto(w, "release")
  /\ UNCHANGED <<file, producers, job, attempt, writes, chan, queued, history, crashes>>

\* The sidecar is written again with the outcome.
Record(w) ==
  /\ wpc[w] \in {"published", "unpublished"}
  /\ Write(job[w].video, Sidecar("success", wpc[w] = "published"))
  /\ WGoto(w, "release")
  /\ UNCHANGED <<file, producers, job, attempt, chan, queued, history, crashes>>

\* processWithRetry has returned.
Release(w) ==
  /\ wpc[w] = "release"
  /\ queued' = queued \ {job[w].video}
  /\ WGoto(w, "idle")
  /\ UNCHANGED <<file, producers, job, attempt, writes, chan, history, crashes>>

Work(w) ==
  \/ Take(w) \/ Reset(w) \/ StartAttempt(w) \/ Skip(w) \/ AttemptFails(w) \/ GiveUp(w)
  \/ Succeed(w) \/ Publish(w) \/ PublishNothing(w) \/ Record(w) \/ Release(w)

-----------------------------------------------------------------------------

\* The process dies and is started again: files and sidecars are all it finds.
Crash ==
  /\ crashes < MaxCrashes
  /\ crashes' = crashes + 1
  /\ chan' = <<>> /\ queued' = {}
  /\ ppc' = [p \in Producer |-> "idle"] /\ item' = [p \in Producer |-> NoVideo]
  /\ walk' = StartWalk(file)
  /\ wpc' = [w \in Worker |-> "idle"] /\ job' = [w \in Worker |-> NoJob]
  /\ attempt' = [w \in Worker |-> 0]
  /\ UNCHANGED <<file, writes, history>>

CallerStep(c) == (\E v \in Video : StartStoring(c, v)) \/ Stored(c) \/ StoringFails(c)
WalkStep == WalkEnds \/ \E v \in Video : Visit(v) \/ WalkMisses(v)

Next ==
  \/ \E c \in Caller : CallerStep(c)
  \/ WalkStep
  \/ \E p \in Producer : Produce(p)
  \/ \E w \in Worker : Work(w)
  \/ Crash

Spec == Init /\ [][Next]_vars

\* Goroutines are scheduled, and what they wait for (the storage, ffmpeg, the
\* provider, the broker, the pause) answers, with a result or an error.
FairSpec ==
  /\ Spec
  /\ \A c \in Caller : WF_vars(Stored(c) \/ StoringFails(c))
  /\ WF_vars(WalkStep)
  /\ \A p \in Producer : WF_vars(Produce(p))
  /\ \A w \in Worker : WF_vars(Work(w))

-----------------------------------------------------------------------------
(* Properties. *)

TypeOK ==
  /\ file \in [Video -> {"absent", "writing", "stored"}]
  /\ sidecar \in [Video -> [state : SidecarStates, published : BOOLEAN]]
  /\ chan \in Seq([video : Video, notify : BOOLEAN])
  /\ queued \subseteq Video
  /\ ppc \in [Producer -> {"idle", "store", "mark", "send", "unmark", "ended"}]
  /\ item \in [Producer -> Video \cup {NoVideo}]
  /\ walk \in [Video -> {"due", "maybe", "seen"}]
  /\ wpc \in [Worker -> {"idle", "reset", "try", "run", "publish", "published", "unpublished", "release"}]
  /\ job \in [Worker -> [video : Video \cup {NoVideo}, notify : BOOLEAN]]
  /\ attempt \in [Worker -> 0..(RetryMax + 1)]
  /\ notified \in [Video -> Nat]
  /\ dropped \subseteq Video
  /\ unwritten \subseteq Video
  /\ missed \subseteq Video
  /\ crashes \in 0..MaxCrashes
  /\ faults \in 0..MaxFaults

\* Who holds a video: a producer between its two visits to the mutex, a slot of
\* the channel, or a worker.
Sending(p) == ppc[p] \in {"send", "unmark"}
Busy(w) == wpc[w] # "idle"

Sent == {item[p] : p \in {q \in Producer : Sending(q)}}
Waiting == {chan[i].video : i \in 1..Len(chan)}
Classified == {job[w].video : w \in {x \in Worker : Busy(x)}}

HeldOnce ==
  /\ \A p, q \in Producer : Sending(p) /\ Sending(q) /\ item[p] = item[q] => p = q
  /\ \A i, j \in 1..Len(chan) : chan[i].video = chan[j].video => i = j
  /\ \A w, x \in Worker : Busy(w) /\ Busy(x) /\ job[w].video = job[x].video => w = x
  /\ Sent \cap Waiting = {} /\ Sent \cap Classified = {} /\ Waiting \cap Classified = {}

\* No video is classified by two workers at once, or queued twice: queued names
\* exactly the videos held, and each is held once.
OneHolder == queued = Sent \cup Waiting \cup Classified /\ HeldOnce

\* What may be left without a verdict: the queue was full, a sidecar was not
\* written, or a walk could not read the video.
Spared == dropped \cup unwritten \cup missed

\* A sidecar says pending only as long as somebody is going to decide: the
\* service holds the video or its walk will still see it.  The exceptions are a
\* full queue, a failed write, a video that has left the window and one that a
\* walk could not read.
PendingIsOwed ==
  \A v \in Video : sidecar[v].state = "pending" =>
    \/ v \in queued
    \/ walk[v] = "due" \/ (ppc[Walker] = "mark" /\ item[Walker] = v)
    \/ v \in Spared \cup (Video \ Recent)

\* Enqueue refuses a caller for the sake of the walk only, whose job is still
\* under way and notifies nobody: a caller's own video is never refused because
\* of what an earlier call, dropped job or classification has left behind.
RefusedForWalk ==
  \A c \in Caller : ppc[c] = "mark" /\ item[c] \in queued =>
    \/ Sending(Walker) /\ item[Walker] = item[c]
    \/ \E i \in 1..Len(chan) : chan[i] = Job(item[c], FALSE)
    \/ \E w \in Worker : Busy(w) /\ job[w] = Job(item[c], FALSE)

\* The event of a video is published at most once, whatever crashes, walks and
\* classifications are repeated, and only after its message is stored, as
\* README.md:43 promises.  (It promises the same of classification, which is
\* not so: the walk finds videos whose message is still being written.)
NotifiedOnce ==
  \A v \in Video : notified[v] <= 1 /\ (notified[v] = 1 => file[v] = "stored")

\* A video in the window that is stored gets a final sidecar, across crashes,
\* unless the queue had no room for it, a write of the sidecar failed or a walk
\* could not read it.
Decided ==
  \A v \in Recent :
    (file[v] = "stored") ~> (sidecar[v].state \in Final \/ v \in Spared)

\* The service implements what it promises to those who store videos and to
\* those who are notified: what the queue, the retries, the repeated writes of
\* a sidecar and the walk do to a video is a step of the promise or none.
Given(v) == \E c \in Caller : ppc[c] \in {"mark", "send"} /\ item[c] = v
Notifying(v) ==
  \/ \E i \in 1..Len(chan) : chan[i] = Job(v, TRUE)
  \/ \E w \in Worker : job[w] = Job(v, TRUE) /\ wpc[w] \in {"reset", "try", "run", "publish"}

Service == INSTANCE ClassifyAbstract WITH
  verdict <- {v \in Video : sidecar[v].state \in Final},
  spared <- Spared,
  event <- [v \in Video |-> IF notified[v] > 0 THEN "paid"
                            ELSE IF Given(v) THEN "due"
                            ELSE IF Notifying(v) THEN "owed" ELSE "none"]

KeepsService == Service!Spec
=============================================================================
