# smtp-store in TLA+

smtp-store is a daemon that takes mail from cameras, writes the message and its
attachments below `storage_root`, classifies the videos, indexes the files in SQLite,
publishes detections over MQTT and shows all of it in a web UI. This directory holds its
specifications, the TLC configurations that check them, and proofs that TLAPS checks.

    tlc -config MCSpool.cfg MCSpool.tla      # any run: the cfg and its module
    tlapm SpoolProofs.tla                    # any proof module

`PROJECT.json` lists the runs, the source lines every definition stands for, the
hazards, the mutants that show each property can fail, the findings and the theorems.

## 1. Inventory

| Component | State it keeps | Operations | Hard behaviour |
|---|---|---|---|
| Spool (`internal/spool`) | four directories, one mutex | `Enqueue`, the worker (`run`, `flush`, `processOne`), `recoverProcessing` | crash between store and remove; the worker's renames during the size measurement; outages; failing renames; loss of power with what is not synced |
| Storage writer (`internal/storage`) | files below `storage_root` | `ProcessAndStore`, `CheckWritable`, `IsUnavailableError` | concurrent calls with the same prefix; partial results |
| SMTP sessions (`internal/smtpserver`) | per session: authenticated, recipients | AUTH, MAIL, RCPT, DATA, RSET | what a reply promises, across faults, to clients that may miss it |
| Process (`cmd/smtp-store/main.go`, systemd unit) | `storageFaultSignaled`, `errCh` | start, watchdog, fault handler, exit, restart | one exit for many reports; a start that waits for the broker; restart during an outage |
| Classification (`internal/classify/service.go`) | channel, `queued`, sidecar files | `Enqueue`, workers, `backfill`, normalisation of answers | de-duplication without a lock across the send; retries; crash with a pending sidecar; a walk that skips what it cannot read |
| Provider, extractor (`gemini.go`, `extractor_ffmpeg.go`) | none | one call each | they fail, and answer in shapes nobody asked for |
| File index (`internal/fileindex`) | table `files` | `UpsertPath`, `UpsertSidecar`, `Backfill`, queries | read-then-write races with the classifier; crash between file and row; rows of files that are gone |
| MQTT publisher (`internal/mqttnotify`) | connection, timers; retained topics at the broker | `NewWithClient`, `Start`, `PublishClassification`, `resetMotion` | timers lost in a crash; retained state after a lost link; names that reduce to one identifier |
| Configuration (`internal/config`) | the parsed file | `Load`: defaults, validation; accessors | boundaries, zero as default, names that differ in case only |
| Web UI (`internal/webui`) | none; sessions are signed tokens in cookies | login, logout, the routes | tokens that outlive the process; redirections between routes; links to what is gone, or on a storage that is |

Who calls whom: a session gives the message to `Queue.Enqueue`, or without a spool to
`ProcessAndStore`. The spool's worker calls `ProcessAndStore` and then main's
`postStore`, which enqueues the videos for classification and indexes the files. The
classifier's workers write the sidecar, call `Index.UpsertSidecar`, and call
`Publisher.PublishClassification` for jobs that came through `Enqueue`. Two walks of
`storage_root`, one in the classifier and one in the index, run once per start beside
all that. The UI reads the index or, without one, walks `storage_root`. There is no
signal handling and the context is never cancelled: every stop is a crash, and the
branches on `ctx.Done()` are dead code in this program.

What makes each correct: the spool keeps what it accepts and leaves nothing of what it
refuses; the writer never mixes two messages; a reply of 250 is true; a video is
classified by one worker at a time, decided in the end and notified at most once; a row
agrees with its sidecar; a motion state that is on is reset, and an event tells of what
the provider was sure of; a configuration that is accepted is one the program can run
with; a session lasts as long as configured, and links and redirections lead somewhere.

## 2. Modules

| Module | Models | Level |
|---|---|---|
| `SpoolAbstract` | what the spool promises to a client: kept or refused | abstract |
| `Spool` | `spool.go` with its callers' replies, outages and crashes | detailed; implements `SpoolAbstract` |
| `PowerLoss` | `Spool` on disks that lag behind it, and losses of power | extends `Spool` |
| `Storage` | `ProcessAndStore`, one action per file operation, any number of calls | detailed |
| `Server` | sessions, fault handler, watchdog, start, exit and restart, in four wirings, with and without MQTT | detailed; spool and writer are one step each |
| `ClassifyAbstract` | what the classification service promises: one event or none, a verdict or a reason why not | abstract |
| `Classify` | `service.go` with the sidecar files, its callers and its walk | detailed; implements `ClassifyAbstract` |
| `Delivery` | `Spool` and `ClassifyAbstract` in one process above one `storage_root`, joined as main joins them | composition |
| `FileIndex` | the writers of the table | detailed; assumes `OneHolder` of `Classify` (one worker per video) |
| `Detection` | what is read from a reply of the provider and kept of it | operators |
| `Mqtt` | the publisher, the link and the broker's retained messages, with answers of `Detection` | detailed; client library and broker as they are used |
| `Config` | `Load`: defaults, validation, accessors; what main exits for after it | operators on a configuration file |
| `Web` | logins, routes, links, the process that loads configurations of `Config` | detailed |
| `SpoolProofs`, `StorageProofs`, `ClassifyProofs`, `ServerProofs`, `FileIndexProofs`, `MqttProofs`, `WebProofs` | theorems about one component each | |
| `SystemProofs` | theorems about `Delivery` and `PowerLoss`, on top of `SpoolProofs` | |
| `MC*` | instances for TLC | |

How state and actions correspond to the code:

- **Spool.** The state of an item is the set of directories that hold its file
  (`tmp`, `pending`, `processing`, `failed`); a rename moves it. `mu` and `epc` are the
  one session in `Enqueue` (the mutex admits one), `walk` and `total` the progress of
  `sizeLocked`, which measures name by name because the worker renames meanwhile.
  `wpc`, `cur` and `toRecover` are the worker. A message is a number in the order of the
  spool ids. `copies` and `partials` count what `ProcessAndStore` has left in
  `storage_root`. `faults` counts the calls on a disk that fail unexpectedly.
- **PowerLoss.** `journal` holds the changes of names that `Spool`'s steps have made in
  the spool's directories and the disk has not; `entry`, `written` and `safe` are the
  disks. `Synced` is the one `Sync` of the program, in `Enqueue`; `Publish` syncs and
  renames in one step, so what is checked is that the item is synced, not where. The
  copies in `storage_root` are in no journal: nothing syncs them, so `Harden` brings one
  to the disk at any time after it was written, unless the power goes first.
- **Storage.** A file is a record of its name (slot, candidate number, part), its writer
  and whether it is complete. A slot is a directory and a second. `OpenFree` and
  `OpenTaken` are the two outcomes of `O_CREATE|O_EXCL`; attachments are opened
  with `O_TRUNC`, so `Put` replaces.
- **Server.** `mode` is the wiring: `spool` (main with `spool.enabled`), `direct` (what
  `NewWithStorageFaultHandler` builds and server.go's own branches are for), `bare`
  (what `New` builds, without a fault handler: an outage is answered 554) and
  `unspooled` (what main builds without `spool.enabled`: an interface holding a nil
  queue). A client that does not wait for the reply to `DATA`, or cannot receive it, is
  `gone` (`HangUp`): the session stores the message all the same, and the client, which
  was told nothing, may send it again on another session. `process = "connecting"` is
  main in `Publisher.Start`, before the listener; `signaled` and `exit` are the fault
  handler, `watching` the watchdog.
- **Classify.** `chan` and `queued` are the fields of `Service`; a producer (a caller
  of `Enqueue`, or the walk) is between mark, send and unmark because the mutex is
  released in between. `file[v] = "writing"` while the message of v is being stored.
  `WalkMisses` is the walk at what it cannot read, be it a video, a directory or
  `storage_root` itself: it goes on without a word, and the video is among the `missed`.
  `Service` is the refinement mapping: the event of a video is "due" while a caller is
  about to queue it, "owed" while a notifying job carries it, then "paid".
- **Delivery.** The video of the k-th time a message is stored is `<<m, k>>`. The spool's
  `StoreBody` makes it appear, `StoreAttachments` completes it, and `GiveVideo` is the
  call of `Enqueue` in `postStore`. A crash takes both parts down, and an outage reaches
  both: while `storage_root` is away no verdict is written or taken back (`Serving`), and
  the service may miss any video (`Miss`).
- **FileIndex.** A row and a sidecar are reduced to the detection state. `Load` and
  `Upsert` are separate because nothing is held between the read and the write;
  `overtaken` names the rows that were last written from an outdated read. A sidecar that
  cannot be read counts as pending (`LoadSidecar`), and a video that the walk cannot read
  is passed over (`WalkMisses`).
- **Detection, Mqtt.** A reply has a shape (an object, prose around it, a list, noise)
  and detections with two texts, a confidence and the way it is written. Confidences are
  floating point numbers in the code; here they are counted in units, `Percent` of which
  are one percent, as fine as one likes, and the rounding of a division is left out.
  `status`, `motion` and `documents` are retained topics, `timers` the goroutines in
  `resetMotion`, `next` the camera `Start` announces next. `TopicId` and `Base` are the
  two functions that reduce a name; users may change between runs.
- **Config, Web.** A configuration file is a record of functions from keys to what is
  written there; `Accepts` is `Load`, `Starts` what main exits for later (a provider it
  does not know, a certificate that is no pair with its key). `Answer(b, l)` is the
  response to a browser at a location, by handler, with the 400, 404 and 500 of paths;
  `Followed` is the browser's next request. `storage` is what a handler meets below
  `storage_root`: everything, an empty mount point, errors of `Stat`, or errors of the
  reads after it. Files go with `Delete`, alone or with their folder, which somebody
  outside the program does; `Temp` are the temporary files of sidecars. `ReadAs` is what
  `resolvePathFromRequest` makes of a name that holds an escape. A tick is half a second,
  since tokens and cookies count whole seconds. A client that keeps its cookie after a
  logout is where it was, since the server keeps no sessions.

Operators named in a comment "Mutant: ..." are not part of a specification. Each is a
plausible bug in the definition that follows it; with the bug in its place the property
that PROJECT.json pairs it with fails.

## 3. Runs

| Run | Properties | States, time | What it shows |
|---|---|---|---|
| `spool` | Custody, DebrisBudget, EachCopyIsGiven, OutageSparesMessages, NothingStranded, SpoolBound, KeepsPromise | 1.25 M, 41 s | the spool keeps its promise with a crash, an outage and two unexpected errors anywhere; every leftover is paid for by one of them, and so is every stored copy that classification is not given |
| `powerloss` | ItemsAreWhole, LossHasAWindow | 1.23 M, 16 s | with two losses of power no half item is found, and an accepted message is lost in two windows only |
| `storage` | StoredIntact, TriesAreFew, NoClobber, CallsEnd | 45 k, 6 s | concurrent calls never mix, try as many names as there are calls at most, and end |
| `classify` | TypeOK, OneHolder, PendingIsOwed, NotifiedOnce, RefusedForWalk, KeepsService | 4.57 M, 128 s | one holder, one notification, which is refused for the sake of the walk only; no orphaned pending; the service implements its promise |
| `classify_live` | Decided | 0.39 M, 23 s | every stored video is decided, across a crash, unless the walk could not read it |
| `delivery` | AlertsAreEarned, Delivered | 0.78 M, 157 s | one alert per message but for crashes and failed removals, none for a refused one; what is in the spool is stored and decided, unless the service misses it |
| `index` | RowIsRight, EventuallyListed | 0.87 M, 64 s | rows are right when nobody works on the video, and every video gets one |
| `index_stale` | RefreshIsFresh (violated) | | finding 1 |
| `server` | AcceptedIsKept, DuplicatesHaveCause, OutageIsHeard, OutageRestarts, ServesAgain | 0.87 M, 81 s | 250 is true; each duplicate has a kill, an outage or a missed reply to it; no outage is overheard where it has to end the process, and it does; it serves again |
| `server_nil` | SpoolIsOptional (violated) | | finding 2 |
| `mqtt` | MotionCovered, OnlineIsAlive, CamerasAreDescribed, AlertsAreSure, MotionEnds | 0.19 M, 29 s | a motion that is on is reset, cameras keep their documents, events are earned |
| `web` | LoadedIsSafe, LoginLasts, SessionEnds, RedirectsEnd, LinksLead | 80 k, 56 s | what runs has a safe configuration, sessions last as configured, redirections end; links lead to what they name, or nowhere when it or the storage is gone |

`CHECK_DEADLOCK FALSE` is set for Classify, FileIndex and Mqtt, which wait when there
is nothing to do and every bound is used up.

Some properties except a case, each because the program does go wrong there:

- `CamerasAreDescribed`: users whose names crowd one object id (publisher.go:84 may give
  an id twice).
- `AlertsAreSure`: a confidence of one percent or less that is written in percent, and
  read as a fraction (service.go:405): 0.7 counts as 70 percent.
- `PendingIsOwed`, `Decided`, `Delivered`: a full queue (service.go:166), a sidecar that
  could not be written, and a video that a walk could not read (service.go:338, 348);
  nobody looks for it before the next start.
- `LoginLasts`: user names with the token's separator, which can log in and are never
  logged in; and the second that is rounded away.
- `LinksLead`: names that hold an escape (server.go:648 unescapes a second time, so that
  the link may lead to another file). A row whose file is gone, such as that of a
  sidecar's temporary file (index.go:141), leads nowhere, which the property allows.
- `MotionCovered`, `MotionEnds`: a motion state whose last publication failed, or whose
  user is no longer configured.
- `RowIsRight`, `EventuallyListed`: a failed call, and a sidecar or a video that could not
  be read; for `RowIsRight` also an upsert that was overtaken (finding 1).

### Bounds

- *Spool*: three deliveries: one that the worker holds, one behind it and one in
  `Enqueue`; sizes 3, 3, 2 with a limit of 3 so that the limit matters and the bound of
  `SpoolBound` is reached exactly. One crash per run is enough for every pair of a step
  before and a step after it; two unexpected errors allow an error in the handling of
  an error.
- *PowerLoss*: two messages, one removed while the other is published; two losses,
  since the second may fall on what the first brought back. No outage (nothing of it is
  written) and no size limit.
- *Storage*: three calls on two slots; a third call meets a name that one of two others
  took and another abandoned.
- *Classify*: two videos, a channel of one place (1024 in the code), two workers (one in
  `classify_live`): the caller and the walk compete for the place and the drop happens.
  One crash, one failed write; a walk may miss anything. `RetryMax = 1` has a first, a
  further and a last attempt.
- *Delivery*: two messages and a crash, and with it either a failing call, so that a
  message is stored and announced a second time, or an outage and a video that is missed
  while the storage is there. The constraint `OneTrouble` keeps the two apart; `Delivered`
  loses nothing by it, since it asks for nothing after a failing call. A message is
  begun three times at most (`MaxSets`). No size limit, which `spool` is about.
- *FileIndex*: two videos, at most two sidecars each (pending and an outcome).
- *Server*: two sessions and two messages, one malformed, each sent twice; one outage of
  the storage or of the broker, one kill, one client that misses a reply.
- *Mqtt*: rosters in which two and three users reduce to one object id, two of them to
  one topic, and one user's id is another's with a suffix; a folder of no user; ten
  answers at the boundaries of the threshold, in tenths of a percent, and of every shape;
  two events by two workers.
- *Web*: one accepted file and those that differ from it in one place, at the boundaries
  of each check; one browser, three seconds; two folders, a file that no browser shows,
  one whose name is read as another's, one whose name is read as a path that is refused,
  and a temporary file. The constraint `OneSubject` lets the tree change under two
  configurations only, with and without an index, before time passes or main restarts:
  links depend on neither but for whether the login is good.

`MaxCrashes`, `MaxFaults`, `MaxOutages`, `MaxDeaths`, `MaxLosses`, `MaxSends`,
`MaxRecords`, `MaxEvents`, `MaxSets`, `MaxHangups`, `MaxMissed` and `MaxTime` bound
TLC's search only; the theorems hold for every value of those they mention.

### Fairness

Goroutines under way are scheduled and their calls return (weak fairness of the steps of
the worker, of `Enqueue`, of a classification, of a `DATA` handler), tickers tick and
timers fire, and systemd restarts a process that failed (`Restart=on-failure`). Nothing
is assumed of clients, which may stop, hang up or send again, nor of browsers. Of
`storage_root` nothing is assumed either: `Delivered` has its return as a hypothesis,
and `OutageRestarts` and `ServesAgain` have it as an alternative, as they have the
broker's. `Delivery` asks of the abstract service only that it settles one stored copy
of a message in the end (`Settle`), by a verdict while the storage is there or by
missing the video: less than `Decided`, which `classify_live` shows of the detailed one.
The MQTT library reconnects for ever, and `MotionEnds` assumes that one attempt
succeeds. No fairness is asked of failures, crashes or outages. The number of failing
calls is bounded, which hides one real livelock (a claim that fails for ever, see the
hazards).

### Assumptions about power loss

`PowerLoss` assumes of the spool's file system that it writes changes of names back in
the order they were made, as one with a journal does, and that what `Sync` returns for is
on the disk. It assumes nothing of contents that are not synced, and nothing of
`storage_root`: a copy there is on disk some time after it was written, before or after
any change in the spool, on the spool's file system (README.md:36) or on another. So the
removal of an item can be on disk while the copy that replaced it is not. What is left of
copies that vanish is not followed.

## 4. Findings

1. **A stale row** (index.go:172). `UpsertPath` reads the sidecar, the classifier
   updates sidecar and row, `UpsertPath` writes what it read. The row is wrong until the
   next start or the next sidecar.
2. **No spool, no mail** (server.go:49 against main.go:128). A nil `*spool.Queue` in a
   non-nil interface makes every `DATA` panic.

Two sentences of the documentation are true with a correction, and the correction is what
is checked:

- "`spool.max_bytes` bounds accepted queued messages" (README.md:45). Pending is
  measured, the worker puts the item it had claimed back into pending, then processing
  is measured: the item is counted in neither. `SpoolBound` is what holds: the limit plus
  one item plus one metadata line.
- "Classification, SQLite indexing, and MQTT notifications run only after a spooled
  message is successfully written" (README.md:43). The walk of the start (service.go:334)
  finds videos of messages still being written, so it holds of the spool's call of
  `postStore` and of notifications (`NotifiedOnce`, `KeepsService`, both proved), not of
  classification.

Seen while modelling, and contradicted by no document, so listed as hazards only:
"online" is not published again after an automatic MQTT reconnection; the first of two
overlapping motion timers ends the motion; a broker that is down at the start keeps
main from opening the SMTP port; a backfill job that is queued first suppresses the
notification of the job that `Enqueue` would have queued; a refusal in JSON counts as an
answer without detections; a loss of power can take an accepted message, because neither
directory nor stored files are synced.

## 5. Proofs

All for arbitrary constants, from the assumptions the modules name (`MsgAssumption`,
`NoneAssumption`, ...: distinct model values, natural numbers, subsets). Those that say
more are: in `Web`, that configuration files decode and that paths of different kinds
differ, and that a name with an escape is read as some file, as none or as a refused
path; in `Mqtt`, that a roster lists no user twice (`Config.Validate` sees to that),
that a suffix keeps different bases different, and that how sure a detection is is a
number of units, of which a percent may have any number. Every safety invariant, action
property and refinement that a run checks as holding is a theorem here. The types of
`Spool`, `Storage`, `Server`, `Classify` and `FileIndex` are theorems too
(`TypeCorrect`), and need a run for `Classify` only, whose types bound the attempts at a
video.

- **SpoolProofs.** `Custody` is not inductive: a step that removes an item needs to know
  that the item is stored, and a step that answers 250 that it is published. `IInv` adds
  where the item of each program counter is (`WorkerInv`), what the session's message
  has left (`SessionInv`), that messages not yet come or refused have left nothing
  (`OutsideInv`), that the directories are disjoint (`OncePerItem`), and who owns what is
  in processing (`OwnedInv`). From `IInv` follow `TypeCorrect`, `CustodyHolds`,
  `RefusedLeavesNothingHolds`, `OutageSparesMessagesHolds`, `PostOnlyStoredHolds`,
  `NothingStrandedHolds`, the action property `NeverForgottenHolds`, and, step by step,
  that every step is a step of `SpoolAbstract` or a stutter (`SpoolKeepsPromise`). That
  the promise is worth keeping is `PromiseSaysEnough`: `Custody` and `NeverForgotten`
  follow from it alone.

  `DebrisBudget` bounds the sizes of four sets by the numbers of failures; each is made
  inductive by counting what is *about* to be left as well. `CopyAccount` adds the items
  that are stored and still in the spool (`Repeats`), `PartialAccount` a set of files
  that has been begun and cannot be finished (`Doomed`), `TmpAccount` who owns the file
  of the session; `FailedAccount` needs nothing. The step that creates a debt is then the
  step that fails. `EachCopyIsGiven` is the same argument for the copy the worker has
  `AtHand`. `SpoolBound` rests on `RoomInv`: while `Enqueue` measures, all but one of the
  items are counted or still to be visited, and when it decides there was room. A size
  is the cardinality of a set of bytes, so that no sum over a set has to be defined.
- **StorageProofs.** Whoever created the body of a prefix owns every file with that
  prefix (`PrefixOwned`), a call writes its parts in order (`InOrder`) and what it has
  written is there (`Written`). Hence `StoredIntactHolds` and `NoClobberHolds`.
  `TriesAreFewHolds` is the safety half of `CallsEnd`: the candidates a call has passed
  are bodies of other calls, each of which has one (`SearchInv`), so that they are no
  more than the other calls.
- **ClassifyProofs.** `HoldInv` is the type, the fact that holders hold videos, and
  `OneHolder` itself. `NotifiedOnceHolds` needs `NotifyInv` on top: a video that is on
  its way to a publication (being stored, in the channel, or with a worker before
  `Publish`) has not been announced, which uses that there is one holder per video.

  For the refinement, `FullInv` adds that whatever is held or has a sidecar has a file
  (`FileInv`), that what a caller stores is unfinished until it says so (`StoreInv`), and
  `OwedInv`, the strengthening of `PendingIsOwed`: a video is dropped before it is
  unmarked and decided before it is released. `SeenInv` says what that means for the
  event of a video, and with it each action is one action of `ClassifyAbstract` or none:
  marking, taking and releasing show nothing; a write of the sidecar is `Decide`,
  `Reopen` or `Spare`; `Send` is `Accept`, a refused mark `Refuse`, a full channel
  or a walk that misses the video `Spare`; `Publish` is `Announce` or `WriteOff`; a crash
  is `Forget` (`KeepsServiceHolds`).

  `RefusedForWalkHolds` asks who of the holders in `OneHolder` can stand in the way of a
  caller: `RefusalInv` rules out other callers, and workers with a notifying job.
- **ServerProofs.** `Flight` says what is known of a message between `DATA` and its
  reply (it is held by one session whose client waits, and that client has not been told
  to forget it), `Signals` which process can have seen a fault. For
  `DuplicatesHaveCauseHolds`, `Account` charges each copy to the reply that is given or
  under way, to a kill, to an outage that is about to end the process (`Doomed`), or to
  a client that hung up, from the moment it does (`GoneWith`). `OutageIsHeardHolds` is
  the safety half of `OutageRestarts`: whoever stops listening for an outage has made an
  exit certain.
- **FileIndexProofs.** `RowIsRight` is inductive with the types and the fact that a busy
  refresher has a video: every step that leaves a video quiet writes its row from the
  present sidecar, or puts it among the exceptions. `UnlistedIsComingHolds` is the safety
  half of `EventuallyListed`, inductive as it stands.
- **MqttProofs.** `OnlineIsAlive` is inductive. `MotionCovered` needs `Quiet` (before
  `Start` returns nobody else publishes and no timer runs) and `Swept` (the cameras
  announced so far are off). `AlertsAreSure` needs `EventInv`: an event that is under
  way was earned by the answer it came with, by what `Detection` makes of confidences and
  texts (`ConfidenceIsMeant`, `EventTypeIsTold`). For `CamerasAreDescribed` the recursion
  that gives ids to a roster has to exist first (`RecursionEnds`, by a least user without
  an id), then users that are not crowded get different ids (`ApartIds`, `IdsDiffer`),
  and then what `Start` has published of the cameras so far stays (`DocumentsInv`).
- **WebProofs.** `AcceptedIsSafe`: whatever can be decoded, is accepted and starts is safe,
  by the branches of `applyDefaults` and `Validate`. What `Load` accepts and is not safe
  is a provider main does not know or a certificate that is no pair with its key
  (`RefusedByMain`). The invariant then has four parts: the configuration is that of a
  file that starts (`Loaded`), types, `SessionInv` (a cookie is its login's and lasts as
  long but for what is rounded away) and `TreeInv` (a row is a file's, stored or
  temporary). `RedirectsEndHolds` needs no invariant, and `LinksLeadHolds` little more
  than `TreeInv`: they are properties of `Answer` in every state of files and storage.
- **SystemProofs.** *Delivery*: its spool is `Spool` (`DeliveryIsSpool`), so everything
  above holds in it, and its service is given by the worker what `ClassifyAbstract`
  expects of a caller (`DeliveryIsService`); this needs `VideoInv`, which numbers the
  videos of a message and ties them to the spool's `copies`. What that caller gets for it
  is `ServiceSaysEnough`, from `ClassifyAbstract` alone. With `VideoInv`, `AlertsAreEarned`
  is a consequence of `CopyAccount`: one alert for a video, one video for a copy, one
  copy too many for a crash or an error. *PowerLoss*: the spool's part of the state
  keeps `CoreInv` through a loss of power, the rest does not (`Custody` fails, which is
  the point). `DiskInv` says how the disks trail the program: contents before names
  (`WholeInv`), nothing of an unpublished message under a name (`FreshInv`), and for each
  message in which order the journal will write it (`InOrder`), with the two windows in
  which an accepted message is on neither disk (`InWindow`). From
  it follow `ItemsAreWholeHolds`, `RefusedStaysRefused` (no loss brings back what a
  client was told to send again) and `LossHasAWindowHolds`.

Model-checked only: the liveness properties (`CallsEnd`, `Decided`, `Delivered`,
`EventuallyListed`, `OutageRestarts`, `ServesAgain`, `MotionEnds`), since
TLAPS does not reach fairness and ENABLED. What each of them rests on that is safety
is proved: `TriesAreFew`, `PendingIsOwed`, `Custody` with `NothingStranded` and
`EachCopyIsGiven`, `UnlistedIsComing`, `OutageIsHeard` and `MotionCovered`.

## 6. Not modelled

MIME parsing, folder and attachment names beyond what the UI reads of them; thumbnails
and the parts of a sidecar nothing is decided by; the HTTP request to the provider and
the ffmpeg subprocess, which answer or fail; columns of the index other than the
detection state, its queries' order and its migration; topics' and payloads' text; the
UI's templates, content types and static files; YAML decoding; flag parsing; TLS; the
LOGIN exchange's own steps (`Authenticate` is one step) and `Mail`; installation and
release scripts. The cancelled context: main has none. In `Mqtt` the broker notices a
broken link at once, not after the keep-alive. In `Web` nothing is written into the mount
point while the storage is away, and a path below a file is not asked for. Which errno
`IsUnavailableError` should list is not something a model can tell.

## 7. Plan

Done: the modules, runs and proofs above. What would add most next:

1. An abstract specification of the index (what the dashboard promises) that `FileIndex`
   implements up to `overtaken`.
2. `Server` as an implementation of `SpoolAbstract`, as far as its four wirings keep that
   promise.
3. The claim that fails for ever (spool.go:171) as a property, with failing calls that
   are not bounded.
