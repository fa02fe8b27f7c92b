-------------------------------- MODULE Mqtt --------------------------------
(***************************************************************************)
(* The MQTT publisher of internal/mqttnotify/publisher.go: NewWithClient,    *)
(* which makes cameras of the users, Start, which announces the service and  *)
(* its cameras, PublishClassification, called by the classification workers  *)
(* with what they kept of the provider's answer (Detection), and the timers  *)
(* that reset the motion states.                                            *)
(*                                                                          *)
(* The client library is external.  It connects and reconnects by itself;    *)
(* with the quality of service the configuration allows (1 or 2, because 0   *)
(* is replaced by the default) a publication waits for the link and is       *)
(* acknowledged, or fails with or without having been delivered.  The broker *)
(* keeps retained messages, and publishes the will when the link breaks.     *)
(* The context Start is given is never cancelled.                            *)
(***************************************************************************)
EXTENDS Detection, SequencesExt

CONSTANTS
  Roster,        \* the lists of users the configuration may hold
  Folder,        \* the recipients' folders videos are stored in
  TopicId,       \* TopicId[n]: sanitizeTopicPart of a user or folder
  Base,          \* Base[n]: sanitizeObjectID of a user
  Answer,        \* the provider's answers
  Worker,        \* the classification workers
  NoFolder, NoAnswer,
  MaxEvents,     \* bound: how many detections are published
  MaxOutages,    \* bound: how often the link breaks
  MaxDeaths,     \* bound: how often the process dies
  MaxFaults      \* bound: how many publications fail

ASSUME NamesAssumption ==
  Folder \subseteq DOMAIN TopicId /\ Roster \subseteq Seq(DOMAIN TopicId \cap DOMAIN Base)

\* Config.Validate refuses a configuration that lists a user twice.
ASSUME RosterAssumption ==
  \A users \in Roster : \A i, j \in 1..Len(users) : i # j => users[i] # users[j]

ASSUME AnswerAssumption == \A reply \in Answer : \A d \in reply.detections : d.sure \in Int
ASSUME NothingAssumption == NoFolder \notin Folder /\ NoAnswer \notin Answer
ASSUME BoundsAssumption == {MaxEvents, MaxOutages, MaxDeaths, MaxFaults} \subseteq Nat

Topic == {TopicId[n] : n \in DOMAIN TopicId}

VARIABLES
  cameras,       \* the users as cameras, in the order of the configuration
  link,          \* the client's connection: "up" or "down"
  status,        \* retained on <prefix>/status
  documents,     \* documents[id]: whom the retained discovery documents of id are about
  motion,        \* motion[t]: retained on <prefix>/<t>/motion/state
  main,          \* the next step of Start; "running" once it has returned
  next,          \* the camera PublishDiscovery announces next
  wpc, folder, answer,  \* a worker's next publication, whose video, and what the provider said
  timers,        \* timers[t]: goroutines in resetMotion
  unsure,        \* topics whose last motion publication failed
  events, outages, deaths, faults

worker   == <<wpc, folder, answer>>
start    == <<main, next>>
bounds   == <<events, outages, deaths>>
vars == <<cameras, link, status, documents, motion, main, next, wpc, folder, answer,
          timers, unsure, events, outages, deaths, faults>>

-----------------------------------------------------------------------------
(* The cameras. *)

Named(base, n) == IF n = 1 THEN base ELSE base \o "_" \o ToString(n)

\* Ids that differ still do with the same suffix.
ASSUME SuffixAssumption ==
  \A m, n \in DOMAIN Base : Named(Base[m], 2) = Named(Base[n], 2) => Base[m] = Base[n]

\* Mutant: the object id is not made distinct.
ObjectIdAsNamed(user, ids) == Base[user]

\* The id of a user, after those in ids.  seen counts the ids given, suffixes
\* included, so that the third user of a base gets the second one's id again.
ObjectId(user, ids) ==
  LET seen == Cardinality({i \in DOMAIN ids : ids[i] = Base[user]})
  IN  Named(Base[user], seen + 1)

\* NewWithClient: the users as cameras, in the order of the configuration.
CamerasOf(users) ==
  LET id[i \in 1..Len(users)] == ObjectId(users[i], [j \in 1..(i - 1) |-> id[j]])
  IN  [i \in 1..Len(users) |-> [name |-> users[i], topic |-> TopicId[users[i]], id |-> id[i]]]

\* The topics of the users.
Known == {cameras[i].topic : i \in DOMAIN cameras}

Init ==
  /\ cameras \in {CamerasOf(users) : users \in Roster}
  /\ link = "down" /\ status = "none"
  /\ documents = [id \in {} |-> ""]
  /\ motion = [t \in Topic |-> "none"]
  /\ main = "connect" /\ next = 1
  /\ wpc = [w \in Worker |-> "idle"]
  /\ folder = [w \in Worker |-> NoFolder] /\ answer = [w \in Worker |-> NoAnswer]
  /\ timers = [t \in Topic |-> 0]
  /\ unsure = {}
  /\ events = 0 /\ outages = 0 /\ deaths = 0 /\ faults = 0

Fault == faults < MaxFaults /\ faults' = faults + 1

\* publish of a retained motion state: acknowledged ...
Delivered(t, state) ==
  /\ link = "up"
  /\ motion' = [motion EXCEPT ![t] = state]
  /\ unsure' = unsure \ {t}
  /\ UNCHANGED faults

\* ... or an error, which does not tell whether the broker has it.
NotDelivered(t, state) ==
  /\ Fault
  /\ \/ link = "up" /\ motion' = [motion EXCEPT ![t] = state]
     \/ UNCHANGED motion
  /\ unsure' = unsure \cup {t}

-----------------------------------------------------------------------------
(* The link, and the process. *)

\* Connect of the first connection is retried until it succeeds, as is every
\* later one; nothing is published on connection.
LinkUp ==
  /\ link = "down" /\ link' = "up"
  /\ UNCHANGED <<cameras, status, documents, motion, start, worker, timers, unsure, bounds, faults>>

LinkLost ==
  /\ link = "up" /\ outages < MaxOutages
  /\ link' = "down" /\ status' = "offline"
  /\ outages' = outages + 1
  /\ UNCHANGED <<cameras, documents, motion, start, worker, timers, unsure, events, deaths, faults>>

\* systemd starts a process, with the users the configuration now holds.
NewProcess ==
  /\ cameras' \in {CamerasOf(users) : users \in Roster}
  /\ link' = "down"
  /\ main' = "connect" /\ next' = 1
  /\ wpc' = [w \in Worker |-> "idle"]
  /\ folder' = [w \in Worker |-> NoFolder] /\ answer' = [w \in Worker |-> NoAnswer]
  /\ timers' = [t \in Topic |-> 0]

\* Mutant: the process disconnects before it ends, so that there is no will.
DieQuietly ==
  /\ deaths < MaxDeaths /\ deaths' = deaths + 1
  /\ NewProcess
  /\ UNCHANGED <<status, documents, motion, unsure, events, outages, faults>>

\* The process is gone, without a word to the broker, which publishes the will.
Die ==
  /\ deaths < MaxDeaths /\ deaths' = deaths + 1
  /\ NewProcess
  /\ status' = IF link = "up" THEN "offline" ELSE status
  /\ UNCHANGED <<documents, motion, unsure, events, outages, faults>>

-----------------------------------------------------------------------------
(* Start, before the classification service is started. *)

Connect ==
  /\ main = "connect" /\ link = "up"
  /\ main' = "status"
  /\ UNCHANGED <<cameras, link, status, documents, motion, next, worker, timers, unsure, bounds, faults>>

PublishOnline ==
  /\ main = "status" /\ link = "up"
  /\ status' = "online" /\ main' = "discovery"
  /\ UNCHANGED <<cameras, link, documents, motion, next, worker, timers, unsure, bounds, faults>>

\* Mutant: cameras the broker has documents of are taken for announced.
DiscoverNew ==
  /\ main = "discovery" /\ next \in DOMAIN cameras /\ link = "up"
  /\ LET c == cameras[next] IN
       IF c.id \in DOMAIN documents THEN UNCHANGED <<documents, motion, unsure, faults>>
       ELSE documents' = (c.id :> c.name) @@ documents /\ Delivered(c.topic, "OFF")
  /\ next' = next + 1
  /\ UNCHANGED <<cameras, link, status, main, worker, timers, bounds>>

\* The two retained documents that describe a camera reach the broker, under
\* topics made of its object id.
Describe(c) ==
  /\ link = "up"
  /\ documents' = [id \in DOMAIN documents \cup {c.id} |-> IF id = c.id THEN c.name ELSE documents[id]]

\* PublishDiscovery, for one camera: the documents, then its motion state.
Discover ==
  /\ main = "discovery" /\ next \in DOMAIN cameras
  /\ Describe(cameras[next])
  /\ Delivered(cameras[next].topic, "OFF")
  /\ next' = next + 1
  /\ UNCHANGED <<cameras, link, status, main, worker, timers, bounds>>

Running ==
  /\ main = "discovery" /\ next > Len(cameras)
  /\ main' = "running"
  /\ UNCHANGED <<cameras, link, status, documents, motion, next, worker, timers, unsure, bounds, faults>>

\* A publication of Start fails: main exits.
StartFails ==
  /\ \/ main = "status" /\ Fault /\ UNCHANGED <<documents, motion, unsure>>
     \/ /\ main = "discovery" /\ next \in DOMAIN cameras
        /\ \/ /\ Fault /\ UNCHANGED <<motion, unsure>>
              /\ Describe(cameras[next]) \/ UNCHANGED documents
           \/ Describe(cameras[next]) /\ NotDelivered(cameras[next].topic, "OFF")
  /\ NewProcess
  /\ status' = IF link = "up" THEN "offline" ELSE status
  /\ UNCHANGED bounds

StartStep == Connect \/ PublishOnline \/ Discover \/ Running

-----------------------------------------------------------------------------
(* PublishClassification, and the timers. *)

Goto(w, where) == wpc' = [wpc EXCEPT ![w] = where]

\* A worker has classified a video in folder f, with something to notify of.
Detect(w, f, reply) ==
  /\ main = "running" /\ wpc[w] = "idle" /\ events < MaxEvents
  /\ Parses(reply) /\ ShouldNotify(Kept(reply))
  /\ events' = events + 1
  /\ folder' = [folder EXCEPT ![w] = f] /\ answer' = [answer EXCEPT ![w] = reply]
  /\ Goto(w, "event")
  /\ UNCHANGED <<cameras, link, status, documents, motion, start, timers, unsure, outages, deaths, faults>>

\* The event, which is not retained.
PublishEvent(w) ==
  /\ wpc[w] = "event"
  /\ answer' = [answer EXCEPT ![w] = NoAnswer]
  /\ \/ link = "up" /\ Goto(w, "motion") /\ UNCHANGED <<folder, faults>>
     \/ Fault /\ Goto(w, "idle") /\ folder' = [folder EXCEPT ![w] = NoFolder]
  /\ UNCHANGED <<cameras, link, status, documents, motion, start, timers, unsure, bounds>>

\* The motion state, and a timer that resets it unless the publication failed.
\* cameraForName makes a camera of a folder that is no user's.
PublishMotion(w) ==
  /\ wpc[w] = "motion"
  /\ LET t == TopicId[folder[w]] IN
     \/ Delivered(t, "ON") /\ timers' = [timers EXCEPT ![t] = @ + 1]
     \/ NotDelivered(t, "ON") /\ UNCHANGED timers
  /\ Goto(w, "idle") /\ folder' = [folder EXCEPT ![w] = NoFolder]
  /\ UNCHANGED <<cameras, link, status, documents, answer, start, bounds>>

\* Mutant: a timer is thrown away when it finds the client disconnected.
ResetMotionIfConnected(t) ==
  /\ timers[t] > 0
  /\ timers' = [timers EXCEPT ![t] = @ - 1]
  /\ Delivered(t, "OFF") \/ NotDelivered(t, "OFF") \/ (link = "down" /\ UNCHANGED <<motion, unsure, faults>>)
  /\ UNCHANGED <<cameras, link, status, documents, start, worker, bounds>>

\* A timer of a camera fires, whatever the camera's other timers wait for.
ResetMotion(t) ==
  /\ timers[t] > 0
  /\ timers' = [timers EXCEPT ![t] = @ - 1]
  /\ Delivered(t, "OFF") \/ NotDelivered(t, "OFF")
  /\ UNCHANGED <<cameras, link, status, documents, start, worker, bounds>>

Publish(w) == PublishEvent(w) \/ PublishMotion(w)

-----------------------------------------------------------------------------

Next ==
  \/ LinkUp \/ LinkLost \/ Die \/ StartStep \/ StartFails
  \/ \E w \in Worker : Publish(w) \/ \E f \in Folder, reply \in Answer : Detect(w, f, reply)
  \/ \E t \in Topic : ResetMotion(t)

Spec == Init /\ [][Next]_vars

\* Goroutines are scheduled, timers fire, the library keeps trying to connect
\* and the broker is there in the end.
FairSpec ==
  /\ Spec
  /\ WF_vars(LinkUp)
  /\ WF_vars(StartStep)
  /\ \A w \in Worker : WF_vars(Publish(w))
  /\ \A t \in Topic : WF_vars(ResetMotion(t))

-----------------------------------------------------------------------------
(* Properties. *)

\* Once Start has returned, a motion state that is on has a timer to reset it,
\* or its last publication failed: what earlier processes left on has been
\* reset, except on topics of nobody in the configuration, which Start does not
\* know.
MotionCovered ==
  main = "running" =>
    \A t \in Topic : motion[t] = "ON" =>
      timers[t] > 0 \/ t \in unsure \/ (t \notin Known /\ deaths > 0)

\* Nobody is told "online" by a process that is gone or cut off
\* (payload_available of the discovery documents).
OnlineIsAlive ==
  status = "online" => link = "up" /\ main \in {"discovery", "running"}

\* Three users reduce to one object id, or two do and the id of a third is theirs
\* with a suffix: NewWithClient (publisher.go:84) may give an id twice.
Crowded ==
  LET users == {cameras[i].name : i \in DOMAIN cameras}
  IN  \/ \E n \in users : Cardinality({m \in users : Base[m] = Base[n]}) > 2
      \/ \E l, m, n \in users : l # m /\ Base[l] = Base[m] /\ Base[n] = Named(Base[m], 2)

\* Once Start has returned, Home Assistant has every user's documents, whatever
\* the users were in earlier runs -- unless they are crowded, for then a later
\* camera's documents may replace an earlier's.
CamerasAreDescribed ==
  main = "running" /\ ~Crowded =>
    \A i \in DOMAIN cameras : documents[cameras[i].id] = cameras[i].name

\* An event is of a type Home Assistant was told of, for a category the
\* operator asked for, and the provider was sure enough of one of that category
\* -- unless it wrote at most 1 for at most one percent, which reads as a
\* hundred times as much, up to certainty (service.go:405), and so reached it.
AlertsAreSure ==
  \A w \in Worker : wpc[w] = "event" =>
    /\ EventType(Kept(answer[w])) \in EventTypes
    /\ \E d \in answer[w].detections :
         /\ CategoryOf(d) \in NotifyCategories
         /\ d.sure >= Threshold \/ (ReadAsFraction(d) /\ 100 * d.sure >= Threshold)

\* The motion state of a user's camera does not stay on, whatever outages and
\* restarts fall between the motion and its reset, unless the publication of a
\* motion state failed or the user is taken out of the configuration.
MotionEnds ==
  \A t \in Topic :
    (motion[t] = "ON" /\ t \in Known) ~> (motion[t] = "OFF" \/ t \in unsure \/ t \notin Known)
=============================================================================
