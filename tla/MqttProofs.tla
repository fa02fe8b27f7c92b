----------------------------- MODULE MqttProofs -----------------------------
(***************************************************************************)
(* Theorems about Mqtt, for any users, folders, answers and workers.        *)
(* OnlineIsAlive is inductive by itself.  MotionCovered is not: that Start  *)
(* leaves no motion state on needs Swept, what it has done so far, and      *)
(* Quiet, that nobody publishes before it returns.                          *)
(***************************************************************************)
EXTENDS Mqtt, SequenceTheorems, FiniteSetTheorems, WellFoundedInduction, TLAPS

TypeInv ==
  /\ main \in {"connect", "status", "discovery", "running"}
  /\ next \in Nat /\ deaths \in Nat
  /\ motion \in [Topic -> {"none", "ON", "OFF"}]
  /\ timers \in [Topic -> Nat]
  /\ wpc \in [Worker -> {"idle", "event", "motion"}]
  /\ folder \in [Worker -> Folder \cup {NoFolder}]
  /\ \A w \in Worker : wpc[w] # "idle" => folder[w] \in Folder

\* The cameras are a sequence and have topics.
CameraInv ==
  /\ DOMAIN cameras = 1..Len(cameras)
  /\ \A i \in DOMAIN cameras : cameras[i].topic \in Topic

\* Before Start has returned nothing but Start publishes.
Quiet ==
  main # "running" => /\ \A w \in Worker : wpc[w] = "idle"
                      /\ \A t \in Topic : timers[t] = 0

\* The first process finds no motion state on; every process has turned off those
\* of the cameras it has announced.
Swept ==
  /\ main # "running" /\ deaths = 0 => \A t \in Topic : motion[t] # "ON"
  /\ main \in {"connect", "status"} => next = 1
  /\ main = "discovery" =>
       \A i \in DOMAIN cameras : i < next => motion[cameras[i].topic] # "ON"

Inv == TypeInv /\ CameraInv /\ Quiet /\ Swept /\ MotionCovered

-----------------------------------------------------------------------------

LEMMA CamerasType ==
  ASSUME NEW users \in Roster
  PROVE  /\ DOMAIN CamerasOf(users) = 1..Len(CamerasOf(users))
         /\ \A i \in DOMAIN CamerasOf(users) : CamerasOf(users)[i].topic \in Topic
<1>1. PICK id : CamerasOf(users) =
                  [i \in 1..Len(users) |-> [name |-> users[i], topic |-> TopicId[users[i]], id |-> id[i]]]
  BY DEF CamerasOf
<1>2. Len(users) \in Nat /\ \A i \in 1..Len(users) : users[i] \in DOMAIN TopicId
  BY NamesAssumption
<1>3. QED BY <1>1, <1>2 DEF Topic

LEMMA InitInv == Init => Inv
<1> SUFFICES ASSUME Init PROVE Inv
  OBVIOUS
<1>1. PICK users \in Roster : cameras = CamerasOf(users)
  BY DEF Init
<1>2. CameraInv
  BY <1>1, CamerasType DEF CameraInv
<1>3. TypeInv
  BY DEF Init, TypeInv
<1>4. Quiet /\ Swept /\ MotionCovered
  BY DEF Init, Quiet, Swept, MotionCovered
<1>5. QED BY <1>2, <1>3, <1>4 DEF Inv

\* What a new process knows, when motion states are as they were or off and it
\* follows a death or an unfinished start.
LEMMA NewProcessInv ==
  ASSUME Inv, NewProcess, deaths' \in Nat,
         motion' \in [Topic -> {"none", "ON", "OFF"}],
         deaths' = 0 => \A t \in Topic : motion'[t] # "ON"
  PROVE  Inv'
<1>1. PICK users \in Roster : cameras' = CamerasOf(users)
  BY DEF NewProcess
<1>2. CameraInv'
  BY <1>1, CamerasType DEF CameraInv
<1>3. TypeInv'
  BY DEF NewProcess, TypeInv
<1>4. Quiet' /\ Swept' /\ MotionCovered'
  BY DEF NewProcess, Quiet, Swept, MotionCovered
<1>5. QED BY <1>2, <1>3, <1>4 DEF Inv

LEMMA StartInv ==
  ASSUME Inv, StartStep
  PROVE  Inv'
<1> USE DEF Inv, TypeInv, CameraInv, Quiet, Swept, MotionCovered, worker, bounds
<1>1. CASE Connect
  BY <1>1 DEF Connect
<1>2. CASE PublishOnline
  BY <1>2 DEF PublishOnline
<1>3. CASE Discover
  BY <1>3 DEF Discover, Delivered
<1>4. CASE Running
  BY <1>4 DEF Running, Known
<1>5. QED BY <1>1, <1>2, <1>3, <1>4 DEF StartStep

\* A process ends, by a death or because its start has failed.
LEMMA EndInv ==
  ASSUME Inv, Die \/ StartFails
  PROVE  Inv'
<1>1. CASE Die
  BY <1>1, NewProcessInv DEF Die, Inv, TypeInv
<1>2. CASE StartFails
  <2>1. main # "running"
    BY <1>2 DEF StartFails
  <2>2. deaths' = deaths /\ NewProcess
    BY <1>2 DEF StartFails, bounds
  <2>3. UNCHANGED motion \/ \E t \in Topic : motion' = [motion EXCEPT ![t] = "OFF"]
    BY <1>2 DEF StartFails, NotDelivered, Inv, CameraInv
  <2>4. /\ motion' \in [Topic -> {"none", "ON", "OFF"}]
        /\ deaths' = 0 => \A t \in Topic : motion'[t] # "ON"
    BY <2>1, <2>2, <2>3 DEF Inv, TypeInv, Swept
  <2>5. QED BY <2>2, <2>4, NewProcessInv DEF Inv, TypeInv
<1>3. QED BY <1>1, <1>2

\* A worker: ON is published with its timer, or in doubt.
LEMMA WorkerInv ==
  ASSUME Inv, NEW w \in Worker,
         Publish(w) \/ \E f \in Folder, reply \in Answer : Detect(w, f, reply)
  PROVE  Inv'
<1> USE DEF Inv, TypeInv, CameraInv, Quiet, Swept, MotionCovered, Known, start, bounds
<1>1. ASSUME NEW f \in Folder, NEW reply \in Answer, Detect(w, f, reply) PROVE Inv'
  BY <1>1 DEF Detect, Goto
<1>2. CASE PublishEvent(w)
  BY <1>2 DEF PublishEvent, Goto
<1>3. CASE PublishMotion(w)
  <2>1. main = "running" /\ folder[w] \in Folder
    BY <1>3 DEF PublishMotion
  <2>2. PICK t \in Topic : t = TopicId[folder[w]]
    BY <2>1, NamesAssumption DEF Topic
  <2>3. \/ Delivered(t, "ON") /\ timers' = [timers EXCEPT ![t] = @ + 1]
        \/ NotDelivered(t, "ON") /\ UNCHANGED timers
    BY <1>3, <2>2 DEF PublishMotion
  <2>4. TypeInv'
    <3>1. motion' \in [Topic -> {"none", "ON", "OFF"}] /\ timers' \in [Topic -> Nat]
      <4>1. UNCHANGED motion \/ motion' = [motion EXCEPT ![t] = "ON"]
        BY <2>3 DEF Delivered, NotDelivered
      <4>2. UNCHANGED timers \/ timers' = [timers EXCEPT ![t] = @ + 1]
        BY <2>3
      <4>3. QED BY <4>1, <4>2
    <3>2. /\ wpc' = [wpc EXCEPT ![w] = "idle"] /\ folder' = [folder EXCEPT ![w] = NoFolder]
          /\ main' = main /\ next' = next /\ deaths' = deaths
      BY <1>3 DEF PublishMotion, Goto
    <3>3. QED BY <3>1, <3>2
  <2>5. MotionCovered'
    BY <1>3, <2>3 DEF PublishMotion, Delivered, NotDelivered
  <2>6. QED BY <1>3, <2>1, <2>4, <2>5 DEF PublishMotion
<1>4. QED BY <1>1, <1>2, <1>3 DEF Publish

\* A timer: OFF is published, or in doubt.
LEMMA TimerInv ==
  ASSUME Inv, NEW t \in Topic, ResetMotion(t)
  PROVE  Inv'
<1> USE DEF Inv, TypeInv, CameraInv, Quiet, Swept, MotionCovered, Known, start, worker, bounds
<1>1. main = "running"
  BY DEF ResetMotion
<1>2. TypeInv'
  BY DEF ResetMotion, Delivered, NotDelivered
<1>3. MotionCovered'
  BY DEF ResetMotion, Delivered, NotDelivered
<1>4. QED BY <1>1, <1>2, <1>3 DEF ResetMotion

LEMMA LinkInv ==
  ASSUME Inv, LinkUp \/ LinkLost
  PROVE  Inv'
  BY DEF Inv, TypeInv, CameraInv, Quiet, Swept, MotionCovered, Known, LinkUp, LinkLost, start, worker, bounds

\* Inv, what Start has swept and which timers run, is inductive (Start,
\* PublishClassification, resetMotion).
THEOREM InvHolds == Spec => []Inv
<1>1. Inv /\ [Next]_vars => Inv'
  <2> SUFFICES ASSUME Inv, [Next]_vars PROVE Inv'
    OBVIOUS
  <2>1. CASE UNCHANGED vars
    BY <2>1 DEF vars, Inv, TypeInv, CameraInv, Quiet, Swept, MotionCovered, Known
  <2>2. CASE Next
    BY <2>2, StartInv, EndInv, WorkerInv, TimerInv, LinkInv DEF Next
  <2>3. QED BY <2>1, <2>2
<1>2. QED BY InitInv, <1>1, PTL DEF Spec

-----------------------------------------------------------------------------
(* Theorems. *)

\* Once Start has returned, a motion state that is on has a timer to reset it,
\* or its last publication failed, or it is of nobody in the configuration.
THEOREM MotionCoveredHolds == Spec => []MotionCovered
  BY InvHolds, PTL DEF Inv

\* Nobody is told "online" by a process that is gone or cut off.
THEOREM OnlineIsAliveHolds == Spec => []OnlineIsAlive
<1>1. Init => OnlineIsAlive
  BY DEF Init, OnlineIsAlive
<1>2. OnlineIsAlive /\ [Next]_vars => OnlineIsAlive'
  <2> SUFFICES ASSUME OnlineIsAlive, [Next]_vars PROVE OnlineIsAlive'
    OBVIOUS
  <2> USE DEF OnlineIsAlive, start
  <2>1. CASE UNCHANGED vars
    BY <2>1 DEF vars
  <2>2. CASE LinkUp \/ LinkLost
    BY <2>2 DEF LinkUp, LinkLost
  <2>3. CASE Die \/ StartFails
    BY <2>3 DEF Die, StartFails, NewProcess
  <2>4. CASE StartStep
    BY <2>4 DEF StartStep, Connect, PublishOnline, Discover, Describe, Running
  <2>5. ASSUME NEW w \in Worker,
               Publish(w) \/ \E f \in Folder, reply \in Answer : Detect(w, f, reply)
        PROVE  OnlineIsAlive'
    BY <2>5 DEF Publish, PublishEvent, PublishMotion, Detect
  <2>6. ASSUME NEW t \in Topic, ResetMotion(t) PROVE OnlineIsAlive'
    BY <2>6 DEF ResetMotion
  <2>7. QED BY <2>1, <2>2, <2>3, <2>4, <2>5, <2>6 DEF Next
<1>3. QED BY <1>1, <1>2, PTL DEF Spec

-----------------------------------------------------------------------------
(* Alerts: what the provider is taken to have said.                        *)

\* An event waits for an answer that notifies.
EventInv ==
  /\ answer \in [Worker -> Answer \cup {NoAnswer}]
  /\ wpc \in [Worker -> {"idle", "event", "motion"}]
  /\ \A w \in Worker : wpc[w] = "event" => answer[w] \in Answer /\ ShouldNotify(Kept(answer[w]))

\* A category is one of the three, or none.
LEMMA CategoryType ==
  ASSUME NEW d
  PROVE  CategoryOf(d) \in {"person", "animal", "vehicle", ""}
BY DEF CategoryOf

\* What is kept are categories, each of a detection in the reply that is sure
\* enough.
LEMMA KeptFrom ==
  ASSUME NEW reply \in Answer, NEW c \in Kept(reply)
  PROVE  /\ c \in {"person", "animal", "vehicle"}
         /\ \E d \in reply.detections : c = CategoryOf(d) /\ Confidence(d) >= Threshold
<1>1. PICK d \in Parsed(reply) : Counts(d) /\ c = CategoryOf(d)
  BY DEF Kept
<1>2. d \in reply.detections
  BY DEF Parsed
<1>3. Confidence(d) >= Threshold /\ c # ""
  BY <1>1 DEF Counts
<1>4. QED BY <1>1, <1>2, <1>3, CategoryType

\* A confidence that reaches the threshold was meant, but for one percent and
\* less.
LEMMA ConfidenceIsMeant ==
  ASSUME NEW d, d.sure \in Int, Confidence(d) >= Threshold
  PROVE  d.sure >= Threshold \/ (ReadAsFraction(d) /\ 100 * d.sure >= Threshold)
<1>1. PICK s \in Int : s = d.sure
  OBVIOUS
<1>2. PICK p \in Nat \ {0} : p = Percent
  BY PercentAssumption
<1>3. Threshold \in Int /\ Threshold <= 100 * p
  BY <1>2, ThresholdAssumption
<1>4. PICK n \in Int : n = Written(d) /\ n = IF d.style = "percent" THEN 100 * s ELSE s
  BY <1>1 DEF Written
<1>5. CASE n > 100 * p /\ n <= 10000 * p
  <2>1. n \div 100 >= Threshold
    BY <1>2, <1>4, <1>5 DEF Confidence
  <2>2. CASE d.style = "percent"
    <3>1. n = 100 * s /\ n \div 100 = s
      BY <1>4, <2>2
    <3>2. QED BY <1>1, <2>1, <3>1
  <2>3. CASE d.style # "percent"
    BY <1>1, <1>3, <1>4, <1>5, <2>3
  <2>4. QED BY <2>2, <2>3
<1>6. CASE ~ (n > 100 * p /\ n <= 10000 * p)
  <2>1. n >= Threshold
    BY <1>2, <1>4, <1>6 DEF Confidence
  <2>2. QED BY <1>1, <1>2, <1>3, <1>4, <1>6, <2>1 DEF ReadAsFraction
<1>7. QED BY <1>5, <1>6

\* Sequences of two and of three, put together.
LEMMA ConcatTwo ==
  ASSUME NEW a, NEW b
  PROVE  <<a>> \o <<b>> = <<a, b>>
<1> DEFINE s == <<a>> \o <<b>>
           t == <<a, b>>
<1>1. /\ <<a>> \in Seq({a, b}) /\ <<b>> \in Seq({a, b}) /\ t \in Seq({a, b})
      /\ Len(t) = 2 /\ Len(<<a>>) = 1 /\ Len(<<b>>) = 1
  OBVIOUS
<1>2. s \in Seq({a, b}) /\ Len(s) = 2 /\ s[1] = a /\ s[2] = b
  BY <1>1
<1>3. t[1] = a /\ t[2] = b
  OBVIOUS
<1>4. \A i \in 1..2 : i = 1 \/ i = 2
  OBVIOUS
<1> HIDE DEF s, t
<1>5. \A i \in 1..Len(s) : s[i] = t[i]
  BY <1>2, <1>3, <1>4
<1>6. s = t
  BY <1>1, <1>2, <1>5, SeqEqual
<1>7. QED BY <1>6 DEF s, t

LEMMA ConcatThree ==
  ASSUME NEW a, NEW b, NEW c
  PROVE  <<a, b>> \o <<c>> = <<a, b, c>>
<1> DEFINE s == <<a, b>> \o <<c>>
           t == <<a, b, c>>
<1>1. /\ <<a, b>> \in Seq({a, b, c}) /\ <<c>> \in Seq({a, b, c}) /\ t \in Seq({a, b, c})
      /\ Len(t) = 3 /\ Len(<<a, b>>) = 2 /\ Len(<<c>>) = 1
  OBVIOUS
<1>2. s \in Seq({a, b, c}) /\ Len(s) = 3 /\ s[1] = a /\ s[2] = b /\ s[3] = c
  BY <1>1
<1>3. t[1] = a /\ t[2] = b /\ t[3] = c
  OBVIOUS
<1>4. \A i \in 1..3 : i = 1 \/ i = 2 \/ i = 3
  OBVIOUS
<1> HIDE DEF s, t
<1>5. \A i \in 1..Len(s) : s[i] = t[i]
  BY <1>2, <1>3, <1>4
<1>6. s = t
  BY <1>1, <1>2, <1>5, SeqEqual
<1>7. QED BY <1>6 DEF s, t

\* Every non-empty set of categories has a type Home Assistant was told of.
LEMMA EventTypeIsTold ==
  ASSUME NEW kept, kept \subseteq {"person", "animal", "vehicle"}, kept # {}
  PROVE  EventType(kept) \in EventTypes
<1> DEFINE part(c) == IF c \in kept THEN <<c>> ELSE <<>>
           two == part("person") \o part("animal")
<1>1. EventType(kept) = two \o part("vehicle")
  BY DEF EventType
<1>2. /\ part("person") = <<"person">> \/ part("person") = <<>>
      /\ part("animal") = <<"animal">> \/ part("animal") = <<>>
      /\ part("vehicle") = <<"vehicle">> \/ part("vehicle") = <<>>
      /\ part("person") # <<>> \/ part("animal") # <<>> \/ part("vehicle") # <<>>
  OBVIOUS
<1>3. /\ <<>> \o <<>> = <<>> /\ <<>> \o <<"animal">> = <<"animal">>
      /\ <<>> \o <<"vehicle">> = <<"vehicle">> /\ <<"person">> \o <<>> = <<"person">>
      /\ <<"animal">> \o <<>> = <<"animal">> /\ <<"person", "animal">> \o <<>> = <<"person", "animal">>
  OBVIOUS
<1> HIDE DEF part
<1>4. \/ part("person") = <<"person">> /\ two \in {<<"person">>, <<"person", "animal">>}
      \/ part("person") = <<>> /\ part("animal") = <<"animal">> /\ two = <<"animal">>
      \/ part("person") = <<>> /\ part("animal") = <<>> /\ two = <<>>
  BY <1>2, <1>3, ConcatTwo, Zenon
<1> HIDE DEF two
<1>5. CASE part("vehicle") = <<>>
  BY <1>1, <1>2, <1>3, <1>4, <1>5, Zenon DEF EventTypes
<1>6. CASE part("vehicle") = <<"vehicle">>
  <2>1. /\ <<"person">> \o <<"vehicle">> = <<"person", "vehicle">>
        /\ <<"animal">> \o <<"vehicle">> = <<"animal", "vehicle">>
        /\ <<"person", "animal">> \o <<"vehicle">> = <<"person", "animal", "vehicle">>
    BY ConcatTwo, ConcatThree, Zenon
  <2>2. QED BY <1>1, <1>3, <1>4, <1>6, <2>1, Zenon DEF EventTypes
<1>7. QED BY <1>2, <1>5, <1>6

\* EventInv is inductive.
LEMMA EventInvHolds == Spec => []EventInv
<1>1. Init => EventInv
  BY DEF Init, EventInv
<1>2. EventInv /\ [Next]_vars => EventInv'
  <2> SUFFICES ASSUME EventInv, [Next]_vars PROVE EventInv'
    OBVIOUS
  <2>1. CASE UNCHANGED <<wpc, answer>>
    BY <2>1 DEF EventInv
  <2>2. CASE Die \/ StartFails
    BY <2>2 DEF Die, StartFails, NewProcess, EventInv
  <2>3. CASE LinkUp \/ LinkLost \/ StartStep
    BY <2>1, <2>3 DEF LinkUp, LinkLost, StartStep, Connect, PublishOnline, Discover, Running, worker
  <2>4. ASSUME NEW w \in Worker, NEW f \in Folder, NEW reply \in Answer, Detect(w, f, reply)
        PROVE  EventInv'
    BY <2>4 DEF Detect, Goto, EventInv
  <2>5. ASSUME NEW w \in Worker, Publish(w) PROVE EventInv'
    BY <2>5 DEF Publish, PublishEvent, PublishMotion, Goto, EventInv
  <2>6. ASSUME NEW t \in Topic, ResetMotion(t) PROVE EventInv'
    BY <2>1, <2>6 DEF ResetMotion, worker
  <2>7. QED BY <2>1, <2>2, <2>3, <2>4, <2>5, <2>6 DEF Next, vars
<1>3. QED BY <1>1, <1>2, PTL DEF Spec

\* An event is of a type Home Assistant was told of, for a category the operator
\* asked for, and the provider was sure enough of one of that category
\* (normalizeDetections, shouldNotify, eventType).
THEOREM AlertsAreSureHolds == Spec => []AlertsAreSure
<1>1. EventInv => AlertsAreSure
  <2> SUFFICES ASSUME EventInv, NEW w \in Worker, wpc[w] = "event"
               PROVE  /\ EventType(Kept(answer[w])) \in EventTypes
                      /\ \E d \in answer[w].detections :
                           /\ CategoryOf(d) \in NotifyCategories
                           /\ d.sure >= Threshold \/ (ReadAsFraction(d) /\ 100 * d.sure >= Threshold)
    BY DEF AlertsAreSure
  <2>1. PICK reply \in Answer : reply = answer[w] /\ ShouldNotify(Kept(reply))
    BY DEF EventInv
  <2>2. PICK c \in Kept(reply) : c \in NotifyCategories
    BY <2>1 DEF ShouldNotify
  <2>3. EventType(Kept(reply)) \in EventTypes
    BY <2>2, KeptFrom, EventTypeIsTold
  <2>4. PICK d \in reply.detections : c = CategoryOf(d) /\ Confidence(d) >= Threshold
    BY <2>2, KeptFrom
  <2>5. d.sure >= Threshold \/ (ReadAsFraction(d) /\ 100 * d.sure >= Threshold)
    BY <2>4, AnswerAssumption, ConfidenceIsMeant
  <2>6. QED BY <2>1, <2>2, <2>3, <2>4, <2>5
<1>2. QED BY <1>1, EventInvHolds, PTL

-----------------------------------------------------------------------------
(* Object ids.  NewWithClient gives them one after the other, by a recursion *)
(* that ends at the list's length.                                          *)

\* id is what the recursion of CamerasOf gives for the first n users.
Recursion(id, n, users) == id = [i \in 1..n |-> ObjectId(users[i], [j \in 1..(i - 1) |-> id[j]])]

\* There is such an id: the first n for which there is none would have one.
LEMMA RecursionEnds ==
  ASSUME NEW users, NEW n \in Nat
  PROVE  \E id : Recursion(id, n, users)
<1> DEFINE Bad == {m \in Nat : ~ \E id : Recursion(id, m, users)}
<1>1. SUFFICES ASSUME Bad # {} PROVE FALSE
  OBVIOUS
<1>2. PICK m \in Bad : \A k \in Bad : ~ (<<k, m>> \in OpToRel(<, Nat))
  BY <1>1, WFMin, NatLessThanWellFounded
<1>3. \A k \in Nat : k < m => \E id : Recursion(id, k, users)
  BY <1>2 DEF OpToRel
<1>4. \E id : Recursion(id, m, users)
  <2>1. CASE m = 0
    <3> DEFINE none == [i \in 1..m |-> {}]
    <3>1. Recursion(none, m, users)
      BY <2>1 DEF Recursion
    <3>2. QED BY <3>1
  <2>2. CASE m # 0
    <3>1. m - 1 \in Nat /\ m - 1 < m
      BY <2>2
    <3>2. PICK id : Recursion(id, m - 1, users)
      BY <1>3, <3>1
    <3> DEFINE more == [i \in 1..m |-> IF i < m THEN id[i] ELSE ObjectId(users[m], id)]
               given(i) == [j \in 1..(i - 1) |-> more[j]]
    <3>3. id = [j \in 1..(m - 1) |-> id[j]]
      BY <3>2 DEF Recursion
    <3>4. given(m) = id
      BY <3>1, <3>3
    <3>5. \A i \in 1..(m - 1) : given(i) = [j \in 1..(i - 1) |-> id[j]]
      BY <3>1
    <3>6. \A i \in 1..(m - 1) : id[i] = ObjectId(users[i], [j \in 1..(i - 1) |-> id[j]])
      BY <3>1, <3>2 DEF Recursion
    <3>7. \A i \in 1..m : more[i] = ObjectId(users[i], given(i))
      <4>1. \A i \in 1..(m - 1) : more[i] = id[i]
        BY <3>1
      <4>2. more[m] = ObjectId(users[m], id)
        BY <3>1
      <4>3. \A i \in 1..m : i = m \/ i \in 1..(m - 1)
        BY <3>1
      <4> HIDE DEF more
      <4>4. QED BY <3>4, <3>5, <3>6, <4>1, <4>2, <4>3, Zenon
    <3>8. Recursion(more, m, users)
      <4>1. more = [i \in 1..m |-> more[i]]
        OBVIOUS
      <4> HIDE DEF more
      <4>2. QED BY <3>7, <4>1 DEF Recursion
    <3>9. QED BY <3>8
  <2>3. QED BY <2>1, <2>2
<1>5. QED BY <1>2, <1>4

LEMMA CamerasIds ==
  ASSUME NEW users \in Roster
  PROVE  \E id :
           /\ Recursion(id, Len(users), users)
           /\ CamerasOf(users) =
                [i \in 1..Len(users) |-> [name |-> users[i], topic |-> TopicId[users[i]], id |-> id[i]]]
<1> DEFINE id == CHOOSE f : Recursion(f, Len(users), users)
<1>1. Len(users) \in Nat
  BY NamesAssumption
<1>2. Recursion(id, Len(users), users)
  BY <1>1, RecursionEnds
<1>3. CamerasOf(users) =
        [i \in 1..Len(users) |-> [name |-> users[i], topic |-> TopicId[users[i]], id |-> id[i]]]
  BY DEF CamerasOf, Recursion
<1>4. QED BY <1>2, <1>3

\* No three of the users have one base, and no base is another's with a suffix.
Apart(users) ==
  \A i, j, k \in 1..Len(users) :
    i # j /\ Base[users[i]] = Base[users[j]] =>
      /\ k \notin {i, j} => Base[users[k]] # Base[users[j]]
      /\ Base[users[k]] # Named(Base[users[j]], 2)

\* An earlier user has the base of the ith.
Second(users, i) == \E j \in 1..(i - 1) : Base[users[j]] = Base[users[i]]

\* The id the ith user gets then.
ApartId(users, i) == IF Second(users, i) THEN Named(Base[users[i]], 2) ELSE Base[users[i]]

\* The users apart, each gets its base or, if an earlier one has it, its base with
\* a suffix: the first to get anything else would not be the first.
LEMMA ApartIds ==
  ASSUME NEW users \in Roster, Apart(users), NEW id, Recursion(id, Len(users), users)
  PROVE  \A i \in 1..Len(users) : id[i] = ApartId(users, i)
<1> DEFINE n == Len(users)
           B(i) == Base[users[i]]
           seen(i) == {j \in 1..(i - 1) : id[j] = B(i)}
           Bad == {m \in Nat : m \in 1..n /\ id[m] # ApartId(users, m)}
<1>1. n \in Nat
  BY NamesAssumption
<1>2. SUFFICES ASSUME Bad # {} PROVE FALSE
  BY <1>1
<1>3. PICK i \in Bad : \A k \in Bad : ~ (<<k, i>> \in OpToRel(<, Nat))
  BY <1>2, WFMin, NatLessThanWellFounded
<1>4. i \in 1..n /\ id[i] # ApartId(users, i)
  BY <1>3
<1>5. \A j \in 1..(i - 1) : j \in 1..n /\ id[j] = ApartId(users, j)
  <2>1. \A k \in Bad : ~ (k < i)
    BY <1>3 DEF OpToRel
  <2>2. \A j \in 1..(i - 1) : j \in Nat /\ j \in 1..n /\ j < i
    BY <1>1, <1>4
  <2>3. QED BY <2>1, <2>2
<1> HIDE DEF Bad
<1>6. id[i] = Named(B(i), Cardinality(seen(i)) + 1)
  <2> DEFINE ids == [j \in 1..(i - 1) |-> id[j]]
  <2>1. id[i] = ObjectId(users[i], ids)
    BY <1>1, <1>4 DEF Recursion
  <2>2. {j \in DOMAIN ids : ids[j] = B(i)} = seen(i)
    OBVIOUS
  <2>3. QED BY <2>1, <2>2 DEF ObjectId
<1>7. \A j \in 1..(i - 1) : id[j] = B(i) => B(j) = B(i)
  <2>1. SUFFICES ASSUME NEW j \in 1..(i - 1), id[j] = B(i), Second(users, j) PROVE FALSE
    BY <1>5 DEF ApartId
  <2>2. PICK k \in 1..(j - 1) : B(k) = B(j)
    BY <2>1 DEF Second
  <2>3. i \in 1..n /\ j \in 1..n /\ k \in 1..n /\ k # j
    BY <1>1, <1>4
  <2>4. B(i) = Named(B(j), 2)
    BY <1>5, <2>1 DEF ApartId
  <2>5. QED BY <2>2, <2>3, <2>4 DEF Apart
<1>8. CASE Second(users, i)
  <2>1. PICK j \in 1..(i - 1) : B(j) = B(i)
    BY <1>8 DEF Second
  <2>2. i \in 1..n /\ j \in 1..n /\ i # j
    BY <1>1, <1>4
  <2>3. \A k \in 1..(i - 1) : k # j => k \in 1..n /\ k \notin {i, j}
    BY <1>1, <1>4
  <2>4. \A k \in 1..(i - 1) : k # j => B(k) # B(i)
    BY <2>1, <2>2, <2>3 DEF Apart
  <2>5. id[j] = B(i)
    <3>1. ~ Second(users, j)
      <4>1. \A k \in 1..(j - 1) : k \in 1..(i - 1) /\ k # j
        BY <2>2
      <4>2. QED BY <2>1, <2>4, <4>1 DEF Second
    <3>2. QED BY <1>5, <2>1, <3>1 DEF ApartId
  <2>6. seen(i) = {j}
    BY <1>7, <2>4, <2>5
  <2>7. Cardinality({j}) = 1
    BY FS_Singleton
  <2> HIDE DEF seen
  <2>8. Cardinality(seen(i)) + 1 = 2
    BY <2>6, <2>7
  <2>9. QED BY <1>4, <1>6, <1>8, <2>8 DEF ApartId
<1>9. CASE ~ Second(users, i)
  <2>1. seen(i) = {}
    BY <1>7, <1>9 DEF Second
  <2>2. Cardinality({}) = 0
    BY FS_EmptySet
  <2> HIDE DEF seen
  <2>3. Cardinality(seen(i)) + 1 = 1
    BY <2>1, <2>2
  <2>4. QED BY <1>4, <1>6, <1>9, <2>3 DEF ApartId, Named
<1>10. QED BY <1>8, <1>9

\* And so no id is given twice.
LEMMA ApartIdsDiffer ==
  ASSUME NEW users \in Roster, Apart(users),
         NEW i \in 1..Len(users), NEW j \in 1..Len(users), ApartId(users, i) = ApartId(users, j)
  PROVE  i = j
<1> DEFINE B(k) == Base[users[k]]
<1>1. Len(users) \in Nat /\ \A k \in 1..Len(users) : users[k] \in DOMAIN Base
  BY NamesAssumption
<1>2. \A k \in 1..Len(users) : Second(users, k) =>
        \E h \in 1..Len(users) : h < k /\ B(h) = B(k)
  BY <1>1 DEF Second
<1>3. \A h, k \in 1..Len(users) : B(h) = B(k) /\ h < k => Second(users, k)
  BY <1>1 DEF Second
<1>4. CASE Second(users, i) /\ Second(users, j)
  <2>1. B(i) = B(j)
    BY <1>1, <1>4, SuffixAssumption DEF ApartId
  <2>2. PICK h \in 1..Len(users) : h < i /\ B(h) = B(i)
    BY <1>2, <1>4
  <2>3. PICK k \in 1..Len(users) : k < j /\ B(k) = B(j)
    BY <1>2, <1>4
  <2>4. h = j \/ i = j
    BY <2>1, <2>2 DEF Apart
  <2>5. k = i \/ i = j
    BY <2>1, <2>3 DEF Apart
  <2>6. QED BY <2>2, <2>3, <2>4, <2>5
<1>5. CASE Second(users, i) /\ ~ Second(users, j)
  <2>1. PICK h \in 1..Len(users) : h < i /\ B(h) = B(i)
    BY <1>2, <1>5
  <2>2. B(j) = Named(B(i), 2)
    BY <1>5 DEF ApartId
  <2>3. QED BY <2>1, <2>2 DEF Apart
<1>6. CASE ~ Second(users, i) /\ Second(users, j)
  <2>1. PICK h \in 1..Len(users) : h < j /\ B(h) = B(j)
    BY <1>2, <1>6
  <2>2. B(i) = Named(B(j), 2)
    BY <1>6 DEF ApartId
  <2>3. QED BY <2>1, <2>2 DEF Apart
<1>7. CASE ~ Second(users, i) /\ ~ Second(users, j)
  <2>1. B(i) = B(j)
    BY <1>7 DEF ApartId
  <2>2. ~ (i < j) /\ ~ (j < i)
    BY <1>3, <1>7, <2>1
  <2>3. QED BY <1>1, <2>2
<1>8. QED BY <1>4, <1>5, <1>6, <1>7

-----------------------------------------------------------------------------
(* The documents.                                                          *)

LEMMA ThreeAreMany ==
  ASSUME NEW S, IsFiniteSet(S), NEW a \in S, NEW b \in S, NEW c \in S, a # b, b # c, a # c
  PROVE  Cardinality(S) > 2
<1>1. IsFiniteSet({a, b}) /\ Cardinality({a, b}) = 2
  <2>1. IsFiniteSet({a}) /\ Cardinality({a}) = 1
    BY FS_Singleton
  <2>2. IsFiniteSet({a} \cup {b}) /\ Cardinality({a} \cup {b}) = 2
    BY <2>1, FS_AddElement
  <2>3. {a, b} = {a} \cup {b}
    OBVIOUS
  <2>4. QED BY <2>2, <2>3
<1>2. IsFiniteSet({a, b} \cup {c}) /\ Cardinality({a, b} \cup {c}) = 3
  BY <1>1, FS_AddElement
<1>3. {a, b} \cup {c} \subseteq S
  OBVIOUS
<1>4. Cardinality({a, b} \cup {c}) <= Cardinality(S) /\ Cardinality(S) \in Nat
  BY <1>3, FS_Subset, FS_CardinalityType
<1>5. QED BY <1>2, <1>4

\* The cameras are those of a list of users.
Rostered == \E users \in Roster : cameras = CamerasOf(users)

\* Users who are not crowded have cameras with ids that differ.
LEMMA IdsDiffer ==
  ASSUME Rostered, ~Crowded,
         NEW i \in DOMAIN cameras, NEW j \in DOMAIN cameras, cameras[i].id = cameras[j].id
  PROVE  i = j
<1>1. PICK users \in Roster : cameras = CamerasOf(users)
  BY DEF Rostered
<1>2. PICK id : /\ Recursion(id, Len(users), users)
                /\ CamerasOf(users) =
                     [k \in 1..Len(users) |-> [name |-> users[k], topic |-> TopicId[users[k]], id |-> id[k]]]
  BY CamerasIds
<1> DEFINE n == Len(users)
           U == {cameras[k].name : k \in DOMAIN cameras}
<1>3. n \in Nat /\ DOMAIN cameras = 1..n /\ \A k \in 1..n : cameras[k].name = users[k] /\ cameras[k].id = id[k]
  BY <1>1, <1>2, NamesAssumption
<1>4. IsFiniteSet(U)
  <2>1. users \in Seq(U)
    BY <1>3, NamesAssumption
  <2>2. \A u \in U : \E k \in 1..Len(users) : users[k] = u
    BY <1>3
  <2> HIDE DEF U
  <2>3. QED BY <2>1, <2>2 DEF IsFiniteSet
<1>5. \A k \in 1..n : users[k] \in U
  BY <1>3
<1>6. Apart(users)
  <2> SUFFICES ASSUME NEW h \in 1..n, NEW k \in 1..n, NEW l \in 1..n,
                      h # k, Base[users[h]] = Base[users[k]]
               PROVE  /\ l \notin {h, k} => Base[users[l]] # Base[users[k]]
                      /\ Base[users[l]] # Named(Base[users[k]], 2)
    BY DEF Apart
  <2>1. users[h] # users[k]
    BY RosterAssumption
  <2>2. Base[users[l]] # Named(Base[users[k]], 2)
    BY <1>5, <2>1 DEF Crowded
  <2>3. ASSUME l \notin {h, k}, Base[users[l]] = Base[users[k]] PROVE FALSE
    <3> DEFINE S == {m \in U : Base[m] = Base[users[k]]}
    <3>1. users[l] # users[h] /\ users[l] # users[k]
      BY <2>3, RosterAssumption
    <3>2. users[h] \in S /\ users[k] \in S /\ users[l] \in S
      BY <1>5, <2>3
    <3>3. IsFiniteSet(S)
      BY <1>4, FS_Subset
    <3>4. ~ (Cardinality(S) > 2)
      BY <1>5 DEF Crowded
    <3> HIDE DEF S
    <3>5. QED BY <2>1, <3>1, <3>2, <3>3, <3>4, ThreeAreMany
  <2>4. QED BY <2>2, <2>3
<1>7. ApartId(users, i) = ApartId(users, j)
  BY <1>2, <1>3, <1>6, ApartIds
<1>8. QED BY <1>3, <1>6, <1>7, ApartIdsDiffer

\* What Start has announced so far, Home Assistant has.
DocumentsInv ==
  /\ Rostered
  /\ next \in Nat
  /\ main = "running" => next > Len(cameras)
  /\ ~Crowded =>
       \A i \in DOMAIN cameras : i < next =>
         cameras[i].id \in DOMAIN documents /\ documents[cameras[i].id] = cameras[i].name

LEMMA RosteredDomain ==
  ASSUME Rostered
  PROVE  Len(cameras) \in Nat /\ DOMAIN cameras = 1..Len(cameras)
<1>1. PICK users \in Roster : cameras = CamerasOf(users)
  BY DEF Rostered
<1>2. Len(users) \in Nat /\ DOMAIN cameras = 1..Len(users)
  BY <1>1, NamesAssumption DEF CamerasOf
<1>3. QED BY <1>2

\* A new process has announced nothing.
LEMMA NewProcessDocuments ==
  ASSUME NewProcess
  PROVE  DocumentsInv'
<1>1. Rostered'
  BY DEF NewProcess, Rostered
<1>2. \A i \in DOMAIN cameras' : ~ (i < 1)
  <2>1. PICK users \in Roster : cameras' = CamerasOf(users)
    BY DEF NewProcess
  <2>2. Len(users) \in Nat /\ DOMAIN cameras' = 1..Len(users)
    BY <2>1, NamesAssumption DEF CamerasOf
  <2>3. QED BY <2>2
<1>3. QED BY <1>1, <1>2 DEF NewProcess, DocumentsInv

\* The documents of one more camera leave those of the others as they were.
LEMMA DiscoverDocuments ==
  ASSUME DocumentsInv, Discover
  PROVE  DocumentsInv'
<1> DEFINE c == cameras[next]
<1>1. /\ UNCHANGED <<cameras, main>> /\ next' = next + 1 /\ next \in DOMAIN cameras
      /\ main # "running"
      /\ documents' = [id \in DOMAIN documents \cup {c.id} |-> IF id = c.id THEN c.name ELSE documents[id]]
  BY DEF Discover, Describe
<1>2. /\ c.id \in DOMAIN documents' /\ documents'[c.id] = c.name
      /\ \A id \in DOMAIN documents : id \in DOMAIN documents' /\ (id # c.id => documents'[id] = documents[id])
  BY <1>1
<1>3. Rostered' /\ (Crowded' <=> Crowded)
  BY <1>1 DEF DocumentsInv, Rostered, Crowded
<1>4. ASSUME ~Crowded, NEW i \in DOMAIN cameras, i < next + 1
      PROVE  cameras[i].id \in DOMAIN documents' /\ documents'[cameras[i].id] = cameras[i].name
  <2>1. CASE i = next
    BY <1>2, <2>1
  <2>2. CASE i # next
    <3>1. i < next
      BY <1>4, <2>2, RosteredDomain DEF DocumentsInv
    <3>2. cameras[i].id # c.id
      BY <1>1, <1>4, <2>2, IdsDiffer DEF DocumentsInv
    <3>3. QED BY <1>2, <1>4, <3>1, <3>2 DEF DocumentsInv
  <2>3. QED BY <2>1, <2>2
<1>5. cameras' = cameras /\ main' # "running" /\ next' = next + 1 /\ next' \in Nat
  BY <1>1 DEF DocumentsInv
<1> HIDE DEF c
<1>6. QED BY <1>3, <1>4, <1>5 DEF DocumentsInv

LEMMA DocumentsInvHolds == Spec => []DocumentsInv
<1>1. Init => DocumentsInv
  <2> SUFFICES ASSUME Init PROVE DocumentsInv
    OBVIOUS
  <2>1. Rostered
    BY DEF Init, Rostered
  <2>2. \A i \in DOMAIN cameras : ~ (i < 1)
    BY <2>1, RosteredDomain
  <2>3. QED BY <2>1, <2>2 DEF Init, DocumentsInv
<1>2. DocumentsInv /\ [Next]_vars => DocumentsInv'
  <2> SUFFICES ASSUME DocumentsInv, [Next]_vars PROVE DocumentsInv'
    OBVIOUS
  <2>1. ASSUME UNCHANGED <<cameras, documents, next>>,
               main' = "running" => main = "running" \/ next > Len(cameras)
        PROVE  DocumentsInv'
    <3>1. Rostered' /\ (Crowded' <=> Crowded)
      BY <2>1 DEF DocumentsInv, Rostered, Crowded
    <3>2. QED BY <2>1, <3>1 DEF DocumentsInv
  <2>2. CASE Die \/ StartFails
    BY <2>2, NewProcessDocuments DEF Die, StartFails
  <2>3. CASE StartStep
    BY <2>1, <2>3, DiscoverDocuments DEF StartStep, Connect, PublishOnline, Running
  <2>4. CASE LinkUp \/ LinkLost \/ UNCHANGED vars
    BY <2>1, <2>4 DEF LinkUp, LinkLost, start, vars
  <2>5. ASSUME NEW w \in Worker,
               Publish(w) \/ \E f \in Folder, reply \in Answer : Detect(w, f, reply)
        PROVE  DocumentsInv'
    BY <2>1, <2>5 DEF Publish, PublishEvent, PublishMotion, Detect, start
  <2>6. ASSUME NEW t \in Topic, ResetMotion(t) PROVE DocumentsInv'
    BY <2>1, <2>6 DEF ResetMotion, start
  <2>7. QED BY <2>2, <2>3, <2>4, <2>5, <2>6 DEF Next
<1>3. QED BY <1>1, <1>2, PTL DEF Spec

\* Once Start has returned, Home Assistant has every user's documents, whatever
\* the users were in earlier runs, unless they are crowded (NewWithClient,
\* PublishDiscovery).
THEOREM CamerasAreDescribedHolds == Spec => []CamerasAreDescribed
<1>1. DocumentsInv => CamerasAreDescribed
  <2> SUFFICES ASSUME DocumentsInv, main = "running", ~Crowded, NEW i \in DOMAIN cameras
               PROVE  documents[cameras[i].id] = cameras[i].name
    BY DEF CamerasAreDescribed
  <2>1. i < next
    BY RosteredDomain DEF DocumentsInv
  <2>2. QED BY <2>1 DEF DocumentsInv
<1>2. QED BY <1>1, DocumentsInvHolds, PTL
=============================================================================
