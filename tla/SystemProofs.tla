---------------------------- MODULE SystemProofs ----------------------------
(***************************************************************************)
(* Theorems about the two modules that put Spool in its surroundings:       *)
(* Delivery, where the classification service works beside it, and          *)
(* PowerLoss, where the disks lag behind it.                                *)
(***************************************************************************)
EXTENDS PowerLoss, Delivery, SpoolProofs

-----------------------------------------------------------------------------
(* Delivery: the spool in it is Spool, the service in it ClassifyAbstract.   *)

\* The worker is somewhere between the body of a message and its postStore.
HasVideo == {"attach", "remove", "post"}

StoredOf(m) == {k \in 1..MaxSets : file[<<m, k>>] = "stored"}

DeliveryTypes ==
  /\ file \in [Video -> {"absent", "writing", "stored"}]
  /\ event \in [Video -> {"none", "due", "owed", "paid"}]

\* The videos of a message are begun one after the other, an event is of a
\* stored video, and there are as many of these as the spool's copies.
VideoInv ==
  /\ DeliveryTypes
  /\ \A m \in Msg : \E n \in 0..MaxSets : Begun(m) = 1..n
  /\ wpc \in HasVideo => Begun(cur) # {}
  /\ \A v \in Video : event[v] # "none" => file[v] = "stored"
  /\ \A m \in Msg : Cardinality(StoredOf(m)) = copies[m]

\* The last video of a message is a video of it.
LEMMA LatestIs ==
  ASSUME VideoInv, NEW m \in Msg, Begun(m) # {}
  PROVE  \E k \in 1..MaxSets : Latest(m) = <<m, k>> /\ Begun(m) = 1..k /\ Latest(m) \in Video
<1>1. PICK k \in 0..MaxSets : Begun(m) = 1..k
  BY DEF VideoInv
<1>2. k \in 1..MaxSets
  BY <1>1, ServiceBoundAssumption
<1>3. Max(1..k) = k
  <2>1. k \in 1..k /\ \A y \in 1..k : k >= y
    BY <1>2
  <2>2. \A x \in 1..k : (\A y \in 1..k : x >= y) => x = k
    BY <2>1
  <2>3. QED BY <2>1, <2>2 DEF Max
<1>4. QED BY <1>1, <1>2, <1>3 DEF Latest, Video

LEMMA StoredFinite == \A m : IsFiniteSet(StoredOf(m))
<1>1. IsFiniteSet(1..MaxSets)
  <2>1. 1 \in Int /\ MaxSets \in Int
    BY ServiceBoundAssumption
  <2>2. QED BY <2>1, FS_Interval
<1>2. \A m : StoredOf(m) \in SUBSET (1..MaxSets)
  BY DEF StoredOf
<1>3. QED BY <1>1, <1>2, FS_Subset

LEMMA HolderHasMessage ==
  ASSUME CoreInv, wpc \in HasVideo
  PROVE  cur \in Msg
  BY DEF CoreInv, TypeOK, WorkerInv, HasVideo, Ashore

\* A step that begins and completes no video.
LEMMA VideoUnchanged ==
  ASSUME VideoInv, UNCHANGED <<file, copies>>,
         wpc' \in HasVideo => wpc \in HasVideo /\ cur' = cur,
         event' \in [Video -> {"none", "due", "owed", "paid"}],
         \A v \in Video : event'[v] # "none" => event[v] # "none"
  PROVE  VideoInv'
<1>1. \A m : Begun(m)' = Begun(m) /\ StoredOf(m)' = StoredOf(m)
  BY DEF Begun, StoredOf
<1>2. wpc' \in HasVideo => Begun(cur') # {}
  BY DEF VideoInv
<1>3. DeliveryTypes'
  BY DEF VideoInv, DeliveryTypes
<1>4. \A m \in Msg : \E n \in 0..MaxSets : Begun(m)' = 1..n
  BY <1>1 DEF VideoInv
<1>5. (wpc \in HasVideo => Begun(cur) # {})'
  BY <1>2 DEF Begun
<1>6. \A v \in Video : event'[v] # "none" => file'[v] = "stored"
  BY DEF VideoInv
<1>7. \A m \in Msg : Cardinality(StoredOf(m)') = copies'[m]
  BY <1>1 DEF VideoInv
<1>8. QED BY <1>3, <1>4, <1>5, <1>6, <1>7 DEF VideoInv

LEMMA BeginVideoInv ==
  ASSUME CoreInv, VideoInv, BeginVideo
  PROVE  VideoInv'
<1>1. cur \in Msg /\ cur' = cur /\ wpc' = "attach" /\ copies' = copies
  BY DEF BeginVideo, StoreBody, files, CoreInv, TypeOK, WorkerInv, Busy, Ashore
<1>2. PICK k \in 1..MaxSets : Begun(cur) = 1..(k - 1) /\ Service!Appear(<<cur, k>>)
  BY DEF BeginVideo
<1>3. /\ <<cur, k>> \in Video /\ file[<<cur, k>>] = "absent" /\ event' = event
      /\ file' = [file EXCEPT ![<<cur, k>>] = "writing"]
  BY <1>1, <1>2 DEF Service!Appear, Video
<1>4. /\ file' \in [Video -> {"absent", "writing", "stored"}] /\ file'[<<cur, k>>] = "writing"
      /\ \A v \in Video : v # <<cur, k>> => file'[v] = file[v]
  BY <1>3 DEF VideoInv, DeliveryTypes
<1>5. Begun(cur)' = 1..k
  <2>1. \A j \in 1..MaxSets : <<cur, j>> \in Video /\ (j # k => file'[<<cur, j>>] = file[<<cur, j>>])
    BY <1>1, <1>4 DEF Video
  <2>2. Begun(cur)' = Begun(cur) \cup {k}
    BY <1>1, <1>4, <2>1 DEF Begun
  <2>3. QED BY <1>2, <2>2, ServiceBoundAssumption
<1>6. \A m \in Msg : m # cur => Begun(m)' = Begun(m)
  BY <1>1, <1>4 DEF Begun, Video
<1>7. \A m \in Msg : StoredOf(m)' = StoredOf(m)
  <2> SUFFICES ASSUME NEW m \in Msg, NEW j \in 1..MaxSets
               PROVE  file'[<<m, j>>] = "stored" <=> file[<<m, j>>] = "stored"
    BY DEF StoredOf
  <2>1. <<m, j>> \in Video
    BY DEF Video
  <2>2. CASE <<m, j>> = <<cur, k>>
    BY <1>3, <1>4, <2>2
  <2>3. CASE <<m, j>> # <<cur, k>>
    BY <1>4, <2>1, <2>3
  <2>4. QED BY <2>2, <2>3
<1>8. \A m \in Msg : \E n \in 0..MaxSets : Begun(m)' = 1..n
  <2>1. k \in 0..MaxSets
    BY ServiceBoundAssumption
  <2>2. SUFFICES ASSUME NEW m \in Msg PROVE \E n \in 0..MaxSets : Begun(m)' = 1..n
    OBVIOUS
  <2>3. CASE m = cur
    <3>1. Begun(m)' = 1..k
      BY <1>1, <1>5, <2>3 DEF Begun
    <3>2. QED BY <2>1, <3>1
  <2>4. CASE m # cur
    BY <1>6, <2>4 DEF VideoInv
  <2>5. QED BY <2>3, <2>4
<1>9. \A v \in Video : event'[v] # "none" => file'[v] = "stored"
  BY <1>3, <1>4 DEF VideoInv
<1>10. Begun(cur)' # {}
  BY <1>5
<1>11. \A m \in Msg : Cardinality(StoredOf(m)') = copies[m]
  BY <1>7 DEF VideoInv
<1>12. QED BY <1>1, <1>3, <1>4, <1>8, <1>9, <1>10, <1>11 DEF VideoInv, DeliveryTypes

LEMMA CompleteVideoInv ==
  ASSUME CoreInv, VideoInv, CompleteVideo
  PROVE  VideoInv'
<1>1. /\ cur \in Msg /\ cur' = cur /\ wpc = "attach" /\ wpc' = "remove"
      /\ copies' = [copies EXCEPT ![cur] = @ + 1] /\ copies \in [Msg -> Nat]
  BY DEF CompleteVideo, StoreAttachments, CoreInv, TypeOK, WorkerInv, Busy, Ashore
<1>2. PICK k \in 1..MaxSets : Latest(cur) = <<cur, k>> /\ Begun(cur) = 1..k
  BY <1>1, LatestIs DEF VideoInv, HasVideo
<1>3. /\ <<cur, k>> \in Video /\ file[<<cur, k>>] = "writing"
      /\ file' = [file EXCEPT ![<<cur, k>>] = "stored"]
      /\ event' = [event EXCEPT ![<<cur, k>>] = "due"]
  BY <1>1, <1>2 DEF CompleteVideo, Service!Complete, Video
<1>4. /\ file' \in [Video -> {"absent", "writing", "stored"}] /\ file'[<<cur, k>>] = "stored"
      /\ event' \in [Video -> {"none", "due", "owed", "paid"}]
      /\ \A v \in Video : v # <<cur, k>> => file'[v] = file[v] /\ event'[v] = event[v]
  BY <1>3 DEF VideoInv, DeliveryTypes
<1>5. \A m \in Msg : Begun(m)' = Begun(m)
  <2> SUFFICES ASSUME NEW m \in Msg, NEW j \in 1..MaxSets
               PROVE  file'[<<m, j>>] # "absent" <=> file[<<m, j>>] # "absent"
    BY DEF Begun
  <2>1. <<m, j>> \in Video
    BY DEF Video
  <2>2. CASE <<m, j>> = <<cur, k>>
    BY <1>3, <1>4, <2>2
  <2>3. CASE <<m, j>> # <<cur, k>>
    BY <1>4, <2>1, <2>3
  <2>4. QED BY <2>2, <2>3
<1>6. \A m \in Msg : m # cur => StoredOf(m)' = StoredOf(m)
  BY <1>1, <1>4 DEF StoredOf, Video
<1>7. Cardinality(StoredOf(cur)') = copies[cur] + 1
  <2>1. \A j \in 1..MaxSets : <<cur, j>> \in Video /\ (j # k => file'[<<cur, j>>] = file[<<cur, j>>])
    BY <1>1, <1>4 DEF Video
  <2>2. StoredOf(cur)' = StoredOf(cur) \cup {k} /\ k \notin StoredOf(cur)
    BY <1>1, <1>3, <1>4, <2>1 DEF StoredOf
  <2>3. IsFiniteSet(StoredOf(cur))
    BY StoredFinite
  <2>4. QED BY <1>1, <2>2, <2>3, FS_AddElement DEF VideoInv
<1>8. \A m \in Msg : Cardinality(StoredOf(m)') = copies'[m]
  BY <1>1, <1>6, <1>7 DEF VideoInv
<1>9. \A v \in Video : event'[v] # "none" => file'[v] = "stored"
  BY <1>3, <1>4 DEF VideoInv
<1>10. \A m \in Msg : \E n \in 0..MaxSets : Begun(m)' = 1..n
  BY <1>5 DEF VideoInv
<1>11. Begun(cur)' # {}
  BY <1>1, <1>2, <1>5
<1>12. QED BY <1>1, <1>4, <1>8, <1>9, <1>10, <1>11 DEF VideoInv, DeliveryTypes

\* What the service does to the event of one of its videos.
LEMMA ServiceEvents ==
  ASSUME VideoInv, NEW v \in Video,
         \/ Service!Accept(v) \/ Service!Refuse(v) \/ Service!WriteOff(v) \/ Service!Decide(v)
         \/ Service!Spare(v) \/ Service!Reopen(v) \/ Service!Announce(v)
  PROVE  /\ file' = file /\ event' \in [Video -> {"none", "due", "owed", "paid"}]
         /\ \A u \in Video : event'[u] # "none" => event[u] # "none"
  BY DEF VideoInv, DeliveryTypes, Service!Accept, Service!Refuse, Service!WriteOff, Service!Decide,
         Service!Spare, Service!Reopen, Service!Announce, Service!NoEvent, Service!Refused

\* The video the worker gives is one of the service's.
LEMMA GivenIs ==
  ASSUME CoreInv, VideoInv, GiveVideo
  PROVE  \E v \in Video : v = Latest(cur) /\ (Service!Accept(v) \/ Service!Refuse(v) \/ Service!Spare(v))
<1>1. cur \in Msg /\ Begun(cur) # {}
  BY HolderHasMessage DEF GiveVideo, HasVideo, VideoInv
<1>2. QED BY <1>1, LatestIs DEF GiveVideo, Miss

LEMMA StepVideo ==
  ASSUME CoreInv, VideoInv, [DeliveryNext]_delivery
  PROVE  VideoInv'
<1> DEFINE Others == \/ Recover \/ StartFlush \/ NextPending \/ Claim \/ ReadItem \/ ReadItemFails
                     \/ ParseFails \/ StoreUnavailable \/ StoreFails \/ RemoveItem
<1>1. CASE BeginVideo
  BY <1>1, BeginVideoInv
<1>2. CASE CompleteVideo
  BY <1>2, CompleteVideoInv
<1>3. CASE GiveVideo
  BY <1>3, GivenIs, ServiceEvents, VideoUnchanged DEF GiveVideo, spool, vars, files, worker
<1>4. CASE \E v \in Video : Serving(v)
  BY <1>4, ServiceEvents, VideoUnchanged DEF Serving, Miss, spool, vars, files, worker
<1>5. ASSUME UNCHANGED service
      PROVE  /\ file' = file /\ event' \in [Video -> {"none", "due", "owed", "paid"}]
             /\ \A u \in Video : event'[u] # "none" => event[u] # "none"
  BY <1>5 DEF service, VideoInv, DeliveryTypes
<1>6. CASE VideoGiven
  <2>1. copies' = copies /\ wpc' \notin HasVideo
    BY <1>6 DEF VideoGiven, PostStore, Done, files, HasVideo
  <2>2. QED BY <1>5, <1>6, <2>1, VideoUnchanged DEF VideoGiven
<1>7. CASE Others /\ UNCHANGED service
  <2>1. copies' = copies /\ (wpc' \in HasVideo => wpc \in HasVideo /\ cur' = cur)
    BY <1>7
    DEF Recover, StartFlush, NextPending, Claim, ReadItem, ReadItemFails, ParseFails, StoreUnavailable,
        StoreFails, RemoveItem, MoveToFailed, PutBack, Done, files, HasVideo
  <2>2. QED BY <1>5, <1>7, <2>1, VideoUnchanged
<1>8. CASE Arrive \/ Enqueue
  <2>1. UNCHANGED <<copies, wpc, cur>> /\ UNCHANGED service
    BY <1>8
    DEF Arrive, Enqueue, BeginEnqueue, EnqueueStep, ListPending, Measure, MeasureFails, ListProcessing, CheckSize, CreateTmp,
        Publish, PublishFails, ReturnOK, files, worker
  <2>2. QED BY <1>5, <2>1, VideoUnchanged
<1>9. CASE StorageChanges \/ Revive
  <2>1. UNCHANGED copies /\ (wpc' \in HasVideo => wpc' = wpc /\ cur' = cur) /\ UNCHANGED service
    BY <1>9 DEF StorageChanges, Revive, StorageDown, StorageUp, Restart, files, worker, HasVideo
  <2>2. QED BY <1>5, <2>1, VideoUnchanged
<1>10. CASE Die
  <2>1. UNCHANGED <<copies, file>> /\ wpc' \notin HasVideo
    BY <1>10 DEF Die, Crash, Service!Forget, HasVideo
  <2>2. /\ event' \in [Video -> {"none", "due", "owed", "paid"}]
        /\ \A u \in Video : event'[u] # "none" => event[u] # "none"
    BY <1>10 DEF Die, Service!Forget
  <2>3. QED BY <2>1, <2>2, VideoUnchanged
<1>11. CASE UNCHANGED delivery
  BY <1>5, <1>11, VideoUnchanged DEF delivery, spool, vars, files, worker
<1>12. QED
  BY <1>1, <1>2, <1>3, <1>4, <1>6, <1>7, <1>8, <1>9, <1>10, <1>11 DEF DeliveryNext, SpoolWorker

LEMMA InitVideo == DeliveryInit => VideoInv
<1> SUFFICES ASSUME DeliveryInit PROVE VideoInv
  OBVIOUS
<1>1. /\ file \in [Video -> {"absent", "stored"}] /\ \A v \in Video : file[v] = "absent"
      /\ event = [v \in Video |-> "none"] /\ wpc = "recover" /\ copies = [m \in Msg |-> 0]
  BY DEF DeliveryInit, Service!Init, Init
<1>2. \A m \in Msg : Begun(m) = {} /\ StoredOf(m) = {}
  BY <1>1 DEF Begun, StoredOf, Video
<1>3. 1..0 = {} /\ 0 \in 0..MaxSets
  BY ServiceBoundAssumption
<1>4. QED BY <1>1, <1>2, <1>3, FS_EmptySet DEF VideoInv, DeliveryTypes, HasVideo

\* In the process with its service the spool takes the steps of Spool, so every
\* theorem about Spool is one about Delivery (main.go hands postStore to the
\* queue and changes nothing else of it).
THEOREM DeliveryIsSpool == DeliverySpec => Spec
<1>1. DeliveryInit => Init
  BY DEF DeliveryInit
<1>2. [DeliveryNext]_delivery => [Next]_vars
  BY DEF DeliveryNext, delivery, spool, Arrive, Enqueue, SpoolWorker, BeginVideo, CompleteVideo, GiveVideo,
         VideoGiven, Serving, StorageChanges, Die, Revive, Next, WorkerStep
<1>3. QED BY <1>1, <1>2, PTL DEF DeliverySpec, Spec

LEMMA DeliveryInvariance == DeliverySpec => [](IInv /\ VideoInv)
<1>1. CoreInv /\ VideoInv /\ [DeliveryNext]_delivery => VideoInv'
  BY StepVideo
<1>2. IInv => CoreInv
  BY DEF IInv
<1>3. QED BY DeliveryIsSpool, Invariance, InitVideo, <1>1, <1>2, PTL DEF DeliverySpec

\* And the service gets from the spool's worker nothing but what
\* ClassifyAbstract expects of a caller: a video is completed after it was begun,
\* and offered once it is complete (processOne, postStore).
THEOREM DeliveryIsService == DeliverySpec => Service!Spec
<1>1. DeliveryInit => Service!Init
  BY DEF DeliveryInit
<1>2. ASSUME CoreInv, VideoInv, [DeliveryNext]_delivery PROVE [Service!Next]_(Service!vars)
  <2>1. CASE BeginVideo
    <3>1. cur \in Msg
      BY <1>2, <2>1 DEF BeginVideo, StoreBody, CoreInv, TypeOK, WorkerInv, Busy, Ashore
    <3>2. PICK k \in 1..MaxSets : Service!Appear(<<cur, k>>)
      BY <2>1 DEF BeginVideo
    <3>3. <<cur, k>> \in Video
      BY <3>1 DEF Video
    <3>4. QED BY <3>2, <3>3 DEF Service!Next
  <2>2. CASE CompleteVideo
    <3>1. cur \in Msg /\ Begun(cur) # {}
      BY <1>2, <2>2, HolderHasMessage DEF CompleteVideo, StoreAttachments, HasVideo, VideoInv
    <3>2. Latest(cur) \in Video
      BY <1>2, <3>1, LatestIs
    <3>3. QED BY <2>2, <3>2 DEF CompleteVideo, Service!Next
  <2>3. CASE GiveVideo
    BY <1>2, <2>3, GivenIs DEF Service!Next, Service!Serve
  <2>4. CASE \E v \in Video : Serving(v)
    BY <2>4 DEF Serving, Miss, Service!Next, Service!Serve
  <2>5. CASE Die
    BY <2>5 DEF Die, Service!Next
  <2>6. CASE UNCHANGED service
    BY <2>6 DEF service, Service!vars
  <2>7. QED BY <1>2, <2>1, <2>2, <2>3, <2>4, <2>5, <2>6
            DEF DeliveryNext, SpoolWorker, VideoGiven, Arrive, Enqueue, StorageChanges, Revive, delivery
<1>3. IInv => CoreInv
  BY DEF IInv
<1>4. QED BY DeliveryInvariance, <1>1, <1>2, <1>3, PTL DEF DeliverySpec, Service!Spec

\* And ClassifyAbstract says enough: whatever keeps it publishes the event of a
\* video once, since what is paid stays paid and is never due again, and of a
\* completely stored video only; a stored video stays stored.
THEOREM ServiceSaysEnough ==
  Service!Spec =>
    /\ [](\A v \in Video : event[v] # "none" => file[v] = "stored")
    /\ [][\A v \in Video : /\ event[v] = "paid" => event'[v] = "paid"
                           /\ file[v] = "stored" => file'[v] = "stored"]_(Service!vars)
<1> DEFINE Given == DeliveryTypes /\ \A v \in Video : event[v] # "none" => file[v] = "stored"
           Final == \A v \in Video : /\ event[v] = "paid" => event'[v] = "paid"
                                     /\ file[v] = "stored" => file'[v] = "stored"
<1>1. Service!Init => Given
  BY DEF Service!Init, DeliveryTypes
<1>2. ASSUME Given, [Service!Next]_(Service!vars) PROVE Given' /\ (Final \/ UNCHANGED Service!vars)
  <2> USE <1>2 DEF DeliveryTypes
  <2>1. CASE \E v \in Video : Service!Appear(v)
    BY <2>1 DEF Service!Appear
  <2>2. CASE \E v \in Video : Service!Complete(v)
    BY <2>2 DEF Service!Complete
  <2>3. CASE \E v \in Video : Service!Serve(v)
    BY <2>3 DEF Service!Serve, Service!Accept, Service!Refuse, Service!WriteOff, Service!Decide, Service!Spare,
                Service!Reopen, Service!Announce, Service!NoEvent, Service!Refused
  <2>4. CASE Service!Forget
    BY <2>4 DEF Service!Forget
  <2>5. CASE UNCHANGED Service!vars
    BY <2>5 DEF Service!vars
  <2>6. QED BY <2>1, <2>2, <2>3, <2>4, <2>5 DEF Service!Next
<1>3. QED BY <1>1, <1>2, PTL DEF Service!Spec

\* A camera's message is announced for complete copies only, once for each; more
\* than once only as often as a crash or a failed call made it be stored again;
\* and never when its client was told to send it again (Enqueue, processOne,
\* postStore, main.go).
THEOREM AlertsAreEarnedHolds == DeliverySpec => []AlertsAreEarned
<1>1. ASSUME IInv, VideoInv, DebrisBudget, CopyAccount PROVE AlertsAreEarned
  <2> SUFFICES ASSUME NEW m \in Msg
               PROVE  /\ Alerts(m) <= copies[m]
                      /\ Alerts(m) <= 1 + crashes + faults
                      /\ Alerts(m) > 0 => reply[m] # "refused"
    BY DEF AlertsAreEarned
  <2>1. copies[m] \in Nat /\ crashes \in Nat /\ faults \in Nat
    BY <1>1, CountsType DEF IInv, CoreInv, TypeOK
  <2>2. Alerts(m) \in Nat /\ Alerts(m) <= copies[m]
    <3>1. {k \in 1..MaxSets : event[<<m, k>>] = "paid"} \subseteq StoredOf(m)
      BY <1>1 DEF VideoInv, StoredOf, Video
    <3>2. IsFiniteSet(StoredOf(m))
      BY StoredFinite
    <3>3. QED BY <1>1, <3>1, <3>2, FS_Subset, FS_CardinalityType DEF VideoInv, Alerts
  <2>3. copies[m] <= 1 + crashes + faults
    <3>1. {m} \X (2..copies[m]) \subseteq Pieces(copies, 2)
      BY <1>1 DEF Pieces, IInv, CoreInv, TypeOK
    <3>2. /\ IsFiniteSet({m}) /\ Cardinality({m}) = 1 /\ IsFiniteSet(2..copies[m])
          /\ Cardinality(2..copies[m]) = IF 2 > copies[m] THEN 0 ELSE copies[m] - 1
      <4>1. 2 \in Int /\ copies[m] \in Int
        BY <2>1
      <4>2. /\ IsFiniteSet(2..copies[m])
            /\ Cardinality(2..copies[m]) = IF 2 > copies[m] THEN 0 ELSE copies[m] - 2 + 1
        BY <4>1, FS_Interval
      <4>3. copies[m] - 2 + 1 = copies[m] - 1
        BY <2>1
      <4>4. QED BY <4>2, <4>3, FS_Singleton
    <3>3. /\ Cardinality({m} \X (2..copies[m])) = 1 * Cardinality(2..copies[m])
          /\ Cardinality(2..copies[m]) \in Nat
      BY <3>2, FS_Product, FS_CardinalityType
    <3>4. \A n \in Nat : 1 * n = n
      OBVIOUS
    <3>5. Cardinality(2..copies[m]) <= Cardinality(Pieces(copies, 2)) /\ Cardinality(Pieces(copies, 2)) \in Nat
      BY <1>1, <3>1, <3>3, <3>4, FS_Subset, FS_CardinalityType DEF CopyAccount
    <3>6. Cardinality(Pieces(copies, 2)) <= crashes + faults
      BY <1>1 DEF DebrisBudget
    <3>7. CASE 2 > copies[m]
      BY <2>1, <3>7
    <3>8. CASE ~(2 > copies[m])
      <4>1. copies[m] - 1 <= Cardinality(Pieces(copies, 2))
        BY <3>2, <3>5, <3>8
      <4>2. QED BY <2>1, <3>5, <3>6, <4>1
    <3>9. QED BY <3>7, <3>8
  <2>4. Alerts(m) <= 1 + crashes + faults
    BY <2>1, <2>2, <2>3
  <2>5. reply[m] = "refused" => copies[m] = 0
    BY <1>1, <2>1 DEF IInv, CoreInv, OutsideInv, Safe
  <2>6. QED BY <2>1, <2>2, <2>4, <2>5
<1>2. Spec => []CopyAccount
  <2>1. IInv /\ CopyAccount /\ [Next]_vars => CopyAccount'
    BY StepCopyAccount DEF IInv
  <2>2. Init => CopyAccount
    BY InitAccounts DEF Accounts
  <2>3. QED BY <2>1, <2>2, Invariance, PTL DEF Spec
<1>3. QED BY DeliveryIsSpool, DeliveryInvariance, DebrisBudgetHolds, <1>1, <1>2, PTL

-----------------------------------------------------------------------------
(* PowerLoss: what is on the disks and in the journal.                       *)

Inside == {"pending", "processing", "failed"}
Outside == {"nowhere", "tmp"}

Changed == [msg : Msg, to : Inside \cup Outside]

DiskTypes ==
  /\ entry \in [Msg -> Inside \cup Outside]
  /\ written \subseteq Msg
  /\ safe \in [Msg -> Nat]
  /\ losses \in 0..MaxLosses
  /\ journal \in Seq(Changed)

\* The contents of an item are on disk before its name can be.
WholeInv ==
  /\ InSpool \subseteq written
  /\ \A m \in Msg : entry[m] \in Inside => m \in written
  /\ \A i \in DOMAIN journal : journal[i].to \in Inside => journal[i].msg \in written

\* No rename has published the item of m, and none will unless m is mu.
Unpublished(m) == reply[m] \in {"none", "refused"} \/ (m = mu /\ epc # "return")

\* Nothing of such a message is on its way to the disks but its temporary file,
\* which is removed when it is refused.
FreshInv ==
  \A m \in Msg : Unpublished(m) =>
    /\ safe[m] = 0 /\ entry[m] \in Outside
    /\ \A i \in DOMAIN journal : journal[i].msg = m =>
         \/ journal[i].to = "tmp" /\ reply[m] # "none"
         \/ journal[i].to = "nowhere" /\ reply[m] = "refused"

\* After the temporary file of m comes its rename into pending, and an item that
\* is removed has a copy.
InOrder(m) ==
  Safe(m) =>
    /\ \A i \in DOMAIN journal : journal[i] = Change(m, "tmp") =>
         \E k \in DOMAIN journal : i < k /\ journal[k] = Change(m, "pending")
    /\ \A k \in DOMAIN journal : journal[k] = Change(m, "nowhere") => copies[m] > 0

\* What a loss of power would take away is in one of the two windows.
InWindow(m) ==
  Safe(m) /\ safe[m] = 0 /\ entry[m] \in Outside =>
    \/ \E i \in DOMAIN journal : journal[i] = Change(m, "pending")
    \/ entry[m] = "nowhere" /\ copies[m] > 0

WindowInv == \A m \in Msg : InOrder(m) /\ InWindow(m)

DiskInv == CoreInv /\ DiskTypes /\ WholeInv /\ FreshInv /\ WindowInv

LEMMA PlaceIs ==
  ASSUME OncePerItem, NEW m
  PROVE  /\ Place(m) = "tmp" <=> m \in tmp
         /\ Place(m) = "pending" <=> m \in pending
         /\ Place(m) = "processing" <=> m \in processing
         /\ Place(m) = "failed" <=> m \in failed
         /\ Place(m) \in Inside <=> m \in InSpool
         /\ Place(m) \in Inside \cup Outside
  BY DEF OncePerItem, Place, Inside, Outside, InSpool, Queued

LEMMA PlaceWillBe ==
  ASSUME OncePerItem', NEW m
  PROVE  /\ Place(m)' = "tmp" <=> m \in tmp'
         /\ Place(m)' = "pending" <=> m \in pending'
         /\ Place(m)' = "processing" <=> m \in processing'
         /\ Place(m)' = "failed" <=> m \in failed'
         /\ Place(m)' \in Inside <=> m \in InSpool'
         /\ Place(m)' \in Inside \cup Outside
  BY DEF OncePerItem, Place, Inside, Outside, InSpool, Queued

LEMMA ChangeIs ==
  /\ \A m, to : Change(m, to).msg = m /\ Change(m, to).to = to
  /\ \A m, to, n, uo : Change(m, to) = Change(n, uo) => m = n /\ to = uo
<1>1. \A m, to : Change(m, to).msg = m /\ Change(m, to).to = to
  BY DEF Change
<1>2. ASSUME NEW m, NEW to, NEW n, NEW uo, Change(m, to) = Change(n, uo)
      PROVE  m = n /\ to = uo
  BY <1>2, <1>1
<1>3. QED BY <1>1, <1>2

LEMMA ChangeIsItsParts ==
  ASSUME NEW c \in Changed
  PROVE  c = Change(c.msg, c.to) /\ c.msg \in Msg /\ c.to \in Inside \cup Outside
  BY DEF Change, Changed

\* The program renames one item in a step at most, and completes a copy in a
\* step that renames none.
LEMMA OneMoves ==
  ASSUME CoreInv, Next
  PROVE  \/ /\ UNCHANGED dirs /\ cur \in processing /\ cur \in Msg
            /\ copies' = [copies EXCEPT ![cur] = copies[cur] + 1]
         \/ /\ copies' = copies
            /\ \E x : /\ tmp' \ {x} = tmp \ {x} /\ pending' \ {x} = pending \ {x}
                     /\ processing' \ {x} = processing \ {x} /\ failed' \ {x} = failed \ {x}
<1> USE DEF dirs, files
<1> DEFINE Only(x) == /\ tmp' \ {x} = tmp \ {x} /\ pending' \ {x} = pending \ {x}
                      /\ processing' \ {x} = processing \ {x} /\ failed' \ {x} = failed \ {x}
<1>1. CASE StoreAttachments
  BY <1>1 DEF StoreAttachments, CoreInv, TypeOK, WorkerInv, Busy
<1>2. CASE EnqueueStep
  <2>1. copies' = copies /\ Only(mu)
    BY <1>2
    DEF EnqueueStep, ListPending, Measure, MeasureFails, ListProcessing, CheckSize, CreateTmp, Publish, PublishFails, ReturnOK
  <2>2. QED BY <2>1
<1>3. CASE Recover
  <2>1. copies' = copies /\ Only(Oldest(toRecover))
    BY <1>3 DEF Recover
  <2>2. QED BY <2>1
<1>4. CASE WorkerStep /\ ~Recover /\ ~StoreAttachments
  <2>1. copies' = copies /\ Only(cur)
    BY <1>4
    DEF WorkerStep, StartFlush, NextPending, Claim, ReadItem, ReadItemFails, StoreBody, ParseFails,
        StoreUnavailable, StoreFails, RemoveItem, PostStore, MoveToFailed, PutBack
  <2>2. QED BY <2>1
<1>5. CASE (\E m \in Msg : BeginEnqueue(m)) \/ StorageDown \/ StorageUp \/ Crash \/ Restart
  <2>1. copies' = copies /\ Only(cur)
    BY <1>5 DEF BeginEnqueue, StorageDown, StorageUp, Crash, Restart
  <2>2. QED BY <2>1
<1>6. QED BY <1>1, <1>2, <1>3, <1>4, <1>5 DEF Next, WorkerStep

\* So there is one change at most.
LEMMA OneChange ==
  ASSUME CoreInv, Next
  PROVE  Changes = {} \/ \E c : Changes = {c}
<1>1. ASSUME NEW c \in Changes, NEW d \in Changes PROVE c = d
  <2>1. PICK x : /\ tmp' \ {x} = tmp \ {x} /\ pending' \ {x} = pending \ {x}
                 /\ processing' \ {x} = processing \ {x} /\ failed' \ {x} = failed \ {x}
    BY OneMoves DEF dirs
  <2>2. \A m : Place(m)' # Place(m) => m = x
    <3> SUFFICES ASSUME NEW m, m # x PROVE Place(m)' = Place(m)
      OBVIOUS
    <3>1. /\ m \in tmp' <=> m \in tmp
          /\ m \in pending' <=> m \in pending
          /\ m \in processing' <=> m \in processing
          /\ m \in failed' <=> m \in failed
      BY <2>1
    <3>2. QED BY <3>1 DEF Place
  <2>3. \A e \in Changes : e = Change(x, Place(x)')
    BY <2>2 DEF Changes
  <2>4. QED BY <1>1, <2>3
<1>2. QED BY <1>1

\* A change that is appended comes after what the journal has already.
LEMMA JournalGrows ==
  ASSUME CoreInv, CoreInv', DiskTypes, Program
  PROVE  /\ journal' \in Seq(Changed)
         /\ \A i \in DOMAIN journal : i \in DOMAIN journal' /\ journal'[i] = journal[i]
         /\ \A i \in DOMAIN journal' :
              i \in DOMAIN journal \/ (journal'[i] \in Changes /\ \A k \in DOMAIN journal : k < i)
         /\ \A c \in Changes : \E i \in DOMAIN journal' :
              journal'[i] = c /\ \A k \in DOMAIN journal : k < i
<1>1. CASE Changes = {}
  <2>1. SetToSeq({}) = <<>>
    <3>1. Cardinality({}) = 0
      BY FS_EmptySet
    <3>2. 1..0 = {}
      OBVIOUS
    <3>3. \E f \in [1..Cardinality({}) -> {}] : IsInjective(f)
      <4>1. [i \in {} |-> i] \in [1..Cardinality({}) -> {}] /\ IsInjective([i \in {} |-> i])
        BY <3>1, <3>2 DEF IsInjective
      <4>2. QED BY <4>1
    <3>4. SetToSeq({}) \in [{} -> {}]
      BY <3>1, <3>2, <3>3 DEF SetToSeq
    <3>5. QED BY <3>2, <3>4
  <2>2. journal' = journal \o <<>>
    BY <1>1, <2>1 DEF Program
  <2>3. journal' = journal
    BY <2>2 DEF DiskTypes
  <2>4. QED BY <1>1, <2>3 DEF DiskTypes
<1>2. ASSUME NEW c, Changes = {c}
      PROVE  /\ journal' = Append(journal, c) /\ c \in Changed
  <2>1. SetToSeq({c}) = <<c>>
    <3>1. Cardinality({c}) = 1
      BY FS_Singleton
    <3>2. <<c>> \in [1..1 -> {c}] /\ IsInjective(<<c>>)
      BY DEF IsInjective
    <3>3. SetToSeq({c}) \in [1..1 -> {c}]
      BY <3>1, <3>2 DEF SetToSeq
    <3>4. QED BY <3>3
  <2>2. journal' = journal \o <<c>>
    BY <1>2, <2>1 DEF Program
  <2>3. journal' = Append(journal, c)
    BY <2>2 DEF DiskTypes
  <2>4. c \in Changes
    BY <1>2
  <2>5. PICK m \in Msg : c = Change(m, Place(m)')
    BY <2>4 DEF Changes
  <2>6. Place(m)' \in Inside \cup Outside
    BY PlaceWillBe, Zenon DEF CoreInv
  <2>7. QED BY <2>3, <2>5, <2>6 DEF Change, Changed
<1>3. ASSUME NEW c, Changes = {c}
      PROVE  /\ journal' \in Seq(Changed)
             /\ \A i \in DOMAIN journal : i \in DOMAIN journal' /\ journal'[i] = journal[i]
             /\ \A i \in DOMAIN journal' :
                  i \in DOMAIN journal \/ (journal'[i] = c /\ \A k \in DOMAIN journal : k < i)
             /\ \E i \in DOMAIN journal' : journal'[i] = c /\ \A k \in DOMAIN journal : k < i
  <2>1. journal' = Append(journal, c) /\ c \in Changed /\ journal \in Seq(Changed)
    BY <1>2, <1>3 DEF DiskTypes
  <2>2. /\ journal' \in Seq(Changed) /\ Len(journal') = Len(journal) + 1 /\ Len(journal) \in Nat
        /\ \A i \in 1..Len(journal) : journal'[i] = journal[i]
        /\ journal'[Len(journal) + 1] = c
    BY <2>1
  <2>3. DOMAIN journal = 1..Len(journal) /\ DOMAIN journal' = 1..(Len(journal) + 1)
    BY <2>1, <2>2
  <2>4. QED BY <2>2, <2>3
<1>4. QED BY <1>1, <1>3, OneChange DEF Program

\* When the oldest change is written back, the others move up.
LEMMA JournalShrinks ==
  ASSUME DiskTypes, journal # <<>>, journal' = Tail(journal)
  PROVE  /\ journal' \in Seq(Changed) /\ 1 \in DOMAIN journal /\ Head(journal) = journal[1]
         /\ \A j \in DOMAIN journal : 1 < j => j - 1 \in DOMAIN journal' /\ journal'[j - 1] = journal[j]
         /\ \A k \in DOMAIN journal' : k + 1 \in DOMAIN journal /\ journal'[k] = journal[k + 1] /\ k \in Nat
         /\ DOMAIN journal \subseteq Nat \ {0}
<1>1. journal \in Seq(Changed) /\ Len(journal) \in Nat \ {0} /\ DOMAIN journal = 1..Len(journal)
  BY DEF DiskTypes
<1>2. /\ journal' \in Seq(Changed) /\ Len(journal') = Len(journal) - 1
      /\ \A k \in 1..(Len(journal) - 1) : journal'[k] = journal[k + 1]
      /\ DOMAIN journal' = 1..(Len(journal) - 1)
  BY <1>1
<1>3. QED BY <1>1, <1>2

-----------------------------------------------------------------------------
(* What a step of the program does to one message.                          *)

\* An item comes into the spool by Publish only.
LEMMA NewlyInside ==
  ASSUME CoreInv, Next, NEW m \in Msg, m \notin InSpool, m \in InSpool'
  PROVE  Publish /\ m = mu
<1> USE DEF InSpool, Queued, dirs, CoreInv, TypeOK, WorkerInv, Busy
<1>1. CASE EnqueueStep
  BY <1>1 DEF EnqueueStep, ListPending, Measure, MeasureFails, ListProcessing, CheckSize, CreateTmp, Publish, PublishFails, ReturnOK
<1>2. CASE Recover
  BY <1>2, OldestIn DEF Recover
<1>3. CASE WorkerStep /\ ~Recover
  BY <1>3
  DEF WorkerStep, StartFlush, NextPending, Claim, ReadItem, ReadItemFails, StoreBody, ParseFails,
      StoreAttachments, StoreUnavailable, StoreFails, RemoveItem, PostStore, MoveToFailed, PutBack
<1>4. CASE (\E n \in Msg : BeginEnqueue(n)) \/ StorageDown \/ StorageUp \/ Crash \/ Restart
  BY <1>4 DEF BeginEnqueue, StorageDown, StorageUp, Crash, Restart
<1>5. QED BY <1>1, <1>2, <1>3, <1>4 DEF Next

LEMMA NewlySafe ==
  ASSUME CoreInv, Next, NEW m \in Msg, ~Safe(m), Safe(m)'
  PROVE  Publish /\ m = mu
<1>1. CASE m \in InSpool'
  BY <1>1, NewlyInside DEF Safe
<1>2. CASE m \notin InSpool'
  BY <1>2, OneMoves DEF Safe, CoreInv, TypeOK, InSpool, Queued
<1>3. QED BY <1>1, <1>2

\* A temporary file comes by CreateTmp only.
LEMMA NewlyTmp ==
  ASSUME CoreInv, Next, NEW m \in Msg, m \notin tmp, m \in tmp'
  PROVE  CreateTmp /\ m = mu
  BY DEF Next, BeginEnqueue, EnqueueStep, ListPending, Measure, MeasureFails, ListProcessing, CheckSize, CreateTmp, Publish,
         PublishFails, ReturnOK, WorkerStep, Recover, StartFlush, NextPending, Claim, ReadItem, ReadItemFails,
         StoreBody, ParseFails, StoreAttachments, StoreUnavailable, StoreFails, RemoveItem, PostStore,
         MoveToFailed, PutBack, StorageDown, StorageUp, Crash, Restart, dirs

\* Who is not published was not published before, and what happens to its
\* temporary file is known.
LEMMA StillUnpublished ==
  ASSUME CoreInv, CoreInv', Next, NEW m \in Msg, Unpublished(m)'
  PROVE  /\ Unpublished(m) /\ (reply[m] = "refused" => reply'[m] = "refused")
         /\ reply'[m] = "none" => reply[m] = "none" /\ (m \in tmp' <=> m \in tmp)
         /\ m \in tmp' /\ m \notin tmp => reply'[m] # "none"
         /\ m \notin tmp' /\ m \in tmp => reply'[m] = "refused"
         /\ copies'[m] = 0 /\ m \notin InSpool' /\ m \notin InSpool
<1>1. m \notin InSpool' /\ copies'[m] = 0
  BY NoneAssumption DEF Unpublished, CoreInv, TypeOK, OutsideInv, SessionInv, Safe
<1>2. CASE \E n \in Msg : BeginEnqueue(n)
  BY <1>1, <1>2, NoneAssumption
  DEF BeginEnqueue, Unpublished, CoreInv, TypeOK, SessionInv, OutsideInv, Safe, InSpool, Queued, dirs
<1>3. CASE EnqueueStep
  <2>1. /\ Unpublished(m) /\ (reply[m] = "refused" => reply'[m] = "refused")
        /\ reply'[m] = "none" => reply[m] = "none" /\ (m \in tmp' <=> m \in tmp)
        /\ m \in tmp' /\ m \notin tmp => reply'[m] # "none"
        /\ m \notin tmp' /\ m \in tmp => reply'[m] = "refused"
    BY <1>1, <1>3, NoneAssumption
    DEF EnqueueStep, ListPending, Measure, MeasureFails, ListProcessing, CheckSize, CreateTmp, Publish, PublishFails, ReturnOK,
        Refuse, Unpublished, CoreInv, TypeOK, SessionInv, InSpool, Queued, dirs, enq
  <2>2. m \notin InSpool
    BY <2>1, NoneAssumption DEF Unpublished, CoreInv, OutsideInv, SessionInv, Safe
  <2>3. QED BY <1>1, <2>1, <2>2
<1>4. CASE WorkerStep \/ StorageDown \/ StorageUp \/ Crash \/ Restart
  <2>1. UNCHANGED tmp
    BY <1>4
    DEF WorkerStep, Recover, StartFlush, NextPending, Claim, ReadItem, ReadItemFails,
        StoreBody, ParseFails, StoreAttachments, StoreUnavailable, StoreFails, RemoveItem, PostStore,
        MoveToFailed, PutBack, StorageDown, StorageUp, Crash, Restart, dirs
  <2>2. \/ UNCHANGED <<reply, mu, epc>>
        \/ mu' = None /\ reply' = [n \in Msg |-> IF reply[n] = "waiting" THEN "lost" ELSE reply[n]]
    BY <1>4
    DEF WorkerStep, Recover, StartFlush, NextPending, Claim, ReadItem, ReadItemFails,
        StoreBody, ParseFails, StoreAttachments, StoreUnavailable, StoreFails, RemoveItem, PostStore,
        StorageDown, StorageUp, Crash, Restart, enq
  <2>3. Unpublished(m) /\ (reply'[m] = reply[m])
    BY <2>2, NoneAssumption DEF Unpublished
  <2>4. m \notin InSpool
    BY <2>3, NoneAssumption DEF Unpublished, CoreInv, OutsideInv, SessionInv, Safe
  <2>5. QED BY <1>1, <2>1, <2>3, <2>4
<1>5. QED BY <1>2, <1>3, <1>4 DEF Next

LEMMA ChangesAre ==
  ASSUME NEW c \in Changes
  PROVE  \E m \in Msg : c = Change(m, Place(m)') /\ Place(m)' # Place(m)
  BY DEF Changes

LEMMA ProgramTypes ==
  ASSUME DiskInv, CoreInv', Program
  PROVE  DiskTypes'
<1>1. CoreInv /\ DiskTypes
  BY DEF DiskInv
<1>2. journal' \in Seq(Changed)
  BY <1>1, JournalGrows
<1>3. Synced \subseteq Msg
  BY <1>1, NoneAssumption DEF Synced, CoreInv, TypeOK, SessionInv
<1>4. UNCHANGED <<entry, safe, losses>> /\ written' \subseteq Msg
  BY <1>1, <1>3 DEF Program, DiskTypes
<1>5. QED BY <1>1, <1>2, <1>4 DEF DiskTypes

\* The item is synced before it is renamed into pending, and only then.
LEMMA ProgramWhole ==
  ASSUME DiskInv, CoreInv', Program
  PROVE  WholeInv'
<1>1. CoreInv /\ DiskTypes /\ WholeInv /\ Next
  BY DEF DiskInv, Program
<1>2. InSpool' \subseteq written'
  <2> SUFFICES ASSUME NEW m \in InSpool' PROVE m \in written'
    OBVIOUS
  <2>1. m \in Msg
    BY DEF CoreInv, TypeOK, InSpool, Queued
  <2>2. CASE m \in InSpool
    BY <1>1, <2>2 DEF WholeInv, Program
  <2>3. CASE m \notin InSpool
    BY <1>1, <2>1, <2>3, NewlyInside DEF Publish, Program, Synced
  <2>4. QED BY <2>2, <2>3
<1>3. \A m \in Msg : entry'[m] \in Inside => m \in written'
  BY <1>1 DEF WholeInv, Program
<1>4. ASSUME NEW i \in DOMAIN journal', journal'[i].to \in Inside PROVE journal'[i].msg \in written'
  <2>1. CASE i \in DOMAIN journal /\ journal'[i] = journal[i]
    BY <1>1, <1>4, <2>1 DEF WholeInv, Program
  <2>2. ASSUME NEW m \in Msg, journal'[i] = Change(m, Place(m)') PROVE journal'[i].msg \in written'
    <3>1. Place(m)' \in Inside /\ journal'[i].msg = m
      BY <1>4, <2>2, ChangeIs
    <3>2. m \in InSpool'
      BY <3>1, PlaceWillBe DEF CoreInv
    <3>3. QED BY <1>2, <3>1, <3>2
  <2>3. QED BY <1>1, <2>1, <2>2, JournalGrows, ChangesAre
<1>5. QED BY <1>2, <1>3, <1>4 DEF WholeInv

\* What is not published has changed its temporary file only.
LEMMA ProgramFresh ==
  ASSUME DiskInv, CoreInv', Program
  PROVE  FreshInv'
<1>1. CoreInv /\ DiskTypes /\ FreshInv /\ Next
  BY DEF DiskInv, Program
<1>2. SUFFICES ASSUME NEW m \in Msg, Unpublished(m)'
               PROVE  /\ safe'[m] = 0 /\ entry'[m] \in Outside
                      /\ \A i \in DOMAIN journal' : journal'[i].msg = m =>
                           \/ journal'[i].to = "tmp" /\ reply'[m] # "none"
                           \/ journal'[i].to = "nowhere" /\ reply'[m] = "refused"
  BY DEF FreshInv
<1>3. /\ Unpublished(m) /\ (reply[m] = "refused" => reply'[m] = "refused")
      /\ reply'[m] = "none" => reply[m] = "none" /\ (m \in tmp' <=> m \in tmp)
      /\ m \in tmp' /\ m \notin tmp => reply'[m] # "none"
      /\ m \notin tmp' /\ m \in tmp => reply'[m] = "refused"
      /\ copies'[m] = 0 /\ m \notin InSpool' /\ m \notin InSpool
  BY <1>1, <1>2, StillUnpublished
<1>4. safe'[m] = 0 /\ entry'[m] \in Outside
  BY <1>1, <1>3 DEF FreshInv, Program
<1>5. ASSUME NEW i \in DOMAIN journal', journal'[i].msg = m
      PROVE  \/ journal'[i].to = "tmp" /\ reply'[m] # "none"
             \/ journal'[i].to = "nowhere" /\ reply'[m] = "refused"
  <2>1. CASE i \in DOMAIN journal /\ journal'[i] = journal[i]
    BY <1>1, <1>3, <1>5, <2>1 DEF FreshInv
  <2>2. ASSUME NEW n \in Msg, journal'[i] = Change(n, Place(n)'), Place(n)' # Place(n)
        PROVE  \/ journal'[i].to = "tmp" /\ reply'[m] # "none"
               \/ journal'[i].to = "nowhere" /\ reply'[m] = "refused"
    <3>1. n = m /\ journal'[i].to = Place(m)'
      BY <1>5, <2>2, ChangeIs
    <3>2. Place(m) = IF m \in tmp THEN "tmp" ELSE "nowhere"
      BY <1>3 DEF Place, InSpool, Queued
    <3>3. Place(m)' = IF m \in tmp' THEN "tmp" ELSE "nowhere"
      BY <1>3 DEF Place, InSpool, Queued
    <3>4. QED BY <1>3, <2>2, <3>1, <3>2, <3>3
  <2>3. QED BY <1>1, <2>1, <2>2, JournalGrows, ChangesAre
<1>6. QED BY <1>4, <1>5

LEMMA ProgramWindow ==
  ASSUME DiskInv, CoreInv', Program
  PROVE  WindowInv'
<1>1. CoreInv /\ DiskTypes /\ FreshInv /\ WindowInv /\ Next /\ UNCHANGED <<entry, safe>>
  BY DEF DiskInv, Program
<1>2. \A i \in DOMAIN journal : i \in DOMAIN journal' /\ journal'[i] = journal[i]
  BY <1>1, JournalGrows
<1>3. \A i \in DOMAIN journal' :
        \/ i \in DOMAIN journal
        \/ journal'[i] \in Changes /\ \A k \in DOMAIN journal : k < i
  BY <1>1, JournalGrows
<1>4. \A c \in Changes : \E i \in DOMAIN journal' :
        journal'[i] = c /\ \A k \in DOMAIN journal : k < i
  BY <1>1, JournalGrows
<1>5. SUFFICES ASSUME NEW m \in Msg PROVE (InOrder(m) /\ InWindow(m))'
  BY DEF WindowInv
<1>6. InOrder(m) /\ InWindow(m) /\ copies \in [Msg -> Nat] /\ copies' \in [Msg -> Nat]
  BY <1>1 DEF WindowInv, CoreInv, TypeOK
<1>7. copies[m] > 0 => copies'[m] > 0
  BY <1>1, <1>6, OneMoves
<1>8. ASSUME ~Safe(m), Safe(m)'
      PROVE  /\ \E k \in DOMAIN journal' :
                   journal'[k] = Change(m, "pending") /\ \A i \in DOMAIN journal : i < k
             /\ \A k \in DOMAIN journal' : /\ journal'[k] # Change(m, "nowhere")
                                           /\ journal'[k] = Change(m, "tmp") => k \in DOMAIN journal
  <2>1. Publish /\ m = mu /\ epc = "write" /\ reply[m] = "waiting" /\ Unpublished(m)
    BY <1>1, <1>8, NewlySafe DEF Publish, CoreInv, SessionInv, Unpublished
  <2>2. Place(m)' = "pending" /\ Place(m) # "pending"
    <3>1. m \in pending'
      BY <2>1 DEF Publish
    <3>2. m \notin pending
      BY <1>8 DEF Safe, InSpool, Queued
    <3>3. QED BY <1>1, <3>1, <3>2, PlaceIs, PlaceWillBe DEF CoreInv
  <2>3. Change(m, "pending") \in Changes
    BY <2>2 DEF Changes
  <2>4. \E k \in DOMAIN journal' : journal'[k] = Change(m, "pending") /\ \A i \in DOMAIN journal : i < k
    BY <1>4, <2>3
  <2>5. Changes = {Change(m, "pending")}
    BY <1>1, <2>3, OneChange
  <2>6. ASSUME NEW k \in DOMAIN journal'
        PROVE  /\ journal'[k] # Change(m, "nowhere")
               /\ journal'[k] = Change(m, "tmp") => k \in DOMAIN journal
    <3>1. CASE k \in DOMAIN journal
      <4>1. journal[k] # Change(m, "nowhere")
        BY <1>1, <2>1, <3>1, ChangeIs DEF FreshInv
      <4>2. QED BY <1>2, <3>1, <4>1
    <3>2. CASE k \notin DOMAIN journal
      <4>1. journal'[k] = Change(m, "pending")
        BY <1>3, <2>5, <3>2
      <4>2. QED BY <4>1, ChangeIs
    <3>3. QED BY <3>1, <3>2
  <2>7. QED BY <2>4, <2>6
<1>9. ASSUME Safe(m), Safe(m)', NEW k \in DOMAIN journal', k \notin DOMAIN journal
      PROVE  /\ journal'[k] # Change(m, "tmp")
             /\ journal'[k] = Change(m, "nowhere") => copies'[m] > 0
  <2>1. journal'[k] \in Changes
    BY <1>3, <1>9
  <2>2. ASSUME NEW to, journal'[k] = Change(m, to) PROVE Place(m)' = to /\ Place(m)' # Place(m)
    <3>1. PICK n \in Msg : journal'[k] = Change(n, Place(n)') /\ Place(n)' # Place(n)
      BY <2>1, ChangesAre
    <3>2. QED BY <2>2, <3>1, ChangeIs
  <2>3. CASE journal'[k] = Change(m, "tmp")
    <3>1. m \in tmp' /\ m \notin tmp
      BY <1>1, <2>2, <2>3, PlaceIs, PlaceWillBe DEF CoreInv
    <3>2. CreateTmp /\ m = mu
      BY <1>1, <3>1, NewlyTmp
    <3>3. ~Safe(m)
      BY <1>1, <3>2, NoneAssumption DEF CreateTmp, CoreInv, SessionInv
    <3>4. QED BY <1>9, <3>3
  <2>4. CASE journal'[k] = Change(m, "nowhere")
    <3>1. Place(m)' = "nowhere"
      BY <2>2, <2>4
    <3>2. m \notin InSpool'
      BY <3>1, PlaceWillBe DEF CoreInv, Inside
    <3>3. copies'[m] > 0
      BY <1>9, <3>2 DEF Safe
    <3>4. QED BY <3>3, <2>4, ChangeIs
  <2>5. QED BY <2>3, <2>4
<1>10. InOrder(m)'
  <2> SUFFICES ASSUME Safe(m)'
               PROVE  /\ \A i \in DOMAIN journal' : journal'[i] = Change(m, "tmp") =>
                           \E k \in DOMAIN journal' : i < k /\ journal'[k] = Change(m, "pending")
                      /\ \A k \in DOMAIN journal' : journal'[k] = Change(m, "nowhere") => copies'[m] > 0
    BY DEF InOrder, Change
  <2>1. CASE ~Safe(m)
    <3>1. PICK k \in DOMAIN journal' :
            journal'[k] = Change(m, "pending") /\ \A i \in DOMAIN journal : i < k
      BY <1>8, <2>1
    <3>2. \A i \in DOMAIN journal' : /\ journal'[i] # Change(m, "nowhere")
                                     /\ journal'[i] = Change(m, "tmp") => i \in DOMAIN journal
      BY <1>8, <2>1
    <3>3. QED BY <3>1, <3>2
  <2>2. CASE Safe(m)
    <3>1. ASSUME NEW i \in DOMAIN journal', journal'[i] = Change(m, "tmp")
          PROVE  \E k \in DOMAIN journal' : i < k /\ journal'[k] = Change(m, "pending")
      <4>1. i \in DOMAIN journal /\ journal[i] = Change(m, "tmp")
        BY <1>2, <1>9, <2>2, <3>1
      <4>2. QED BY <1>2, <1>6, <2>2, <4>1 DEF InOrder
    <3>2. ASSUME NEW k \in DOMAIN journal', journal'[k] = Change(m, "nowhere")
          PROVE  copies'[m] > 0
      BY <1>2, <1>6, <1>7, <1>9, <2>2, <3>2 DEF InOrder
    <3>3. QED BY <3>1, <3>2
  <2>3. QED BY <2>1, <2>2
<1>11. InWindow(m)'
  <2> SUFFICES ASSUME Safe(m)', safe[m] = 0, entry[m] \in Outside
               PROVE  \/ \E i \in DOMAIN journal' : journal'[i] = Change(m, "pending")
                      \/ entry[m] = "nowhere" /\ copies'[m] > 0
    BY <1>1 DEF InWindow, Change
  <2>1. CASE ~Safe(m)
    BY <1>8, <2>1
  <2>2. CASE Safe(m)
    BY <1>2, <1>6, <1>7, <2>2 DEF InWindow
  <2>3. QED BY <2>1, <2>2
<1>12. QED BY <1>10, <1>11

-----------------------------------------------------------------------------
(* What the disks do, and what a loss of power leaves.                      *)

\* The oldest change of the spool reaches the disk.
LEMMA WriteBackDisk ==
  ASSUME DiskInv, WriteBack
  PROVE  DiskInv'
<1> DEFINE c == journal[1]
<1>1. /\ CoreInv /\ DiskTypes /\ WholeInv /\ FreshInv /\ WindowInv
      /\ UNCHANGED <<vars, written, safe, losses>>
  BY DEF DiskInv, WriteBack
<1>2. UNCHANGED <<dirs, reply, mu, epc, copies, written, safe>>
  BY <1>1 DEF vars, enq, files
<1>3. CoreInv'
  BY <1>1, SurroundingsCore
<1>4. /\ journal' \in Seq(Changed) /\ 1 \in DOMAIN journal /\ Head(journal) = c
      /\ \A j \in DOMAIN journal : 1 < j => j - 1 \in DOMAIN journal' /\ journal'[j - 1] = journal[j]
      /\ \A k \in DOMAIN journal' : k + 1 \in DOMAIN journal /\ journal'[k] = journal[k + 1] /\ k \in Nat
      /\ DOMAIN journal \subseteq Nat \ {0}
  BY <1>1, JournalShrinks DEF WriteBack
<1>5. c \in Changed /\ c = Change(c.msg, c.to) /\ c.msg \in Msg /\ c.to \in Inside \cup Outside
  BY <1>1, <1>4, ChangeIsItsParts DEF DiskTypes
<1>6. entry' = [entry EXCEPT ![c.msg] = c.to]
  BY <1>4 DEF WriteBack
<1> HIDE DEF c
<1>7. DiskTypes'
  BY <1>1, <1>4, <1>5, <1>6 DEF DiskTypes
<1>8. WholeInv'
  <2>1. InSpool' \subseteq written'
    BY <1>1, <1>2 DEF WholeInv, InSpool, Queued, dirs
  <2>2. ASSUME NEW m \in Msg, entry'[m] \in Inside PROVE m \in written'
    <3>1. CASE m = c.msg
      <4>1. c.to \in Inside
        BY <1>1, <1>5, <1>6, <2>2, <3>1 DEF DiskTypes
      <4>2. QED BY <1>1, <1>2, <1>4, <3>1, <4>1 DEF WholeInv, c
    <3>2. CASE m # c.msg
      BY <1>1, <1>2, <1>5, <1>6, <2>2, <3>2 DEF WholeInv, DiskTypes
    <3>3. QED BY <3>1, <3>2
  <2>3. \A k \in DOMAIN journal' : journal'[k].to \in Inside => journal'[k].msg \in written'
    BY <1>1, <1>2, <1>4 DEF WholeInv
  <2>4. QED BY <2>1, <2>2, <2>3 DEF WholeInv
<1>9. FreshInv'
  <2> SUFFICES ASSUME NEW m \in Msg, Unpublished(m)'
               PROVE  /\ safe'[m] = 0 /\ entry'[m] \in Outside
                      /\ \A k \in DOMAIN journal' : journal'[k].msg = m =>
                           \/ journal'[k].to = "tmp" /\ reply'[m] # "none"
                           \/ journal'[k].to = "nowhere" /\ reply'[m] = "refused"
    BY DEF FreshInv
  <2>1. Unpublished(m)
    BY <1>2 DEF Unpublished
  <2>2. /\ safe[m] = 0 /\ entry[m] \in Outside
        /\ \A j \in DOMAIN journal : journal[j].msg = m =>
             \/ journal[j].to = "tmp" /\ reply[m] # "none"
             \/ journal[j].to = "nowhere" /\ reply[m] = "refused"
    BY <1>1, <2>1 DEF FreshInv
  <2>3. c.msg = m => c.to \in Outside
    BY <1>4, <2>2 DEF c, Outside
  <2>4. entry'[m] \in Outside
    BY <1>1, <1>5, <1>6, <2>2, <2>3 DEF DiskTypes
  <2>5. QED BY <1>2, <1>4, <2>2, <2>4
<1>10. ASSUME NEW m \in Msg
       PROVE  (InOrder(m) /\ InWindow(m))'
  <2>1. InOrder(m) /\ InWindow(m) /\ entry \in [Msg -> Inside \cup Outside]
    BY <1>1, <1>10 DEF WindowInv, DiskTypes
  <2>2. Safe(m)' <=> Safe(m)
    BY <1>2 DEF Safe, InSpool, Queued, dirs
  <2>3. InOrder(m)'
    <3> SUFFICES ASSUME Safe(m)
                 PROVE  /\ \A k \in DOMAIN journal' : journal'[k] = Change(m, "tmp") =>
                             \E l \in DOMAIN journal' : k < l /\ journal'[l] = Change(m, "pending")
                        /\ \A k \in DOMAIN journal' : journal'[k] = Change(m, "nowhere") => copies[m] > 0
      BY <1>2, <2>2 DEF InOrder, Change
    <3>1. ASSUME NEW k \in DOMAIN journal', journal'[k] = Change(m, "tmp")
          PROVE  \E l \in DOMAIN journal' : k < l /\ journal'[l] = Change(m, "pending")
      <4>1. k + 1 \in DOMAIN journal /\ journal[k + 1] = Change(m, "tmp") /\ k \in Nat
        BY <1>4, <3>1
      <4>2. PICK n \in DOMAIN journal : k + 1 < n /\ journal[n] = Change(m, "pending")
        BY <2>1, <4>1 DEF InOrder
      <4>3. n \in Nat /\ 1 < n /\ k < n - 1
        BY <1>4, <4>1, <4>2
      <4>4. QED BY <1>4, <4>2, <4>3
    <3>2. ASSUME NEW k \in DOMAIN journal', journal'[k] = Change(m, "nowhere")
          PROVE  copies[m] > 0
      BY <1>4, <2>1, <3>2 DEF InOrder
    <3>3. QED BY <3>1, <3>2
  <2>4. InWindow(m)'
    <3> SUFFICES ASSUME Safe(m), safe[m] = 0, entry'[m] \in Outside
                 PROVE  \/ \E k \in DOMAIN journal' : journal'[k] = Change(m, "pending")
                        \/ entry'[m] = "nowhere" /\ copies[m] > 0
      BY <1>2, <2>2 DEF InWindow, Change
    <3>1. CASE c.msg = m
      <4>1. entry'[m] = c.to /\ c = Change(m, c.to)
        BY <1>5, <1>6, <2>1, <3>1
      <4>2. CASE c.to = "tmp"
        <5>1. PICK n \in DOMAIN journal : 1 < n /\ journal[n] = Change(m, "pending")
          BY <1>4, <2>1, <4>1, <4>2 DEF InOrder, c
        <5>2. QED BY <1>4, <5>1
      <4>3. CASE c.to = "nowhere"
        <5>1. copies[m] > 0
          BY <1>4, <2>1, <4>1, <4>3 DEF InOrder, c
        <5>2. QED BY <4>1, <4>3, <5>1
      <4>4. QED BY <4>1, <4>2, <4>3 DEF Outside
    <3>2. CASE c.msg # m
      <4>1. entry'[m] = entry[m] /\ c # Change(m, "pending")
        BY <1>5, <1>6, <2>1, <3>2, ChangeIs
      <4>2. CASE \E j \in DOMAIN journal : journal[j] = Change(m, "pending")
        <5>1. PICK j \in DOMAIN journal : journal[j] = Change(m, "pending")
          BY <4>2
        <5>2. 1 < j
          BY <1>4, <4>1, <5>1 DEF c
        <5>3. QED BY <1>4, <5>1, <5>2
      <4>3. QED BY <2>1, <4>1, <4>2 DEF InWindow
    <3>3. QED BY <3>1, <3>2
  <2>5. QED BY <2>3, <2>4
<1>11. WindowInv'
  BY <1>10 DEF WindowInv
<1>12. QED BY <1>3, <1>7, <1>8, <1>9, <1>11 DEF DiskInv

\* A copy reaches the disk; there was one.
LEMMA HardenDisk ==
  ASSUME DiskInv, NEW m \in Msg, Harden(m)
  PROVE  DiskInv'
<1>1. /\ CoreInv /\ DiskTypes /\ WholeInv /\ FreshInv /\ WindowInv
      /\ UNCHANGED <<vars, entry, written, journal, losses>> /\ copies[m] > safe[m]
      /\ safe' = [safe EXCEPT ![m] = safe[m] + 1]
  BY DEF DiskInv, Harden
<1>2. UNCHANGED <<dirs, reply, mu, epc, copies>>
  BY <1>1 DEF vars, enq, files
<1>3. CoreInv'
  BY <1>1, SurroundingsCore
<1>4. DiskTypes' /\ WholeInv'
  BY <1>1, <1>2 DEF DiskTypes, WholeInv, InSpool, Queued, dirs
<1>5. ~Unpublished(m)
  <2>1. Safe(m)
    BY <1>1 DEF DiskTypes, CoreInv, TypeOK, Safe
  <2>2. QED BY <1>1, <2>1, NoneAssumption DEF Unpublished, CoreInv, OutsideInv, SessionInv
<1>6. \A n \in Msg : n # m => safe'[n] = safe[n]
  BY <1>1 DEF DiskTypes
<1>7. safe'[m] # 0
  BY <1>1 DEF DiskTypes
<1>8. FreshInv'
  <2> SUFFICES ASSUME NEW n \in Msg, Unpublished(n)'
               PROVE  /\ safe'[n] = 0 /\ entry'[n] \in Outside
                      /\ \A i \in DOMAIN journal' : journal'[i].msg = n =>
                           \/ journal'[i].to = "tmp" /\ reply'[n] # "none"
                           \/ journal'[i].to = "nowhere" /\ reply'[n] = "refused"
    BY DEF FreshInv
  <2>1. Unpublished(n)
    BY <1>2 DEF Unpublished
  <2>2. QED BY <1>1, <1>2, <1>5, <1>6, <2>1 DEF FreshInv
<1>9. WindowInv'
  <2> SUFFICES ASSUME NEW n \in Msg PROVE (InOrder(n) /\ InWindow(n))'
    BY DEF WindowInv
  <2>1. Safe(n)' <=> Safe(n)
    BY <1>2 DEF Safe, InSpool, Queued, dirs
  <2>2. InOrder(n)'
    BY <1>1, <1>2, <2>1 DEF WindowInv, InOrder, Change
  <2>3. InWindow(n)'
    BY <1>1, <1>2, <1>6, <1>7, <2>1 DEF WindowInv, InWindow, Change
  <2>4. QED BY <2>2, <2>3
<1>10. QED BY <1>3, <1>4, <1>8, <1>9 DEF DiskInv

\* The contents of a file reach the disk, or nothing happens.
LEMMA ContentsDisk ==
  ASSUME DiskInv, (\E m \in Msg : WriteBackContents(m)) \/ UNCHANGED world
  PROVE  DiskInv'
<1>1. /\ UNCHANGED vars /\ UNCHANGED <<entry, safe, journal, losses>>
      /\ written \subseteq written' /\ written' \subseteq written \cup Msg
  BY DEF WriteBackContents, world, disk
<1>2. UNCHANGED <<dirs, reply, mu, epc, copies>>
  BY <1>1 DEF vars, enq, files
<1>3. CoreInv'
  BY <1>1, SurroundingsCore DEF DiskInv
<1>4. DiskTypes' /\ WholeInv'
  BY <1>1, <1>2 DEF DiskInv, DiskTypes, WholeInv, InSpool, Queued, dirs
<1>5. FreshInv'
  BY <1>1, <1>2 DEF DiskInv, FreshInv, Unpublished
<1>6. WindowInv'
  BY <1>1, <1>2 DEF DiskInv, WindowInv, InOrder, InWindow, Safe, InSpool, Queued, Change, dirs
<1>7. QED BY <1>3, <1>4, <1>5, <1>6 DEF DiskInv

\* The power goes: the disks are all there is.
LEMMA LosePowerDisk ==
  ASSUME DiskInv, LosePower
  PROVE  DiskInv'
<1>1. /\ CoreInv /\ DiskTypes /\ WholeInv /\ FreshInv
      /\ UNCHANGED <<up, partials, posted, bounds, entry, written, safe>>
      /\ tmp' = {m \in Msg : entry[m] = "tmp"}
      /\ pending' = {m \in Msg : entry[m] = "pending"}
      /\ processing' = {m \in Msg : entry[m] = "processing"}
      /\ failed' = {m \in Msg : entry[m] = "failed"}
      /\ copies' = safe /\ journal' = <<>>
      /\ wpc' = "down" /\ cur' = None /\ toRecover' = {}
      /\ mu' = None /\ epc' = "free" /\ walk' = {} /\ total' = 0
      /\ reply' = [m \in Msg |-> IF reply[m] = "waiting" THEN "lost" ELSE reply[m]]
  BY DEF DiskInv, LosePower
<1>2. \A m \in Msg : Safe(m)' => entry[m] \in Inside \/ safe[m] > 0
  BY <1>1 DEF Safe, InSpool, Queued, Inside
<1>3. \A m \in Msg : Unpublished(m)' => Unpublished(m)
  BY <1>1, NoneAssumption DEF Unpublished
<1>4. TypeOK'
  BY <1>1 DEF CoreInv, TypeOK, DiskTypes, bounds, Answer
<1>5. OncePerItem'
  BY <1>1 DEF OncePerItem, InSpool, Queued
<1>6. OutsideInv'
  <2> SUFFICES ASSUME NEW m \in Msg, reply'[m] \in {"none", "refused"} PROVE ~Safe(m)'
    BY DEF OutsideInv
  <2>1. Unpublished(m)
    BY <1>1 DEF Unpublished
  <2>2. safe[m] = 0 /\ entry[m] \notin Inside
    BY <1>1, <2>1 DEF FreshInv, Inside, Outside
  <2>3. QED BY <1>1, <1>2, <2>2
<1>7. SessionInv' /\ WorkerInv'
  BY <1>1, NoneAssumption DEF SessionInv, WorkerInv, CoreInv, TypeOK, Answer, Ashore, Busy
<1>8. DiskTypes'
  <2>1. losses' \in 0..MaxLosses
    BY LossBoundAssumption DEF LosePower, DiskInv, DiskTypes
  <2>2. QED BY <1>1, <2>1 DEF DiskTypes
<1>9. WholeInv'
  BY <1>1 DEF WholeInv, InSpool, Queued, Inside, DiskTypes
<1>10. FreshInv'
  <2> SUFFICES ASSUME NEW m \in Msg, Unpublished(m)' PROVE safe'[m] = 0 /\ entry'[m] \in Outside
    BY <1>1 DEF FreshInv
  <2>1. QED BY <1>1, <1>3 DEF FreshInv
<1>11. WindowInv'
  <2> SUFFICES ASSUME NEW m \in Msg PROVE (InOrder(m) /\ InWindow(m))'
    BY DEF WindowInv
  <2>1. safe[m] \in Nat
    BY <1>1 DEF DiskTypes
  <2>3. InOrder(m)'
    BY <1>1 DEF InOrder
  <2>4. InWindow(m)'
    BY <1>1, <1>2, <2>1 DEF InWindow, Inside, Outside
  <2>5. QED BY <2>3, <2>4
<1>12. QED BY <1>4, <1>5, <1>6, <1>7, <1>8, <1>9, <1>10, <1>11 DEF DiskInv, CoreInv

LEMMA InitDisk == PowerInit => DiskInv
<1> SUFFICES ASSUME PowerInit PROVE DiskInv
  OBVIOUS
<1>1. CoreInv
  BY InitInv DEF PowerInit, IInv
<1>2. /\ entry = [m \in Msg |-> "nowhere"] /\ written = {}
      /\ safe = [m \in Msg |-> 0] /\ journal = <<>> /\ copies = [m \in Msg |-> 0] /\ InSpool = {}
      /\ losses \in 0..MaxLosses
  BY LossBoundAssumption DEF PowerInit, Init, InSpool, Queued
<1>3. DiskTypes /\ WholeInv /\ FreshInv
  BY <1>2 DEF DiskTypes, WholeInv, FreshInv, Inside, Outside
<1>4. \A m \in Msg : ~Safe(m) /\ copies[m] = 0
  BY <1>2 DEF Safe
<1>5. WindowInv
  BY <1>4 DEF WindowInv, InOrder, InWindow
<1>6. QED BY <1>1, <1>3, <1>5 DEF DiskInv

LEMMA StepDisk ==
  ASSUME DiskInv, [PowerNext]_world
  PROVE  DiskInv'
<1>1. CASE Program
  <2>1. CoreInv'
    BY <1>1, StepCore DEF DiskInv, Program
  <2>2. QED BY <1>1, <2>1, ProgramTypes, ProgramWhole, ProgramFresh, ProgramWindow DEF DiskInv
<1>2. QED BY <1>1, LosePowerDisk, WriteBackDisk, ContentsDisk, HardenDisk DEF PowerNext

\* What disks and journal hold agrees with what the program sees, through any
\* number of losses of power.
THEOREM DiskInvariance == PowerSpec => []DiskInv
  BY InitDisk, StepDisk, PTL DEF PowerSpec

\* Whenever the power goes, what the next start finds in the spool are whole
\* messages (Enqueue syncs before it renames).
THEOREM ItemsAreWholeHolds == PowerSpec => []ItemsAreWhole
<1>1. DiskInv => ItemsAreWhole
  BY DEF DiskInv, WholeInv, ItemsAreWhole, Inside
<1>2. QED BY DiskInvariance, <1>1, PTL

\* A message answered with 452 leaves nothing to store, and no loss of power
\* brings it back (the error paths of Enqueue).
THEOREM RefusedStaysRefused == PowerSpec => []RefusedLeavesNothing
<1>1. DiskInv => RefusedLeavesNothing
  BY DEF DiskInv, CoreInv, TypeOK, OutsideInv, RefusedLeavesNothing, Safe
<1>2. QED BY DiskInvariance, <1>1, PTL

\* A message that was accepted is lost by a loss of power only, and only in the
\* two windows: before its rename into pending is on disk, or when its removal is
\* and the names and contents of the copy that replaces it are not (spool.go:118
\* and 197, storage.go:130 and 160 sync nothing of these).
THEOREM LossHasAWindowHolds == PowerSpec => LossHasAWindow
<1>1. ASSUME DiskInv, PowerNext, NEW m \in Msg, Safe(m), ~Safe(m)'
      PROVE  \/ losses' > losses /\ NotEntered(m)
             \/ losses' > losses /\ entry[m] = "nowhere" /\ copies[m] > 0 /\ safe[m] = 0
  <2>1. ~Program
    BY <1>1, StepSafe DEF Program, DiskInv
  <2>2. ~UNCHANGED vars
    BY <1>1 DEF vars, dirs, files, Safe, InSpool, Queued
  <2>3. LosePower
    BY <1>1, <2>1, <2>2 DEF PowerNext, WriteBack, WriteBackContents, Harden
  <2>4. losses' > losses
    BY <1>1, <2>3, LossBoundAssumption DEF LosePower, DiskInv, DiskTypes
  <2>5. safe[m] = 0 /\ entry[m] \in Outside
    BY <1>1, <2>3 DEF LosePower, Safe, InSpool, Queued, DiskInv, DiskTypes, Inside, Outside
  <2>6. InWindow(m)
    BY <1>1 DEF DiskInv, WindowInv
  <2>7. QED BY <1>1, <2>4, <2>5, <2>6 DEF InWindow, NotEntered, Range, Outside
<1>2. DiskInv /\ [PowerNext]_world =>
        [\A m \in Msg :
           reply[m] = "ok" /\ (m \in InSpool \/ copies[m] > 0) =>
             \/ (m \in InSpool \/ copies[m] > 0)'
             \/ losses' > losses /\ NotEntered(m)
             \/ losses' > losses /\ entry[m] = "nowhere" /\ copies[m] > 0 /\ safe[m] = 0
        ]_world
  BY <1>1 DEF Safe
<1>3. QED BY DiskInvariance, <1>2, PTL DEF PowerSpec, LossHasAWindow
=============================================================================
