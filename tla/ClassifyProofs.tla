--------------------------- MODULE ClassifyProofs ---------------------------
(***************************************************************************)
(* Theorems about Classify, for any number of videos, callers and workers,   *)
(* any queue size and any number of crashes and failed writes: no video is   *)
(* held twice (OneHolder), none is announced twice (NotifiedOnce), a pending *)
(* sidecar is never forgotten (PendingIsOwed), a caller is refused for the   *)
(* walk's sake only (RefusedForWalk), and the service implements             *)
(* ClassifyAbstract (KeepsService).                                          *)
(***************************************************************************)
EXTENDS Classify, TLAPS

\* Who is busy is busy with a video.
ItemInv ==
  /\ \A p \in Producer : ppc[p] \notin {"idle", "ended"} => item[p] \in Video
  /\ \A w \in Worker : Busy(w) => job[w].video \in Video

HoldInv == TypeOK /\ ItemInv /\ OneHolder

-----------------------------------------------------------------------------
(* HoldInv is inductive.                                                   *)

LEMMA InitHold == Init => HoldInv
<1>1. SUFFICES ASSUME Init PROVE HoldInv
  OBVIOUS
<1>2. TypeOK
  <2>1. walk \in [Video -> {"due", "maybe", "seen"}]
    BY <1>1 DEF Init, StartWalk
  <2>2. sidecar \in [Video -> [state : SidecarStates, published : BOOLEAN]]
    <3>1. {Sidecar(s, FALSE) : s \in {"none", "outdated", "success"}}
            \subseteq [state : SidecarStates, published : BOOLEAN]
      <4>1. \A s \in {"none", "outdated", "success"} : s \in SidecarStates
        BY DEF SidecarStates, Final
      <4>2. \A s \in SidecarStates : Sidecar(s, FALSE) \in [state : SidecarStates, published : BOOLEAN]
        BY DEF Sidecar
      <4>3. QED BY <4>1, <4>2
    <3>2. QED BY <1>1, <3>1 DEF Init
  <2>3. job \in [Worker -> [video : Video \cup {NoVideo}, notify : BOOLEAN]]
    BY <1>1 DEF Init, Job, NoJob
  <2>4. chan \in Seq([video : Video, notify : BOOLEAN])
    BY <1>1 DEF Init
  <2>5. QED BY <1>1, <2>1, <2>2, <2>3, <2>4, BoundsAssumption DEF Init, TypeOK
<1>3. ItemInv
  BY <1>1 DEF Init, ItemInv, Busy
<1>4. OneHolder
  <2>1. Sent = {} /\ Classified = {}
    BY <1>1 DEF Init, Sent, Classified, Sending, Busy
  <2>2. Len(chan) = 0 /\ 1..Len(chan) = {} /\ Waiting = {}
    BY <1>1 DEF Init, Waiting
  <2>3. \A p \in Producer : ~Sending(p)
    BY <1>1 DEF Init, Sending
  <2>4. \A w \in Worker : ~Busy(w)
    BY <1>1 DEF Init, Busy
  <2>5. HeldOnce
    BY <2>1, <2>2, <2>3, <2>4 DEF HeldOnce
  <2>6. QED BY <1>1, <2>1, <2>2, <2>5 DEF Init, OneHolder
<1>5. QED BY <1>2, <1>3, <1>4 DEF HoldInv

\* What Write leaves of the types.
LEMMA WriteType ==
  ASSUME TypeOK, NEW v \in Video, NEW s \in [state : SidecarStates, published : BOOLEAN], Write(v, s)
  PROVE  /\ sidecar' \in [Video -> [state : SidecarStates, published : BOOLEAN]]
         /\ unwritten' \subseteq Video /\ faults' \in 0..MaxFaults
<1>1. MaxFaults \in Nat
  BY BoundsAssumption
<1>2. CASE sidecar' = [sidecar EXCEPT ![v] = s] /\ UNCHANGED <<unwritten, faults>>
  BY <1>2 DEF TypeOK
<1>3. CASE faults < MaxFaults /\ faults' = faults + 1 /\ unwritten' = unwritten \cup {v} /\ UNCHANGED sidecar
  BY <1>1, <1>3 DEF TypeOK
<1>4. QED BY <1>2, <1>3 DEF Write

\* Nothing but who is busy and with what, the channel and queued matters to OneHolder.
LEMMA SameHolders ==
  ASSUME OneHolder, UNCHANGED <<chan, queued, item, job>>,
         \A p \in Producer : Sending(p)' = Sending(p),
         \A w \in Worker : Busy(w)' = Busy(w)
  PROVE  OneHolder'
<1>1. Sent' = Sent /\ Waiting' = Waiting /\ Classified' = Classified
  BY DEF Sent, Waiting, Classified
<1>2. HeldOnce'
  BY <1>1 DEF OneHolder, HeldOnce
<1>3. QED BY <1>1, <1>2 DEF OneHolder

LEMMA MarkHold ==
  ASSUME HoldInv, NEW p \in Producer, Mark(p)
  PROVE  HoldInv'
<1>1. item[p] \in Video
  BY DEF Mark, HoldInv, ItemInv
<1>2. TypeOK'
  BY <1>1 DEF Mark, HoldInv, TypeOK, Goto, workers, writes, history
<1>3. ItemInv'
  BY DEF Mark, HoldInv, ItemInv, TypeOK, Goto, workers, Busy
<1>4. OneHolder'
  <2>1. Classified' = Classified /\ Waiting' = Waiting /\ ~Sending(p)
    BY DEF Mark, workers, Classified, Waiting, Busy, Sending
  <2>2. CASE item[p] \in queued
    <3>1. \A q \in Producer : Sending(q)' = Sending(q)
      BY <2>2 DEF Mark, Goto, Sending, HoldInv, TypeOK
    <3>2. QED BY <2>2, <3>1, SameHolders DEF Mark, HoldInv, workers, Busy
  <2>3. CASE item[p] \notin queued
    <3>1. Sending(p)' /\ \A q \in Producer \ {p} : Sending(q)' = Sending(q)
      BY <2>3 DEF Mark, Goto, Sending, HoldInv, TypeOK
    <3>2. Sent' = Sent \cup {item[p]} /\ item' = item
      BY <2>1, <3>1 DEF Mark, Sent
    <3>3. item[p] \notin Sent /\ item[p] \notin Waiting /\ item[p] \notin Classified
      BY <2>3 DEF HoldInv, OneHolder
    <3>4. \A q \in Producer : Sending(q) => item[q] # item[p]
      BY <3>3 DEF Sent
    <3>5. HeldOnce'
      BY <2>1, <3>1, <3>2, <3>3, <3>4 DEF HeldOnce, HoldInv, OneHolder, Mark, workers, Busy
    <3>6. QED BY <2>1, <2>3, <3>2, <3>5 DEF OneHolder, HoldInv, Mark
  <2>4. QED BY <2>2, <2>3
<1>5. QED BY <1>2, <1>3, <1>4 DEF HoldInv

LEMMA SendHold ==
  ASSUME HoldInv, NEW p \in Producer, Send(p)
  PROVE  HoldInv'
<1> DEFINE j == Job(item[p], p # Walker)
<1>1. item[p] \in Video /\ Sending(p)
  BY DEF Send, HoldInv, ItemInv, Sending
<1>2. j \in [video : Video, notify : BOOLEAN] /\ j.video = item[p]
  BY <1>1 DEF Job
<1>3. chan' = Append(chan, j) /\ chan \in Seq([video : Video, notify : BOOLEAN])
  BY DEF Send, HoldInv, TypeOK
<1> HIDE DEF j
<1>4. /\ chan' \in Seq([video : Video, notify : BOOLEAN])
      /\ Len(chan') = Len(chan) + 1 /\ Len(chan) \in Nat
      /\ \A i \in 1..Len(chan) : chan'[i] = chan[i]
      /\ chan'[Len(chan) + 1] = j
  BY <1>2, <1>3
<1>5. TypeOK'
  BY <1>4 DEF Send, HoldInv, TypeOK, Goto, workers, writes, history
<1>6. ItemInv'
  BY DEF Send, HoldInv, ItemInv, TypeOK, Goto, workers, Busy
<1>7. OneHolder'
  <2>1. Classified' = Classified
    BY DEF Send, workers, Classified, Busy
  <2>2. ~Sending(p)' /\ \A q \in Producer \ {p} : Sending(q)' = Sending(q)
    BY DEF Send, Goto, Sending, HoldInv, TypeOK
  <2>3. \A q \in Producer : Sending(q) /\ item[q] = item[p] => q = p
    BY <1>1 DEF HoldInv, OneHolder, HeldOnce
  <2>4. Sent' = Sent \ {item[p]}
    BY <2>2, <2>3 DEF Send, Sent
  <2>5. item[p] \in Sent
    BY <1>1 DEF Sent
  <2>6. Waiting' = Waiting \cup {item[p]}
    <3>1. ASSUME NEW i \in 1..Len(chan') PROVE chan'[i].video \in Waiting \cup {item[p]}
      <4>1. CASE i = Len(chan) + 1
        BY <4>1, <1>2, <1>4
      <4>2. CASE i # Len(chan) + 1
        <5>1. i \in 1..Len(chan)
          BY <4>2, <1>4
        <5>2. QED BY <5>1, <1>4 DEF Waiting
      <4>3. QED BY <4>1, <4>2
    <3>2. ASSUME NEW i \in 1..Len(chan) PROVE chan[i].video \in Waiting'
      <4>1. i \in 1..Len(chan')
        BY <1>4
      <4>2. QED BY <4>1, <1>4 DEF Waiting
    <3>3. item[p] \in Waiting'
      <4>1. Len(chan) + 1 \in 1..Len(chan')
        BY <1>4
      <4>2. QED BY <4>1, <1>2, <1>4 DEF Waiting
    <3>4. QED BY <3>1, <3>2, <3>3 DEF Waiting
  <2>7. item[p] \notin Waiting /\ item[p] \notin Classified
    BY <2>5 DEF HoldInv, OneHolder, HeldOnce
  <2>8. ASSUME NEW i \in 1..Len(chan'), NEW k \in 1..Len(chan'), chan'[i].video = chan'[k].video
        PROVE  i = k
    <3>1. \A m \in 1..Len(chan) : chan[m].video # item[p]
      BY <2>7 DEF Waiting
    <3>2. i \in 1..Len(chan) \/ i = Len(chan) + 1
      BY <1>4
    <3>3. k \in 1..Len(chan) \/ k = Len(chan) + 1
      BY <1>4
    <3>4. CASE i = Len(chan) + 1
      BY <1>2, <1>4, <2>8, <3>1, <3>3, <3>4
    <3>5. CASE k = Len(chan) + 1
      BY <1>2, <1>4, <2>8, <3>1, <3>2, <3>5
    <3>6. CASE i \in 1..Len(chan) /\ k \in 1..Len(chan)
      BY <1>4, <2>8, <3>6 DEF HoldInv, OneHolder, HeldOnce
    <3>7. QED BY <3>2, <3>3, <3>4, <3>5, <3>6
  <2>9. HeldOnce'
    <3>1. \A q, r \in Producer : Sending(q)' /\ Sending(r)' /\ item'[q] = item'[r] => q = r
      BY <2>2 DEF Send, HoldInv, OneHolder, HeldOnce
    <3>2. \A w, x \in Worker : Busy(w)' /\ Busy(x)' /\ job'[w].video = job'[x].video => w = x
      BY DEF Send, workers, Busy, HoldInv, OneHolder, HeldOnce
    <3>3. Sent' \cap Waiting' = {} /\ Sent' \cap Classified' = {} /\ Waiting' \cap Classified' = {}
      BY <2>1, <2>4, <2>6, <2>7 DEF HoldInv, OneHolder, HeldOnce
    <3>4. QED BY <2>8, <3>1, <3>2, <3>3 DEF HeldOnce
  <2>10. QED BY <2>1, <2>4, <2>5, <2>6, <2>9 DEF OneHolder, HoldInv, Send
<1>8. QED BY <1>5, <1>6, <1>7 DEF HoldInv

LEMMA SendFullHold ==
  ASSUME HoldInv, NEW p \in Producer, SendFull(p)
  PROVE  HoldInv'
<1>1. item[p] \in Video
  BY DEF SendFull, HoldInv, ItemInv
<1>2. TypeOK'
  BY <1>1 DEF SendFull, HoldInv, TypeOK, Goto, workers, writes
<1>3. ItemInv'
  BY DEF SendFull, HoldInv, ItemInv, TypeOK, Goto, workers, Busy
<1>4. \A q \in Producer : Sending(q)' = Sending(q)
  BY DEF SendFull, Goto, Sending, HoldInv, TypeOK
<1>5. OneHolder'
  BY <1>4, SameHolders DEF SendFull, workers, HoldInv, Busy
<1>6. QED BY <1>2, <1>3, <1>5 DEF HoldInv

LEMMA UnmarkHold ==
  ASSUME HoldInv, NEW p \in Producer, Unmark(p)
  PROVE  HoldInv'
<1>1. TypeOK'
  BY DEF Unmark, HoldInv, TypeOK, Goto, workers, writes, history
<1>2. ItemInv'
  BY DEF Unmark, HoldInv, ItemInv, TypeOK, Goto, workers, Busy
<1>3. OneHolder'
  <2>1. Classified' = Classified /\ Waiting' = Waiting /\ Sending(p)
    BY DEF Unmark, workers, Classified, Waiting, Busy, Sending
  <2>2. ~Sending(p)' /\ \A q \in Producer \ {p} : Sending(q)' = Sending(q)
    BY DEF Unmark, Goto, Sending, HoldInv, TypeOK
  <2>3. \A q \in Producer : Sending(q) /\ item[q] = item[p] => q = p
    BY <2>1 DEF HoldInv, OneHolder, HeldOnce
  <2>4. Sent' = Sent \ {item[p]} /\ item[p] \in Sent
    BY <2>1, <2>2, <2>3 DEF Unmark, Sent
  <2>5. item[p] \notin Waiting /\ item[p] \notin Classified
    BY <2>4 DEF HoldInv, OneHolder, HeldOnce
  <2>6. HeldOnce'
    <3>1. \A q, r \in Producer : Sending(q)' /\ Sending(r)' /\ item'[q] = item'[r] => q = r
      BY <2>2 DEF Unmark, HoldInv, OneHolder, HeldOnce
    <3>2. \A w, x \in Worker : Busy(w)' /\ Busy(x)' /\ job'[w].video = job'[x].video => w = x
      BY DEF Unmark, workers, Busy, HoldInv, OneHolder, HeldOnce
    <3>3. Sent' \cap Waiting' = {} /\ Sent' \cap Classified' = {} /\ Waiting' \cap Classified' = {}
      BY <2>1, <2>4 DEF HoldInv, OneHolder, HeldOnce
    <3>4. \A i, k \in 1..Len(chan') : chan'[i].video = chan'[k].video => i = k
      BY DEF Unmark, HoldInv, OneHolder, HeldOnce
    <3>5. QED BY <3>1, <3>2, <3>3, <3>4 DEF HeldOnce
  <2>7. QED BY <2>1, <2>4, <2>5, <2>6 DEF OneHolder, HoldInv, Unmark
<1>4. QED BY <1>1, <1>2, <1>3 DEF HoldInv

LEMMA TakeHold ==
  ASSUME HoldInv, NEW w \in Worker, Take(w)
  PROVE  HoldInv'
<1> DEFINE v == Head(chan).video
<1>1. /\ chan \in Seq([video : Video, notify : BOOLEAN]) /\ chan # <<>>
      /\ chan' = Tail(chan)
  BY DEF Take, HoldInv, TypeOK
<1>2. /\ Head(chan) \in [video : Video, notify : BOOLEAN]
      /\ chan' \in Seq([video : Video, notify : BOOLEAN])
      /\ Len(chan) \in Nat /\ Len(chan) > 0 /\ Len(chan') = Len(chan) - 1
      /\ Head(chan) = chan[1]
      /\ \A i \in 1..Len(chan') : chan'[i] = chan[i + 1]
  <2>1. Len(chan) \in Nat /\ Len(chan) > 0 /\ Len(chan') = Len(chan) - 1
    BY <1>1
  <2>2. Head(chan) = chan[1] /\ chan' \in Seq([video : Video, notify : BOOLEAN])
    BY <1>1
  <2>3. Head(chan) \in [video : Video, notify : BOOLEAN]
    <3> DEFINE S == [video : Video, notify : BOOLEAN]
    <3>1. chan \in Seq(S) /\ 1 \in 1..Len(chan)
      BY <1>1, <2>1
    <3> HIDE DEF S
    <3>2. chan[1] \in S
      BY <3>1
    <3>3. QED BY <2>2, <3>2 DEF S
  <2>4. \A i \in 1..Len(chan') : chan'[i] = chan[i + 1]
    BY <1>1, <2>1
  <2>5. QED BY <2>1, <2>2, <2>3, <2>4
<1>3. TypeOK'
  BY <1>2 DEF Take, HoldInv, TypeOK, WGoto, producers, writes, history
<1>4. ItemInv'
  BY <1>2 DEF Take, HoldInv, ItemInv, TypeOK, WGoto, producers, Busy
<1>5. OneHolder'
  <2>1. Sent' = Sent
    BY DEF Take, producers, Sent, Sending
  <2>2. ~Busy(w) /\ Busy(w)' /\ \A x \in Worker \ {w} : Busy(x)' = Busy(x) /\ job'[x] = job[x]
    BY DEF Take, WGoto, Busy, HoldInv, TypeOK
  <2>3. job'[w].video = v
    BY DEF Take, HoldInv, TypeOK
  <2>4. Classified' = Classified \cup {v}
    BY <2>2, <2>3 DEF Classified
  <2>5. v = chan[1].video /\ 1 \in 1..Len(chan)
    BY <1>2
  <2>6. v \in Waiting
    BY <2>5 DEF Waiting
  <2>7. \A i \in 1..Len(chan') : i + 1 \in 1..Len(chan) /\ i + 1 # 1
    BY <1>2
  <2>8. \A i \in 1..Len(chan) : i # 1 => i - 1 \in 1..Len(chan') /\ chan'[i - 1] = chan[i]
    <3>1. SUFFICES ASSUME NEW i \in 1..Len(chan), i # 1
                   PROVE  i - 1 \in 1..Len(chan') /\ chan'[i - 1] = chan[i]
      OBVIOUS
    <3>2. i - 1 \in 1..Len(chan') /\ (i - 1) + 1 = i
      BY <1>2, <3>1
    <3>3. QED BY <1>2, <3>2
  <2>9. \A i, k \in 1..Len(chan) : chan[i].video = chan[k].video => i = k
    BY DEF HoldInv, OneHolder, HeldOnce
  <2>10. Waiting' = Waiting \ {v}
    <3>1. ASSUME NEW i \in 1..Len(chan') PROVE chan'[i].video \in Waiting /\ chan'[i].video # v
      BY <1>2, <2>5, <2>7, <2>9 DEF Waiting
    <3>2. ASSUME NEW i \in 1..Len(chan), chan[i].video # v PROVE chan[i].video \in Waiting'
      BY <2>5, <2>8, <3>2 DEF Waiting
    <3>3. QED BY <3>1, <3>2 DEF Waiting
  <2>11. v \notin Sent /\ v \notin Classified
    BY <2>6 DEF HoldInv, OneHolder, HeldOnce
  <2>12. HeldOnce'
    <3>1. \A q, r \in Producer : Sending(q)' /\ Sending(r)' /\ item'[q] = item'[r] => q = r
      BY DEF Take, producers, Sending, HoldInv, OneHolder, HeldOnce
    <3>2. \A x \in Worker : Busy(x) => job[x].video # v
      BY <2>11 DEF Classified
    <3>3. \A x, y \in Worker : Busy(x)' /\ Busy(y)' /\ job'[x].video = job'[y].video => x = y
      BY <2>2, <2>3, <3>2 DEF HoldInv, OneHolder, HeldOnce
    <3>4. Sent' \cap Waiting' = {} /\ Sent' \cap Classified' = {} /\ Waiting' \cap Classified' = {}
      BY <2>1, <2>4, <2>10, <2>11 DEF HoldInv, OneHolder, HeldOnce
    <3>5. ASSUME NEW i \in 1..Len(chan'), NEW k \in 1..Len(chan'), chan'[i].video = chan'[k].video
          PROVE  i = k
      <4>1. chan[i + 1].video = chan[k + 1].video
        BY <1>2, <3>5
      <4>2. i + 1 = k + 1
        BY <2>7, <2>9, <4>1
      <4>3. QED BY <4>2
    <3>6. QED BY <3>1, <3>3, <3>4, <3>5 DEF HeldOnce
  <2>13. queued' = queued
    BY DEF Take
  <2>14. QED BY <2>1, <2>4, <2>6, <2>10, <2>12, <2>13 DEF OneHolder, HoldInv
<1>6. QED BY <1>3, <1>4, <1>5 DEF HoldInv

LEMMA ReleaseHold ==
  ASSUME HoldInv, NEW w \in Worker, Release(w)
  PROVE  HoldInv'
<1>1. TypeOK'
  BY DEF Release, HoldInv, TypeOK, WGoto, producers, writes, history
<1>2. ItemInv'
  BY DEF Release, HoldInv, ItemInv, TypeOK, WGoto, producers, Busy
<1>3. OneHolder'
  <2>1. Sent' = Sent /\ Waiting' = Waiting /\ Busy(w)
    BY DEF Release, producers, Sent, Sending, Waiting, Busy
  <2>2. ~Busy(w)' /\ \A x \in Worker \ {w} : Busy(x)' = Busy(x)
    BY DEF Release, WGoto, Busy, HoldInv, TypeOK
  <2>3. \A x \in Worker : Busy(x) /\ job[x].video = job[w].video => x = w
    BY <2>1 DEF HoldInv, OneHolder, HeldOnce
  <2>4. Classified' = Classified \ {job[w].video} /\ job[w].video \in Classified
    BY <2>1, <2>2, <2>3 DEF Release, Classified
  <2>5. job[w].video \notin Sent /\ job[w].video \notin Waiting
    BY <2>4 DEF HoldInv, OneHolder, HeldOnce
  <2>6. HeldOnce'
    <3>1. \A q, r \in Producer : Sending(q)' /\ Sending(r)' /\ item'[q] = item'[r] => q = r
      BY DEF Release, producers, Sending, HoldInv, OneHolder, HeldOnce
    <3>2. \A x, y \in Worker : Busy(x)' /\ Busy(y)' /\ job'[x].video = job'[y].video => x = y
      BY <2>2 DEF Release, HoldInv, OneHolder, HeldOnce
    <3>3. Sent' \cap Waiting' = {} /\ Sent' \cap Classified' = {} /\ Waiting' \cap Classified' = {}
      BY <2>1, <2>4 DEF HoldInv, OneHolder, HeldOnce
    <3>4. \A i, k \in 1..Len(chan') : chan'[i].video = chan'[k].video => i = k
      BY DEF Release, HoldInv, OneHolder, HeldOnce
    <3>5. QED BY <3>1, <3>2, <3>3, <3>4 DEF HeldOnce
  <2>7. QED BY <2>1, <2>4, <2>5, <2>6 DEF OneHolder, HoldInv, Release
<1>4. QED BY <1>1, <1>2, <1>3 DEF HoldInv

\* The steps of processWithRetry, between taking a job and releasing its video.
Process(w) ==
  \/ Reset(w) \/ StartAttempt(w) \/ Skip(w) \/ AttemptFails(w) \/ GiveUp(w)
  \/ Succeed(w) \/ Publish(w) \/ PublishNothing(w) \/ Record(w)

LEMMA ProcessHold ==
  ASSUME HoldInv, NEW w \in Worker, Process(w)
  PROVE  HoldInv'
<1>1. /\ Busy(w) /\ UNCHANGED <<file, producers, job, chan, queued, dropped, missed, crashes>>
      /\ \E where \in {"try", "run", "publish", "published", "unpublished", "release"} : WGoto(w, where)
  BY DEF Process, Reset, StartAttempt, Skip, AttemptFails, GiveUp, Succeed, Publish, PublishNothing, Record, Busy, history
<1>2. job[w].video \in Video
  BY <1>1 DEF HoldInv, ItemInv
<1>3. /\ sidecar' \in [Video -> [state : SidecarStates, published : BOOLEAN]]
      /\ unwritten' \subseteq Video /\ faults' \in 0..MaxFaults
  <2>1. CASE AttemptFails(w) \/ Publish(w) \/ PublishNothing(w)
    BY <2>1 DEF AttemptFails, Publish, PublishNothing, writes, HoldInv, TypeOK
  <2>2. ASSUME NEW s \in [state : SidecarStates, published : BOOLEAN], Write(job[w].video, s)
        PROVE  /\ sidecar' \in [Video -> [state : SidecarStates, published : BOOLEAN]]
               /\ unwritten' \subseteq Video /\ faults' \in 0..MaxFaults
    <3>1. PICK v \in Video : v = job[w].video
      BY <1>2
    <3>2. QED BY <2>2, <3>1, WriteType DEF HoldInv
  <2>3. ASSUME NEW t \in SidecarStates, NEW b \in BOOLEAN, Write(job[w].video, Sidecar(t, b))
        PROVE  /\ sidecar' \in [Video -> [state : SidecarStates, published : BOOLEAN]]
               /\ unwritten' \subseteq Video /\ faults' \in 0..MaxFaults
    <3>1. Sidecar(t, b) \in [state : SidecarStates, published : BOOLEAN]
      BY DEF Sidecar
    <3>2. QED BY <2>2, <2>3, <3>1
  <2>4. {"pending", "skipped", "failed", "success"} \subseteq SidecarStates
    BY DEF SidecarStates, Final
  <2>5. CASE Reset(w) \/ StartAttempt(w)
    BY <2>3, <2>4, <2>5 DEF Reset, StartAttempt
  <2>6. CASE Skip(w) \/ GiveUp(w) \/ Succeed(w)
    BY <2>3, <2>4, <2>6 DEF Skip, GiveUp, Succeed
  <2>7. CASE Record(w)
    <3>1. PICK b \in BOOLEAN : b <=> (wpc[w] = "published")
      OBVIOUS
    <3>2. CASE wpc[w] = "published"
      BY <2>3, <2>4, <2>7, <3>2 DEF Record
    <3>3. CASE wpc[w] # "published"
      BY <2>3, <2>4, <2>7, <3>3 DEF Record
    <3>4. QED BY <3>2, <3>3
  <2>8. QED BY <2>1, <2>5, <2>6, <2>7 DEF Process
<1>4. attempt' \in [Worker -> 0..(RetryMax + 1)]
  <2>1. RetryMax \in Nat
    BY BoundsAssumption
  <2>2. CASE Reset(w)
    BY <2>1, <2>2 DEF Reset, HoldInv, TypeOK
  <2>3. CASE AttemptFails(w)
    BY <2>1, <2>3 DEF AttemptFails, HoldInv, TypeOK
  <2>4. CASE UNCHANGED attempt
    BY <2>4 DEF HoldInv, TypeOK
  <2>5. QED
    BY <2>2, <2>3, <2>4 DEF Process, StartAttempt, Skip, GiveUp, Succeed, Publish, PublishNothing, Record
<1>5. notified' \in [Video -> Nat]
  <2>1. CASE Publish(w)
    BY <1>2, <2>1 DEF Publish, HoldInv, TypeOK
  <2>2. CASE UNCHANGED notified
    BY <2>2 DEF HoldInv, TypeOK
  <2>3. QED
    BY <2>1, <2>2 DEF Process, Reset, StartAttempt, Skip, AttemptFails, GiveUp, Succeed, PublishNothing, Record, history
<1>6. TypeOK'
  <2>1. wpc' \in [Worker -> {"idle", "reset", "try", "run", "publish", "published", "unpublished", "release"}]
    BY <1>1 DEF HoldInv, TypeOK, WGoto
  <2>2. QED BY <1>1, <1>3, <1>4, <1>5, <2>1 DEF HoldInv, TypeOK, producers
<1>7. \A x \in Worker : Busy(x)' = Busy(x)
  BY <1>1 DEF WGoto, Busy, HoldInv, TypeOK
<1>8. ItemInv'
  BY <1>1, <1>7 DEF HoldInv, ItemInv, producers
<1>9. OneHolder'
  BY <1>1, <1>7, SameHolders DEF HoldInv, producers, Sending
<1>10. QED BY <1>6, <1>8, <1>9 DEF HoldInv

LEMMA CallerHold ==
  ASSUME HoldInv, NEW c \in Caller, CallerStep(c)
  PROVE  HoldInv'
<1>0. c \in Producer
  BY DEF Producer
<1>1. /\ ~Sending(c) /\ UNCHANGED <<walk, workers, writes, chan, queued, history, crashes>>
      /\ \E where \in {"idle", "store", "mark"} : Goto(c, where)
      /\ \A p \in Producer \ {c} : item'[p] = item[p]
  BY DEF CallerStep, StartStoring, Stored, StoringFails, Sending, HoldInv, TypeOK
<1>2. file' \in [Video -> {"absent", "writing", "stored"}] /\ item' \in [Producer -> Video \cup {NoVideo}]
  <2>1. ASSUME NEW v \in Video, StartStoring(c, v)
        PROVE  /\ file' \in [Video -> {"absent", "writing", "stored"}]
               /\ item' \in [Producer -> Video \cup {NoVideo}]
    BY <1>0, <2>1 DEF StartStoring, HoldInv, TypeOK
  <2>2. CASE Stored(c) \/ StoringFails(c)
    BY <1>0, <2>2 DEF Stored, StoringFails, HoldInv, TypeOK
  <2>3. QED BY <2>1, <2>2 DEF CallerStep
<1>3. TypeOK'
  <2>1. ppc' \in [Producer -> {"idle", "store", "mark", "send", "unmark", "ended"}]
    BY <1>1 DEF HoldInv, TypeOK, Goto
  <2>2. QED BY <1>1, <1>2, <2>1 DEF HoldInv, TypeOK, workers, writes, history
<1>4. ItemInv'
  <2>1. ppc'[c] \notin {"idle", "ended"} => item'[c] \in Video
    BY <1>0 DEF CallerStep, StartStoring, Stored, StoringFails, Goto, HoldInv, TypeOK, ItemInv
  <2>2. \A p \in Producer \ {c} : ppc'[p] = ppc[p]
    BY <1>1 DEF Goto, HoldInv, TypeOK
  <2>3. \A p \in Producer : ppc'[p] \notin {"idle", "ended"} => item'[p] \in Video
    BY <1>1, <2>1, <2>2 DEF HoldInv, ItemInv
  <2>4. \A w \in Worker : Busy(w)' => job'[w].video \in Video
    BY <1>1 DEF HoldInv, ItemInv, workers, Busy
  <2>5. QED BY <2>3, <2>4 DEF ItemInv
<1>5. OneHolder'
  <2>1. ~Sending(c)' /\ \A p \in Producer \ {c} : Sending(p)' = Sending(p) /\ item'[p] = item[p]
    BY <1>0, <1>1 DEF Goto, Sending, HoldInv, TypeOK
  <2>2. Sent' = Sent
    BY <1>1, <2>1 DEF Sent
  <2>3. Waiting' = Waiting /\ Classified' = Classified
    BY <1>1 DEF workers, Waiting, Classified, Busy
  <2>4. HeldOnce'
    BY <1>1, <2>1, <2>2, <2>3 DEF HoldInv, OneHolder, HeldOnce, workers, Busy
  <2>5. QED BY <1>1, <2>2, <2>3, <2>4 DEF HoldInv, OneHolder
<1>6. QED BY <1>3, <1>4, <1>5 DEF HoldInv

LEMMA WalkHold ==
  ASSUME HoldInv, WalkStep
  PROVE  HoldInv'
<1>0. Walker \in Producer
  BY DEF Producer
<1>1. /\ ~Sending(Walker) /\ UNCHANGED <<file, workers, writes, chan, queued, notified, dropped, crashes>>
      /\ (\E where \in {"mark", "ended"} : Goto(Walker, where)) \/ UNCHANGED <<ppc, item>>
      /\ \A p \in Producer \ {Walker} : item'[p] = item[p]
      /\ missed' \subseteq Video
  BY DEF WalkStep, Visit, WalkMisses, WalkEnds, Sending, HoldInv, TypeOK, history
<1>2. /\ walk' \in [Video -> {"due", "maybe", "seen"}]
      /\ item' \in [Producer -> Video \cup {NoVideo}]
      /\ ppc' \in [Producer -> {"idle", "store", "mark", "send", "unmark", "ended"}]
  <2>1. CASE WalkEnds
    BY <1>0, <2>1 DEF WalkEnds, Goto, HoldInv, TypeOK
  <2>2. ASSUME NEW v \in Video, Visit(v) \/ WalkMisses(v)
        PROVE  walk' \in [Video -> {"due", "maybe", "seen"}]
    BY <2>2 DEF Visit, WalkMisses, HoldInv, TypeOK
  <2>3. ASSUME NEW v \in Video, Visit(v) \/ WalkMisses(v)
        PROVE  item' \in [Producer -> Video \cup {NoVideo}]
    BY <1>0, <2>3 DEF Visit, WalkMisses, HoldInv, TypeOK
  <2>4. ASSUME NEW v \in Video, Visit(v) \/ WalkMisses(v)
        PROVE  ppc' \in [Producer -> {"idle", "store", "mark", "send", "unmark", "ended"}]
    <3>1. UNCHANGED ppc \/ ppc' = [ppc EXCEPT ![Walker] = "mark"]
      BY <2>4 DEF Visit, WalkMisses, Goto
    <3>2. QED BY <1>0, <3>1 DEF HoldInv, TypeOK
  <2>5. QED BY <2>1, <2>2, <2>3, <2>4 DEF WalkStep
<1>3. TypeOK'
  BY <1>1, <1>2 DEF HoldInv, TypeOK, workers, writes, history
<1>4. ItemInv'
  <2>1. ppc'[Walker] \notin {"idle", "ended"} => item'[Walker] \in Video
    BY <1>0 DEF WalkStep, Visit, WalkMisses, WalkEnds, Goto, HoldInv, TypeOK, ItemInv
  <2>2. \A p \in Producer \ {Walker} : ppc'[p] = ppc[p]
    BY <1>1 DEF Goto, HoldInv, TypeOK
  <2>3. \A p \in Producer : ppc'[p] \notin {"idle", "ended"} => item'[p] \in Video
    BY <1>1, <2>1, <2>2 DEF HoldInv, ItemInv
  <2>4. \A w \in Worker : Busy(w)' => job'[w].video \in Video
    BY <1>1 DEF HoldInv, ItemInv, workers, Busy
  <2>5. QED BY <2>3, <2>4 DEF ItemInv
<1>5. OneHolder'
  <2>1. ~Sending(Walker)'
    BY <1>0, <1>1 DEF Goto, Sending, HoldInv, TypeOK
  <2>2. \A p \in Producer \ {Walker} : Sending(p)' = Sending(p) /\ item'[p] = item[p]
    BY <1>0, <1>1 DEF Goto, Sending, HoldInv, TypeOK
  <2>3. Sent' = Sent
    BY <1>1, <2>1, <2>2 DEF Sent
  <2>4. Waiting' = Waiting /\ Classified' = Classified
    BY <1>1 DEF workers, Waiting, Classified, Busy
  <2>5. HeldOnce'
    BY <1>1, <2>1, <2>2, <2>3, <2>4 DEF HoldInv, OneHolder, HeldOnce, workers, Busy
  <2>6. QED BY <1>1, <2>3, <2>4, <2>5 DEF HoldInv, OneHolder
<1>6. QED BY <1>3, <1>4, <1>5 DEF HoldInv

LEMMA CrashHold ==
  ASSUME HoldInv, Crash
  PROVE  HoldInv'
<1>1. TypeOK'
  <2>1. walk' \in [Video -> {"due", "maybe", "seen"}]
    BY DEF Crash, StartWalk
  <2>2. job' \in [Worker -> [video : Video \cup {NoVideo}, notify : BOOLEAN]]
    BY DEF Crash, Job, NoJob
  <2>3. chan' \in Seq([video : Video, notify : BOOLEAN])
    BY DEF Crash
  <2>4. QED BY <2>1, <2>2, <2>3, BoundsAssumption DEF Crash, HoldInv, TypeOK, writes, history
<1>2. (\A p \in Producer : ppc'[p] = "idle") /\ (\A w \in Worker : wpc'[w] = "idle")
  BY DEF Crash
<1>3. ItemInv'
  BY <1>2 DEF ItemInv, Busy
<1>4. OneHolder'
  <2>1. Sent' = {} /\ Classified' = {}
    BY <1>2 DEF Sent, Classified, Sending, Busy
  <2>2. Len(chan') = 0 /\ 1..Len(chan') = {} /\ Waiting' = {}
    BY DEF Crash, Waiting
  <2>3. (\A p \in Producer : ~Sending(p)') /\ (\A w \in Worker : ~Busy(w)')
    BY <1>2 DEF Sending, Busy
  <2>4. HeldOnce'
    BY <2>1, <2>2, <2>3 DEF HeldOnce
  <2>5. QED BY <2>1, <2>2, <2>4 DEF Crash, OneHolder
<1>5. QED BY <1>1, <1>3, <1>4 DEF HoldInv

LEMMA StutterHold ==
  ASSUME HoldInv, UNCHANGED vars
  PROVE  HoldInv'
<1>1. TypeOK' /\ ItemInv'
  BY DEF HoldInv, TypeOK, ItemInv, vars, Busy
<1>2. OneHolder'
  BY SameHolders DEF HoldInv, vars, Sending, Busy
<1>3. QED BY <1>1, <1>2 DEF HoldInv

LEMMA HoldStep ==
  ASSUME HoldInv, [Next]_vars
  PROVE  HoldInv'
<1>1. ASSUME NEW p \in Producer, Produce(p) PROVE HoldInv'
  BY <1>1, MarkHold, SendHold, SendFullHold, UnmarkHold DEF Produce
<1>2. ASSUME NEW w \in Worker, Work(w) PROVE HoldInv'
  BY <1>2, TakeHold, ProcessHold, ReleaseHold DEF Work, Process
<1>3. QED BY <1>1, <1>2, CallerHold, WalkHold, CrashHold, StutterHold DEF Next

\* The shared state of the service, the types and who holds which video, is
\* consistent in every reachable state: the inductive invariant.
THEOREM Invariance == Spec => []HoldInv
<1>1. HoldInv /\ [Next]_vars => HoldInv'
  BY HoldStep
<1>2. QED BY InitHold, <1>1, PTL DEF Spec

\* Type correctness, with the bounds on attempts (RetryMax + 1 of them).
THEOREM TypeCorrect == Spec => []TypeOK
<1>1. HoldInv => TypeOK
  BY DEF HoldInv
<1>2. QED BY Invariance, <1>1, PTL

\* No video is in two places of the service at once, nor processed by two
\* workers, and queued names exactly those in it (service.go:143-187).
THEOREM OneHolderHolds == Spec => []OneHolder
<1>1. HoldInv => OneHolder
  BY DEF HoldInv
<1>2. QED BY Invariance, <1>1, PTL

-----------------------------------------------------------------------------
(* NotifiedOnce: a caller enqueues what it stored once, so at any time one   *)
(* caller, one job of the channel or one worker may still announce v.        *)

Posting(c, v) == ppc[c] \in {"store", "mark", "send"} /\ item[c] = v
Announcing(w) == wpc[w] \in {"reset", "try", "run", "publish"} /\ job[w].notify

\* What is still to be announced has not been, and its message is stored.
Unannounced(v) == notified[v] = 0 /\ file[v] = "stored"

PostInv(c, v) ==
  /\ notified[v] = 0 /\ file[v] # "absent" /\ (ppc[c] # "store" => file[v] = "stored")
  /\ \A d \in Caller : Posting(d, v) => d = c
  /\ \A i \in 1..Len(chan) : chan[i].video = v => ~chan[i].notify
  /\ \A w \in Worker : Announcing(w) => job[w].video # v

NotifyInv ==
  /\ \A c \in Caller : \A v \in Video : Posting(c, v) => PostInv(c, v)
  /\ \A i \in 1..Len(chan) : chan[i].notify => Unannounced(chan[i].video)
  /\ \A w \in Worker : Announcing(w) => Unannounced(job[w].video)
  /\ NotifiedOnce

\* A worker publishes only for a job that asks for it.
PublishInv == \A w \in Worker : wpc[w] = "publish" => job[w].notify

LEMMA SlotVideo ==
  ASSUME HoldInv, NEW i \in 1..Len(chan)
  PROVE  chan[i].video \in Video
<1> DEFINE S == [video : Video, notify : BOOLEAN]
<1>1. chan \in Seq(S)
  BY DEF HoldInv, TypeOK
<1>2. \A s \in S : s.video \in Video
  OBVIOUS
<1> HIDE DEF S
<1>3. chan[i] \in S
  BY <1>1
<1>4. QED BY <1>2, <1>3

\* A step after which no more is to be announced than before.
LEMMA FewerNotify ==
  ASSUME NotifyInv, UNCHANGED <<file, notified, chan>>,
         \A c \in Caller : \A v \in Video : Posting(c, v)' => Posting(c, v) /\ (ppc[c] = "store" => ppc'[c] = "store"),
         \A w \in Worker : Announcing(w)' => Announcing(w) /\ job'[w] = job[w]
  PROVE  NotifyInv'
<1>1. NotifiedOnce'
  BY DEF NotifyInv, NotifiedOnce
<1>2. \A i \in 1..Len(chan') : chan'[i].notify => Unannounced(chan[i].video)'
  BY DEF NotifyInv, Unannounced
<1>3. \A w \in Worker : Announcing(w)' => Unannounced(job[w].video)' /\ job'[w] = job[w]
  BY DEF NotifyInv, Unannounced
<1>4. ASSUME NEW c \in Caller, NEW v \in Video, Posting(c, v)'
      PROVE  PostInv(c, v)'
  <2>1. PostInv(c, v) /\ (ppc[c] = "store" => ppc'[c] = "store")
    BY <1>4 DEF NotifyInv
  <2>2. QED BY <2>1 DEF PostInv
<1>5. QED BY <1>1, <1>2, <1>3, <1>4 DEF NotifyInv

LEMMA StartStoringNotify ==
  ASSUME HoldInv, NotifyInv, NEW c \in Caller, NEW u \in Video, StartStoring(c, u)
  PROVE  NotifyInv'
<1>0. c \in Producer
  BY DEF Producer
<1>1. /\ file[u] = "absent" /\ file' = [file EXCEPT ![u] = "writing"] /\ file \in [Video -> {"absent", "writing", "stored"}]
      /\ ppc'[c] = "store" /\ item'[c] = u
      /\ \A d \in Caller \ {c} : ppc'[d] = ppc[d] /\ item'[d] = item[d]
      /\ UNCHANGED <<wpc, job, chan, notified>>
  BY <1>0 DEF StartStoring, Goto, HoldInv, TypeOK, workers, history, Producer
<1>2. /\ notified[u] = 0
      /\ \A d \in Caller : ~Posting(d, u)
      /\ \A i \in 1..Len(chan) : chan[i].video = u => ~chan[i].notify
      /\ \A w \in Worker : Announcing(w) => job[w].video # u
  <2>1. notified[u] = 0
    BY <1>1 DEF NotifyInv, NotifiedOnce, HoldInv, TypeOK
  <2>2. QED BY <1>1, <2>1 DEF NotifyInv, PostInv, Unannounced
<1>3. \A v \in Video : v # u => file'[v] = file[v]
  BY <1>1
<1>4. NotifiedOnce'
  BY <1>1, <1>2, <1>3 DEF NotifyInv, NotifiedOnce
<1>5. ASSUME NEW i \in 1..Len(chan'), chan'[i].notify
      PROVE  Unannounced(chan[i].video)'
  <2>1. chan[i].video \in Video
    BY <1>1, SlotVideo
  <2>2. QED BY <1>1, <1>2, <1>3, <1>5, <2>1 DEF NotifyInv, Unannounced
<1>6. ASSUME NEW w \in Worker, Announcing(w)'
      PROVE  Unannounced(job[w].video)'
  <2>1. Announcing(w) /\ job[w].video \in Video
    BY <1>1, <1>6 DEF Announcing, HoldInv, ItemInv, Busy
  <2>2. QED BY <1>1, <1>2, <1>3, <2>1 DEF NotifyInv, Unannounced
<1>7. ASSUME NEW d \in Caller, NEW v \in Video, Posting(d, v)'
      PROVE  PostInv(d, v)'
  <2>1. CASE d = c
    <3>1. v = u
      BY <1>1, <1>7, <2>1 DEF Posting
    <3>2. \A e \in Caller : Posting(e, u)' => e = c
      BY <1>1, <1>2 DEF Posting
    <3>3. file'[u] = "writing"
      BY <1>1
    <3>4. QED BY <1>1, <1>2, <2>1, <3>1, <3>2, <3>3 DEF PostInv, Announcing
  <2>2. CASE d # c
    <3>1. Posting(d, v) /\ ppc'[d] = ppc[d]
      BY <1>1, <1>7, <2>2 DEF Posting
    <3>2. v # u
      BY <1>2, <3>1
    <3>3. \A e \in Caller : Posting(e, v)' => Posting(e, v)
      BY <1>1, <3>2 DEF Posting
    <3>4. PostInv(d, v)
      BY <3>1 DEF NotifyInv
    <3>5. QED BY <1>1, <1>3, <3>1, <3>2, <3>3, <3>4 DEF PostInv, Announcing
  <2>3. QED BY <2>1, <2>2
<1>8. QED BY <1>4, <1>5, <1>6, <1>7 DEF NotifyInv

LEMMA StoredNotify ==
  ASSUME HoldInv, NotifyInv, NEW c \in Caller, Stored(c)
  PROVE  NotifyInv'
<1>0. c \in Producer
  BY DEF Producer
<1>1. PICK u \in Video : u = item[c]
  BY <1>0 DEF Stored, HoldInv, ItemInv
<1>2. /\ file' = [file EXCEPT ![u] = "stored"] /\ file \in [Video -> {"absent", "writing", "stored"}]
      /\ ppc[c] = "store" /\ ppc'[c] = "mark" /\ \A d \in Caller \ {c} : ppc'[d] = ppc[d]
      /\ UNCHANGED <<wpc, job, chan, notified, item>>
  BY <1>0, <1>1 DEF Stored, Goto, HoldInv, TypeOK, workers, history, Producer
<1>3. \A v \in Video : file'[v] = IF v = u THEN "stored" ELSE file[v]
  BY <1>2
<1>4. NotifiedOnce'
  BY <1>2, <1>3 DEF NotifyInv, NotifiedOnce
<1>5. ASSUME NEW i \in 1..Len(chan'), chan'[i].notify
      PROVE  Unannounced(chan[i].video)'
  <2>1. chan[i].video \in Video
    BY <1>2, SlotVideo
  <2>2. QED BY <1>2, <1>3, <1>5, <2>1 DEF NotifyInv, Unannounced
<1>6. ASSUME NEW w \in Worker, Announcing(w)'
      PROVE  Unannounced(job[w].video)'
  <2>1. Announcing(w) /\ job[w].video \in Video
    BY <1>2, <1>6 DEF Announcing, HoldInv, ItemInv, Busy
  <2>2. QED BY <1>2, <1>3, <2>1 DEF NotifyInv, Unannounced
<1>7. ASSUME NEW d \in Caller, NEW v \in Video, Posting(d, v)'
      PROVE  PostInv(d, v)'
  <2>1. Posting(d, v) /\ (d # c => ppc'[d] = ppc[d])
    BY <1>2, <1>7 DEF Posting
  <2>2. PostInv(d, v)
    BY <2>1 DEF NotifyInv
  <2>3. \A e \in Caller : Posting(e, v)' => Posting(e, v)
    BY <1>2 DEF Posting
  <2>4. ppc'[d] # "store" => file'[v] = "stored"
    BY <1>1, <1>2, <1>3, <2>1, <2>2 DEF PostInv, Posting
  <2>5. QED BY <1>2, <1>3, <2>2, <2>3, <2>4 DEF PostInv, Announcing
<1>8. QED BY <1>4, <1>5, <1>6, <1>7 DEF NotifyInv

LEMMA SendNotify ==
  ASSUME HoldInv, NotifyInv, NEW p \in Producer, Send(p)
  PROVE  NotifyInv'
<1> DEFINE n == Len(chan) + 1
<1>1. PICK u \in Video : u = item[p]
  BY DEF Send, HoldInv, ItemInv
<1>2. /\ ppc'[p] = "idle" /\ ppc[p] = "send" /\ \A d \in Producer \ {p} : ppc'[d] = ppc[d]
      /\ UNCHANGED <<file, wpc, job, notified, item>>
  BY DEF Send, Goto, HoldInv, TypeOK, workers, history
<1>3. /\ 1..Len(chan') = 1..Len(chan) \cup {n}
      /\ \A i \in 1..Len(chan) : chan'[i] = chan[i]
      /\ chan'[n] = Job(u, p # Walker)
  <2>1. chan' = Append(chan, Job(u, p # Walker)) /\ chan \in Seq([video : Video, notify : BOOLEAN])
    BY <1>1 DEF Send, HoldInv, TypeOK
  <2>2. QED BY <2>1
<1>4. chan'[n].video = u /\ (chan'[n].notify => p # Walker)
  <2>1. \A b \in BOOLEAN : Job(u, b).video = u /\ Job(u, b).notify = b
    BY DEF Job
  <2>2. CASE p = Walker
    <3>1. chan'[n] = Job(u, FALSE)
      BY <1>3, <2>2
    <3>2. QED BY <2>1, <3>1
  <2>3. CASE p # Walker
    <3>1. chan'[n] = Job(u, TRUE)
      BY <1>3, <2>3
    <3>2. QED BY <2>1, <2>3, <3>1
  <2>4. QED BY <2>2, <2>3
<1>5. p # Walker => p \in Caller /\ Posting(p, u) /\ PostInv(p, u) /\ Unannounced(u)
  <2>1. SUFFICES ASSUME p # Walker PROVE p \in Caller /\ Posting(p, u) /\ PostInv(p, u) /\ Unannounced(u)
    OBVIOUS
  <2>2. p \in Caller /\ Posting(p, u)
    BY <1>1, <1>2, <2>1 DEF Producer, Posting
  <2>3. QED BY <1>2, <2>2 DEF NotifyInv, PostInv, Unannounced
<1>6. NotifiedOnce'
  BY <1>2 DEF NotifyInv, NotifiedOnce
<1>7. ASSUME NEW i \in 1..Len(chan'), chan'[i].notify
      PROVE  Unannounced(chan[i].video)'
  BY <1>2, <1>3, <1>4, <1>5, <1>7 DEF NotifyInv, Unannounced
<1>8. ASSUME NEW w \in Worker, Announcing(w)'
      PROVE  Unannounced(job[w].video)'
  BY <1>2, <1>8 DEF NotifyInv, Unannounced, Announcing
<1>9. ASSUME NEW d \in Caller, NEW v \in Video, Posting(d, v)'
      PROVE  PostInv(d, v)'
  <2>1. d \in Producer /\ d # p /\ d # Walker
    BY <1>2, <1>9, WalkerAssumption DEF Posting, Producer
  <2>2. Posting(d, v) /\ ppc'[d] = ppc[d]
    BY <1>2, <1>9, <2>1 DEF Posting
  <2>3. PostInv(d, v)
    BY <2>2 DEF NotifyInv
  <2>4. ~(p # Walker /\ v = u)
    BY <1>5, <2>1, <2>2 DEF PostInv
  <2>5. \A i \in 1..Len(chan') : chan'[i].video = v => ~chan'[i].notify
    BY <1>3, <1>4, <2>3, <2>4 DEF PostInv
  <2>6. \A e \in Caller : Posting(e, v)' => Posting(e, v)
    BY <1>2 DEF Posting, Producer
  <2>7. QED BY <1>2, <2>2, <2>3, <2>5, <2>6 DEF PostInv, Announcing
<1>10. QED BY <1>6, <1>7, <1>8, <1>9 DEF NotifyInv

LEMMA TakeNotify ==
  ASSUME HoldInv, NotifyInv, NEW w \in Worker, Take(w)
  PROVE  NotifyInv'
<1>1. /\ chan \in Seq([video : Video, notify : BOOLEAN]) /\ chan # <<>> /\ chan' = Tail(chan)
  BY DEF Take, HoldInv, TypeOK
<1>2. /\ 1 \in 1..Len(chan) /\ Head(chan) = chan[1]
      /\ \A i \in 1..Len(chan') : i + 1 \in 1..Len(chan) /\ chan'[i] = chan[i + 1]
  BY <1>1
<1>3. /\ job'[w] = chan[1] /\ \A x \in Worker \ {w} : job'[x] = job[x] /\ wpc'[x] = wpc[x]
      /\ UNCHANGED <<file, ppc, item, notified>>
  BY <1>2 DEF Take, WGoto, HoldInv, TypeOK, producers, history
<1>4. NotifiedOnce'
  BY <1>3 DEF NotifyInv, NotifiedOnce
<1>5. ASSUME NEW i \in 1..Len(chan'), chan'[i].notify
      PROVE  Unannounced(chan[i].video)'
  BY <1>2, <1>3, <1>5 DEF NotifyInv, Unannounced
<1>6. ASSUME NEW x \in Worker, Announcing(x)'
      PROVE  (x = w /\ chan[1].notify) \/ (x # w /\ Announcing(x) /\ job'[x] = job[x])
  BY <1>3, <1>6 DEF Announcing
<1>7. ASSUME NEW x \in Worker, Announcing(x)'
      PROVE  Unannounced(job[x].video)'
  BY <1>2, <1>3, <1>6, <1>7 DEF NotifyInv, Unannounced
<1>8. ASSUME NEW c \in Caller, NEW v \in Video, Posting(c, v)'
      PROVE  PostInv(c, v)'
  <2>1. Posting(c, v) /\ PostInv(c, v)
    BY <1>3, <1>8 DEF Posting, NotifyInv
  <2>2. \A i \in 1..Len(chan') : chan'[i].video = v => ~chan'[i].notify
    BY <1>2, <2>1 DEF PostInv
  <2>3. \A x \in Worker : Announcing(x)' => job'[x].video # v
    BY <1>2, <1>3, <1>6, <2>1 DEF PostInv
  <2>4. \A e \in Caller : Posting(e, v)' => Posting(e, v)
    BY <1>3 DEF Posting
  <2>5. QED BY <1>3, <2>1, <2>2, <2>3, <2>4 DEF PostInv
<1>9. QED BY <1>4, <1>5, <1>7, <1>8 DEF NotifyInv

LEMMA PublishNotify ==
  ASSUME HoldInv, NotifyInv, PublishInv, NEW w \in Worker, Publish(w)
  PROVE  NotifyInv'
<1>1. PICK u \in Video : u = job[w].video
  BY DEF Publish, HoldInv, ItemInv, Busy
<1>2. /\ Busy(w) /\ Announcing(w) /\ ~Announcing(w)'
      /\ \A x \in Worker \ {w} : Announcing(x)' = Announcing(x)
      /\ UNCHANGED <<file, ppc, item, job, chan>>
  BY DEF Publish, PublishInv, WGoto, HoldInv, TypeOK, producers, Busy, Announcing
<1>3. Unannounced(u)
  BY <1>1, <1>2 DEF NotifyInv
<1>4. /\ \A v \in Video : v # u => notified'[v] = notified[v]
      /\ notified'[u] \in {0, 1}
  BY <1>1, <1>3 DEF Publish, HoldInv, TypeOK, Unannounced
<1>5. NotifiedOnce'
  BY <1>2, <1>3, <1>4 DEF NotifyInv, NotifiedOnce, Unannounced
<1>6. ASSUME NEW i \in 1..Len(chan'), chan'[i].notify
      PROVE  Unannounced(chan[i].video)'
  <2>1. chan[i].video \in Video
    BY <1>2, SlotVideo
  <2>2. chan[i].video # u
    BY <1>1, <1>2 DEF HoldInv, OneHolder, HeldOnce, Waiting, Classified
  <2>3. QED BY <1>2, <1>4, <1>6, <2>1, <2>2 DEF NotifyInv, Unannounced
<1>7. ASSUME NEW x \in Worker, Announcing(x)'
      PROVE  Unannounced(job[x].video)'
  <2>1. x # w /\ Announcing(x) /\ Busy(x)
    BY <1>2, <1>7 DEF Announcing, Busy
  <2>2. job[x].video # u /\ job[x].video \in Video
    BY <1>1, <1>2, <2>1 DEF HoldInv, OneHolder, HeldOnce, ItemInv
  <2>3. QED BY <1>2, <1>4, <2>1, <2>2 DEF NotifyInv, Unannounced
<1>8. ASSUME NEW c \in Caller, NEW v \in Video, Posting(c, v)'
      PROVE  PostInv(c, v)'
  <2>1. Posting(c, v) /\ PostInv(c, v)
    BY <1>2, <1>8 DEF Posting, NotifyInv
  <2>2. v # u
    BY <1>1, <1>2, <2>1 DEF PostInv
  <2>3. \A x \in Worker : Announcing(x)' => Announcing(x)
    BY <1>2
  <2>4. \A e \in Caller : Posting(e, v)' => Posting(e, v)
    BY <1>2 DEF Posting
  <2>5. QED BY <1>2, <1>4, <2>1, <2>2, <2>3, <2>4 DEF PostInv
<1>9. QED BY <1>5, <1>6, <1>7, <1>8 DEF NotifyInv

LEMMA PublishInvStep ==
  ASSUME HoldInv, PublishInv, [Next]_vars
  PROVE  PublishInv'
<1>1. ASSUME NEW w \in Worker, Take(w) \/ Release(w) PROVE PublishInv'
  BY <1>1 DEF Take, Release, WGoto, PublishInv, HoldInv, TypeOK
<1>2. ASSUME NEW w \in Worker, Succeed(w) PROVE PublishInv'
  <2>1. job' = job /\ (wpc'[w] = "publish" => job[w].notify) /\ \A x \in Worker \ {w} : wpc'[x] = wpc[x]
    BY <1>2 DEF Succeed, WGoto, HoldInv, TypeOK
  <2>2. QED BY <2>1 DEF PublishInv
<1>3. ASSUME NEW w \in Worker, Process(w), ~Succeed(w) PROVE PublishInv'
  <2>1. job' = job /\ wpc'[w] # "publish" /\ \A x \in Worker \ {w} : wpc'[x] = wpc[x]
    BY <1>3 DEF Process, Reset, StartAttempt, Skip, AttemptFails, GiveUp, Publish, PublishNothing, Record, WGoto, HoldInv, TypeOK
  <2>2. QED BY <2>1 DEF PublishInv
<1>4. CASE Crash
  BY <1>4 DEF Crash, PublishInv
<1>5. CASE UNCHANGED workers
  BY <1>5 DEF workers, PublishInv
<1>6. ASSUME NEW p \in Producer, Produce(p) PROVE UNCHANGED workers
  BY <1>6 DEF Produce, Mark, Send, SendFull, Unmark
<1>7. ASSUME NEW c \in Caller, CallerStep(c) PROVE UNCHANGED workers
  BY <1>7 DEF CallerStep, StartStoring, Stored, StoringFails
<1>8. WalkStep \/ UNCHANGED vars => UNCHANGED workers
  BY DEF WalkStep, Visit, WalkMisses, WalkEnds, vars, workers
<1>9. QED BY <1>1, <1>2, <1>3, <1>4, <1>5, <1>6, <1>7, <1>8 DEF Next, Work, Process

LEMMA NotifyStep ==
  ASSUME HoldInv, PublishInv, NotifyInv, [Next]_vars
  PROVE  NotifyInv'
<1>0. Caller \subseteq Producer
  BY DEF Producer
<1>1. ASSUME NEW p \in Producer, Produce(p) PROVE NotifyInv'
  <2>1. CASE Mark(p)
    BY <1>0, <2>1, FewerNotify DEF Mark, Goto, HoldInv, TypeOK, workers, history, Posting, Announcing
  <2>2. CASE SendFull(p)
    BY <1>0, <2>2, FewerNotify DEF SendFull, Goto, HoldInv, TypeOK, workers, Posting, Announcing
  <2>3. CASE Unmark(p)
    BY <1>0, <2>3, FewerNotify DEF Unmark, Goto, HoldInv, TypeOK, workers, history, Posting, Announcing
  <2>4. QED BY <1>1, <2>1, <2>2, <2>3, SendNotify DEF Produce
<1>2. ASSUME NEW c \in Caller, CallerStep(c) PROVE NotifyInv'
  <2>1. CASE StoringFails(c)
    BY <1>0, <2>1, FewerNotify DEF StoringFails, Goto, HoldInv, TypeOK, workers, history, Posting, Announcing
  <2>2. QED BY <1>2, <2>1, StartStoringNotify, StoredNotify DEF CallerStep
<1>3. CASE WalkStep
  <2>1. \A c \in Caller : ppc'[c] = ppc[c] /\ item'[c] = item[c]
    BY <1>0, <1>3, WalkerAssumption DEF WalkStep, Visit, WalkMisses, WalkEnds, Goto, HoldInv, TypeOK
  <2>2. UNCHANGED <<file, notified, chan, workers>>
    BY <1>3 DEF WalkStep, Visit, WalkMisses, WalkEnds, history
  <2>3. QED BY <2>1, <2>2, FewerNotify DEF workers, Posting, Announcing
<1>4. ASSUME NEW w \in Worker, Work(w) PROVE NotifyInv'
  <2>1. CASE Release(w)
    BY <2>1, FewerNotify DEF Release, WGoto, HoldInv, TypeOK, producers, history, Posting, Announcing
  <2>2. CASE Process(w) /\ ~Publish(w)
    <3>1. /\ UNCHANGED <<file, notified, chan, ppc, item, job>>
          /\ \A x \in Worker \ {w} : wpc'[x] = wpc[x]
      BY <2>2 DEF Process, Reset, StartAttempt, Skip, AttemptFails, GiveUp, Succeed, PublishNothing, Record,
                  WGoto, HoldInv, TypeOK, producers, history
    <3>2. Announcing(w)' => Announcing(w)
      BY <2>2, <3>1 DEF Process, Reset, StartAttempt, Skip, AttemptFails, GiveUp, Succeed, PublishNothing, Record,
                  WGoto, HoldInv, TypeOK, Announcing
    <3>3. \A x \in Worker : Announcing(x)' => Announcing(x)
      BY <3>1, <3>2 DEF Announcing
    <3>4. QED BY <3>1, <3>3, FewerNotify DEF Posting
  <2>3. QED BY <1>4, <2>1, <2>2, TakeNotify, PublishNotify DEF Work, Process
<1>5. CASE Crash
  <2>1. \A c \in Caller : \A v \in Video : ~Posting(c, v)'
    BY <1>0, <1>5 DEF Crash, Posting
  <2>2. \A w \in Worker : ~Announcing(w)'
    BY <1>5 DEF Crash, Announcing
  <2>3. 1..Len(chan') = {}
    BY <1>5 DEF Crash
  <2>4. NotifiedOnce'
    BY <1>5 DEF Crash, history, NotifyInv, NotifiedOnce
  <2>5. QED BY <2>1, <2>2, <2>3, <2>4 DEF NotifyInv
<1>6. CASE UNCHANGED vars
  BY <1>6, FewerNotify DEF vars, Posting, Announcing
<1>7. QED BY <1>1, <1>2, <1>3, <1>4, <1>5, <1>6 DEF Next

LEMMA InitNotify == Init => PublishInv /\ NotifyInv
<1>1. ASSUME Init PROVE PublishInv /\ NotifyInv
  <2>1. (\A c \in Caller : \A v \in Video : ~Posting(c, v)) /\ (\A w \in Worker : wpc[w] = "idle")
    BY <1>1 DEF Init, Posting, Producer
  <2>2. 1..Len(chan) = {} /\ NotifiedOnce
    BY <1>1 DEF Init, NotifiedOnce
  <2>3. QED BY <2>1, <2>2 DEF PublishInv, NotifyInv, Announcing
<1>2. QED BY <1>1

\* A stored video is announced at most once, whatever is classified again after
\* a crash or by the walk, and never before its message is stored.
THEOREM NotifiedOnceHolds == Spec => []NotifiedOnce
<1>1. Init => PublishInv /\ NotifyInv
  BY InitNotify
<1>2. HoldInv /\ PublishInv /\ NotifyInv /\ [Next]_vars => PublishInv' /\ NotifyInv'
  BY PublishInvStep, NotifyStep
<1>3. NotifyInv => NotifiedOnce
  BY DEF NotifyInv
<1>4. QED BY Invariance, <1>1, <1>2, <1>3, PTL DEF Spec

-----------------------------------------------------------------------------
(* What exists: a video somebody works on, or with a sidecar, has a file.    *)

FileInv ==
  /\ \A p \in Producer : ppc[p] \notin {"idle", "ended"} => file[item[p]] # "absent"
  /\ \A v \in Video :
       v \in queued \/ walk[v] = "due" \/ sidecar[v].state # "none" => file[v] # "absent"

\* What a caller stores is not complete before it says so.
StoreInv == \A c \in Caller : ppc[c] = "store" => file[item[c]] = "writing"

LEMMA WriteFacts ==
  ASSUME TypeOK, NEW v \in Video, NEW s, Write(v, s)
  PROVE  /\ \/ sidecar' = [sidecar EXCEPT ![v] = s] /\ sidecar'[v] = s /\ unwritten' = unwritten
            \/ sidecar' = sidecar /\ unwritten' = unwritten \cup {v}
         /\ \A u \in Video \ {v} : sidecar'[u] = sidecar[u]
         /\ unwritten \subseteq unwritten'
BY DEF Write, TypeOK

\* The frame of a step of processWithRetry.
LEMMA ProcessFrame ==
  ASSUME HoldInv, NEW w \in Worker, Process(w)
  PROVE  \E u \in Video :
           /\ u = job[w].video /\ u \in queued /\ u \notin Waiting /\ Busy(w)
           /\ UNCHANGED <<file, ppc, item, walk, job, chan, queued, dropped, missed>>
           /\ \A x \in Worker \ {w} : wpc'[x] = wpc[x] /\ (Busy(x) => job[x].video # u)
           /\ \A v \in Video \ {u} : sidecar'[v] = sidecar[v]
           /\ unwritten \subseteq unwritten'
<1>1. /\ Busy(w) /\ UNCHANGED <<file, ppc, item, walk, job, chan, queued, dropped, missed>>
      /\ \E where : WGoto(w, where)
  BY DEF Process, Reset, StartAttempt, Skip, AttemptFails, GiveUp, Succeed, Publish, PublishNothing, Record, Busy, history, producers
<1>2. PICK u \in Video : u = job[w].video
  BY <1>1 DEF HoldInv, ItemInv
<1>3. u \in queued /\ u \notin Waiting
  BY <1>1, <1>2 DEF HoldInv, OneHolder, HeldOnce, Classified
<1>4. \A x \in Worker \ {w} : wpc'[x] = wpc[x] /\ (Busy(x) => job[x].video # u)
  BY <1>1, <1>2 DEF WGoto, HoldInv, TypeOK, OneHolder, HeldOnce
<1>5. UNCHANGED writes \/ \E s : Write(u, s)
  BY <1>2 DEF Process, Reset, StartAttempt, Skip, AttemptFails, GiveUp, Succeed, Publish, PublishNothing, Record
<1>6. (\A v \in Video \ {u} : sidecar'[v] = sidecar[v]) /\ unwritten \subseteq unwritten'
  BY <1>5, WriteFacts DEF writes, HoldInv
<1>7. QED BY <1>1, <1>2, <1>3, <1>4, <1>6

LEMMA InitFile == Init => FileInv /\ StoreInv
BY DEF Init, FileInv, StoreInv, Producer, Sidecar, StartWalk

LEMMA CallerFile ==
  ASSUME HoldInv, FileInv, StoreInv, NotifyInv, NEW c \in Caller, CallerStep(c)
  PROVE  FileInv' /\ StoreInv'
<1>0. c \in Producer /\ Caller \subseteq Producer
  BY DEF Producer
<1>1. ASSUME NEW v \in Video, StartStoring(c, v) PROVE FileInv' /\ StoreInv'
  <2>1. /\ file[v] = "absent" /\ file'[v] = "writing" /\ \A u \in Video \ {v} : file'[u] = file[u]
        /\ ppc'[c] = "store" /\ item'[c] = v
        /\ \A p \in Producer \ {c} : ppc'[p] = ppc[p] /\ item'[p] = item[p]
        /\ UNCHANGED <<queued, walk, sidecar>>
    BY <1>0, <1>1 DEF StartStoring, Goto, HoldInv, TypeOK, writes
  <2>2. \A u \in Video : file'[u] = "absent" => file[u] = "absent"
    BY <2>1
  <2>3. FileInv'
    BY <1>0, <2>1, <2>2 DEF FileInv, HoldInv, ItemInv
  <2>4. \A d \in Caller \ {c} : ppc[d] = "store" => item[d] # v /\ item[d] \in Video
    BY <1>0, <2>1 DEF StoreInv, HoldInv, ItemInv
  <2>5. StoreInv'
    BY <1>0, <2>1, <2>4 DEF StoreInv
  <2>6. QED BY <2>3, <2>5
<1>2. CASE Stored(c)
  <2>1. PICK v \in Video : v = item[c]
    BY <1>0, <1>2 DEF Stored, HoldInv, ItemInv
  <2>2. /\ ppc[c] = "store" /\ ppc'[c] = "mark" /\ item' = item
        /\ file'[v] = "stored" /\ \A u \in Video \ {v} : file'[u] = file[u]
        /\ \A p \in Producer \ {c} : ppc'[p] = ppc[p]
        /\ UNCHANGED <<queued, walk, sidecar>>
    BY <1>0, <1>2, <2>1 DEF Stored, Goto, HoldInv, TypeOK, writes
  <2>3. \A u \in Video : file'[u] = "absent" => file[u] = "absent"
    BY <2>2
  <2>4. FileInv'
    BY <1>0, <2>1, <2>2, <2>3 DEF FileInv, HoldInv, ItemInv
  <2>5. \A d \in Caller \ {c} : ppc[d] = "store" => item[d] # v /\ item[d] \in Video
    BY <1>0, <2>1, <2>2 DEF NotifyInv, PostInv, Posting, HoldInv, ItemInv
  <2>6. StoreInv'
    BY <1>0, <2>2, <2>5 DEF StoreInv
  <2>7. QED BY <2>4, <2>6
<1>3. CASE StoringFails(c)
  <2>1. /\ ppc'[c] = "idle" /\ \A p \in Producer \ {c} : ppc'[p] = ppc[p]
        /\ UNCHANGED <<file, item, queued, walk, sidecar>>
    BY <1>0, <1>3 DEF StoringFails, Goto, HoldInv, TypeOK, writes
  <2>2. QED BY <1>0, <2>1 DEF FileInv, StoreInv
<1>4. QED BY <1>1, <1>2, <1>3 DEF CallerStep

LEMMA WalkFile ==
  ASSUME HoldInv, FileInv, StoreInv, WalkStep
  PROVE  FileInv' /\ StoreInv'
<1>0. Walker \in Producer /\ Walker \notin Caller /\ Caller \subseteq Producer
  BY WalkerAssumption DEF Producer
<1>1. /\ UNCHANGED <<file, queued, sidecar>>
      /\ \A p \in Producer \ {Walker} : ppc'[p] = ppc[p] /\ item'[p] = item[p]
      /\ \A v \in Video : walk'[v] = "due" => walk[v] = "due"
  BY <1>0 DEF WalkStep, WalkEnds, Visit, WalkMisses, Goto, HoldInv, TypeOK, writes
<1>2. ppc'[Walker] \notin {"idle", "ended"} => file[item'[Walker]] # "absent"
  BY <1>0 DEF WalkStep, WalkEnds, Visit, WalkMisses, Goto, HoldInv, TypeOK
<1>3. QED BY <1>0, <1>1, <1>2 DEF FileInv, StoreInv

LEMMA ProduceFile ==
  ASSUME HoldInv, FileInv, StoreInv, NEW p \in Producer, Produce(p)
  PROVE  FileInv' /\ StoreInv'
<1>1. /\ UNCHANGED <<file, sidecar, item, walk>> /\ ppc[p] \notin {"idle", "ended"}
      /\ ppc'[p] \in {"idle", "send", "unmark"}
      /\ \A q \in Producer \ {p} : ppc'[q] = ppc[q]
      /\ queued' \subseteq queued \cup {item[p]}
  BY DEF Produce, Mark, Send, SendFull, Unmark, Goto, HoldInv, TypeOK, writes
<1>2. file[item[p]] # "absent"
  BY <1>1 DEF FileInv
<1>3. Caller \subseteq Producer
  BY DEF Producer
<1>4. QED BY <1>1, <1>2, <1>3 DEF FileInv, StoreInv

LEMMA WorkFile ==
  ASSUME HoldInv, FileInv, StoreInv, NEW w \in Worker, Work(w)
  PROVE  FileInv' /\ StoreInv'
<1>1. CASE Take(w) \/ Release(w)
  <2>1. UNCHANGED <<file, sidecar, item, ppc, walk>> /\ queued' \subseteq queued
    BY <1>1 DEF Take, Release, writes, producers
  <2>2. QED BY <2>1 DEF FileInv, StoreInv
<1>2. CASE Process(w)
  BY <1>2, ProcessFrame DEF FileInv, StoreInv
<1>3. QED BY <1>1, <1>2 DEF Work, Process

LEMMA FileStep ==
  ASSUME HoldInv, FileInv, StoreInv, NotifyInv, [Next]_vars
  PROVE  FileInv' /\ StoreInv'
<1>1. CASE Crash
  <2>1. \A p \in Producer : ppc'[p] = "idle"
    BY <1>1 DEF Crash
  <2>2. /\ queued' = {} /\ UNCHANGED <<file, sidecar>>
        /\ \A v \in Video : walk'[v] = "due" => file[v] # "absent"
    BY <1>1 DEF Crash, writes, StartWalk
  <2>3. Caller \subseteq Producer
    BY DEF Producer
  <2>4. QED BY <2>1, <2>2, <2>3 DEF FileInv, StoreInv
<1>2. CASE UNCHANGED vars
  BY <1>2 DEF vars, FileInv, StoreInv
<1>3. QED BY <1>1, <1>2, CallerFile, WalkFile, ProduceFile, WorkFile DEF Next

-----------------------------------------------------------------------------
(* PendingIsOwed. *)

\* A video is dropped before it is unmarked, and decided before it is released.
OwedInv ==
  /\ \A p \in Producer : ppc[p] = "unmark" => item[p] \in dropped
  /\ \A w \in Worker : wpc[w] \in {"publish", "published", "unpublished", "release"} =>
       sidecar[job[w].video].state \in Final \/ job[w].video \in unwritten
  /\ PendingIsOwed

LEMMA InitOwed == Init => OwedInv
BY DEF Init, OwedInv, PendingIsOwed, Sidecar

LEMMA ProduceOwed ==
  ASSUME HoldInv, OwedInv, NEW p \in Producer, Produce(p)
  PROVE  OwedInv'
<1>1. /\ UNCHANGED <<sidecar, unwritten, missed, item, walk, wpc, job>>
      /\ \A q \in Producer \ {p} : ppc'[q] = ppc[q]
  BY DEF Produce, Mark, Send, SendFull, Unmark, Goto, HoldInv, TypeOK, writes, workers, history
<1>2. dropped \subseteq dropped' /\ (ppc'[p] = "unmark" => item[p] \in dropped')
  BY DEF Produce, Mark, Send, SendFull, Unmark, Goto, HoldInv, TypeOK, history
<1>3. ppc[p] = "mark" => item[p] \in queued'
  BY DEF Produce, Mark, Send, SendFull, Unmark
<1>4. queued \subseteq queued' \cup dropped'
  BY DEF Produce, Mark, Send, SendFull, Unmark, OwedInv, history
<1>5. PendingIsOwed'
  BY <1>1, <1>2, <1>3, <1>4 DEF OwedInv, PendingIsOwed, Spared, Producer
<1>6. QED BY <1>1, <1>2, <1>5 DEF OwedInv

LEMMA CallerOwed ==
  ASSUME HoldInv, OwedInv, NEW c \in Caller, CallerStep(c)
  PROVE  OwedInv'
<1>0. c \in Producer /\ c # Walker
  BY WalkerAssumption DEF Producer
<1>1. /\ UNCHANGED <<sidecar, unwritten, walk, wpc, job, queued, dropped, missed>>
      /\ \A q \in Producer \ {c} : ppc'[q] = ppc[q] /\ item'[q] = item[q]
      /\ ppc'[c] # "unmark"
  BY <1>0 DEF CallerStep, StartStoring, Stored, StoringFails, Goto, HoldInv, TypeOK, writes, workers, history
<1>2. PendingIsOwed'
  BY <1>0, <1>1 DEF OwedInv, PendingIsOwed, Spared, Producer
<1>3. QED BY <1>1, <1>2 DEF OwedInv

LEMMA WalkOwed ==
  ASSUME HoldInv, OwedInv, WalkStep
  PROVE  OwedInv'
<1>0. Walker \in Producer
  BY DEF Producer
<1>1. /\ UNCHANGED <<sidecar, unwritten, wpc, job, queued, dropped>> /\ missed \subseteq missed'
      /\ \A q \in Producer \ {Walker} : ppc'[q] = ppc[q] /\ item'[q] = item[q]
      /\ ppc[Walker] = "idle" /\ ppc'[Walker] # "unmark"
  BY <1>0 DEF WalkStep, WalkEnds, Visit, WalkMisses, Goto, HoldInv, TypeOK, writes, workers, history
<1>2. ASSUME NEW v \in Video, sidecar[v].state = "pending", walk[v] = "due"
      PROVE  walk'[v] = "due" \/ (ppc'[Walker] = "mark" /\ item'[Walker] = v) \/ v \in missed'
  BY <1>0, <1>2 DEF WalkStep, WalkEnds, Visit, WalkMisses, Goto, HoldInv, TypeOK
<1>3. PendingIsOwed'
  BY <1>1, <1>2 DEF OwedInv, PendingIsOwed, Spared
<1>4. QED BY <1>1, <1>3 DEF OwedInv

LEMMA WorkOwed ==
  ASSUME HoldInv, OwedInv, NEW w \in Worker, Work(w)
  PROVE  OwedInv'
<1>1. CASE Take(w)
  <2>1. /\ UNCHANGED <<sidecar, unwritten, ppc, item, walk, queued, dropped, missed>> /\ wpc'[w] = "reset"
        /\ \A x \in Worker \ {w} : wpc'[x] = wpc[x] /\ job'[x] = job[x]
    BY <1>1 DEF Take, WGoto, HoldInv, TypeOK, writes, producers, history
  <2>2. QED BY <2>1 DEF OwedInv, PendingIsOwed, Spared
<1>2. CASE Release(w)
  <2>1. /\ UNCHANGED <<sidecar, unwritten, ppc, item, walk, job, dropped, missed>> /\ wpc'[w] = "idle"
        /\ \A x \in Worker \ {w} : wpc'[x] = wpc[x]
        /\ queued' = queued \ {job[w].video} /\ wpc[w] = "release"
    BY <1>2 DEF Release, WGoto, HoldInv, TypeOK, writes, producers, history
  <2>2. sidecar[job[w].video].state # "pending" \/ job[w].video \in unwritten
    BY <2>1 DEF OwedInv, Final
  <2>3. QED BY <2>1, <2>2 DEF OwedInv, PendingIsOwed, Spared
<1>3. CASE Process(w)
  <2>1. PICK u \in Video :
           /\ u = job[w].video /\ u \in queued /\ u \notin Waiting /\ Busy(w)
           /\ UNCHANGED <<file, ppc, item, walk, job, chan, queued, dropped, missed>>
           /\ \A x \in Worker \ {w} : wpc'[x] = wpc[x] /\ (Busy(x) => job[x].video # u)
           /\ \A v \in Video \ {u} : sidecar'[v] = sidecar[v]
           /\ unwritten \subseteq unwritten'
    BY <1>3, ProcessFrame
  <2>2. PendingIsOwed'
    BY <2>1 DEF OwedInv, PendingIsOwed, Spared
  <2>3. ASSUME NEW x \in Worker \ {w}, wpc'[x] \in {"publish", "published", "unpublished", "release"}
        PROVE  sidecar'[job'[x].video].state \in Final \/ job'[x].video \in unwritten'
    <3>1. Busy(x) /\ job[x].video \in Video
      BY <2>1, <2>3 DEF Busy, HoldInv, ItemInv
    <3>2. QED BY <2>1, <2>3, <3>1 DEF OwedInv
  <2>4. ASSUME wpc'[w] \in {"publish", "published", "unpublished", "release"}
        PROVE  sidecar'[u].state \in Final \/ u \in unwritten'
    <3>1. CASE Publish(w) \/ PublishNothing(w)
      BY <2>1, <3>1 DEF Publish, PublishNothing, writes, OwedInv
    <3>2. CASE \E s : s.state \in Final /\ Write(u, s)
      BY <3>2, WriteFacts DEF HoldInv
    <3>3. \A t \in Final : \A b : Sidecar(t, b).state \in Final
      BY DEF Sidecar
    <3>4. CASE Skip(w) \/ GiveUp(w) \/ Succeed(w) \/ Record(w)
      <4>1. PICK t \in Final, b \in BOOLEAN : Write(u, Sidecar(t, b))
        BY <2>1, <3>4 DEF Skip, GiveUp, Succeed, Record, Final
      <4>2. QED BY <3>2, <3>3, <4>1
    <3>5. CASE Reset(w) \/ StartAttempt(w) \/ AttemptFails(w)
      BY <2>4, <3>5 DEF Reset, StartAttempt, AttemptFails, WGoto, HoldInv, TypeOK
    <3>6. QED BY <1>3, <3>1, <3>4, <3>5 DEF Process
  <2>5. QED BY <2>1, <2>2, <2>3, <2>4 DEF OwedInv
<1>4. QED BY <1>1, <1>2, <1>3 DEF Work, Process

LEMMA OwedStep ==
  ASSUME HoldInv, FileInv, OwedInv, [Next]_vars
  PROVE  OwedInv'
<1>1. CASE Crash
  <2>1. /\ \A p \in Producer : ppc'[p] = "idle"
        /\ \A w \in Worker : wpc'[w] = "idle"
        /\ walk' = StartWalk(file) /\ UNCHANGED <<sidecar, unwritten, dropped, missed>>
    BY <1>1 DEF Crash, writes, history
  <2>2. \A v \in Recent : sidecar[v].state = "pending" => walk'[v] = "due"
    BY <2>1, RecentAssumption DEF StartWalk, FileInv
  <2>3. PendingIsOwed'
    BY <2>1, <2>2 DEF PendingIsOwed, Spared
  <2>4. QED BY <2>1, <2>3 DEF OwedInv
<1>2. CASE UNCHANGED vars
  BY <1>2 DEF vars, OwedInv, PendingIsOwed, Spared
<1>3. QED BY <1>1, <1>2, CallerOwed, WalkOwed, ProduceOwed, WorkOwed DEF Next

\* Everything that has been shown to be inductive.
FullInv == HoldInv /\ PublishInv /\ NotifyInv /\ FileInv /\ StoreInv /\ OwedInv

\* It holds in every reachable state of the service (Enqueue, processWithRetry,
\* backfill, and a crash anywhere).
THEOREM FullInvariance == Spec => []FullInv
<1>1. Init => FullInv
  BY InitHold, InitNotify, InitFile, InitOwed DEF FullInv
<1>2. FullInv /\ [Next]_vars => FullInv'
  BY HoldStep, PublishInvStep, NotifyStep, FileStep, OwedStep DEF FullInv
<1>3. QED BY <1>1, <1>2, PTL DEF Spec

\* A sidecar that says pending is owed a verdict by somebody (service.go:260-334).
THEOREM PendingIsOwedHolds == Spec => []PendingIsOwed
<1>1. FullInv => PendingIsOwed
  BY DEF FullInv, OwedInv
<1>2. QED BY FullInvariance, <1>1, PTL

-----------------------------------------------------------------------------
(* RefusedForWalk: of all who may hold a caller's video when it is marked,   *)
(* other callers and notifying jobs are out of the question.                 *)

AtWork(c) == ppc[c] \in {"store", "mark", "send", "unmark"}
Before(c) == ppc[c] \in {"store", "mark"}

RefusalInv ==
  /\ \A c, d \in Caller : AtWork(c) /\ AtWork(d) /\ item[c] = item[d] => c = d
  /\ \A c \in Caller : \A w \in Worker :
       Before(c) /\ Busy(w) /\ job[w].video = item[c] => ~job[w].notify

\* A step after which no more is under way than before.
LEMMA FewerAtWork ==
  ASSUME RefusalInv,
         \A c \in Caller : (AtWork(c)' => AtWork(c) /\ item'[c] = item[c]) /\ (Before(c)' => Before(c)),
         \A w \in Worker : Busy(w)' => Busy(w) /\ job'[w] = job[w]
  PROVE  RefusalInv'
<1>1. \A c \in Caller : Before(c)' => AtWork(c)'
  BY DEF Before, AtWork
<1>2. QED BY <1>1 DEF RefusalInv

LEMMA StartStoringRefusal ==
  ASSUME FullInv, RefusalInv, NEW c \in Caller, NEW v \in Video, StartStoring(c, v)
  PROVE  RefusalInv'
<1>1. /\ file[v] = "absent" /\ item'[c] = v /\ UNCHANGED <<wpc, job>>
      /\ \A d \in Caller \ {c} : ppc'[d] = ppc[d] /\ item'[d] = item[d]
  BY DEF StartStoring, Goto, workers, Producer, FullInv, HoldInv, TypeOK
<1>2. \A d \in Caller : AtWork(d) => item[d] # v
  BY <1>1 DEF AtWork, FullInv, FileInv, Producer
<1>3. \A w \in Worker : Busy(w) => job[w].video # v
  BY <1>1 DEF FullInv, FileInv, HoldInv, OneHolder, Classified
<1>4. \A d \in Caller \ {c} : (AtWork(d)' <=> AtWork(d)) /\ (Before(d)' <=> Before(d))
  BY <1>1 DEF AtWork, Before
<1>5. \A w \in Worker : Busy(w)' = Busy(w)
  BY <1>1 DEF Busy
<1>6. \A d, e \in Caller : AtWork(d)' /\ AtWork(e)' /\ item'[d] = item'[e] => d = e
  BY <1>1, <1>2, <1>4 DEF RefusalInv
<1>7. \A d \in Caller : \A w \in Worker :
        Before(d)' /\ Busy(w)' /\ job'[w].video = item'[d] => ~job'[w].notify
  BY <1>1, <1>3, <1>4, <1>5 DEF RefusalInv
<1>8. QED BY <1>6, <1>7 DEF RefusalInv

LEMMA TakeRefusal ==
  ASSUME FullInv, RefusalInv, NEW w \in Worker, Take(w)
  PROVE  RefusalInv'
<1>1. 1 \in 1..Len(chan) /\ Head(chan) = chan[1]
  BY DEF Take, FullInv, HoldInv, TypeOK
<1>2. /\ job'[w] = chan[1] /\ UNCHANGED <<ppc, item>>
      /\ \A x \in Worker \ {w} : job'[x] = job[x] /\ wpc'[x] = wpc[x]
  BY <1>1 DEF Take, WGoto, producers, FullInv, HoldInv, TypeOK
<1>3. chan[1].video \in Video
  BY <1>1, SlotVideo DEF FullInv
<1>4. \A c \in Caller : Before(c) /\ item[c] = chan[1].video => ~chan[1].notify
  <2>1. \A c \in Caller : Before(c) /\ item[c] = chan[1].video => Posting(c, chan[1].video)
    BY DEF Before, Posting
  <2>2. QED BY <1>1, <1>3, <2>1 DEF FullInv, NotifyInv, PostInv
<1>5. \A c \in Caller : AtWork(c)' = AtWork(c) /\ Before(c)' = Before(c)
  BY <1>2 DEF AtWork, Before
<1>6. \A x \in Worker \ {w} : Busy(x)' = Busy(x)
  BY <1>2 DEF Busy
<1>7. QED BY <1>2, <1>4, <1>5, <1>6 DEF RefusalInv

LEMMA RefusalStep ==
  ASSUME FullInv, RefusalInv, [Next]_vars
  PROVE  RefusalInv'
<1>1. ASSUME NEW c \in Caller, Stored(c) \/ StoringFails(c) PROVE RefusalInv'
  <2>1. /\ UNCHANGED <<wpc, job, item>> /\ ppc[c] = "store" /\ ppc'[c] \in {"mark", "idle"}
        /\ \A d \in Caller \ {c} : ppc'[d] = ppc[d]
    BY <1>1 DEF Stored, StoringFails, Goto, workers, Producer, FullInv, HoldInv, TypeOK
  <2>2. QED BY <2>1, FewerAtWork DEF AtWork, Before, Busy
<1>2. ASSUME NEW p \in Producer, Produce(p) PROVE RefusalInv'
  <2>1. /\ UNCHANGED <<wpc, job, item>> /\ ppc[p] \in {"mark", "send", "unmark"}
        /\ ppc'[p] \in {"idle", "send", "unmark"}
        /\ \A d \in Producer \ {p} : ppc'[d] = ppc[d]
    BY <1>2 DEF Produce, Mark, Send, SendFull, Unmark, Goto, workers, FullInv, HoldInv, TypeOK
  <2>2. \A c \in Caller : c \in Producer
    BY DEF Producer
  <2>3. QED BY <2>1, <2>2, FewerAtWork DEF AtWork, Before, Busy
<1>3. ASSUME WalkStep PROVE RefusalInv'
  <2>1. UNCHANGED <<wpc, job>> /\ \A c \in Caller : ppc'[c] = ppc[c] /\ item'[c] = item[c]
    BY <1>3, WalkerAssumption
       DEF WalkStep, WalkEnds, Visit, WalkMisses, Goto, workers, Producer, FullInv, HoldInv, TypeOK
  <2>2. QED BY <2>1, FewerAtWork DEF AtWork, Before, Busy
<1>4. ASSUME NEW w \in Worker, Process(w) \/ Release(w) PROVE RefusalInv'
  <2>1. UNCHANGED <<ppc, item, job>> /\ Busy(w) /\ \A x \in Worker \ {w} : wpc'[x] = wpc[x]
    BY <1>4 DEF Process, Reset, StartAttempt, Skip, AttemptFails, GiveUp, Succeed, Publish, PublishNothing,
       Record, Release, WGoto, producers, Busy, FullInv, HoldInv, TypeOK
  <2>2. \A x \in Worker : Busy(x)' => Busy(x)
    BY <2>1 DEF Busy
  <2>3. QED BY <2>1, <2>2, FewerAtWork DEF AtWork, Before
<1>5. CASE Crash
  <2>1. (\A c \in Caller : ppc'[c] = "idle") /\ \A w \in Worker : wpc'[w] = "idle"
    BY <1>5 DEF Crash, Producer
  <2>2. QED BY <2>1, FewerAtWork DEF AtWork, Before, Busy
<1>6. CASE UNCHANGED vars
  BY <1>6, FewerAtWork DEF vars, AtWork, Before, Busy
<1>7. ASSUME NEW w \in Worker, Work(w) PROVE RefusalInv'
  BY <1>4, <1>7, TakeRefusal DEF Work, Process
<1>8. QED BY <1>1, <1>2, <1>3, <1>5, <1>6, <1>7, StartStoringRefusal DEF Next, CallerStep

\* What holds a video that is marked, when no other caller and no notifying job does.
LEMMA RefusalSays ==
  ASSUME FullInv, RefusalInv
  PROVE  RefusedForWalk
<1>1. SUFFICES ASSUME NEW c \in Caller, ppc[c] = "mark", item[c] \in queued
               PROVE  \/ Sending(Walker) /\ item[Walker] = item[c]
                      \/ \E i \in 1..Len(chan) : chan[i] = Job(item[c], FALSE)
                      \/ \E w \in Worker : Busy(w) /\ job[w] = Job(item[c], FALSE)
  BY DEF RefusedForWalk
<1> DEFINE v == item[c]
<1>2. v \in Video
  BY <1>1 DEF FullInv, HoldInv, ItemInv, Producer
<1>3. v \in Sent \cup Waiting \cup Classified
  BY <1>1 DEF FullInv, HoldInv, OneHolder
<1>4. CASE v \in Sent
  <2>1. PICK p \in Producer : Sending(p) /\ item[p] = v
    BY <1>4 DEF Sent
  <2>2. p \notin Caller
    BY <1>1, <2>1 DEF RefusalInv, AtWork, Sending
  <2>3. QED BY <2>1, <2>2 DEF Producer
<1>5. CASE v \in Waiting
  <2>1. PICK i \in 1..Len(chan) : chan[i].video = v
    BY <1>5 DEF Waiting
  <2>2. ~chan[i].notify
    BY <1>1, <1>2, <2>1 DEF FullInv, NotifyInv, PostInv, Posting
  <2>3. chan[i] = Job(v, FALSE)
    <3> DEFINE S == [video : Video, notify : BOOLEAN]
    <3>1. chan \in Seq(S)
      BY DEF FullInv, HoldInv, TypeOK
    <3>2. \A r \in S : ~r.notify /\ r.video = v => r = Job(v, FALSE)
      BY DEF Job
    <3> HIDE DEF S
    <3>3. chan[i] \in S
      BY <3>1
    <3>4. QED BY <2>1, <2>2, <3>2, <3>3
  <2>4. QED BY <2>3
<1>6. CASE v \in Classified
  <2>1. PICK w \in Worker : Busy(w) /\ job[w].video = v
    BY <1>6 DEF Classified
  <2>2. ~job[w].notify
    BY <1>1, <2>1 DEF RefusalInv, Before
  <2>3. job[w] = Job(v, FALSE)
    BY <2>1, <2>2 DEF FullInv, HoldInv, TypeOK, Job
  <2>4. QED BY <2>1, <2>3
<1>7. QED BY <1>3, <1>4, <1>5, <1>6

\* A caller of Enqueue is refused only for the sake of the walk's own job
\* (service.go:156 and 383).
THEOREM RefusedForWalkHolds == Spec => []RefusedForWalk
<1>1. Init => RefusalInv
  BY DEF Init, RefusalInv, AtWork, Producer, Before
<1>2. FullInv /\ RefusalInv /\ [Next]_vars => RefusalInv'
  BY RefusalStep
<1>3. FullInv /\ RefusalInv => RefusedForWalk
  BY RefusalSays
<1>4. QED BY FullInvariance, <1>1, <1>2, <1>3, PTL DEF Spec

-----------------------------------------------------------------------------
(* KeepsService. *)

\* What the abstract specification sees.
Verdicts == {v \in Video : sidecar[v].state \in Final}
Event(v) == IF notified[v] > 0 THEN "paid"
            ELSE IF Given(v) THEN "due"
            ELSE IF Notifying(v) THEN "owed" ELSE "none"
Events == [v \in Video |-> Event(v)]

\* Notifying, in the terms of NotifyInv.
Carried(v) ==
  \/ \E i \in 1..Len(chan) : chan[i].video = v /\ chan[i].notify
  \/ \E w \in Worker : Announcing(w) /\ job[w].video = v

LEMMA RecordIs ==
  ASSUME NEW V, NEW r \in [video : V, notify : BOOLEAN], NEW v
  PROVE  r = Job(v, TRUE) <=> r.video = v /\ r.notify
BY DEF Job

LEMMA CarriedIs ==
  ASSUME HoldInv, NEW v \in Video
  PROVE  Notifying(v) <=> Carried(v)
<1>1. ASSUME NEW i \in 1..Len(chan) PROVE chan[i] = Job(v, TRUE) <=> chan[i].video = v /\ chan[i].notify
  <2> DEFINE S == [video : Video, notify : BOOLEAN]
  <2>1. chan \in Seq(S)
    BY DEF HoldInv, TypeOK
  <2> HIDE DEF S
  <2>2. chan[i] \in S
    BY <2>1
  <2>3. QED BY <2>2, RecordIs DEF S
<1>2. ASSUME NEW w \in Worker PROVE job[w] = Job(v, TRUE) <=> job[w].video = v /\ job[w].notify
  <2>1. job[w] \in [video : Video \cup {NoVideo}, notify : BOOLEAN]
    BY DEF HoldInv, TypeOK
  <2>2. QED BY <2>1, RecordIs
<1>3. QED BY <1>1, <1>2 DEF Notifying, Carried, Announcing

\* An event is owed by one party, and has not been published.
LEMMA EventIs ==
  ASSUME HoldInv, NotifyInv, NEW v \in Video
  PROVE  /\ Given(v) => Event(v) = "due" /\ notified[v] = 0 /\ ~Carried(v) /\ file[v] = "stored"
         /\ Carried(v) => Event(v) = "owed" /\ notified[v] = 0 /\ ~Given(v)
         /\ ~Given(v) /\ ~Carried(v) => Event(v) = IF notified[v] > 0 THEN "paid" ELSE "none"
<1>1. Given(v) => notified[v] = 0 /\ ~Carried(v) /\ file[v] = "stored"
  <2>1. ASSUME NEW c \in Caller, ppc[c] \in {"mark", "send"}, item[c] = v
        PROVE  notified[v] = 0 /\ ~Carried(v) /\ file[v] = "stored"
    <3>1. PostInv(c, v)
      BY <2>1 DEF NotifyInv, Posting
    <3>2. QED BY <2>1, <3>1 DEF PostInv, Carried
  <2>2. QED BY <2>1 DEF Given
<1>2. Carried(v) => notified[v] = 0
  BY DEF Carried, NotifyInv, Unannounced
<1>3. ~(0 > 0)
  OBVIOUS
<1>4. QED BY <1>1, <1>2, <1>3, CarriedIs DEF Event

\* What FullInv says of the events.
SeenInv ==
  \A v \in Video :
    /\ Notifying(v) <=> Carried(v)
    /\ Carried(v) => Event(v) = "owed"
    /\ ~Given(v) /\ ~Carried(v) /\ notified[v] = 0 => Event(v) = "none"

LEMMA Seen == FullInv => SeenInv
<1>1. ~(0 > 0)
  OBVIOUS
<1>2. QED BY <1>1, CarriedIs, EventIs DEF SeenInv, FullInv

LEMMA EventSame ==
  ASSUME SeenInv, SeenInv', NEW v \in Video, Given(v)' = Given(v), Carried(v)' <=> Carried(v), notified'[v] = notified[v]
  PROVE  Event(v)' = Event(v)
<1>1. (Notifying(v) <=> Carried(v)) /\ (Notifying(v)' <=> Carried(v)')
  BY DEF SeenInv
<1>2. QED BY <1>1 DEF Event

\* A step that shows nothing.
LEMMA Invisible ==
  ASSUME UNCHANGED <<file, Verdicts>>, Spared' = Spared,
         \A v \in Video : Event(v)' = Event(v)
  PROVE  UNCHANGED Service!vars
BY DEF Service!vars, Verdicts, Event

LEMMA EventsAre ==
  /\ Events = [v \in Video |-> IF notified[v] > 0 THEN "paid"
                               ELSE IF Given(v) THEN "due"
                               ELSE IF Notifying(v) THEN "owed" ELSE "none"]
  /\ \A u \in Video : Events[u] = Event(u)
BY DEF Events, Event

LEMMA EventsChange ==
  ASSUME NEW u \in Video, NEW e, \A v \in Video : Event(v)' = IF v = u THEN e ELSE Event(v)
  PROVE  Events' = [Events EXCEPT ![u] = e]
BY DEF Events

-----------------------------------------------------------------------------
(* The callers and the walk. *)

LEMMA CallerRefines ==
  ASSUME FullInv, SeenInv, SeenInv', NEW c \in Caller, CallerStep(c)
  PROVE  [Service!Next]_(Service!vars)
<1>0. c \in Producer /\ Caller \subseteq Producer
  BY DEF Producer
<1>1. /\ UNCHANGED <<chan, wpc, job, notified, sidecar, dropped, unwritten, missed>>
      /\ \A d \in Caller \ {c} : ppc'[d] = ppc[d] /\ item'[d] = item[d]
      /\ ppc[c] \in {"idle", "store"}
  BY <1>0 DEF CallerStep, StartStoring, Stored, StoringFails, Goto, FullInv, HoldInv, TypeOK, writes, workers, history
<1>2. Verdicts' = Verdicts /\ Spared' = Spared
  BY <1>1 DEF Verdicts, Spared
<1>3. \A v \in Video : Carried(v)' <=> Carried(v)
  BY <1>1 DEF Carried, Announcing
<1>4. ASSUME ppc'[c] \in {"idle", "store"} PROVE \A v \in Video : Event(v)' = Event(v)
  <2>1. \A v \in Video : Given(v)' = Given(v)
    BY <1>1, <1>4 DEF Given
  <2>2. QED BY <1>1, <1>3, <2>1, EventSame
<1>5. ASSUME NEW u \in Video, StartStoring(c, u) PROVE Service!Appear(u)
  <2>1. file[u] = "absent" /\ file' = [file EXCEPT ![u] = "writing"] /\ ppc'[c] = "store"
    BY <1>0, <1>5 DEF StartStoring, Goto, FullInv, HoldInv, TypeOK
  <2>2. Events' = Events
    BY <1>4, <2>1 DEF Events
  <2>3. QED BY <1>1, <1>2, <2>1, <2>2 DEF Service!Appear, Verdicts, Events, Event
<1>6. CASE Stored(c)
  <2>1. PICK u \in Video : u = item[c]
    BY <1>0, <1>6 DEF Stored, FullInv, HoldInv, ItemInv
  <2>2. /\ ppc[c] = "store" /\ ppc'[c] = "mark" /\ item' = item
        /\ file' = [file EXCEPT ![u] = "stored"] /\ file[u] = "writing"
    BY <1>0, <1>6, <2>1 DEF Stored, Goto, FullInv, HoldInv, TypeOK, StoreInv
  <2>3. PostInv(c, u)
    BY <2>1, <2>2 DEF FullInv, NotifyInv, Posting
  <2>4. Given(u)' /\ notified'[u] = 0
    BY <1>1, <2>1, <2>2, <2>3 DEF Given, PostInv
  <2>5. Event(u)' = "due"
    BY <2>4 DEF Event
  <2>6. \A v \in Video \ {u} : Given(v)' = Given(v)
    BY <1>1, <2>1, <2>2 DEF Given
  <2>7. \A v \in Video \ {u} : Event(v)' = Event(v)
    BY <1>1, <1>3, <2>6, EventSame
  <2>8. Events' = [Events EXCEPT ![u] = "due"]
    BY <2>5, <2>7, EventsChange
  <2>9. Service!Complete(u)
    BY <1>1, <1>2, <2>2, <2>8 DEF Service!Complete, Verdicts, Events, Event
  <2>10. QED BY <2>9 DEF Service!Next
<1>7. CASE StoringFails(c)
  <2>1. ppc'[c] = "idle" /\ file' = file
    BY <1>0, <1>7 DEF StoringFails, Goto, FullInv, HoldInv, TypeOK
  <2>2. QED BY <1>2, <1>4, <2>1, Invisible
<1>8. QED BY <1>5, <1>6, <1>7 DEF CallerStep, Service!Next

\* Only a video that the walk misses shows.
LEMMA WalkRefines ==
  ASSUME FullInv, SeenInv, SeenInv', WalkStep
  PROVE  [Service!Next]_(Service!vars)
<1>0. Walker \notin Caller /\ Caller \subseteq Producer
  BY WalkerAssumption DEF Producer
<1>1. /\ UNCHANGED <<file, chan, wpc, job, notified, sidecar, dropped, unwritten>>
      /\ \A d \in Caller : ppc'[d] = ppc[d] /\ item'[d] = item[d]
  BY <1>0 DEF WalkStep, WalkEnds, Visit, WalkMisses, Goto, FullInv, HoldInv, TypeOK, writes, workers, history
<1>2. \A v \in Video : (Carried(v)' <=> Carried(v)) /\ Given(v)' = Given(v)
  BY <1>1 DEF Carried, Announcing, Given
<1>3. \A v \in Video : Event(v)' = Event(v)
  BY <1>1, <1>2, EventSame
<1>4. CASE UNCHANGED missed
  BY <1>1, <1>3, <1>4, Invisible DEF Verdicts, Spared
<1>5. ASSUME NEW v \in Video, WalkMisses(v) PROVE Service!Next
  <2>1. file[v] # "absent"
    BY <1>5 DEF WalkMisses, FullInv, FileInv
  <2>2. Spared' = Spared \cup {v} /\ Verdicts' = Verdicts /\ Events' = Events
    BY <1>1, <1>3, <1>5 DEF WalkMisses, Spared, Verdicts, Events
  <2>3. Service!Spare(v)
    BY <1>1, <2>1, <2>2 DEF Service!Spare, Verdicts, Events, Event
  <2>4. QED BY <2>3 DEF Service!Next, Service!Serve
<1>6. QED BY <1>4, <1>5 DEF WalkStep, WalkEnds, Visit, history

\* A caller's video that stops being given.
LEMMA GivenEnds ==
  ASSUME FullInv, NEW p \in Caller, NEW u \in Video, u = item[p], ppc[p] \in {"mark", "send"},
         ppc'[p] \notin {"mark", "send"}, item' = item,
         \A q \in Producer \ {p} : ppc'[q] = ppc[q]
  PROVE  /\ Given(u) /\ ~Given(u)' /\ Event(u) = "due" /\ notified[u] = 0 /\ ~Carried(u)
         /\ \A v \in Video \ {u} : Given(v)' = Given(v)
<1>0. p \in Producer /\ Caller \subseteq Producer
  BY DEF Producer
<1>1. Given(u)
  BY DEF Given
<1>2. PostInv(p, u)
  BY DEF FullInv, NotifyInv, Posting
<1>3. ~Given(u)'
  BY <1>0, <1>2 DEF Given, PostInv, Posting
<1>4. \A v \in Video \ {u} : Given(v)' = Given(v)
  BY <1>0 DEF Given
<1>5. Event(u) = "due" /\ notified[u] = 0 /\ ~Carried(u)
  BY <1>1, EventIs DEF FullInv
<1>6. QED BY <1>1, <1>3, <1>4, <1>5

LEMMA Sends ==
  ASSUME HoldInv, NEW u \in Video, NEW b \in BOOLEAN, chan' = Append(chan, Job(u, b))
  PROVE  /\ 1..Len(chan') = 1..Len(chan) \cup {Len(chan) + 1}
         /\ \A i \in 1..Len(chan) : chan'[i] = chan[i]
         /\ chan'[Len(chan) + 1].video = u /\ chan'[Len(chan) + 1].notify = b
<1> DEFINE j == Job(u, b)
<1> DEFINE S == [video : Video, notify : BOOLEAN]
<1>1. j \in S /\ j.video = u /\ j.notify = b
  BY DEF Job
<1>2. chan' = Append(chan, j) /\ chan \in Seq(S)
  BY DEF HoldInv, TypeOK
<1> HIDE DEF j, S
<1>3. /\ 1..Len(chan') = 1..Len(chan) \cup {Len(chan) + 1}
      /\ \A i \in 1..Len(chan) : chan'[i] = chan[i]
      /\ chan'[Len(chan) + 1] = j
  BY <1>1, <1>2
<1>4. QED BY <1>1, <1>3

LEMMA ProduceRefines ==
  ASSUME FullInv, SeenInv, SeenInv', NEW p \in Producer, Produce(p)
  PROVE  [Service!Next]_(Service!vars)
<1>0. Caller \subseteq Producer /\ (p # Walker => p \in Caller) /\ (p = Walker => p \notin Caller)
  BY WalkerAssumption DEF Producer
<1>1. PICK u \in Video : u = item[p]
  BY DEF Produce, Mark, Send, SendFull, Unmark, FullInv, HoldInv, ItemInv
<1>2. /\ UNCHANGED <<file, item, wpc, job, notified, sidecar, unwritten, missed>>
      /\ \A q \in Producer \ {p} : ppc'[q] = ppc[q]
  BY DEF Produce, Mark, Send, SendFull, Unmark, Goto, FullInv, HoldInv, TypeOK, writes, workers, history
<1>3. Verdicts' = Verdicts /\ (dropped' = dropped => Spared' = Spared)
  BY <1>2 DEF Verdicts, Spared
<1>4. ASSUME chan' = chan PROVE \A v \in Video : Carried(v)' <=> Carried(v)
  BY <1>2, <1>4 DEF Carried, Announcing
<1>5. CASE p = Walker \/ ppc[p] = "unmark" \/ (ppc[p] = "mark" /\ ppc'[p] = "send")
  <2>1. \A v \in Video : Given(v)' = Given(v)
    <3>1. CASE p = Walker
      BY <1>0, <1>2, <3>1 DEF Given
    <3>2. CASE ppc[p] = "unmark" \/ (ppc[p] = "mark" /\ ppc'[p] = "send")
      <4>1. ppc[p] = "unmark" => ppc'[p] = "idle"
        BY DEF Produce, Mark, Send, SendFull, Unmark, Goto, FullInv, HoldInv, TypeOK
      <4>2. QED BY <1>0, <1>2, <3>2, <4>1 DEF Given
    <3>3. QED BY <1>5, <3>1, <3>2
  <2>2. CASE Send(p)
    <3>1. p = Walker
      BY <1>5, <2>2 DEF Send
    <3>2. chan' = Append(chan, Job(u, FALSE))
      BY <1>1, <2>2, <3>1 DEF Send
    <3>4. /\ 1..Len(chan') = 1..Len(chan) \cup {Len(chan) + 1}
          /\ \A i \in 1..Len(chan) : chan'[i] = chan[i]
          /\ ~chan'[Len(chan) + 1].notify
      BY <3>2, Sends DEF FullInv
    <3>5. \A v \in Video : Carried(v)' <=> Carried(v)
      BY <1>2, <3>4 DEF Carried, Announcing
    <3>6. \A v \in Video : Event(v)' = Event(v)
      BY <1>2, <2>1, <3>5, EventSame
    <3>7. dropped' = dropped
      BY <2>2 DEF Send, history
    <3>8. QED BY <1>2, <1>3, <3>6, <3>7, Invisible
  <2>3. CASE Mark(p) \/ Unmark(p)
    <3>1. chan' = chan /\ dropped' = dropped
      BY <2>3 DEF Mark, Unmark, history
    <3>2. \A v \in Video : Event(v)' = Event(v)
      BY <1>2, <1>4, <2>1, <3>1, EventSame
    <3>3. QED BY <1>2, <1>3, <3>1, <3>2, Invisible
  <2>4. CASE SendFull(p)
    <3>1. chan' = chan /\ dropped' = dropped \cup {u} /\ ppc[p] = "send"
      BY <1>1, <2>4 DEF SendFull
    <3>2. \A v \in Video : Event(v)' = Event(v)
      BY <1>2, <1>4, <2>1, <3>1, EventSame
    <3>3. file[u] # "absent"
      BY <1>1, <3>1 DEF FullInv, FileInv
    <3>4. Events' = Events
      BY <3>2 DEF Events
    <3>5. Spared' = Spared \cup {u}
      BY <1>2, <3>1 DEF Spared
    <3>6. Service!Spare(u)
      BY <1>2, <1>3, <3>3, <3>4, <3>5 DEF Service!Spare, Verdicts, Events, Event
    <3>7. QED BY <3>6 DEF Service!Next, Service!Serve
  <2>5. QED BY <2>2, <2>3, <2>4 DEF Produce
<1>6. CASE p # Walker /\ ppc[p] \in {"mark", "send"} /\ ppc'[p] \notin {"mark", "send"}
  <2>1. p \in Caller
    BY <1>0, <1>6
  <2>2. /\ Given(u) /\ ~Given(u)' /\ Event(u) = "due" /\ notified[u] = 0 /\ ~Carried(u)
        /\ \A v \in Video \ {u} : Given(v)' = Given(v)
    BY <1>1, <1>2, <1>6, <2>1, GivenEnds
  <2>3. Events[u] = "due"
    BY <2>2, EventsAre
  <2>4. ASSUME chan' = chan PROVE Events' = [Events EXCEPT ![u] = "none"]
    <3>1. \A v \in Video \ {u} : Event(v)' = Event(v)
      BY <1>2, <1>4, <2>2, <2>4, EventSame
    <3>2. ~Carried(u)' /\ notified'[u] = 0
      BY <1>2, <1>4, <2>2, <2>4
    <3>3. Event(u)' = "none"
      BY <2>2, <3>2 DEF SeenInv
    <3>4. QED BY <3>1, <3>3, EventsChange
  <2>5. CASE Send(p)
    <3>1. chan' = Append(chan, Job(u, TRUE)) /\ dropped' = dropped
      BY <1>1, <1>6, <2>5 DEF Send, history
    <3>3. /\ 1..Len(chan') = 1..Len(chan) \cup {Len(chan) + 1}
          /\ \A i \in 1..Len(chan) : chan'[i] = chan[i]
          /\ chan'[Len(chan) + 1].notify /\ chan'[Len(chan) + 1].video = u
      BY <3>1, Sends DEF FullInv
    <3>4. Carried(u)' /\ \A v \in Video \ {u} : Carried(v)' <=> Carried(v)
      BY <1>2, <3>3 DEF Carried, Announcing
    <3>5. \A v \in Video \ {u} : Event(v)' = Event(v)
      BY <1>2, <2>2, <3>4, EventSame
    <3>6. Event(u)' = "owed"
      BY <3>4 DEF SeenInv
    <3>7. Events' = [Events EXCEPT ![u] = "owed"]
      BY <3>5, <3>6, EventsChange
    <3>8. Service!Accept(u)
      BY <1>2, <1>3, <2>3, <3>1, <3>7 DEF Service!Accept, Verdicts, Events, Event
    <3>9. QED BY <3>8 DEF Service!Next, Service!Serve
  <2>6. CASE Mark(p)
    <3>1. chan' = chan /\ dropped' = dropped
      BY <2>6 DEF Mark, history
    <3>2. Service!Refuse(u)
      BY <1>2, <1>3, <2>3, <2>4, <3>1 DEF Service!Refuse, Service!Refused, Verdicts, Events, Event
    <3>3. QED BY <3>2 DEF Service!Next, Service!Serve
  <2>7. CASE SendFull(p)
    <3>1. chan' = chan /\ dropped' = dropped \cup {u}
      BY <1>1, <2>7 DEF SendFull
    <3>2. file[u] # "absent"
      BY <1>1, <1>6 DEF FullInv, FileInv
    <3>3. Spared' = Spared \cup {u}
      BY <1>2, <3>1 DEF Spared
    <3>4. Service!Spare(u)
      BY <1>2, <1>3, <2>3, <2>4, <3>1, <3>2, <3>3 DEF Service!Spare, Service!Refused, Verdicts, Events, Event
    <3>5. QED BY <3>4 DEF Service!Next, Service!Serve
  <2>8. CASE Unmark(p)
    BY <1>6, <2>8 DEF Unmark
  <2>9. QED BY <2>5, <2>6, <2>7, <2>8 DEF Produce
<1>7. \/ ppc[p] = "unmark"
      \/ ppc[p] = "mark" /\ ppc'[p] = "send"
      \/ ppc[p] \in {"mark", "send"} /\ ppc'[p] \notin {"mark", "send"}
  BY DEF Produce, Mark, Send, SendFull, Unmark, Goto, FullInv, HoldInv, TypeOK
<1>8. QED BY <1>5, <1>6, <1>7

-----------------------------------------------------------------------------
(* The workers. *)

LEMMA TakeRefines ==
  ASSUME FullInv, SeenInv, SeenInv', NEW w \in Worker, Take(w)
  PROVE  UNCHANGED Service!vars
<1>1. /\ chan \in Seq([video : Video, notify : BOOLEAN]) /\ chan # <<>> /\ chan' = Tail(chan)
  BY DEF Take, FullInv, HoldInv, TypeOK
<1>2. /\ 1 \in 1..Len(chan) /\ Head(chan) = chan[1]
      /\ \A i \in 1..Len(chan') : i + 1 \in 1..Len(chan) /\ chan'[i] = chan[i + 1]
      /\ \A i \in 1..Len(chan) : i = 1 \/ (i - 1 \in 1..Len(chan') /\ (i - 1) + 1 = i)
  BY <1>1
<1>3. /\ job'[w] = chan[1] /\ wpc[w] = "idle" /\ wpc'[w] = "reset"
      /\ \A x \in Worker \ {w} : job'[x] = job[x] /\ wpc'[x] = wpc[x]
      /\ UNCHANGED <<file, ppc, item, notified, sidecar, dropped, unwritten, missed>>
  BY <1>2 DEF Take, WGoto, FullInv, HoldInv, TypeOK, producers, history, writes
<1>4. ASSUME NEW v \in Video PROVE Carried(v)' <=> Carried(v)
  <2>1. ASSUME NEW i \in 1..Len(chan), chan[i].video = v, chan[i].notify PROVE Carried(v)'
    <3>1. CASE i = 1
      BY <1>3, <2>1, <3>1 DEF Carried, Announcing
    <3>2. CASE i # 1
      <4>1. i - 1 \in 1..Len(chan') /\ chan'[i - 1] = chan[i]
        BY <1>2, <3>2
      <4>2. QED BY <2>1, <4>1 DEF Carried
    <3>3. QED BY <3>1, <3>2
  <2>2. ASSUME NEW x \in Worker, Announcing(x), job[x].video = v PROVE Carried(v)'
    BY <1>3, <2>2 DEF Carried, Announcing
  <2>3. ASSUME NEW i \in 1..Len(chan'), chan'[i].video = v, chan'[i].notify PROVE Carried(v)
    BY <1>2, <2>3 DEF Carried
  <2>4. ASSUME NEW x \in Worker, Announcing(x)', job'[x].video = v PROVE Carried(v)
    BY <1>2, <1>3, <2>4 DEF Carried, Announcing
  <2>5. QED BY <2>1, <2>2, <2>3, <2>4 DEF Carried
<1>5. \A v \in Video : Given(v)' = Given(v)
  BY <1>3 DEF Given
<1>6. \A v \in Video : Event(v)' = Event(v)
  BY <1>3, <1>4, <1>5, EventSame
<1>7. QED BY <1>3, <1>6, Invisible DEF Verdicts, Spared

LEMMA ReleaseRefines ==
  ASSUME FullInv, SeenInv, SeenInv', NEW w \in Worker, Release(w)
  PROVE  UNCHANGED Service!vars
<1>1. /\ wpc[w] = "release" /\ wpc'[w] = "idle" /\ \A x \in Worker \ {w} : wpc'[x] = wpc[x]
      /\ UNCHANGED <<file, ppc, item, chan, job, notified, sidecar, dropped, unwritten, missed>>
  BY DEF Release, WGoto, FullInv, HoldInv, TypeOK, producers, history, writes
<1>2. \A v \in Video : Given(v)' = Given(v)
  BY <1>1 DEF Given
<1>3. \A x \in Worker : Announcing(x)' <=> Announcing(x)
  BY <1>1 DEF Announcing
<1>4. \A v \in Video : Carried(v)' <=> Carried(v)
  BY <1>1, <1>3 DEF Carried
<1>5. \A v \in Video : Event(v)' = Event(v)
  BY <1>1, <1>2, <1>4, EventSame
<1>6. QED BY <1>1, <1>5, Invisible DEF Verdicts, Spared

\* A step of processWithRetry changes nothing but the event of its video.
LEMMA ProcessCarries ==
  ASSUME FullInv, NEW w \in Worker, Process(w), NEW u \in Video, u = job[w].video
  PROVE  /\ Carried(u) <=> Announcing(w)
         /\ Carried(u)' <=> Announcing(w)'
         /\ \A v \in Video \ {u} : Carried(v)' <=> Carried(v)
         /\ \A v \in Video : Given(v)' = Given(v)
<1>1. /\ u \in queued /\ u \notin Waiting /\ Busy(w)
      /\ UNCHANGED <<file, ppc, item, walk, job, chan, queued, dropped, missed>>
      /\ \A x \in Worker \ {w} : wpc'[x] = wpc[x] /\ (Busy(x) => job[x].video # u)
  BY ProcessFrame DEF FullInv
<1>2. \A i \in 1..Len(chan) : chan[i].video # u
  BY <1>1 DEF Waiting
<1>3. \A x \in Worker \ {w} : (Announcing(x)' <=> Announcing(x)) /\ (Announcing(x) => job[x].video # u)
  BY <1>1 DEF Announcing, Busy
<1>4. (Carried(u) <=> Announcing(w)) /\ (Carried(u)' <=> Announcing(w)')
  BY <1>1, <1>2, <1>3 DEF Carried
<1>5. \A v \in Video \ {u} : Carried(v)' <=> Carried(v)
  BY <1>1, <1>3 DEF Carried
<1>6. \A v \in Video : Given(v)' = Given(v)
  BY <1>1 DEF Given
<1>7. QED BY <1>4, <1>5, <1>6

LEMMA ProcessEvents ==
  ASSUME FullInv, SeenInv, SeenInv', NEW w \in Worker, Process(w),
         NEW u \in Video, u = job[w].video, UNCHANGED notified
  PROVE  /\ Events' = Events \/ (Events[u] = "owed" /\ Events' = [Events EXCEPT ![u] = "none"])
         /\ (Announcing(w)' <=> Announcing(w)) => Events' = Events
         /\ Announcing(w) /\ ~Announcing(w)' => Events[u] = "owed" /\ Events' = [Events EXCEPT ![u] = "none"]
<1>1. /\ Carried(u) <=> Announcing(w)
      /\ Carried(u)' <=> Announcing(w)'
      /\ \A v \in Video \ {u} : Carried(v)' <=> Carried(v)
      /\ \A v \in Video : Given(v)' = Given(v)
  BY ProcessCarries
<1>2. \A v \in Video \ {u} : Event(v)' = Event(v)
  BY <1>1, EventSame
<1>3. ASSUME Announcing(w)' <=> Announcing(w) PROVE Events' = Events
  <2>1. \A v \in Video : Event(v)' = Event(v)
    BY <1>1, <1>2, <1>3, EventSame
  <2>2. QED BY <2>1 DEF Events
<1>4. ASSUME Announcing(w), ~Announcing(w)'
      PROVE  Events[u] = "owed" /\ Events' = [Events EXCEPT ![u] = "none"]
  <2>1. Event(u) = "owed" /\ notified[u] = 0 /\ ~Given(u)
    BY <1>1, <1>4, EventIs DEF FullInv
  <2>2. Event(u)' = "none"
    BY <1>1, <1>4, <2>1 DEF SeenInv
  <2>3. QED BY <1>2, <2>1, <2>2, EventsAre, EventsChange
<1>5. Announcing(w)' => Announcing(w)
  BY DEF Process, Reset, StartAttempt, Skip, AttemptFails, GiveUp, Succeed, Publish, PublishNothing, Record,
         WGoto, FullInv, HoldInv, TypeOK, Announcing
<1>6. QED BY <1>3, <1>4, <1>5

\* The sidecar becomes pending again: whatever it said, nobody hears of it.
LEMMA PendingRefines ==
  ASSUME FullInv, SeenInv, SeenInv', NEW w \in Worker, Reset(w) \/ StartAttempt(w) \/ AttemptFails(w)
  PROVE  [Service!Next]_(Service!vars)
<1>1. Process(w)
  BY DEF Process
<1>2. PICK u \in Video :
        /\ u = job[w].video /\ u \in queued
        /\ UNCHANGED <<file, ppc, item, walk, job, chan, queued, dropped, missed>>
  BY <1>1, ProcessFrame DEF FullInv
<1>3. UNCHANGED notified /\ (Announcing(w)' <=> Announcing(w))
  BY <1>2 DEF Reset, StartAttempt, AttemptFails, WGoto, FullInv, HoldInv, TypeOK, Announcing, history
<1>4. Events' = Events /\ \A v \in Video : Event(v)' = Event(v)
  <2>1. Events' = Events
    BY <1>1, <1>2, <1>3, ProcessEvents
  <2>2. ASSUME NEW v \in Video PROVE Event(v)' = Event(v)
    <3>1. Events[v] = Event(v) /\ Events'[v] = Event(v)'
      BY DEF Events
    <3>2. QED BY <2>1, <3>1
  <2>3. QED BY <2>1, <2>2
<1>5. CASE UNCHANGED <<sidecar, unwritten>>
  BY <1>2, <1>4, <1>5, Invisible DEF Verdicts, Spared
<1>6. CASE Write(u, Sidecar("pending", FALSE))
  <2>1. Sidecar("pending", FALSE).state \notin Final
    BY DEF Sidecar, Final
  <2>2. CASE /\ sidecar'[u] = Sidecar("pending", FALSE) /\ unwritten' = unwritten
             /\ \A v \in Video \ {u} : sidecar'[v] = sidecar[v]
    <3>0. Spared' = Spared
      BY <1>2, <2>2 DEF Spared
    <3>1. Verdicts' = Verdicts \ {u}
      BY <2>1, <2>2 DEF Verdicts
    <3>2. CASE u \in Verdicts
      <4>1. Service!Reopen(u)
        BY <1>2, <1>4, <2>2, <3>0, <3>1, <3>2 DEF Service!Reopen, Verdicts, Events, Event
      <4>2. QED BY <4>1 DEF Service!Next, Service!Serve
    <3>3. CASE u \notin Verdicts
      BY <1>2, <1>4, <2>2, <3>0, <3>1, <3>3, Invisible
    <3>4. QED BY <3>2, <3>3
  <2>3. CASE sidecar' = sidecar /\ unwritten' = unwritten \cup {u}
    <3>1. file[u] # "absent" /\ Verdicts' = Verdicts
      BY <1>2, <2>3 DEF FullInv, FileInv, Verdicts
    <3>2. Spared' = Spared \cup {u}
      BY <1>2, <2>3 DEF Spared
    <3>3. Service!Spare(u)
      BY <1>2, <1>4, <3>1, <3>2 DEF Service!Spare, Verdicts, Events, Event
    <3>4. QED BY <3>3 DEF Service!Next, Service!Serve
  <2>4. QED BY <1>6, <2>2, <2>3, WriteFacts DEF FullInv, HoldInv
<1>7. QED BY <1>2, <1>5, <1>6 DEF Reset, StartAttempt, AttemptFails, writes

\* The sidecar gets a verdict.
LEMMA DecideRefines ==
  ASSUME FullInv, SeenInv, SeenInv', NEW w \in Worker, Skip(w) \/ GiveUp(w) \/ Succeed(w) \/ Record(w)
  PROVE  [Service!Next]_(Service!vars)
<1>1. Process(w)
  BY DEF Process
<1>2. PICK u \in Video :
        /\ u = job[w].video /\ u \in queued
        /\ UNCHANGED <<file, ppc, item, walk, job, chan, queued, dropped, missed>>
  BY <1>1, ProcessFrame DEF FullInv
<1>3. UNCHANGED notified
  BY DEF Skip, GiveUp, Succeed, Record, history
<1>4. Events' = Events \/ (Events[u] = "owed" /\ Events' = [Events EXCEPT ![u] = "none"])
  BY <1>1, <1>2, <1>3, ProcessEvents
<1>5. PICK t \in Final, b \in BOOLEAN : Write(u, Sidecar(t, b))
  BY <1>2 DEF Skip, GiveUp, Succeed, Record, Final
<1>6. Sidecar(t, b).state \in Final /\ file[u] # "absent"
  BY <1>2 DEF Sidecar, FullInv, FileInv
<1>7. CASE /\ sidecar'[u] = Sidecar(t, b) /\ unwritten' = unwritten
           /\ \A v \in Video \ {u} : sidecar'[v] = sidecar[v]
  <2>1. Verdicts' = Verdicts \cup {u} /\ Spared' = Spared
    BY <1>2, <1>6, <1>7 DEF Verdicts, Spared
  <2>2. Service!Decide(u)
    BY <1>2, <1>4, <1>6, <2>1 DEF Service!Decide, Service!NoEvent, Verdicts, Events, Event
  <2>3. QED BY <2>2 DEF Service!Next, Service!Serve
<1>8. CASE sidecar' = sidecar /\ unwritten' = unwritten \cup {u}
  <2>1. Verdicts' = Verdicts /\ Spared' = Spared \cup {u}
    BY <1>2, <1>8 DEF Verdicts, Spared
  <2>2. Service!Spare(u)
    BY <1>2, <1>4, <1>6, <2>1 DEF Service!Spare, Service!NoEvent, Verdicts, Events, Event
  <2>3. QED BY <2>2 DEF Service!Next, Service!Serve
<1>9. QED BY <1>5, <1>7, <1>8, WriteFacts DEF FullInv, HoldInv

LEMMA PublishRefines ==
  ASSUME FullInv, SeenInv, SeenInv', NEW w \in Worker, Publish(w) \/ PublishNothing(w)
  PROVE  [Service!Next]_(Service!vars)
<1>1. Process(w)
  BY DEF Process
<1>2. PICK u \in Video :
        /\ u = job[w].video /\ u \in queued
        /\ UNCHANGED <<file, ppc, item, walk, job, chan, queued, dropped, missed>>
  BY <1>1, ProcessFrame DEF FullInv
<1>3. Announcing(w) /\ ~Announcing(w)' /\ UNCHANGED <<sidecar, unwritten>>
  BY DEF Publish, PublishNothing, WGoto, FullInv, PublishInv, HoldInv, TypeOK, Announcing, writes
<1>4. Verdicts' = Verdicts /\ Spared' = Spared
  BY <1>2, <1>3 DEF Verdicts, Spared
<1>5. CASE UNCHANGED notified
  <2>1. Events[u] = "owed" /\ Events' = [Events EXCEPT ![u] = "none"]
    BY <1>1, <1>2, <1>3, <1>5, ProcessEvents
  <2>2. Service!WriteOff(u)
    BY <1>2, <1>4, <2>1 DEF Service!WriteOff, Service!NoEvent, Verdicts, Events, Event
  <2>3. QED BY <2>2 DEF Service!Next, Service!Serve
<1>6. CASE notified' = [notified EXCEPT ![u] = @ + 1]
  <2>1. /\ Carried(u)
        /\ \A v \in Video \ {u} : Carried(v)' <=> Carried(v)
        /\ \A v \in Video : Given(v)' = Given(v)
    BY <1>1, <1>2, <1>3, ProcessCarries
  <2>2. Event(u) = "owed"
    BY <2>1 DEF SeenInv
  <2>3. notified'[u] > 0 /\ \A v \in Video \ {u} : notified'[v] = notified[v]
    BY <1>6 DEF FullInv, HoldInv, TypeOK
  <2>4. \A v \in Video \ {u} : Event(v)' = Event(v)
    BY <2>1, <2>3, EventSame
  <2>5. Event(u)' = "paid"
    BY <2>3 DEF Event
  <2>6. Events[u] = "owed" /\ Events' = [Events EXCEPT ![u] = "paid"]
    BY <2>2, <2>4, <2>5, EventsAre, EventsChange
  <2>7. u \in Verdicts \cup Spared
    BY <1>2 DEF Publish, PublishNothing, FullInv, OwedInv, Verdicts, Spared
  <2>8. Service!Announce(u)
    BY <1>2, <1>4, <2>6, <2>7 DEF Service!Announce, Verdicts, Events, Event
  <2>9. QED BY <2>8 DEF Service!Next, Service!Serve
<1>7. QED BY <1>2, <1>5, <1>6 DEF Publish, PublishNothing, history

LEMMA WorkRefines ==
  ASSUME FullInv, SeenInv, SeenInv', NEW w \in Worker, Work(w)
  PROVE  [Service!Next]_(Service!vars)
BY TakeRefines, ReleaseRefines, PendingRefines, DecideRefines, PublishRefines DEF Work

-----------------------------------------------------------------------------

LEMMA CrashRefines ==
  ASSUME FullInv, Crash
  PROVE  Service!Next
<1>1. /\ UNCHANGED <<file, sidecar, unwritten, notified, dropped, missed>>
      /\ Len(chan') = 0 /\ 1..Len(chan') = {}
      /\ \A p \in Producer : ppc'[p] = "idle"
      /\ \A w \in Worker : wpc'[w] = "idle"
  BY DEF Crash, writes, history
<1>2. \A v \in Video : ~Given(v)' /\ ~Notifying(v)'
  BY <1>1 DEF Given, Notifying, Producer
<1>3. \A v \in Video : Event(v)' = IF notified[v] > 0 THEN "paid" ELSE "none"
  BY <1>1, <1>2 DEF Event
<1>4. \A v \in Video : Events[v] = "paid" <=> notified[v] > 0
  BY EventsAre DEF Event
<1>5. Events' = [v \in Video |-> IF Events[v] = "paid" THEN "paid" ELSE "none"]
  BY <1>3, <1>4 DEF Events
<1>6. Service!Forget
  BY <1>1, <1>5 DEF Service!Forget, Verdicts, Spared, Events, Event
<1>7. QED BY <1>6 DEF Service!Next

LEMMA InitRefines ==
  ASSUME Init
  PROVE  Service!Init
<1>1. \A v \in Video : ~Given(v) /\ ~Notifying(v)
  BY DEF Init, Given, Notifying, Producer
<1>2. \A v \in Video : Event(v) = "none"
  BY <1>1 DEF Init, Event
<1>3. Events = [v \in Video |-> "none"]
  BY <1>2 DEF Events
<1>4. \A v \in Video : sidecar[v].state \in Final => file[v] = "stored"
  BY DEF Init, Final
<1>5. Spared = {} /\ Verdicts \in SUBSET {v \in Video : file[v] = "stored"}
  BY <1>4 DEF Init, Verdicts, Spared
<1>6. file \in [Video -> {"absent", "stored"}]
  BY DEF Init
<1>7. QED BY <1>3, <1>5, <1>6 DEF Service!Init, Verdicts, Events, Event

\* A step of the service is a step of its promise, or none.
LEMMA StepRefines ==
  ASSUME FullInv, SeenInv, SeenInv', [Next]_vars
  PROVE  [Service!Next]_(Service!vars)
<1>1. CASE UNCHANGED vars
  BY <1>1 DEF vars, Service!vars, Given, Notifying, Spared
<1>2. QED BY <1>1, CallerRefines, WalkRefines, ProduceRefines, WorkRefines, CrashRefines DEF Next

\* The service keeps what ClassifyAbstract promises: whatever crashes, walks and
\* repeated classifications do, the event of a video is published once or never,
\* and a verdict is written, taken back or spared (service.go:86-334).
THEOREM KeepsServiceHolds == Spec => KeepsService
<1>1. Init => Service!Init
  BY InitRefines
<1>2. FullInv /\ SeenInv /\ SeenInv' /\ [Next]_vars => [Service!Next]_(Service!vars)
  BY StepRefines
<1>3. QED BY FullInvariance, Seen, <1>1, <1>2, PTL DEF Spec, KeepsService, Service!Spec
=============================================================================
