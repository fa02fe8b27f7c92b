---------------------------- MODULE ServerProofs ----------------------------
(***************************************************************************)
(* Theorems about Server, for any sessions, messages, wirings and bounds.   *)
(* Flight says what is known of a message between DATA and its reply, and   *)
(* Account why a message cannot be stored twice without a cause: a copy is  *)
(* covered by the reply that is given or under way to a client that waits,  *)
(* or by a client that did not wait, or by the end of a process.            *)
(***************************************************************************)
EXTENDS Server, FiniteSetTheorems, TLAPS

\* A session in Data whose client waits holds a message that no other client waits
\* for, and that its client has not been told to forget.
Flight ==
  /\ \A s \in Session : pc[s] # "idle" => process = "up" /\ msg[s] \in Message
  /\ \A s \in Session : pc[s] # "idle" /\ s \notin gone => answer[msg[s]] \in Temporary \cup {"none"}
  /\ \A s, t \in Session \ gone : pc[s] # "idle" /\ pc[t] # "idle" /\ s # t => msg[s] # msg[t]
  /\ \A s \in Session : pc[s] = "announce" => kept[msg[s]] > 0
  /\ \A s \in Session : pc[s] = "return" => spooled[msg[s]] > 0
  /\ \A s \in Session : pc[s] \in {"store", "announce"} => ~HasSpooler

\* The process that has seen an outage, or is going to.
Signals ==
  /\ mode = "spool" => ~watching /\ ~signaled
  /\ process = "down" => ~signaled

Settled(m) ==
  answer[m] = "ok" \/ \E s \in Session \ gone : pc[s] \in {"announce", "return"} /\ msg[s] = m

\* Sessions that may still spool or store m for a client that does not wait for it.
GoneWith(m) == {s \in gone : msg[s] = m /\ pc[s] \in {"enqueue", "store"}}

\* The end of the present process is paid for by an outage.
Doomed == signaled \/ (process # "down" /\ NeedsStorage /\ storage = "outage")

Account ==
  \A m \in Message :
    spooled[m] + kept[m] + Cardinality(GoneWith(m)) + (IF Doomed THEN 1 ELSE 0)
      <= (IF Settled(m) THEN 1 ELSE 0) + deaths + outages + hangups

Inv == TypeOK /\ Flight /\ Signals /\ AcceptedIsKept /\ IsFiniteSet(gone)

LEMMA InitInv == Init => Inv
<1> SUFFICES ASSUME Init PROVE Inv
  OBVIOUS
<1>1. TypeOK
  <2>1. broker \in {"fine", "outage"}
    BY DEF Init
  <2>2. mqtt \in BOOLEAN /\ authenticated \in [Session -> BOOLEAN] /\ rcpts \in [Session -> BOOLEAN]
    BY DEF Init
  <2>3. /\ sends \in [Message -> 0..MaxSends] /\ kept \in [Message -> Nat]
        /\ spooled \in [Message -> Nat]
        /\ deaths \in 0..MaxDeaths /\ outages \in 0..MaxOutages /\ hangups \in 0..MaxHangups
    BY BoundsAssumption DEF Init
  <2>4. /\ pc \in [Session -> {"idle", "enqueue", "return", "store", "announce"}]
        /\ msg \in [Session -> Message \cup {NoMessage}]
        /\ answer \in [Message -> {"none", "ok"} \cup Temporary \cup Permanent]
    BY DEF Init
  <2>5. QED BY <2>1, <2>2, <2>3, <2>4 DEF Init, TypeOK
<1>2. Flight /\ Signals
  BY DEF Init, Flight, Signals, Temporary
<1>3. AcceptedIsKept /\ IsFiniteSet(gone)
  BY FS_EmptySet DEF Init, AcceptedIsKept
<1>4. QED BY <1>1, <1>2, <1>3 DEF Inv

\* Clients begin transactions, and may not wait for their ends.
LEMMA ClientInv ==
  ASSUME Inv, NEW s \in Session, ClientStep(s)
  PROVE  Inv'
<1> USE DEF Inv, TypeOK, Flight, Signals, AcceptedIsKept, Temporary, Permanent,
            wiring, life, world, stores, bounds, Idle, HasSpooler
<1>1. CASE Authenticate(s)
  BY <1>1 DEF Authenticate
<1>2. CASE Rcpt(s)
  BY <1>2 DEF Rcpt
<1>3. CASE Reset(s)
  BY <1>3 DEF Reset
<1>4. CASE Reconnect(s)
  BY <1>4 DEF Reconnect
<1>5. CASE HangUp(s)
  <2>1. IsFiniteSet(gone')
    BY <1>5, FS_AddElement DEF HangUp
  <2>2. QED BY <1>5, <2>1, BoundsAssumption DEF HangUp
<1>6. ASSUME NEW m \in Message, DataRefused(s, m) PROVE Inv'
  <2>1. gone' = gone /\ s \notin gone
    BY <1>6 DEF DataRefused, Sendable, Reply
  <2>2. /\ pc' = [pc EXCEPT ![s] = "idle"] /\ msg' = [msg EXCEPT ![s] = NoMessage]
        /\ \E code \in Temporary \cup Permanent : answer' = [answer EXCEPT ![m] = code]
    BY <1>6, <2>1 DEF DataRefused, Reply
  <2>3. TypeOK'
    BY <1>6, <2>1, <2>2, BoundsAssumption DEF DataRefused, Sendable, Reply
  <2>4. Flight'
    BY <1>6, <2>1, <2>2 DEF DataRefused, Sendable, Reply
  <2>5. QED BY <1>6, <2>1, <2>2, <2>3, <2>4 DEF DataRefused
<1>7. ASSUME NEW m \in Message, DataUnread(s, m) PROVE Inv'
  <2>1. gone' = gone /\ s \notin gone
    BY <1>7 DEF DataUnread, Sendable, Reply
  <2>2. /\ pc' = [pc EXCEPT ![s] = "idle"] /\ msg' = [msg EXCEPT ![s] = NoMessage]
        /\ \E code \in Temporary \cup Permanent : answer' = [answer EXCEPT ![m] = code]
    BY <1>7, <2>1 DEF DataUnread, Reply
  <2>3. TypeOK'
    BY <1>7, <2>1, <2>2, BoundsAssumption DEF DataUnread, Sendable, Reply
  <2>4. Flight'
    BY <1>7, <2>1, <2>2 DEF DataUnread, Sendable, Reply
  <2>5. QED BY <1>7, <2>1, <2>2, <2>3, <2>4 DEF DataUnread
<1>8. ASSUME NEW m \in Message, Data(s, m) PROVE Inv'
  BY <1>8, BoundsAssumption DEF Data, Sendable
<1>9. QED BY <1>1, <1>2, <1>3, <1>4, <1>5, <1>6, <1>7, <1>8 DEF ClientStep

\* Data goes on and replies.
LEMMA DataStepInv ==
  ASSUME Inv, NEW s \in Session, DataStep(s)
  PROVE  Inv'
<1> USE DEF Inv, TypeOK, Flight, Signals, AcceptedIsKept, Temporary, Permanent,
            wiring, life, world, stores, bounds, HasSpooler
<1>0. IsFiniteSet(gone \ {s})
  BY FS_RemoveElement
<1>1. CASE Enqueue(s)
  BY <1>1 DEF Enqueue
<1>2. CASE EnqueueFails(s)
  BY <1>0, <1>2 DEF EnqueueFails, Reply
<1>3. CASE EnqueuePanics(s)
  BY <1>0, <1>3 DEF EnqueuePanics, Reply
<1>4. CASE Return(s)
  BY <1>0, <1>4 DEF Return, Reply
<1>5. CASE Store(s)
  BY <1>5 DEF Store
<1>6. CASE StoreUnavailable(s)
  BY <1>0, <1>6 DEF StoreUnavailable, SignalFault, Reply
<1>7. CASE StoreFails(s)
  BY <1>0, <1>7 DEF StoreFails, Reply
<1>8. CASE Announce(s)
  BY <1>0, <1>8 DEF Announce, Reply
<1>9. QED BY <1>1, <1>2, <1>3, <1>4, <1>5, <1>6, <1>7, <1>8 DEF DataStep

\* The end of a process forgets its sessions and keeps the rest.
LEMMA StopInv ==
  ASSUME Inv, Stop, UNCHANGED <<wiring, world, answer, sends, stores, outages, hangups>>,
         deaths' \in 0..MaxDeaths
  PROVE  Inv'
<1> USE DEF Inv, wiring, world, stores
<1>1. TypeOK'
  BY DEF TypeOK, Stop
<1>2. Flight' /\ Signals'
  BY DEF Flight, Signals, Stop, TypeOK
<1>3. AcceptedIsKept' /\ IsFiniteSet(gone)'
  BY FS_EmptySet DEF AcceptedIsKept, Stop
<1>4. QED BY <1>1, <1>2, <1>3

\* The process starts, signals and ends, storage and broker come and go.
LEMMA ProcessInv ==
  ASSUME Inv,
         \/ Start \/ Connect \/ WatchdogFires \/ SendFault \/ Exit
         \/ Killed \/ StorageDown \/ StorageUp \/ BrokerDown \/ BrokerUp
  PROVE  Inv'
<1> USE BoundsAssumption
    DEF Inv, TypeOK, Flight, Signals, AcceptedIsKept, HasSpooler,
        wiring, life, world, stores, session, bounds, NeedsStorage
<1>1. CASE Start
  BY <1>1 DEF Start
<1>2. CASE Connect
  BY <1>2 DEF Connect
<1>3. CASE WatchdogFires
  BY <1>3 DEF WatchdogFires, SignalFault
<1>4. CASE SendFault
  BY <1>4 DEF SendFault
<1>5. CASE Exit
  BY <1>5, StopInv DEF Exit
<1>6. CASE Killed
  <2>1. deaths' \in 0..MaxDeaths
    BY <1>6 DEF Killed
  <2>2. QED BY <1>6, <2>1, StopInv DEF Killed
<1>7. CASE StorageDown
  BY <1>7 DEF StorageDown
<1>8. CASE StorageUp
  BY <1>8 DEF StorageUp
<1>9. CASE BrokerDown
  BY <1>9 DEF BrokerDown
<1>10. CASE BrokerUp
  BY <1>10 DEF BrokerUp
<1>11. QED BY <1>1, <1>2, <1>3, <1>4, <1>5, <1>6, <1>7, <1>8, <1>9, <1>10

\* Inv, what is known of a message between DATA and its reply, is inductive
\* (session.Data, the fault handler and the watchdog).
THEOREM InvHolds == Spec => []Inv
<1>1. Inv /\ [Next]_vars => Inv'
  <2> SUFFICES ASSUME Inv, [Next]_vars PROVE Inv'
    OBVIOUS
  <2>1. CASE UNCHANGED vars
    BY <2>1 DEF vars, Inv, TypeOK, Flight, Signals, AcceptedIsKept, HasSpooler
  <2>2. CASE Next
    BY <2>2, ClientInv, DataStepInv, ProcessInv DEF Next
  <2>3. QED BY <2>1, <2>2
<1>2. QED BY InitInv, <1>1, PTL DEF Spec

-----------------------------------------------------------------------------
(* The account of the copies. *)

LEMMA AccountInit == Init => Account
<1> SUFFICES ASSUME Init, NEW m \in Message
             PROVE  spooled[m] + kept[m] + Cardinality(GoneWith(m)) + (IF Doomed THEN 1 ELSE 0)
                      <= (IF Settled(m) THEN 1 ELSE 0) + deaths + outages + hangups
  BY DEF Account
<1>1. GoneWith(m) = {} /\ ~Doomed
  BY DEF Init, GoneWith, Doomed
<1>2. QED BY <1>1, FS_EmptySet DEF Init

\* The sessions whose clients are gone are finitely many.
LEMMA GoneCount ==
  ASSUME IsFiniteSet(gone), NEW m
  PROVE  IsFiniteSet(GoneWith(m)) /\ Cardinality(GoneWith(m)) \in Nat
<1>1. GoneWith(m) \subseteq gone
  BY DEF GoneWith
<1>2. QED BY <1>1, FS_Subset, FS_CardinalityType

\* No more of them, as long as nobody joins.
LEMMA GoneFewer ==
  ASSUME Inv, Inv', NEW m, GoneWith(m)' \subseteq GoneWith(m)
  PROVE  /\ Cardinality(GoneWith(m)) \in Nat /\ Cardinality(GoneWith(m)') \in Nat
         /\ Cardinality(GoneWith(m)') <= Cardinality(GoneWith(m))
<1>1. IsFiniteSet(GoneWith(m)) /\ Cardinality(GoneWith(m)) \in Nat
  BY GoneCount DEF Inv
<1>2. QED BY <1>1, FS_Subset, FS_CardinalityType

\* What changes no copy, announces and answers nothing, and dooms no process
\* that was not, leaves the account as it is.
LEMMA AccountKept ==
  ASSUME Inv, Account, Inv',
         kept' = kept, spooled' = spooled, deaths' = deaths, outages' = outages, hangups' = hangups,
         Doomed' => Doomed,
         \A m \in Message : Settled(m) => Settled(m)',
         \A m \in Message : GoneWith(m)' \subseteq GoneWith(m)
  PROVE  Account'
<1> SUFFICES ASSUME NEW m \in Message
             PROVE  (spooled[m] + kept[m] + Cardinality(GoneWith(m)) + (IF Doomed THEN 1 ELSE 0)
                       <= (IF Settled(m) THEN 1 ELSE 0) + deaths + outages + hangups)'
  BY DEF Account
<1>1. /\ Cardinality(GoneWith(m)) \in Nat /\ Cardinality(GoneWith(m)') \in Nat
      /\ Cardinality(GoneWith(m)') <= Cardinality(GoneWith(m))
  BY GoneFewer
<1>2. spooled[m] \in Nat /\ kept[m] \in Nat /\ deaths \in Nat /\ outages \in Nat /\ hangups \in Nat
  BY BoundsAssumption DEF Inv, TypeOK
<1>3. spooled[m] + kept[m] + Cardinality(GoneWith(m)) + (IF Doomed THEN 1 ELSE 0)
        <= (IF Settled(m) THEN 1 ELSE 0) + deaths + outages + hangups
  BY DEF Account
<1>4. Settled(m) => Settled(m)'
  OBVIOUS
<1>5. QED BY <1>1, <1>2, <1>3, <1>4

\* A client hangs up: if the message was not yet taken, one more may be stored
\* unseen; if it was, the reply under way settles nothing.
LEMMA AccountHangUp ==
  ASSUME Inv, Account, Inv', NEW s \in Session, HangUp(s)
  PROVE  Account'
<1> SUFFICES ASSUME NEW m \in Message
             PROVE  (spooled[m] + kept[m] + Cardinality(GoneWith(m)) + (IF Doomed THEN 1 ELSE 0)
                       <= (IF Settled(m) THEN 1 ELSE 0) + deaths + outages + hangups)'
  BY DEF Account
<1>1. /\ spooled[m] \in Nat /\ kept[m] \in Nat /\ deaths \in Nat /\ outages \in Nat /\ hangups \in Nat
      /\ Cardinality(GoneWith(m)) \in Nat
  BY BoundsAssumption, GoneCount DEF Inv, TypeOK
<1>2. spooled[m] + kept[m] + Cardinality(GoneWith(m)) + (IF Doomed THEN 1 ELSE 0)
        <= (IF Settled(m) THEN 1 ELSE 0) + deaths + outages + hangups
  BY DEF Account
<1>3. /\ UNCHANGED <<spooled, kept, deaths, outages, answer, pc, msg>>
      /\ hangups' = hangups + 1 /\ gone' = gone \cup {s} /\ s \notin gone
      /\ Doomed' <=> Doomed
  BY DEF HangUp, stores, wiring, life, world, Doomed, NeedsStorage
<1>4. CASE msg[s] = m /\ pc[s] \in {"enqueue", "store"}
  <2>1. GoneWith(m)' = GoneWith(m) \cup {s} /\ s \notin GoneWith(m)
    BY <1>3, <1>4 DEF GoneWith
  <2>2. Cardinality(GoneWith(m)') = Cardinality(GoneWith(m)) + 1
    BY <2>1, GoneCount, FS_AddElement DEF Inv
  <2>3. Settled(m) => Settled(m)'
    BY <1>3, <1>4 DEF Settled
  <2>4. QED BY <1>1, <1>2, <1>3, <2>2, <2>3
<1>5. CASE ~(msg[s] = m /\ pc[s] \in {"enqueue", "store"})
  <2>1. GoneWith(m)' = GoneWith(m)
    BY <1>3, <1>5 DEF GoneWith
  <2>2. QED BY <1>1, <1>2, <1>3, <2>1
<1>6. QED BY <1>4, <1>5

\* A copy is made: for a client that waits it is settled by the reply under way,
\* for one that does not it was paid when it hung up.
LEMMA AccountCopy ==
  ASSUME Inv, Account, Inv', NEW s \in Session, Enqueue(s) \/ Store(s)
  PROVE  Account'
<1> DEFINE n == msg[s]
<1> SUFFICES ASSUME NEW m \in Message
             PROVE  (spooled[m] + kept[m] + Cardinality(GoneWith(m)) + (IF Doomed THEN 1 ELSE 0)
                       <= (IF Settled(m) THEN 1 ELSE 0) + deaths + outages + hangups)'
  BY DEF Account
<1>1. /\ spooled[m] \in Nat /\ kept[m] \in Nat /\ deaths \in Nat /\ outages \in Nat /\ hangups \in Nat
      /\ Cardinality(GoneWith(m)) \in Nat
  BY BoundsAssumption, GoneCount DEF Inv, TypeOK
<1>2. spooled[m] + kept[m] + Cardinality(GoneWith(m)) + (IF Doomed THEN 1 ELSE 0)
        <= (IF Settled(m) THEN 1 ELSE 0) + deaths + outages + hangups
  BY DEF Account
<1>3. /\ UNCHANGED <<deaths, outages, hangups, answer, msg, gone>>
      /\ Doomed' <=> Doomed
      /\ n \in Message
  BY DEF Enqueue, Store, stores, bounds, wiring, life, world, Doomed, NeedsStorage, Inv, Flight
<1>4. /\ pc[s] \in {"enqueue", "store"} /\ pc'[s] \in {"return", "announce"}
      /\ \A t \in Session \ {s} : pc'[t] = pc[t]
  BY DEF Enqueue, Store, Inv, TypeOK
<1>5. (spooled[m] + kept[m])' = spooled[m] + kept[m] + IF m = n THEN 1 ELSE 0
  BY <1>1, <1>3 DEF Enqueue, Store, stores, Inv, TypeOK
<1>6. Settled(m) => Settled(m)'
  BY <1>3, <1>4 DEF Settled
<1>7. GoneWith(m)' = GoneWith(m) \ {s}
  BY <1>3, <1>4 DEF GoneWith, Inv, TypeOK
<1>8. CASE m = n /\ s \in gone
  <2>1. s \in GoneWith(m)
    BY <1>4, <1>8 DEF GoneWith
  <2>2. Cardinality(GoneWith(m)') = Cardinality(GoneWith(m)) - 1
    BY <1>7, <2>1, GoneCount, FS_RemoveElement DEF Inv
  <2>3. QED BY <1>1, <1>2, <1>3, <1>5, <1>6, <1>8, <2>2
<1>9. CASE m = n /\ s \notin gone
  <2>1. ~Settled(m) /\ Settled(m)'
    BY <1>3, <1>4, <1>9 DEF Settled, Inv, Flight, Temporary
  <2>2. GoneWith(m)' = GoneWith(m)
    BY <1>7, <1>9 DEF GoneWith
  <2>3. QED BY <1>1, <1>2, <1>3, <1>5, <1>9, <2>1, <2>2
<1>10. CASE m # n
  <2>1. GoneWith(m)' = GoneWith(m)
    BY <1>7, <1>10 DEF GoneWith
  <2>2. QED BY <1>1, <1>2, <1>3, <1>5, <1>6, <1>10, <2>1
<1>11. QED BY <1>8, <1>9, <1>10

\* A session's steps.
LEMMA AccountSession ==
  ASSUME Inv, Account, Inv', NEW s \in Session, ClientStep(s) \/ DataStep(s)
  PROVE  Account'
<1> USE DEF Temporary, wiring, life, world, stores, bounds, Idle, HasSpooler
<1> USE DEF Inv, TypeOK, Flight
<1>1. CASE Authenticate(s) \/ Rcpt(s) \/ Reset(s) \/ Reconnect(s)
  BY <1>1, AccountKept DEF Authenticate, Rcpt, Reset, Reconnect, Doomed, Settled, NeedsStorage, GoneWith
<1>2. ASSUME NEW m \in Message, DataRefused(s, m) \/ DataUnread(s, m) \/ Data(s, m) PROVE Account'
  <2>1. \A n \in Message : Settled(n) => Settled(n)'
    BY <1>2 DEF DataRefused, DataUnread, Data, Sendable, Reply, Settled
  <2>2. \A n \in Message : GoneWith(n)' \subseteq GoneWith(n)
    BY <1>2 DEF DataRefused, DataUnread, Data, Sendable, Reply, GoneWith
  <2>3. QED BY <1>2, <2>1, <2>2, AccountKept DEF DataRefused, DataUnread, Data, Doomed, NeedsStorage
<1>3. CASE \/ EnqueueFails(s) \/ EnqueuePanics(s) \/ Return(s)
           \/ StoreUnavailable(s) \/ StoreFails(s) \/ Announce(s)
  <2>1. /\ \A n \in Message : GoneWith(n)' \subseteq GoneWith(n)
        /\ UNCHANGED <<kept, spooled, deaths, outages, hangups>>
    BY <1>3 DEF EnqueueFails, EnqueuePanics, Return, StoreUnavailable, StoreFails, Announce, Reply, GoneWith
  <2>2. \A n \in Message : Settled(n) => Settled(n)'
    BY <1>3 DEF EnqueueFails, EnqueuePanics, Return, StoreUnavailable, StoreFails, Announce, Reply, Settled
  <2>3. Doomed' => Doomed
    BY <1>3 DEF EnqueueFails, EnqueuePanics, Return, StoreUnavailable, StoreFails, Announce, SignalFault,
                Doomed, NeedsStorage
  <2>4. QED BY <2>1, <2>2, <2>3, AccountKept
<1>4. QED BY <1>1, <1>2, <1>3, AccountHangUp, AccountCopy DEF ClientStep, DataStep

\* The process: its end settles the account of the outage it has seen, or of its
\* death; an outage pays for the end it leads to.
LEMMA AccountProcess ==
  ASSUME Inv, Account, Inv',
         \/ Start \/ Connect \/ WatchdogFires \/ SendFault \/ Exit
         \/ Killed \/ StorageDown \/ StorageUp \/ BrokerDown \/ BrokerUp
  PROVE  Account'
<1> USE DEF wiring, life, world, stores, session, bounds
<1>1. CASE Start \/ Connect \/ WatchdogFires \/ SendFault \/ StorageUp \/ BrokerUp
  <2>1. \A n \in Message : (Settled(n) => Settled(n)') /\ GoneWith(n)' \subseteq GoneWith(n)
    BY <1>1 DEF Start, Connect, WatchdogFires, SendFault, StorageUp, BrokerUp, Settled, GoneWith
  <2>2. Doomed' => Doomed
    BY <1>1 DEF Start, Connect, WatchdogFires, SendFault, StorageUp, BrokerUp, SignalFault, Writable,
                Doomed, NeedsStorage, Inv, TypeOK, Signals
  <2>3. QED BY <1>1, <2>1, <2>2, AccountKept
            DEF Start, Connect, WatchdogFires, SendFault, StorageUp, BrokerUp
<1>2. CASE Exit \/ Killed \/ StorageDown \/ BrokerDown
  <2> SUFFICES ASSUME NEW m \in Message
               PROVE  (spooled[m] + kept[m] + Cardinality(GoneWith(m)) + (IF Doomed THEN 1 ELSE 0)
                         <= (IF Settled(m) THEN 1 ELSE 0) + deaths + outages + hangups)'
    BY DEF Account
  <2>1. spooled[m] \in Nat /\ kept[m] \in Nat /\ deaths \in Nat /\ outages \in Nat /\ hangups \in Nat
    BY BoundsAssumption DEF Inv, TypeOK
  <2>2. spooled[m] + kept[m] + Cardinality(GoneWith(m)) + (IF Doomed THEN 1 ELSE 0)
          <= (IF Settled(m) THEN 1 ELSE 0) + deaths + outages + hangups
    BY DEF Account
  <2>3. /\ Cardinality(GoneWith(m)) \in Nat /\ Cardinality(GoneWith(m)') \in Nat
        /\ Cardinality(GoneWith(m)') <= Cardinality(GoneWith(m))
    <3>1. GoneWith(m)' \subseteq GoneWith(m)
      BY <1>2 DEF Exit, Killed, Stop, StorageDown, BrokerDown, GoneWith
    <3>2. QED BY <3>1, GoneFewer
  <2>4. spooled' = spooled /\ kept' = kept /\ hangups' = hangups
    BY <1>2 DEF Exit, Killed, StorageDown, BrokerDown
  <2>5. CASE Exit
    <3>1. Doomed /\ ~Doomed' /\ deaths' = deaths /\ outages' = outages
      BY <2>5 DEF Exit, Stop, Doomed, Inv, TypeOK
    <3>2. QED BY <2>1, <2>2, <2>3, <2>4, <3>1
  <2>6. CASE Killed
    <3>1. ~Doomed' /\ deaths' = deaths + 1 /\ outages' = outages
      BY <2>6 DEF Killed, Stop, Doomed
    <3>2. QED BY <2>1, <2>2, <2>3, <2>4, <3>1
  <2>7. CASE StorageDown \/ BrokerDown
    <3>1. (Settled(m) => Settled(m)') /\ deaths' = deaths /\ outages' = outages + 1
      BY <2>7 DEF StorageDown, BrokerDown, Settled
    <3>2. QED BY <2>1, <2>2, <2>3, <2>4, <3>1
  <2>8. QED BY <1>2, <2>5, <2>6, <2>7
<1>3. QED BY <1>1, <1>2

\* Account, which pays each copy of a message with its reply, a client that did
\* not wait for it, or an end of the process, holds in every reachable state
\* (Enqueue, ProcessAndStore, exit and kill).
THEOREM AccountHolds == Spec => []Account
<1>1. Inv /\ Inv' /\ Account /\ [Next]_vars => Account'
  <2> SUFFICES ASSUME Inv, Inv', Account, [Next]_vars PROVE Account'
    OBVIOUS
  <2>1. CASE UNCHANGED vars
    BY <2>1 DEF vars, Account, Doomed, Settled, NeedsStorage, GoneWith
  <2>2. CASE Next
    BY <2>2, AccountSession, AccountProcess DEF Next
  <2>3. QED BY <2>1, <2>2
<1>2. QED BY AccountInit, InvHolds, <1>1, PTL DEF Spec

-----------------------------------------------------------------------------
(* Theorems. *)

\* The variables of sessions and process keep their types.
THEOREM TypeCorrect == Spec => []TypeOK
  BY InvHolds, PTL DEF Inv

\* A message answered with 250 is in the spool, or stored and announced.
THEOREM AcceptedIsKeptHolds == Spec => []AcceptedIsKept
  BY InvHolds, PTL DEF Inv

\* A message is spooled or stored once, and once more for each death, outage or
\* client that missed its reply at most (server.go:204-250).
THEOREM DuplicatesHaveCauseHolds == Spec => []DuplicatesHaveCause
<1>1. Inv /\ Account => DuplicatesHaveCause
  <2> SUFFICES ASSUME Inv, Account, NEW m \in Message
               PROVE  spooled[m] + kept[m] <= 1 + deaths + outages + hangups
    BY DEF DuplicatesHaveCause
  <2>1. Cardinality(GoneWith(m)) \in Nat
    BY GoneCount DEF Inv
  <2>2. spooled[m] + kept[m] + Cardinality(GoneWith(m)) + (IF Doomed THEN 1 ELSE 0)
          <= (IF Settled(m) THEN 1 ELSE 0) + deaths + outages + hangups
    BY DEF Account
  <2>3. QED BY <2>1, <2>2, BoundsAssumption DEF Inv, TypeOK
<1>2. QED BY InvHolds, AccountHolds, <1>1, PTL

\* A process that needs the storage watches it until its exit is under way, and
\* one that has a spool does not exit for it (main.go: the watchdog, the fault
\* handler and main's only receive from errCh).
THEOREM OutageIsHeardHolds == Spec => []OutageIsHeard
<1>1. Init => OutageIsHeard
  BY DEF Init, OutageIsHeard, NeedsStorage
<1>2. Inv /\ OutageIsHeard /\ [Next]_vars => OutageIsHeard'
  <2> SUFFICES ASSUME Inv, OutageIsHeard, [Next]_vars PROVE OutageIsHeard'
    OBVIOUS
  <2> USE DEF OutageIsHeard, NeedsStorage, life, wiring
  <2>1. CASE UNCHANGED <<mode, process, watching, exit>>
    BY <2>1
  <2>2. CASE Stop /\ UNCHANGED mode
    BY <2>2 DEF Stop
  <2>3. CASE Start
    BY <2>3 DEF Start
  <2>4. CASE Connect
    BY <2>4 DEF Connect
  <2>5. CASE WatchdogFires
    BY <2>5 DEF WatchdogFires, SignalFault, Inv, Signals, TypeOK
  <2>6. CASE SendFault
    BY <2>6 DEF SendFault
  <2>7. ASSUME NEW s \in Session, ClientStep(s) \/ DataStep(s) PROVE OutageIsHeard'
    <3>1. CASE StoreUnavailable(s)
      <4>1. mode # "spool"
        BY <3>1 DEF StoreUnavailable, Inv, Flight, HasSpooler
      <4>2. QED BY <3>1, <4>1 DEF StoreUnavailable, SignalFault
    <3>2. CASE ~StoreUnavailable(s)
      BY <2>1, <2>7, <3>2
      DEF ClientStep, Authenticate, Rcpt, Reset, Reconnect, HangUp, DataRefused, DataUnread, Data,
          DataStep, Enqueue, EnqueueFails, EnqueuePanics, Return, Store, StoreFails, Announce
    <3>3. QED BY <3>1, <3>2
  <2>8. CASE StorageDown \/ StorageUp \/ BrokerDown \/ BrokerUp
    BY <2>1, <2>8 DEF StorageDown, StorageUp, BrokerDown, BrokerUp
  <2>9. QED BY <2>1, <2>2, <2>3, <2>4, <2>5, <2>6, <2>7, <2>8 DEF Next, Exit, Killed, vars
<1>3. QED BY <1>1, <1>2, InvHolds, PTL DEF Spec
=============================================================================
