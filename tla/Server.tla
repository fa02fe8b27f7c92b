------------------------------- MODULE Server -------------------------------
(***************************************************************************)
(* The SMTP sessions of internal/smtpserver/server.go and the process around *)
(* them, cmd/smtp-store/main.go: what a session does with a message, the     *)
(* storage fault handler that makes the process exit, the watchdog that      *)
(* calls it, and the start that refuses to run without a writable storage.   *)
(* systemd starts the process again whenever it has exited.  With MQTT the   *)
(* start waits for the broker before it opens the SMTP port, and what the    *)
(* fault handler sends meanwhile is read only after that.                    *)
(*                                                                           *)
(* The spool and the writer of the storage are modules of their own; here a  *)
(* message is in the spool, and on the storage, a number of times.  The      *)
(* calls of the go-smtp library on a session come in any order, except that  *)
(* it calls Reset after each Data.  A client sends a message again unless it *)
(* has been told that it was accepted or refused for good, and it may not    *)
(* wait for that, or miss it: the message is stored all the same.            *)
(***************************************************************************)
EXTENDS Naturals, FiniteSets

CONSTANTS
  Session,
  Message,
  NoMessage,
  Unparsable,     \* messages parseMessage refuses
  Wiring,         \* the ways the server is put together, see Modes
  MaxSends,       \* bound: how often a client sends a message
  MaxOutages,     \* bound: how often the storage or the broker goes away
  MaxHangups,     \* bound: how often a client misses a reply
  MaxDeaths       \* bound: how often the process is killed

\* "spool":     main.go with spool.enabled.
\* "direct":    no spooler and a fault handler, as NewWithStorageFaultHandler
\*              builds it, in the process main.go sets up without spool.enabled.
\* "bare":      neither, as New builds it, in the same process.
\* "unspooled": what main.go does build without spool.enabled: the spooler is an
\*              interface that holds a nil *spool.Queue, and so is not nil.
Modes == {"spool", "direct", "bare", "unspooled"}

ASSUME WiringAssumption == Wiring \subseteq Modes
ASSUME NoMessageAssumption == NoMessage \notin Message
ASSUME UnparsableAssumption == Unparsable \subseteq Message
ASSUME BoundsAssumption == {MaxSends, MaxOutages, MaxHangups, MaxDeaths} \subseteq Nat

VARIABLES
  mode, mqtt,   \* how main has put the process together; with an MQTT publisher?
  process,      \* "up", "connecting" to the broker, or "down" until systemd has started it
  signaled,     \* storageFaultSignaled
  exit,         \* the fault handler's goroutine: "none", "sleeping", or its error is "sent"
  watching,     \* the watchdog's goroutine runs
  storage,      \* "fine" or "outage"
  broker,       \* of MQTT: "fine" or "outage"
  authenticated, rcpts,   \* of a session; rcpts[s]: it has recipients
  pc, msg,      \* the step Data is at, and its message
  gone,         \* sessions whose client does not wait for the reply to Data
  answer,       \* answer[m]: the last reply to m
  sends,        \* sends[m]: how often m was sent
  spooled,      \* spooled[m]: how often Enqueue accepted m
  kept,         \* kept[m]: copies of m on the storage
  announced,    \* messages given to the classifier and the index
  deaths, outages, hangups

session == <<authenticated, rcpts, pc, msg, gone>>
wiring  == <<mode, mqtt>>
world   == <<storage, broker>>
life    == <<process, signaled, exit, watching>>
stores  == <<spooled, kept, announced>>
bounds  == <<deaths, outages, hangups>>
vars == <<mode, mqtt, process, signaled, exit, watching, storage, broker, authenticated, rcpts, pc, msg,
          gone, answer, sends, spooled, kept, announced, deaths, outages, hangups>>

\* Replies by what they mean to a client.
Temporary == {"451", "452", "421"}
Permanent == {"554", "530"}

\* main.go watches the storage, and requires it at start, without a spool only.
NeedsStorage == mode # "spool"

HasSpooler == mode \in {"spool", "unspooled"}
HasFaultHandler == mode # "bare"

Init ==
  /\ mode \in Wiring /\ mqtt \in BOOLEAN
  /\ process = "down" /\ signaled = FALSE /\ exit = "none" /\ watching = FALSE
  /\ storage = "fine"
  /\ broker \in IF mqtt THEN {"fine", "outage"} ELSE {"fine"}
  /\ authenticated = [s \in Session |-> FALSE]
  /\ rcpts = [s \in Session |-> FALSE]
  /\ pc = [s \in Session |-> "idle"]
  /\ msg = [s \in Session |-> NoMessage]
  /\ answer = [m \in Message |-> "none"]
  /\ sends = [m \in Message |-> 0]
  /\ gone = {} /\ announced = {}
  /\ spooled = [m \in Message |-> 0]
  /\ kept = [m \in Message |-> 0]
  /\ deaths = 0 /\ outages = 0 /\ hangups = 0

-----------------------------------------------------------------------------
(* A session. *)

Idle(s) == process = "up" /\ pc[s] = "idle"

\* authenticate: a wrong password leaves the session as it was.
Authenticate(s) ==
  /\ Idle(s) /\ ~authenticated[s]
  /\ authenticated' = [authenticated EXCEPT ![s] = TRUE]
  /\ UNCHANGED <<wiring, life, world, rcpts, pc, msg, gone, answer, sends, stores, bounds>>

\* Rcpt, which does not ask for authentication.
Rcpt(s) ==
  /\ Idle(s) /\ ~rcpts[s]
  /\ rcpts' = [rcpts EXCEPT ![s] = TRUE]
  /\ UNCHANGED <<wiring, life, world, authenticated, pc, msg, gone, answer, sends, stores, bounds>>

Reset(s) ==
  /\ Idle(s) /\ rcpts[s]
  /\ rcpts' = [rcpts EXCEPT ![s] = FALSE]
  /\ UNCHANGED <<wiring, life, world, authenticated, pc, msg, gone, answer, sends, stores, bounds>>

\* The client closes the connection and opens another.
Reconnect(s) ==
  /\ Idle(s) /\ authenticated[s]
  /\ authenticated' = [authenticated EXCEPT ![s] = FALSE]
  /\ rcpts' = [rcpts EXCEPT ![s] = FALSE]
  /\ UNCHANGED <<wiring, life, world, pc, msg, gone, answer, sends, stores, bounds>>

\* Its client waits no longer for the reply to Data, or will not receive it: a
\* timeout, a lost connection.  Data does not notice.
HangUp(s) ==
  /\ pc[s] # "idle" /\ s \notin gone
  /\ hangups < MaxHangups
  /\ gone' = gone \cup {s}
  /\ hangups' = hangups + 1
  /\ UNCHANGED <<wiring, life, world, authenticated, rcpts, pc, msg, answer, sends, stores, deaths, outages>>

\* m is sent on s: not while its client waits for a reply on another session.
Sendable(s, m) ==
  /\ Idle(s)
  /\ sends[m] < MaxSends
  /\ answer[m] \in Temporary \cup {"none"}
  /\ \A t \in Session : pc[t] = "idle" \/ msg[t] # m \/ t \in gone

\* Data returns; the library resets the transaction, and closes a connection that
\* is broken or that it has answered 421.
Reply(s, m, code) ==
  /\ answer' = IF s \in gone THEN answer ELSE [answer EXCEPT ![m] = code]
  /\ authenticated' = [authenticated EXCEPT ![s] = @ /\ s \notin gone /\ code # "421"]
  /\ rcpts' = [rcpts EXCEPT ![s] = FALSE]
  /\ pc' = [pc EXCEPT ![s] = "idle"]
  /\ msg' = [msg EXCEPT ![s] = NoMessage]
  /\ gone' = gone \ {s}

\* Data without authentication or recipients.
DataRefused(s, m) ==
  /\ Sendable(s, m)
  /\ ~authenticated[s] \/ ~rcpts[s]
  /\ sends' = [sends EXCEPT ![m] = @ + 1]
  /\ Reply(s, m, IF authenticated[s] THEN "554" ELSE "530")
  /\ UNCHANGED <<wiring, life, world, stores, bounds>>

\* The payload cannot be read to its end.
DataUnread(s, m) ==
  /\ Sendable(s, m)
  /\ authenticated[s] /\ rcpts[s]
  /\ sends' = [sends EXCEPT ![m] = @ + 1]
  /\ Reply(s, m, "451")
  /\ UNCHANGED <<wiring, life, world, stores, bounds>>

\* The payload is read: it goes to the spooler if there is one.
Data(s, m) ==
  /\ Sendable(s, m)
  /\ authenticated[s] /\ rcpts[s]
  /\ sends' = [sends EXCEPT ![m] = @ + 1]
  /\ pc' = [pc EXCEPT ![s] = IF HasSpooler THEN "enqueue" ELSE "store"]
  /\ msg' = [msg EXCEPT ![s] = m]
  /\ UNCHANGED <<wiring, life, world, authenticated, rcpts, gone, answer, stores, bounds>>

Enqueue(s) ==
  /\ pc[s] = "enqueue" /\ mode = "spool"
  /\ spooled' = [spooled EXCEPT ![msg[s]] = @ + 1]
  /\ pc' = [pc EXCEPT ![s] = "return"]
  /\ UNCHANGED <<wiring, life, world, authenticated, rcpts, msg, gone, answer, sends, kept, announced, bounds>>

\* Mutant: an error of the spool is taken for success.
EnqueueFailsUnseen(s) ==
  /\ pc[s] = "enqueue" /\ mode = "spool"
  /\ Reply(s, msg[s], "ok")
  /\ UNCHANGED <<wiring, life, world, sends, stores, bounds>>

\* The spool is full, or the local disk fails.
EnqueueFails(s) ==
  /\ pc[s] = "enqueue" /\ mode = "spool"
  /\ Reply(s, msg[s], "452")
  /\ UNCHANGED <<wiring, life, world, sends, stores, bounds>>

\* Enqueue of a nil queue panics at its mutex; the library recovers the panic,
\* answers 421 and closes the connection.
EnqueuePanics(s) ==
  /\ pc[s] = "enqueue" /\ mode = "unspooled"
  /\ Reply(s, msg[s], "421")
  /\ UNCHANGED <<wiring, life, world, sends, stores, bounds>>

\* Enqueue has returned an id.
Return(s) ==
  /\ pc[s] = "return"
  /\ Reply(s, msg[s], "ok")
  /\ UNCHANGED <<wiring, life, world, sends, stores, bounds>>

\* ProcessAndStore succeeds.
Store(s) ==
  /\ pc[s] = "store" /\ storage = "fine" /\ msg[s] \notin Unparsable
  /\ kept' = [kept EXCEPT ![msg[s]] = @ + 1]
  /\ pc' = [pc EXCEPT ![s] = "announce"]
  /\ UNCHANGED <<wiring, life, world, authenticated, rcpts, msg, gone, answer, sends, spooled, announced, bounds>>

\* storageFaultHandler: the first call of a process starts the goroutine that exits.
SignalFault ==
  /\ signaled' = TRUE
  /\ exit' = IF signaled THEN exit ELSE "sleeping"

\* ProcessAndStore fails with an error IsUnavailableError knows, and there is a
\* fault handler.
StoreUnavailable(s) ==
  /\ pc[s] = "store" /\ storage = "outage" /\ msg[s] \notin Unparsable
  /\ HasFaultHandler
  /\ SignalFault
  /\ Reply(s, msg[s], "451")
  /\ UNCHANGED <<wiring, process, watching, world, sends, stores, bounds>>

\* It fails with any other, with a storage in reach or not; or there is none.
StoreFails(s) ==
  /\ pc[s] = "store"
  /\ Reply(s, msg[s], "554")
  /\ UNCHANGED <<wiring, life, world, sends, stores, bounds>>

\* Mutant: an error of the index fails the message.
AnnounceOrFail(s) ==
  /\ pc[s] = "announce"
  /\ announced' = announced \cup {msg[s]}
  /\ \E code \in {"ok", "451"} : Reply(s, msg[s], code)
  /\ UNCHANGED <<wiring, life, world, sends, spooled, kept, bounds>>

\* The classifier and the index are told; their errors are logged.
Announce(s) ==
  /\ pc[s] = "announce"
  /\ announced' = announced \cup {msg[s]}
  /\ Reply(s, msg[s], "ok")
  /\ UNCHANGED <<wiring, life, world, sends, spooled, kept, bounds>>

DataStep(s) ==
  \/ Enqueue(s) \/ EnqueueFails(s) \/ EnqueuePanics(s) \/ Return(s)
  \/ Store(s) \/ StoreUnavailable(s) \/ StoreFails(s) \/ Announce(s)

-----------------------------------------------------------------------------
(* The process. *)

\* CheckWritable: a directory and a file can be created and removed.
Writable == storage = "fine"

\* Mutant: the storage must be writable with a spool, too.
StartWhenWritable ==
  /\ process = "down" /\ Writable
  /\ process' = IF mqtt THEN "connecting" ELSE "up"
  /\ watching' = NeedsStorage
  /\ UNCHANGED <<wiring, signaled, exit, world, session, answer, sends, stores, bounds>>

\* main: without a spool the storage must be writable, or the process exits and
\* systemd tries again; then the watchdog starts.
Start ==
  /\ process = "down"
  /\ NeedsStorage => Writable
  /\ process' = IF mqtt THEN "connecting" ELSE "up"
  /\ watching' = NeedsStorage
  /\ UNCHANGED <<wiring, signaled, exit, world, session, answer, sends, stores, bounds>>

\* Publisher.Start has found the broker and published; the spool's worker, the
\* listeners and main's wait for errors follow.
Connect ==
  /\ process = "connecting" /\ broker = "fine"
  /\ process' = "up"
  /\ UNCHANGED <<wiring, signaled, exit, watching, world, session, answer, sends, stores, bounds>>

\* A tick of the watchdog finds the storage unwritable; it returns.
WatchdogFires ==
  /\ process # "down" /\ watching /\ ~Writable
  /\ SignalFault
  /\ watching' = FALSE
  /\ UNCHANGED <<wiring, process, world, session, answer, sends, stores, bounds>>

\* Two seconds after the fault was signaled ...
SendFault ==
  /\ exit = "sleeping"
  /\ exit' = "sent"
  /\ UNCHANGED <<wiring, process, signaled, watching, world, session, answer, sends, stores, bounds>>

\* What the end of the process takes with it; a client whose message was under
\* way gets no answer.
Stop ==
  /\ process' = "down" /\ signaled' = FALSE /\ exit' = "none" /\ watching' = FALSE
  /\ authenticated' = [s \in Session |-> FALSE]
  /\ rcpts' = [s \in Session |-> FALSE]
  /\ pc' = [s \in Session |-> "idle"]
  /\ msg' = [s \in Session |-> NoMessage]
  /\ gone' = {}

\* Mutant: the fault is received while the start waits for the broker, and lost.
ExitWhenever ==
  /\ exit = "sent"
  /\ IF process = "up" THEN Stop ELSE exit' = "none" /\ UNCHANGED <<process, signaled, watching, session>>
  /\ UNCHANGED <<wiring, world, answer, sends, stores, bounds>>

\* ... main receives it, once it waits for errors, and exits.
Exit ==
  /\ exit = "sent" /\ process = "up"
  /\ Stop
  /\ UNCHANGED <<wiring, world, answer, sends, stores, bounds>>

\* A kill, or a start that ends because a publication of Publisher.Start failed.
Killed ==
  /\ process # "down" /\ deaths < MaxDeaths
  /\ deaths' = deaths + 1
  /\ Stop
  /\ UNCHANGED <<wiring, world, answer, sends, stores, outages, hangups>>

StorageDown ==
  /\ storage = "fine" /\ outages < MaxOutages
  /\ storage' = "outage"
  /\ outages' = outages + 1
  /\ UNCHANGED <<wiring, life, broker, session, answer, sends, stores, deaths, hangups>>

StorageUp ==
  /\ storage = "outage"
  /\ storage' = "fine"
  /\ UNCHANGED <<wiring, life, broker, session, answer, sends, stores, bounds>>

\* Once the process is up, only its notifications miss the broker.
BrokerDown ==
  /\ mqtt /\ broker = "fine" /\ outages < MaxOutages
  /\ broker' = "outage"
  /\ outages' = outages + 1
  /\ UNCHANGED <<wiring, life, storage, session, answer, sends, stores, deaths, hangups>>

BrokerUp ==
  /\ broker = "outage"
  /\ broker' = "fine"
  /\ UNCHANGED <<wiring, life, storage, session, answer, sends, stores, bounds>>

ClientStep(s) ==
  \/ Authenticate(s) \/ Rcpt(s) \/ Reset(s) \/ Reconnect(s) \/ HangUp(s)
  \/ \E m \in Message : DataRefused(s, m) \/ DataUnread(s, m) \/ Data(s, m)

Next ==
  \/ \E s \in Session : ClientStep(s) \/ DataStep(s)
  \/ Start \/ Connect \/ WatchdogFires \/ SendFault \/ Exit
  \/ Killed \/ StorageDown \/ StorageUp \/ BrokerDown \/ BrokerUp

Spec == Init /\ [][Next]_vars

\* Goroutines run, the ticker ticks, systemd restarts; no client need send and
\* no outage need end.
FairSpec ==
  /\ Spec
  /\ \A s \in Session : WF_vars(DataStep(s))
  /\ WF_vars(Start) /\ WF_vars(Connect) /\ WF_vars(WatchdogFires) /\ WF_vars(SendFault) /\ WF_vars(Exit)

-----------------------------------------------------------------------------

TypeOK ==
  /\ mode \in Wiring /\ mqtt \in BOOLEAN
  /\ process \in {"up", "connecting", "down"}
  /\ signaled \in BOOLEAN
  /\ exit \in {"none", "sleeping", "sent"} /\ (signaled <=> exit # "none")
  /\ watching \in BOOLEAN
  /\ storage \in {"fine", "outage"} /\ broker \in {"fine", "outage"}
  /\ authenticated \in [Session -> BOOLEAN]
  /\ rcpts \in [Session -> BOOLEAN]
  /\ pc \in [Session -> {"idle", "enqueue", "return", "store", "announce"}]
  /\ msg \in [Session -> Message \cup {NoMessage}]
  /\ gone \subseteq {s \in Session : pc[s] # "idle"}
  /\ answer \in [Message -> {"none", "ok"} \cup Temporary \cup Permanent]
  /\ sends \in [Message -> 0..MaxSends]
  /\ spooled \in [Message -> Nat]
  /\ kept \in [Message -> Nat]
  /\ announced \subseteq Message
  /\ deaths \in 0..MaxDeaths
  /\ outages \in 0..MaxOutages
  /\ hangups \in 0..MaxHangups

\* A client that was told 250 may forget the message: it is in the spool or on
\* the storage, and what is on the storage has been announced.
AcceptedIsKept ==
  \A m \in Message : answer[m] = "ok" => spooled[m] > 0 \/ (kept[m] > 0 /\ m \in announced)

\* A message is spooled or stored twice only if its client was not told of the
\* first time, and each further time has a cause of its own: a kill, the exit
\* after an outage, or a client that missed its reply.
DuplicatesHaveCause ==
  \A m \in Message : spooled[m] + kept[m] <= 1 + deaths + outages + hangups

\* Whoever could miss an outage has seen it: without a spool the watchdog, which
\* stops at its first report, watches as long as no exit is under way, the start
\* that waits for the broker included; with one, no outage ends the process.
OutageIsHeard ==
  IF NeedsStorage THEN process # "down" => watching \/ exit # "none"
                  ELSE exit = "none"

\* Without a spool an outage does not go unnoticed while nobody sends: the
\* process ends.  An outage that begins while the start waits for the broker
\* has to wait for the broker too, but is not forgotten (main.go:166 is the only
\* receiver of the fault).
OutageRestarts ==
  (process # "down" /\ NeedsStorage /\ storage = "outage")
    ~> (process = "down" \/ storage = "fine" \/ (process = "connecting" /\ broker = "outage"))

\* With a spool the process serves after any restart, whatever the storage does;
\* without one, as soon as the storage is back.  Either way, if main has a
\* publisher, the broker is needed: Connect is asked to retry and Start waits
\* for it (publisher.go:108), so a broker that stays away keeps mail out.
ServesAgain ==
  (process = "down")
    ~> \/ process = "up"
       \/ NeedsStorage /\ storage = "outage"
       \/ mqtt /\ broker = "outage"

\* server.go:49, "constructs an SMTP server that optionally accepts messages into
\* a local spool": a server without one does not fail for want of it.
SpoolIsOptional == \A m \in Message : answer[m] # "421"
=============================================================================
