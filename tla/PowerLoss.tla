----------------------------- MODULE PowerLoss -----------------------------
(***************************************************************************)
(* Spool on a machine that may lose its power.  What the program sees is    *)
(* Spool's state; what the disks hold lags behind it.  Enqueue syncs the    *)
(* item it writes, and nothing else in the program syncs anything: not the  *)
(* directories an item is renamed between, and not what ProcessAndStore     *)
(* writes below storage_root.  Those changes reach the disk some time       *)
(* later, or never, if the power goes first.                                *)
(*                                                                          *)
(* The file system of the spool writes the names in its directories back in *)
(* the order they were changed, as one with a journal does.  The contents   *)
(* of a file follow no order unless it is synced, and nothing in            *)
(* storage_root is: a copy there may be on disk at any time after it was    *)
(* written, on one file system with the spool (README.md:36) or on another. *)
(***************************************************************************)
EXTENDS Spool, Sequences, SequencesExt

CONSTANT MaxLosses   \* bound: how often the power is lost

ASSUME LossBoundAssumption == MaxLosses \in Nat

VARIABLES
  entry,       \* entry[m]: the directory m's item is in on disk
  written,     \* the items whose contents are on disk
  safe,        \* safe[m]: copies of m whose names and contents are on disk
  journal,     \* the spool's changes not yet written back, oldest first
  losses

disk == <<entry, written, safe, journal, losses>>
world == <<vars, disk>>

Place(m) ==
  CASE m \in tmp        -> "tmp"
    [] m \in pending    -> "pending"
    [] m \in processing -> "processing"
    [] m \in failed     -> "failed"
    [] OTHER            -> "nowhere"

Change(m, to) == [msg |-> m, to |-> to]

PowerInit ==
  /\ Init
  /\ entry = [m \in Msg |-> "nowhere"]
  /\ written = {} /\ safe = [m \in Msg |-> 0]
  /\ journal = <<>> /\ losses = 0

-----------------------------------------------------------------------------

\* What a step of the program changes in the spool's directories: one item is
\* renamed, created or removed at most.
Changes == {Change(m, Place(m)') : m \in {n \in Msg : Place(n)' # Place(n)}}

\* Mutant: Enqueue does not sync.
NotSynced == {}

\* Enqueue syncs the item between its creation and the rename.
Synced == IF epc = "write" /\ epc' = "return" THEN {mu} ELSE {}

Program ==
  /\ Next
  /\ written' = written \cup Synced
  /\ journal' = journal \o SetToSeq(Changes)
  /\ UNCHANGED <<entry, safe, losses>>

\* The oldest of the changes reaches the disk.
WriteBack ==
  /\ journal # <<>>
  /\ LET c == Head(journal) IN entry' = [entry EXCEPT ![c.msg] = c.to]
  /\ journal' = Tail(journal)
  /\ UNCHANGED <<vars, written, safe, losses>>

\* So do the contents of a file, synced or not.
WriteBackContents(m) ==
  /\ Place(m) # "nowhere" /\ m \notin written
  /\ written' = written \cup {m}
  /\ UNCHANGED <<vars, entry, safe, journal, losses>>

\* And a copy in storage_root, with its directory and all its contents.
Harden(m) ==
  /\ safe[m] < copies[m]
  /\ safe' = [safe EXCEPT ![m] = @ + 1]
  /\ UNCHANGED <<vars, entry, written, journal, losses>>

\* The power is lost: what is left is on the disks, and the process is down.
\* (What remains of a copy that vanishes is not followed.)
LosePower ==
  /\ losses < MaxLosses /\ losses' = losses + 1
  /\ tmp' = {m \in Msg : entry[m] = "tmp"}
  /\ pending' = {m \in Msg : entry[m] = "pending"}
  /\ processing' = {m \in Msg : entry[m] = "processing"}
  /\ failed' = {m \in Msg : entry[m] = "failed"}
  /\ copies' = safe
  /\ journal' = <<>>
  /\ wpc' = "down" /\ cur' = None /\ toRecover' = {}
  /\ mu' = None /\ epc' = "free" /\ walk' = {} /\ total' = 0
  /\ reply' = [m \in Msg |-> IF reply[m] = "waiting" THEN "lost" ELSE reply[m]]
  /\ UNCHANGED <<up, partials, posted, bounds, entry, written, safe>>

PowerNext ==
  \/ Program \/ LosePower \/ WriteBack
  \/ \E m \in Msg : WriteBackContents(m) \/ Harden(m)

PowerSpec == PowerInit /\ [][PowerNext]_world

-----------------------------------------------------------------------------
(* Properties. *)

\* Whenever the power goes, the items the next start finds are whole: their
\* contents are on disk before their names are (the Sync of Enqueue), and no
\* half message is stored and taken for the camera's.
ItemsAreWhole ==
  \A m \in Msg : entry[m] \in {"pending", "processing", "failed"} => m \in written

\* The rename into pending has not reached the disk.
NotEntered(m) ==
  entry[m] \in {"nowhere", "tmp"} /\ Change(m, "pending") \in Range(journal)

\* An accepted message can be lost, but by a loss of power only, and only in two
\* windows: after the answer 250, until the rename into pending is on disk
\* (spool.go:118 does not sync the directory); and, once the item's removal is on
\* disk (spool.go:197), until the files that replaced it are, which nothing syncs
\* (storage.go:130, 160), be they on the spool's file system or not.
LossHasAWindow ==
  [][\A m \in Msg :
       reply[m] = "ok" /\ (m \in InSpool \/ copies[m] > 0) =>
         \/ (m \in InSpool \/ copies[m] > 0)'
         \/ losses' > losses /\ NotEntered(m)
         \/ losses' > losses /\ entry[m] = "nowhere" /\ copies[m] > 0 /\ safe[m] = 0
    ]_world
=============================================================================
