------------------------------ MODULE Storage ------------------------------
(***************************************************************************)
(* The writer of internal/storage/storage.go: ProcessAndStore, called by    *)
(* several goroutines at once (SMTP sessions without a spool, the spool's   *)
(* worker, a process that died before them).  Nothing is locked.  A call    *)
(* claims a prefix by creating its body file with O_EXCL, and everything    *)
(* it writes afterwards, attachments opened with O_TRUNC included, is       *)
(* named after that prefix.                                                 *)
(*                                                                          *)
(* A slot is a directory (recipient folder and day) with a second of that   *)
(* day: two calls contend only if they agree on both.  A file is a record   *)
(* of its name (slot, candidate number, part), the call that wrote it and   *)
(* whether its content is complete; part 0 is the body.                     *)
(***************************************************************************)
EXTENDS Naturals, FiniteSets

CONSTANTS
  Call,          \* the calls of ProcessAndStore
  Slot,          \* directories and seconds
  NoSlot,        \* the slot of a call that has not computed one
  Attachments    \* Attachments[c]: the number of attachments of c's message

ASSUME AttachmentsAssumption == Attachments \in [Call -> Nat]
ASSUME NoSlotAssumption == NoSlot \notin Slot

VARIABLES
  pc,      \* pc[c]: the next step of call c, or how it ended
  slot,    \* slot[c]: where c writes
  try,     \* try[c]: the candidate number of writeBodyWithCollisionHandling
  part,    \* part[c]: the attachment c writes next
  disk     \* the files under storage_root

vars == <<pc, slot, try, part, disk>>

Name(f) == <<f.slot, f.try, f.part>>
File(c, p, whole) == [slot |-> slot[c], try |-> try[c], part |-> p, by |-> c, whole |-> whole]

Exists(s, n, p) == \E f \in disk : Name(f) = <<s, n, p>>

\* open(2) with O_TRUNC, or a write, of the file of c's part p.
Put(c, p, whole) ==
  disk' = {f \in disk : Name(f) # <<slot[c], try[c], p>>} \cup {File(c, p, whole)}

Ended == {"stored", "failed", "dead"}

Goto(c, where) == pc' = [pc EXCEPT ![c] = where]

Init ==
  /\ pc = [c \in Call |-> "idle"]
  /\ slot = [c \in Call |-> NoSlot]
  /\ try = [c \in Call |-> 1]
  /\ part = [c \in Call |-> 1]
  /\ disk = {}

\* parseMessage and MkdirAll succeed; the time stamp is computed.
Begin(c) ==
  /\ pc[c] = "idle"
  /\ \E s \in Slot : slot' = [slot EXCEPT ![c] = s]
  /\ Goto(c, "open")
  /\ UNCHANGED <<try, part, disk>>

\* Any call on storage_root, or the parse, fails and ends ProcessAndStore with
\* what it has written so far left in place.
Fail(c) ==
  /\ pc[c] \in {"idle", "open", "body", "create", "fill"}
  /\ pc[c] = "create" => part[c] <= Attachments[c]
  /\ Goto(c, "failed")
  /\ UNCHANGED <<slot, try, part, disk>>

\* Mutant: the candidate is not advanced.
OpenTakenAgain(c) ==
  /\ pc[c] = "open"
  /\ Exists(slot[c], try[c], 0)
  /\ UNCHANGED vars

\* Mutant: the candidate is advanced twice.
OpenTakenTwice(c) ==
  /\ pc[c] = "open"
  /\ Exists(slot[c], try[c], 0)
  /\ try' = [try EXCEPT ![c] = @ + 2]
  /\ UNCHANGED <<pc, slot, part, disk>>

\* O_EXCL finds the name taken: the next candidate.
OpenTaken(c) ==
  /\ pc[c] = "open"
  /\ Exists(slot[c], try[c], 0)
  /\ try' = [try EXCEPT ![c] = @ + 1]
  /\ UNCHANGED <<pc, slot, part, disk>>

\* Mutant: the first candidate is opened without O_EXCL.
OpenFirst(c) ==
  /\ pc[c] = "open"
  /\ try[c] = 1 \/ ~Exists(slot[c], try[c], 0)
  /\ Put(c, 0, FALSE)
  /\ Goto(c, "body")
  /\ UNCHANGED <<slot, try, part>>

\* O_EXCL creates the body file, empty: the prefix is c's.
OpenFree(c) ==
  /\ pc[c] = "open"
  /\ ~Exists(slot[c], try[c], 0)
  /\ Put(c, 0, FALSE)
  /\ Goto(c, "body")
  /\ UNCHANGED <<slot, try, part>>

WriteBody(c) ==
  /\ pc[c] = "body"
  /\ Put(c, 0, TRUE)
  /\ Goto(c, "create")
  /\ UNCHANGED <<slot, try, part>>

\* os.WriteFile of the next attachment: it truncates or creates the file ...
CreateAttachment(c) ==
  /\ pc[c] = "create" /\ part[c] <= Attachments[c]
  /\ Put(c, part[c], FALSE)
  /\ Goto(c, "fill")
  /\ UNCHANGED <<slot, try, part>>

\* ... and writes it.
FillAttachment(c) ==
  /\ pc[c] = "fill"
  /\ Put(c, part[c], TRUE)
  /\ part' = [part EXCEPT ![c] = @ + 1]
  /\ Goto(c, "create")
  /\ UNCHANGED <<slot, try>>

\* Mutant: the last attachment is skipped.
ReturnEarly(c) ==
  /\ pc[c] = "create" /\ part[c] >= Attachments[c]
  /\ Goto(c, "stored")
  /\ UNCHANGED <<slot, try, part, disk>>

\* All attachments are written: the Result names the files.
Return(c) ==
  /\ pc[c] = "create" /\ part[c] > Attachments[c]
  /\ Goto(c, "stored")
  /\ UNCHANGED <<slot, try, part, disk>>

CallStep(c) == \/ OpenTaken(c) \/ OpenFree(c) \/ WriteBody(c)
               \/ CreateAttachment(c) \/ FillAttachment(c) \/ Return(c)

\* The process dies: the calls under way end, the files stay.
Crash ==
  /\ pc' = [c \in Call |-> IF pc[c] \in Ended \cup {"idle"} THEN pc[c] ELSE "dead"]
  /\ UNCHANGED <<slot, try, part, disk>>

Next == Crash \/ \E c \in Call : Begin(c) \/ CallStep(c) \/ Fail(c)

Spec == Init /\ [][Next]_vars

\* A call under way is scheduled and its file operations return; no client
\* need begin one, and none need fail.
FairSpec == Spec /\ \A c \in Call : WF_vars(CallStep(c))

-----------------------------------------------------------------------------

FileSet == [slot : Slot, try : Nat \ {0}, part : Nat, by : Call, whole : BOOLEAN]

TypeOK ==
  /\ pc \in [Call -> {"idle", "open", "body", "create", "fill"} \cup Ended]
  /\ slot \in [Call -> Slot \cup {NoSlot}]
  /\ try \in [Call -> Nat \ {0}]
  /\ part \in [Call -> Nat \ {0}]
  /\ disk \subseteq FileSet

\* A Result is true for ever: the body and every attachment it names are there,
\* complete and of that message, however many calls share the directory and the
\* second, before or after it, finished, failed or cut short.
StoredIntact ==
  \A c \in Call : pc[c] = "stored" =>
    \A p \in 0..Attachments[c] : File(c, p, TRUE) \in disk

\* No call overwrites or truncates what another has written.
NoClobber ==
  [][\A f \in disk : \E g \in disk' : Name(g) = Name(f) /\ g.by = f.by /\ (f.whole => g.whole)]_vars

\* The search for a free candidate has no bound of its own, but passes one that
\* another call has taken each time: with n other calls in a directory and
\* second it looks at n + 1 at most.
TriesAreFew ==
  \A c \in Call : slot[c] # NoSlot =>
    try[c] <= 1 + Cardinality({d \in Call \ {c} : slot[d] = slot[c]})

\* A call under way ends: the search for a free candidate terminates although
\* other calls keep taking candidates.
CallsEnd == \A c \in Call : (pc[c] = "open") ~> (pc[c] \in Ended)
=============================================================================
