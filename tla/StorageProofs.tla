--------------------------- MODULE StorageProofs ---------------------------
(***************************************************************************)
(* Theorems about Storage, for any number of calls, slots and attachments.  *)
(* StoredIntact is not inductive: it holds because whoever owns a body file *)
(* owns every name built from its prefix (IInv).                            *)
(***************************************************************************)
EXTENDS Storage, FiniteSetTheorems, TLAPS

Writing == {"body", "create", "fill"}

\* A name is the name of one file.
OneFilePerName == \A f, g \in disk : Name(f) = Name(g) => f = g

\* A call that has not opened its body owns no file; any other call's files are
\* under its prefix, and the body of that prefix is its own.
PrefixOwned ==
  \A f \in disk :
    /\ pc[f.by] \notin {"idle", "open"}
    /\ f.slot = slot[f.by] /\ f.try = try[f.by]
    /\ \E w \in BOOLEAN : File(f.by, 0, w) \in disk

\* What call c has written so far.
WrittenBy(c) ==
  /\ pc[c] # "idle" => (slot[c] \in Slot \/ pc[c] = "failed")
  /\ pc[c] \in {"idle", "open", "body"} => part[c] = 1
  /\ pc[c] = "body" => File(c, 0, FALSE) \in disk
  /\ pc[c] \in {"create", "fill", "stored"} => \A p \in 0..(part[c] - 1) : File(c, p, TRUE) \in disk
  /\ pc[c] = "fill" => part[c] <= Attachments[c]
  /\ pc[c] = "stored" => part[c] > Attachments[c]

Written == \A c \in Call : WrittenBy(c)

\* A call writes its parts in order: what it is about to create is not there.
InOrder ==
  \A f \in disk : /\ pc[f.by] = "body" => f.part = 0
                  /\ pc[f.by] = "create" => f.part < part[f.by]
                  /\ pc[f.by] = "fill" => f.part <= part[f.by]

IInv == TypeOK /\ OneFilePerName /\ PrefixOwned /\ InOrder /\ Written

-----------------------------------------------------------------------------
(* Lemmas about files.                                                     *)

\* A file built by File has the name and the owner it says.
LEMMA FileName ==
  ASSUME NEW c \in Call, NEW p \in Nat, NEW w \in BOOLEAN
  PROVE  /\ Name(File(c, p, w)) = <<slot[c], try[c], p>>
         /\ File(c, p, w).by = c /\ File(c, p, w).slot = slot[c] /\ File(c, p, w).try = try[c]
         /\ File(c, p, w).part = p /\ File(c, p, w).whole = w
  BY DEF Name, File

\* A file of a type-correct disk is the record of its fields.
LEMMA FileFields ==
  ASSUME TypeOK, PrefixOwned, NEW f \in disk
  PROVE  f = File(f.by, f.part, f.whole) /\ f.by \in Call /\ f.part \in Nat /\ f.whole \in BOOLEAN
  BY DEF TypeOK, FileSet, PrefixOwned, File

\* Who owns a prefix owns every file under it.
LEMMA SameOwner ==
  ASSUME IInv, NEW c \in Call, NEW v \in BOOLEAN, File(c, 0, v) \in disk,
         NEW f \in disk, f.slot = slot[c], f.try = try[c]
  PROVE  f.by = c
<1>1. PICK w \in BOOLEAN : File(f.by, 0, w) \in disk
  BY DEF IInv, PrefixOwned
<1>2. f.by \in Call /\ slot[f.by] = slot[c] /\ try[f.by] = try[c]
  BY FileFields DEF IInv, PrefixOwned
<1>3. Name(File(f.by, 0, w)) = Name(File(c, 0, v))
  BY <1>2, FileName
<1>4. File(f.by, 0, w) = File(c, 0, v)
  BY <1>1, <1>3 DEF IInv, OneFilePerName
<1>5. QED BY <1>2, <1>4, FileName

\* A write under a prefix the call owns replaces its own file of that part and
\* nothing else.
LEMMA PutOwn ==
  ASSUME IInv, NEW c \in Call, NEW p \in Nat, NEW v \in BOOLEAN, NEW w \in BOOLEAN,
         File(c, 0, v) \in disk, Put(c, p, w)
  PROVE  /\ File(c, p, w) \in disk'
         /\ \A f \in disk : f.by # c \/ f.part # p => f \in disk'
         /\ \A f \in disk' : (f \in disk /\ Name(f) # <<slot[c], try[c], p>>) \/ f = File(c, p, w)
<1>1. \A f \in disk : Name(f) = <<slot[c], try[c], p>> => f.by = c /\ f.part = p
  BY SameOwner DEF Name
<1>2. QED BY <1>1 DEF Put

\* Creating a body whose name is free adds one file, and its prefix has no other.
LEMMA PutNew ==
  ASSUME IInv, NEW c \in Call, ~Exists(slot[c], try[c], 0), Put(c, 0, FALSE)
  PROVE  /\ disk' = disk \cup {File(c, 0, FALSE)}
         /\ \A f \in disk : ~(f.slot = slot[c] /\ f.try = try[c])
<1>1. ASSUME NEW f \in disk, f.slot = slot[c], f.try = try[c] PROVE FALSE
  <2>1. PICK w \in BOOLEAN : File(f.by, 0, w) \in disk
    BY DEF IInv, PrefixOwned
  <2>2. f.by \in Call /\ slot[f.by] = slot[c] /\ try[f.by] = try[c]
    BY <1>1, FileFields DEF IInv, PrefixOwned
  <2>3. Name(File(f.by, 0, w)) = <<slot[c], try[c], 0>>
    BY <2>2, FileName
  <2>4. QED BY <2>1, <2>3 DEF Exists
<1>2. \A f \in disk : Name(f) # <<slot[c], try[c], 0>>
  BY DEF Exists
<1>3. QED BY <1>1, <1>2 DEF Put

-----------------------------------------------------------------------------
(* The invariant.                                                          *)

LEMMA InitInv == Init => IInv
  BY AttachmentsAssumption
  DEF Init, IInv, TypeOK, OneFilePerName, PrefixOwned, InOrder, Written, WrittenBy, Ended, FileSet

\* Steps that write no file and move no prefix that has files.
LEMMA NoWriteInv ==
  ASSUME IInv, UNCHANGED disk,
         \/ \E c \in Call : Begin(c) \/ Fail(c) \/ OpenTaken(c) \/ Return(c)
         \/ Crash \/ UNCHANGED vars
  PROVE  IInv'
<1> USE DEF IInv, TypeOK, OneFilePerName, PrefixOwned, InOrder, Written, WrittenBy, Ended, File, Name
<1>0. \A f \in disk : f.by \in Call
  BY DEF FileSet
<1>1. ASSUME NEW c \in Call, Begin(c) PROVE IInv'
  BY <1>0, <1>1, NoSlotAssumption DEF Begin, Goto
<1>2. ASSUME NEW c \in Call, Fail(c) PROVE IInv'
  BY <1>0, <1>2 DEF Fail, Goto
<1>3. ASSUME NEW c \in Call, OpenTaken(c) PROVE IInv'
  <2>1. /\ pc[c] = "open" /\ UNCHANGED <<pc, slot, part>>
        /\ try' \in [Call -> Nat \ {0}] /\ \A d \in Call \ {c} : try'[d] = try[d]
    BY <1>3 DEF OpenTaken
  <2>2. \A f \in disk : f.by # c
    BY <2>1
  <2>3. TypeOK' /\ OneFilePerName'
    BY <2>1
  <2>4. PrefixOwned' /\ InOrder'
    BY <1>0, <2>1, <2>2
  <2>5. Written'
    BY <2>1
  <2>6. QED BY <2>3, <2>4, <2>5
<1>4. ASSUME NEW c \in Call, Return(c) PROVE IInv'
  BY <1>0, <1>4, AttachmentsAssumption DEF Return, Goto
<1>5. CASE Crash
  BY <1>0, <1>5 DEF Crash
<1>6. CASE UNCHANGED vars
  BY <1>6 DEF vars
<1>7. QED BY <1>1, <1>2, <1>3, <1>4, <1>5, <1>6

\* O_EXCL: the new body has a new name and a prefix without files.
LEMMA OpenFreeInv == ASSUME IInv, NEW c \in Call, OpenFree(c) PROVE IInv'
<1>1. /\ disk' = disk \cup {File(c, 0, FALSE)}
      /\ \A f \in disk : ~(f.slot = slot[c] /\ f.try = try[c])
  BY PutNew DEF OpenFree
<1>2. /\ pc[c] = "open" /\ pc' = [pc EXCEPT ![c] = "body"]
      /\ UNCHANGED <<slot, try, part>>
  BY DEF OpenFree, Goto
<1>3. slot[c] \in Slot /\ \A f \in disk : f.by \in Call /\ f.by # c
  BY <1>2 DEF IInv, TypeOK, PrefixOwned, Written, WrittenBy, FileSet
<1>4. TypeOK'
  <2>1. File(c, 0, FALSE) \in FileSet
    BY <1>3 DEF IInv, TypeOK, FileSet, File
  <2>2. QED BY <1>1, <1>2, <2>1 DEF IInv, TypeOK
<1>5. OneFilePerName'
  <2>1. \A f \in disk : Name(f) # Name(File(c, 0, FALSE))
    BY <1>1, FileName DEF Name
  <2>2. QED BY <1>1, <2>1 DEF IInv, OneFilePerName, Name
<1>6. PrefixOwned'
  <2>1. ASSUME NEW f \in disk' PROVE /\ pc'[f.by] \notin {"idle", "open"}
                                     /\ f.slot = slot'[f.by] /\ f.try = try'[f.by]
                                     /\ \E w \in BOOLEAN : File(f.by, 0, w)' \in disk'
    <3>1. CASE f \in disk
      BY <1>1, <1>2, <1>3, <3>1 DEF IInv, TypeOK, PrefixOwned, File
    <3>2. CASE f = File(c, 0, FALSE)
      BY <1>1, <1>2, <3>2, FileName DEF IInv, TypeOK, File
    <3>3. QED BY <1>1, <3>1, <3>2
  <2>2. QED BY <2>1 DEF PrefixOwned
<1>7. Written'
  BY <1>1, <1>2, <1>3 DEF IInv, TypeOK, Written, WrittenBy, File
<1>8. InOrder'
  <2>0. File(c, 0, FALSE).by = c /\ File(c, 0, FALSE).part = 0
    BY DEF File
  <2>1. \A f \in disk' : f.by = c => f.part = 0
    BY <1>1, <1>3, <2>0
  <2>2. \A f \in disk' : f.by # c => f \in disk /\ f.by \in Call
    BY <1>1, <1>3, <2>0
  <2>3. QED BY <1>2, <2>1, <2>2 DEF IInv, TypeOK, InOrder
<1>9. QED BY <1>4, <1>5, <1>6, <1>7, <1>8 DEF IInv

\* A write of a part under the call's own prefix: what the call, and every other
\* call, has written before is kept.
LEMMA WriteInv ==
  ASSUME IInv, NEW c \in Call, WriteBody(c) \/ CreateAttachment(c) \/ FillAttachment(c)
  PROVE  IInv'
<1>1. /\ UNCHANGED <<slot, try>>
      /\ \A d \in Call \ {c} : pc'[d] = pc[d] /\ part'[d] = part[d]
      /\ pc' \in [Call -> {"idle", "open", "body", "create", "fill"} \cup Ended]
      /\ part' \in [Call -> Nat \ {0}]
  <2>1. CASE WriteBody(c)
    BY <2>1 DEF WriteBody, Goto, IInv, TypeOK
  <2>2. CASE CreateAttachment(c)
    BY <2>2 DEF CreateAttachment, Goto, IInv, TypeOK
  <2>3. CASE FillAttachment(c)
    BY <2>3 DEF FillAttachment, Goto, IInv, TypeOK
  <2>4. QED BY <2>1, <2>2, <2>3
<1>2. PICK p \in Nat, w \in BOOLEAN :
        /\ Put(c, p, w)
        /\ \/ /\ pc[c] = "body" /\ pc'[c] = "create"
              /\ p = 0 /\ w = TRUE /\ part'[c] = 1
           \/ /\ pc[c] = "create" /\ pc'[c] = "fill"
              /\ p = part[c] /\ w = FALSE /\ part'[c] = part[c] /\ p <= Attachments[c]
           \/ /\ pc[c] = "fill" /\ pc'[c] = "create"
              /\ p = part[c] /\ w = TRUE /\ part'[c] = part[c] + 1
  <2>1. CASE WriteBody(c)
    <3>1. Put(c, 0, TRUE) /\ pc[c] = "body" /\ pc'[c] = "create" /\ part'[c] = 1
      BY <2>1 DEF WriteBody, Goto, IInv, TypeOK, Written, WrittenBy
    <3>2. QED BY <3>1
  <2>2. CASE CreateAttachment(c)
    <3>1. /\ Put(c, part[c], FALSE) /\ pc[c] = "create" /\ pc'[c] = "fill"
          /\ part[c] \in Nat /\ part'[c] = part[c] /\ part[c] <= Attachments[c]
      BY <2>2 DEF CreateAttachment, Goto, IInv, TypeOK
    <3>2. QED BY <3>1
  <2>3. CASE FillAttachment(c)
    <3>1. /\ Put(c, part[c], TRUE) /\ pc[c] = "fill" /\ pc'[c] = "create"
          /\ part[c] \in Nat /\ part'[c] = part[c] + 1
      BY <2>3 DEF FillAttachment, Goto, IInv, TypeOK
    <3>2. QED BY <3>1
  <2>4. QED BY <2>1, <2>2, <2>3
<1>3. PICK v \in BOOLEAN : File(c, 0, v) \in disk
  <2>1. CASE pc[c] = "body"
    BY <2>1 DEF IInv, Written, WrittenBy
  <2>2. CASE pc[c] \in {"create", "fill"}
    <3>1. 0 \in 0..(part[c] - 1)
      BY DEF IInv, TypeOK
    <3>2. QED BY <2>2, <3>1 DEF IInv, Written, WrittenBy
  <2>3. QED BY <1>2, <2>1, <2>2
<1>4. slot[c] \in Slot
  BY <1>2 DEF IInv, Written, WrittenBy
<1>5. \A f \in disk : f.by # c \/ f.part # p => f \in disk'
  BY <1>2, <1>3, PutOwn
<1>6. File(c, p, w) \in disk'
  BY <1>2, <1>3, PutOwn
<1>7. \A f \in disk' : (f \in disk /\ Name(f) # <<slot[c], try[c], p>>) \/ f = File(c, p, w)
  BY <1>2, <1>3, PutOwn
<1>8. TypeOK'
  <2>1. File(c, p, w) \in FileSet
    BY <1>4 DEF IInv, TypeOK, FileSet, File
  <2>2. QED BY <1>1, <1>7, <2>1 DEF IInv, TypeOK
<1>9. OneFilePerName'
  <2>1. Name(File(c, p, w)) = <<slot[c], try[c], p>>
    BY FileName
  <2>2. QED BY <1>7, <2>1 DEF IInv, OneFilePerName, Name
<1>10. PrefixOwned'
  <2>1. SUFFICES ASSUME NEW f \in disk'
                 PROVE  /\ pc'[f.by] \notin {"idle", "open"}
                        /\ f.slot = slot[f.by] /\ f.try = try[f.by]
                        /\ \E x \in BOOLEAN : File(f.by, 0, x) \in disk'
    BY <1>1 DEF PrefixOwned, File
  <2>2. \E x \in BOOLEAN : File(c, 0, x) \in disk'
    <3>1. CASE p = 0
      BY <1>6, <3>1
    <3>2. CASE p # 0
      BY <1>3, <1>5, <3>2, FileName
    <3>3. QED BY <3>1, <3>2
  <2>3. CASE f.by = c
    <3>1. f.slot = slot[c] /\ f.try = try[c]
      BY <1>7, <2>3, FileName DEF IInv, PrefixOwned
    <3>2. QED BY <1>2, <2>2, <2>3, <3>1
  <2>4. CASE f.by # c
    <3>1. f \in disk
      BY <1>7, <2>4, FileName
    <3>2. f.by \in Call
      BY <3>1, FileFields DEF IInv
    <3>3. PICK x \in BOOLEAN : File(f.by, 0, x) \in disk
      BY <3>1 DEF IInv, PrefixOwned
    <3>4. File(f.by, 0, x) \in disk'
      BY <1>5, <2>4, <3>2, <3>3, FileName
    <3>5. QED BY <1>1, <2>4, <3>1, <3>2, <3>4 DEF IInv, PrefixOwned
  <2>5. QED BY <2>3, <2>4
<1>11. Written'
  <2>1. SUFFICES ASSUME NEW d \in Call PROVE WrittenBy(d)'
    BY DEF Written
  <2>2. CASE d # c
    <3>1. \A q \in Nat, x \in BOOLEAN : File(d, q, x) \in disk => File(d, q, x) \in disk'
      BY <1>5, <2>2, FileName
    <3>2. WrittenBy(d) /\ part[d] \in Nat
      BY DEF IInv, TypeOK, Written
    <3>3. /\ \A q \in 0..(part[d] - 1) : q \in Nat
          /\ pc'[d] = pc[d] /\ part'[d] = part[d] /\ slot'[d] = slot[d]
          /\ \A q, x : File(d, q, x)' = File(d, q, x)
      BY <1>1, <2>2, <3>2 DEF File
    <3>4. pc[d] \in {"create", "fill", "stored"} =>
            \A q \in 0..(part[d] - 1) : File(d, q, TRUE) \in disk'
      BY <3>1, <3>2, <3>3 DEF WrittenBy
    <3>5. pc[d] = "body" => File(d, 0, FALSE) \in disk'
      BY <3>1, <3>2 DEF WrittenBy
    <3>6. QED
      <4> HIDE DEF File
      <4>1. QED BY <3>2, <3>3, <3>4, <3>5 DEF WrittenBy
  <2>3. CASE d = c
    <3>1. \A q \in Nat : q # p /\ File(c, q, TRUE) \in disk => File(c, q, TRUE) \in disk'
      BY <1>5, FileName
    <3>2. part[c] \in Nat /\ WrittenBy(c)
      BY DEF IInv, TypeOK, Written
    <3>3. ASSUME NEW q \in 0..(part'[c] - 1) PROVE File(c, q, TRUE) \in disk'
      <4>1. q \in Nat /\ part'[c] \in Nat /\ q < part'[c]
        BY <1>1
      <4>2. CASE q = p
        <5>1. w = TRUE
          BY <1>2, <3>2, <4>1, <4>2
        <5>2. QED BY <1>6, <4>2, <5>1
      <4>3. CASE q # p
        <5>1. pc[c] \in {"create", "fill"} /\ q \in 0..(part[c] - 1)
          BY <1>2, <3>2, <4>1, <4>3
        <5>2. QED BY <3>1, <3>2, <4>1, <4>3, <5>1 DEF WrittenBy
      <4>4. QED BY <4>2, <4>3
    <3>4. QED BY <1>1, <1>2, <1>4, <2>3, <3>3 DEF WrittenBy, File
  <2>4. QED BY <2>2, <2>3
<1>12. InOrder'
  <2>1. SUFFICES ASSUME NEW f \in disk'
                 PROVE  /\ pc'[f.by] = "body" => f.part = 0
                        /\ pc'[f.by] = "create" => f.part < part'[f.by]
                        /\ pc'[f.by] = "fill" => f.part <= part'[f.by]
    BY DEF InOrder
  <2>2. part[c] \in Nat
    BY DEF IInv, TypeOK
  <2>3. CASE f = File(c, p, w)
    BY <1>2, <2>2, <2>3, FileName
  <2>4. CASE f \in disk
    <3>1. f.by \in Call /\ f.part \in Nat
      BY <2>4, FileFields DEF IInv
    <3>2. QED BY <1>1, <1>2, <2>2, <2>4, <3>1 DEF IInv, InOrder
  <2>5. QED BY <1>7, <2>3, <2>4
<1>13. QED BY <1>8, <1>9, <1>10, <1>11, <1>12 DEF IInv

\* Every step is one of the three kinds above.
LEMMA StepKinds ==
  ASSUME [Next]_vars
  PROVE  \/ /\ UNCHANGED disk
            /\ \/ \E c \in Call : Begin(c) \/ Fail(c) \/ OpenTaken(c) \/ Return(c)
               \/ Crash \/ UNCHANGED vars
         \/ \E c \in Call : OpenFree(c)
         \/ \E c \in Call : WriteBody(c) \/ CreateAttachment(c) \/ FillAttachment(c)
  BY DEF Next, CallStep, Begin, Fail, OpenTaken, Return, Crash, vars

\* IInv, who has written which file and in which order, is inductive
\* (ProcessAndStore).
THEOREM Invariance == Spec => []IInv
<1>1. IInv /\ [Next]_vars => IInv'
  BY StepKinds, NoWriteInv, OpenFreeInv, WriteInv
<1>2. QED BY InitInv, <1>1, PTL DEF Spec

\* Files, candidates and program counters keep their types.
THEOREM TypeCorrect == Spec => []TypeOK
<1>1. IInv => TypeOK BY DEF IInv
<1>2. QED BY Invariance, <1>1, PTL

\* What ProcessAndStore returned stays true (storage.go: the O_EXCL open of
\* writeBodyWithCollisionHandling protects the attachments too).
THEOREM StoredIntactHolds == Spec => []StoredIntact
<1>1. IInv => StoredIntact
  <2>1. SUFFICES ASSUME IInv, NEW c \in Call, pc[c] = "stored", NEW p \in 0..Attachments[c]
                 PROVE  File(c, p, TRUE) \in disk
    BY DEF StoredIntact
  <2>2. p \in 0..(part[c] - 1)
    <3>1. part[c] > Attachments[c]
      BY <2>1 DEF IInv, Written, WrittenBy
    <3>2. part[c] \in Nat /\ Attachments[c] \in Nat
      BY <2>1, AttachmentsAssumption DEF IInv, TypeOK
    <3>3. QED BY <2>1, <3>1, <3>2
  <2>3. QED BY <2>1, <2>2 DEF IInv, Written, WrittenBy
<1>2. QED BY Invariance, <1>1, PTL

\* No step of any call, and no crash, truncates or replaces a file of another
\* call, or a complete file (os.WriteFile opens with O_TRUNC).
LEMMA StepNoClobber ==
  ASSUME IInv, [Next]_vars, NEW f \in disk
  PROVE  \E g \in disk' : Name(g) = Name(f) /\ g.by = f.by /\ (f.whole => g.whole)
<1>1. CASE UNCHANGED disk
  BY <1>1
<1>2. ASSUME NEW c \in Call, OpenFree(c) PROVE f \in disk'
  BY <1>2, PutNew DEF OpenFree
<1>3. ASSUME NEW c \in Call, NEW p \in Nat, NEW v \in BOOLEAN, NEW w \in BOOLEAN,
             File(c, 0, v) \in disk, Put(c, p, w),
             f.by = c /\ f.part = p /\ f.whole => w
      PROVE  \E g \in disk' : Name(g) = Name(f) /\ g.by = f.by /\ (f.whole => g.whole)
  <2>1. CASE f.by # c \/ f.part # p
    BY <1>3, <2>1, PutOwn
  <2>2. CASE f.by = c /\ f.part = p
    <3>1. File(c, p, w) \in disk'
      BY <1>3, PutOwn
    <3>2. Name(f) = <<slot[c], try[c], p>>
      BY <2>2 DEF IInv, PrefixOwned, Name
    <3>3. QED BY <1>3, <2>2, <3>1, <3>2, FileName
  <2>3. QED BY <2>1, <2>2
<1>4. ASSUME NEW c \in Call, WriteBody(c)
      PROVE  \E g \in disk' : Name(g) = Name(f) /\ g.by = f.by /\ (f.whole => g.whole)
  <2>1. File(c, 0, FALSE) \in disk /\ Put(c, 0, TRUE)
    BY <1>4 DEF WriteBody, IInv, Written, WrittenBy
  <2>2. QED BY <1>3, <2>1
<1>5. ASSUME NEW c \in Call, CreateAttachment(c) \/ FillAttachment(c)
      PROVE  \E g \in disk' : Name(g) = Name(f) /\ g.by = f.by /\ (f.whole => g.whole)
  <2>1. part[c] \in Nat /\ 0 \in 0..(part[c] - 1)
    BY DEF IInv, TypeOK
  <2>2. File(c, 0, TRUE) \in disk
    BY <1>5, <2>1 DEF CreateAttachment, FillAttachment, IInv, Written, WrittenBy
  <2>3. CASE CreateAttachment(c)
    <3>1. f.by = c => f.part # part[c]
      BY <2>1, <2>3, FileFields DEF CreateAttachment, IInv, InOrder
    <3>2. QED BY <1>3, <2>1, <2>2, <2>3, <3>1 DEF CreateAttachment
  <2>4. CASE FillAttachment(c)
    BY <1>3, <2>1, <2>2, <2>4 DEF FillAttachment
  <2>5. QED BY <1>5, <2>3, <2>4
<1>6. QED BY <1>1, <1>2, <1>4, <1>5, StepKinds

\* The steps keep what others have written (ProcessAndStore).
THEOREM NoClobberHolds == Spec => NoClobber
<1>1. IInv /\ [Next]_vars =>
        [\A f \in disk : \E g \in disk' : Name(g) = Name(f) /\ g.by = f.by /\ (f.whole => g.whole)]_vars
  BY StepNoClobber
<1>2. QED BY Invariance, <1>1, PTL DEF Spec, NoClobber

-----------------------------------------------------------------------------
(* The search for a free candidate.                                        *)

\* Finitely many calls have begun, and every candidate one of them has passed is
\* the body of another call.
SearchInv ==
  /\ IsFiniteSet({c \in Call : pc[c] # "idle"})
  /\ \A c \in Call : pc[c] = "idle" => slot[c] = NoSlot /\ try[c] = 1
  /\ \A c \in Call : \A n \in 1..(try[c] - 1) : Exists(slot[c], n, 0)

LEMMA InitSearch == Init => SearchInv
<1> SUFFICES ASSUME Init PROVE SearchInv
  OBVIOUS
<1>1. {c \in Call : pc[c] # "idle"} = {} /\ 1..0 = {}
  BY DEF Init
<1>2. QED BY <1>1, FS_EmptySet DEF Init, SearchInv

\* What exists goes on existing.
LEMMA StepExists ==
  ASSUME IInv, [Next]_vars, NEW s, NEW n, Exists(s, n, 0)
  PROVE  \E f \in disk' : Name(f) = <<s, n, 0>>
  BY StepNoClobber DEF Exists

LEMMA StepSearch ==
  ASSUME IInv, SearchInv, [Next]_vars
  PROVE  SearchInv'
<1> DEFINE Begun == {c \in Call : pc[c] # "idle"}
<1>1. IsFiniteSet(Begun')
  <2>1. Begun' \subseteq Begun \/ \E c \in Call : Begun' = Begun \cup {c}
    <3>1. CASE Crash \/ UNCHANGED vars
      BY <3>1 DEF Crash, vars, Ended, IInv, TypeOK
    <3>2. ASSUME NEW c \in Call, Begin(c) \/ CallStep(c) \/ Fail(c) PROVE Begun' = Begun \cup {c}
      BY <3>2 DEF Begin, CallStep, Fail, OpenTaken, OpenFree, WriteBody, CreateAttachment, FillAttachment,
                  Return, Goto, IInv, TypeOK
    <3>3. QED BY <3>1, <3>2 DEF Next
  <2>2. IsFiniteSet(Begun)
    BY DEF SearchInv
  <2> HIDE DEF Begun
  <2>3. QED BY <2>1, <2>2, FS_AddElement, FS_Subset
<1>2. \A c \in Call : pc'[c] = "idle" => slot'[c] = NoSlot /\ try'[c] = 1
  BY DEF SearchInv, Next, Begin, CallStep, Fail, OpenTaken, OpenFree, WriteBody, CreateAttachment, FillAttachment,
         Return, Goto, Crash, Ended, vars, IInv, TypeOK
<1>3. ASSUME NEW c \in Call, NEW n \in 1..(try'[c] - 1) PROVE \E f \in disk' : Name(f) = <<slot'[c], n, 0>>
  <2>1. CASE slot'[c] = slot[c] /\ try'[c] = try[c]
    <3>1. PICK s : s = slot[c]
      OBVIOUS
    <3>2. Exists(s, n, 0)
      BY <1>3, <2>1, <3>1 DEF SearchInv
    <3>3. QED BY <2>1, <3>1, <3>2, StepExists
  <2>2. CASE Begin(c)
    <3>1. try'[c] = 1
      BY <2>2 DEF Begin, SearchInv
    <3>2. QED BY <1>3, <3>1
  <2>3. CASE OpenTaken(c)
    <3>1. slot'[c] = slot[c] /\ try'[c] = try[c] + 1 /\ try[c] \in Nat \ {0} /\ Exists(slot[c], try[c], 0)
      BY <2>3 DEF OpenTaken, IInv, TypeOK
    <3>2. n = try[c] \/ n \in 1..(try[c] - 1)
      BY <1>3, <3>1
    <3>3. PICK s : s = slot[c]
      OBVIOUS
    <3>4. Exists(s, n, 0)
      BY <3>1, <3>2, <3>3 DEF SearchInv
    <3>5. QED BY <3>1, <3>3, <3>4, StepExists
  <2>4. QED
    BY <2>1, <2>2, <2>3
    DEF Next, Begin, CallStep, Fail, OpenTaken, OpenFree, WriteBody, CreateAttachment, FillAttachment, Return,
        Crash, vars, IInv, TypeOK
<1>4. QED BY <1>1, <1>2, <1>3 DEF SearchInv, Exists

\* The search for a free candidate, which has no bound of its own, looks at no
\* more than one candidate for each other call that shares directory and second
\* and one that is free (writeBodyWithCollisionHandling).
THEOREM TriesAreFewHolds == Spec => []TriesAreFew
<1>1. ASSUME IInv, SearchInv, NEW c \in Call, slot[c] # NoSlot
      PROVE  try[c] <= 1 + Cardinality({d \in Call \ {c} : slot[d] = slot[c]})
  <2> DEFINE others == {d \in Call \ {c} : slot[d] = slot[c]}
             passed == 1..(try[c] - 1)
             owner == [n \in passed |-> CHOOSE d \in others : try[d] = n]
  <2>1. try[c] \in Nat \ {0}
    BY <1>1 DEF IInv, TypeOK
  <2>2. IsFiniteSet(others)
    <3>1. others \subseteq {d \in Call : pc[d] # "idle"}
      BY <1>1 DEF SearchInv
    <3>2. QED BY <1>1, <3>1, FS_Subset DEF SearchInv
  <2>3. \A n \in passed : \E d \in others : try[d] = n
    <3>1. SUFFICES ASSUME NEW n \in passed PROVE \E d \in others : try[d] = n
      OBVIOUS
    <3>2. PICK f \in disk : Name(f) = <<slot[c], n, 0>>
      BY <1>1 DEF SearchInv, Exists
    <3>3. f.by \in Call /\ slot[f.by] = slot[c] /\ try[f.by] = n
      BY <1>1, <3>2, FileFields DEF IInv, PrefixOwned, Name
    <3>4. n # try[c]
      BY <2>1
    <3>5. QED BY <3>3, <3>4
  <2> HIDE DEF others, passed
  <2>4. \A n \in passed : owner[n] \in others /\ try[owner[n]] = n
    BY <2>3
  <2>5. owner \in Injection(passed, others)
    BY <2>4 DEF Injection, IsInjective
  <2>6. Cardinality(passed) <= Cardinality(others) /\ Cardinality(others) \in Nat
    BY <2>2, <2>5, FS_Injection, FS_CardinalityType
  <2>7. Cardinality(passed) = try[c] - 1
    <3>1. 1 \in Int /\ try[c] - 1 \in Int
      BY <2>1
    <3>2. Cardinality(1..(try[c] - 1)) = IF 1 > try[c] - 1 THEN 0 ELSE try[c] - 1 - 1 + 1
      BY <3>1, FS_Interval
    <3>3. QED BY <2>1, <3>2 DEF passed
  <2>8. try[c] <= 1 + Cardinality(others)
    BY <2>1, <2>6, <2>7
  <2>9. QED BY <2>8 DEF others
<1>2. IInv /\ SearchInv /\ [Next]_vars => SearchInv'
  BY StepSearch
<1>3. IInv /\ SearchInv => TriesAreFew
  BY <1>1 DEF TriesAreFew
<1>4. QED BY Invariance, InitSearch, <1>2, <1>3, PTL DEF Spec
=============================================================================
