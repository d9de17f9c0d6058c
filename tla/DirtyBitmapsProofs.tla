------------------------- MODULE DirtyBitmapsProofs -------------------------
(***************************************************************************)
(* Theorems of DirtyBitmaps, for any disks, blocks, image files and         *)
(* overlapping passes.  ChangesRemembered and SavesChanges need that no     *)
(* pass fails after it has cleared a bitmap: the code does not see to it,   *)
(* and with "fail_after_clear" both are false.                              *)
(***************************************************************************)
EXTENDS DirtyBitmaps, TLAPS

\* No pass fails once it has cleared a bitmap.
ClearsLast == "fail_after_clear" \notin Env

-----------------------------------------------------------------------------
(* The inductive invariant *)

\* Pass p knows where it is: it is at a disk it has not finished and clears only
\* disks with a name; a full backup reads whole disks, any backup those without
\* a bitmap.
PassOK(p) ==
    /\ pc[p] = "idle" => got[p] = {}
    /\ pc[p] \in {"queried", "read", "clear"} => disk[p] \in todo[p]
    /\ pc[p] = "clear" => disk[p] \in job[p].names
    /\ pc[p] = "queried" /\ ranges[p] # {} => disk[p] \in tracked
    /\ pc[p] # "idle" =>
         \A b \in Blocks :
            (DiskOf[b] \notin todo[p] \/ (pc[p] \in {"read", "clear"} /\ DiskOf[b] = disk[p]))
                => b \in got[p] \/ DiskOf[b] \in tracked
    /\ pc[p] # "idle" /\ ~job[p].incremental =>
         /\ pc[p] = "queried" => ranges[p] = {}
         /\ \A b \in Blocks : DiskOf[b] \notin todo[p] => b \in got[p]
         /\ pc[p] \in {"read", "clear"} =>
              \A b \in Blocks : DiskOf[b] = disk[p] => b \in got[p]

\* Pass p has b as it is now, and its clear of b's bit is behind it.
Holds(p, b) ==
    b \in current[p] /\ DiskOf[b] \notin todo[p] /\ DiskOf[b] \in job[p].names

\* The disk of b has a bitmap, or may get one.
Prone(b) == DiskOf[b] \in tracked \cup untried

\* A change to b is forgotten only if b is forgettable ...
Safe(b) ==
    hasFull /\ Prone(b) /\ b \in unsaved \ dirty /\ (\A p \in Passes : ~Holds(p, b)) =>
        b \in forgettable

\* ... and also if pass q, which will clear b's bit, does not have b.
SafeFrom(q, b) ==
    /\ hasFull /\ Prone(b) /\ b \in unsaved /\ TooLateFor(q, b)
    /\ \A p \in Passes : ~Holds(p, b)
    /\ ~(pc[q] \in {"read", "clear"} /\ b \in current[q])
    => b \in forgettable

\* Block b was written since pass p has read it, and no other pass has read it.
Behind(p, b) == b \in got[p] /\ b \notin current[p] \cup reread[p] \cup wrong[p]

\* Then no manifest has the change, its bit is set or it is forgettable, and it
\* is forgettable if q will clear the bit.
BehindSafe(p, b) ==
    Behind(p, b) =>
        /\ b \in unsaved
        /\ Prone(b) =>
            /\ b \in dirty \cup forgettable
            /\ \A q \in Passes : TooLateFor(q, b) => b \in forgettable

\* A pass that has b as it is now has read it after one that has not.
ReadOrder(p, b) ==
    \A q \in Passes \ {p} :
        b \in current[q] /\ b \in got[p] \ (current[p] \cup wrong[p]) => b \in reread[p]

BlockOK(b) ==
    /\ Safe(b)
    /\ \A p \in Passes : SafeFrom(p, b) /\ BehindSafe(p, b) /\ ReadOrder(p, b)

BitmapInv ==
    /\ TypeOK
    /\ \A p \in Passes : PassOK(p)
    /\ \A b \in Blocks : BlockOK(b)

-----------------------------------------------------------------------------
(* Types *)

LEMMA TypeInit == Init => TypeOK
<1> SUFFICES ASSUME Init PROVE TypeOK
  OBVIOUS
<1>1. /\ NoJob \in [incremental : BOOLEAN, names : SUBSET {}]
      /\ named = {} /\ job = [p \in Passes |-> NoJob]
  BY DEF NoJob, Init
<1>2. job \in [Passes -> [incremental : BOOLEAN, names : SUBSET named]]
  BY <1>1
<1>3. \A p \in Passes : current[p] \cup reread[p] \cup wrong[p] \subseteq got[p]
  BY DEF Init
<1>4. /\ tracked \subseteq Disks /\ given \subseteq Disks /\ named \subseteq given
      /\ dirty \subseteq {b \in Blocks : DiskOf[b] \in tracked}
      /\ unsaved \subseteq Blocks /\ forgettable \subseteq Blocks
      /\ untried \subseteq Disks /\ initDone \in BOOLEAN /\ hasFull \in BOOLEAN
  BY DEF Init
<1>5. /\ pc \in [Passes -> {"idle", "loop", "queried", "read", "clear"}]
      /\ todo \in [Passes -> SUBSET Disks]
      /\ disk \in [Passes -> Disks \cup {NoDisk}]
      /\ ranges \in [Passes -> SUBSET Blocks] /\ got \in [Passes -> SUBSET Blocks]
  BY DEF Init
<1>6. /\ current \in [Passes -> SUBSET Blocks] /\ reread \in [Passes -> SUBSET Blocks]
      /\ wrong \in [Passes -> SUBSET Blocks] /\ written \in [Passes -> SUBSET Blocks]
  BY DEF Init
<1> QED
  BY <1>2, <1>3, <1>4, <1>5, <1>6 DEF TypeOK

LEMMA RangesAreBlocks ==
    ASSUME TypeOK, NEW p \in Passes
    PROVE  ReadRanges(p) \subseteq Blocks /\ Found(p) \subseteq ReadRanges(p)
BY DEF TypeOK, ReadRanges, BlocksOf, Found

\* What a read does, whether the file is there or not.
LEMMA WhatIsRead ==
    ASSUME NEW p \in Passes, Read(p) \/ ReadMissing(p)
    PROVE  \E r, w \in SUBSET ReadRanges(p) :
              /\ pc[p] = "queried" /\ Got(p, r, w)
              /\ ranges[p] = {} => r \cup w = ReadRanges(p)
<1>1. Found(p) \subseteq ReadRanges(p)
  BY DEF Found
<1>2. CASE Read(p)
  <2>1. PICK w \in SUBSET (ReadRanges(p) \ Found(p)) : Got(p, Found(p), w)
    BY <1>2 DEF Read
  <2>2. ranges[p] = {} => Found(p) \cup w = ReadRanges(p)
    BY DEF Found
  <2>3. pc[p] = "queried"
    BY <1>2 DEF Read
  <2> QED
    BY <1>1, <2>1, <2>2, <2>3
<1>3. CASE ReadMissing(p)
  BY <1>3 DEF ReadMissing
<1> QED
  BY <1>2, <1>3

LEMMA TypeRead ==
    ASSUME TypeOK, NEW p \in Passes, Read(p) \/ ReadMissing(p)
    PROVE  TypeOK'
<1>1. PICK r, w \in SUBSET ReadRanges(p) : pc[p] = "queried" /\ Got(p, r, w)
  BY WhatIsRead
<1>2. r \subseteq Blocks /\ w \subseteq Blocks /\ ReadRanges(p) \subseteq Blocks
  BY RangesAreBlocks
<1>3. pc' \in [Passes -> {"idle", "loop", "queried", "read", "clear"}]
  BY <1>1 DEF TypeOK, Got, Goto
<1>4. got' \in [Passes -> SUBSET Blocks] /\ reread' \in [Passes -> SUBSET Blocks]
  BY <1>1, <1>2 DEF TypeOK, Got
<1>5. current' \in [Passes -> SUBSET Blocks] /\ wrong' \in [Passes -> SUBSET Blocks]
  BY <1>1, <1>2 DEF TypeOK, Got
<1>6. \A q \in Passes : /\ current'[q] \subseteq got'[q]
                        /\ wrong'[q] \subseteq got'[q] /\ reread'[q] \subseteq got'[q]
  BY <1>1, <1>2 DEF TypeOK, Got
<1>7. forgettable' \subseteq Blocks
  BY <1>1, <1>2 DEF TypeOK, Got
<1>8. UNCHANGED <<qemuVars, dbVars, initVars, todo, disk, job, ranges, written>>
  BY <1>1 DEF Got
<1> QED
  BY <1>3, <1>4, <1>5, <1>6, <1>7, <1>8 DEF TypeOK, qemuVars, dbVars, initVars

LEMMA TypeOver ==
    ASSUME TypeOK, NEW p \in Passes, Commit(p) \/ Fail(p)
    PROVE  TypeOK'
<1>1. Over(p)
  BY DEF Commit, Fail
<1>2. hasFull' \in BOOLEAN /\ unsaved' \subseteq Blocks /\ forgettable' \subseteq Blocks
  BY DEF Commit, Fail, TypeOK
<1>3. /\ job' = [job EXCEPT ![p] = NoJob]
      /\ NoJob \in [incremental : BOOLEAN, names : SUBSET named]
  BY <1>1 DEF Over, NoJob
<1>4. job' \in [Passes -> [incremental : BOOLEAN, names : SUBSET named]]
  BY <1>3 DEF TypeOK
<1> QED
  BY <1>1, <1>2, <1>4 DEF TypeOK, Over, Goto, qemuVars, initVars

LEMMA TypeNext == TypeOK /\ [Next]_vars => TypeOK'
<1> SUFFICES ASSUME TypeOK, [Next]_vars PROVE TypeOK'
  OBVIOUS
<1> USE DEF TypeOK, qemuVars, dbVars, initVars, dataVars, Goto, ReadRanges, BlocksOf
<1>1. CASE UNCHANGED vars
  BY <1>1 DEF vars
<1>2. ASSUME NEW d \in Disks, AddBitmap(d) PROVE TypeOK'
  BY <1>2 DEF AddBitmap
<1>3. CASE NameBitmaps
  BY <1>3 DEF NameBitmaps
<1>4. ASSUME NEW b \in Blocks, GuestWrite(b) PROVE TypeOK'
  BY <1>4 DEF GuestWrite
<1>5. ASSUME NEW p \in Passes, Start(p) PROVE TypeOK'
  BY <1>5 DEF Start
<1>6. ASSUME NEW p \in Passes, NEW d \in Disks, Query(p, d) PROVE TypeOK'
  BY <1>6 DEF Query
<1>7. ASSUME NEW p \in Passes, Read(p) \/ ReadMissing(p) PROVE TypeOK'
  BY <1>7, TypeRead
<1>8. ASSUME NEW p \in Passes, WriteDisk(p) PROVE TypeOK'
  <2>1. /\ pc' = [pc EXCEPT ![p] = "clear"] \/ pc' = [pc EXCEPT ![p] = "loop"]
        /\ todo' = todo \/ todo' = [todo EXCEPT ![p] = @ \ {disk[p]}]
    BY <1>8 DEF WriteDisk
  <2>2. UNCHANGED <<qemuVars, dbVars, initVars, disk, job, ranges, dataVars,
                    written, forgettable>>
    BY <1>8 DEF WriteDisk
  <2>3. pc' \in [Passes -> {"idle", "loop", "queried", "read", "clear"}]
    BY <2>1
  <2>4. todo' \in [Passes -> SUBSET Disks]
    BY <2>1
  <2> QED
    BY <2>2, <2>3, <2>4
<1>9. ASSUME NEW p \in Passes, Clear(p) PROVE TypeOK'
  BY <1>9 DEF Clear
<1>10. ASSUME NEW p \in Passes, Commit(p) \/ Fail(p) PROVE TypeOK'
  BY <1>10, TypeOver
<1> QED
  BY <1>1, <1>2, <1>3, <1>4, <1>5, <1>6, <1>7, <1>8, <1>9, <1>10 DEF Next

\* Every variable keeps its type: a disk is named only if its command has not
\* raised, a pass has loaded only committed names, bits are set on disks with a
\* bitmap, and what a pass has current, reread or wrong it has got.
THEOREM TypeCorrect == Spec => []TypeOK
BY TypeInit, TypeNext, PTL DEF Spec

-----------------------------------------------------------------------------
(* The invariant *)

LEMMA StepAddBitmap ==
    ASSUME BitmapInv, NEW d \in Disks, AddBitmap(d)
    PROVE  BitmapInv'
<1> USE DEF AddBitmap, qemuVars, dbVars, initVars, dataVars, Goto, ReadRanges, BlocksOf
<1>1. TypeOK /\ TypeOK'
  BY TypeNext DEF BitmapInv, Next, AddBitmap
<1>2. ASSUME NEW q \in Passes PROVE PassOK(q)'
  BY <1>1 DEF TypeOK, BitmapInv, PassOK
<1>3. ASSUME NEW c \in Blocks PROVE Safe(c)'
  BY <1>1 DEF TypeOK, BitmapInv, BlockOK, Safe, Holds, Prone
<1>4. ASSUME NEW c \in Blocks, NEW q \in Passes PROVE SafeFrom(q, c)'
  BY <1>1 DEF TypeOK, BitmapInv, BlockOK, SafeFrom, Safe, Holds, TooLateFor, Prone
<1>5. ASSUME NEW c \in Blocks, NEW q \in Passes PROVE BehindSafe(q, c)'
  BY <1>1 DEF TypeOK, BitmapInv, BlockOK, BehindSafe, Behind, TooLateFor, Prone
<1>6. ASSUME NEW c \in Blocks, NEW q \in Passes PROVE ReadOrder(q, c)'
  BY <1>1 DEF TypeOK, BitmapInv, BlockOK, ReadOrder
<1> QED
  BY <1>1, <1>2, <1>3, <1>4, <1>5, <1>6 DEF BitmapInv, BlockOK

LEMMA StepNameBitmaps ==
    ASSUME BitmapInv, NameBitmaps
    PROVE  BitmapInv'
<1> USE DEF NameBitmaps, qemuVars, dbVars, initVars, dataVars, Goto, ReadRanges, BlocksOf
<1>1. TypeOK /\ TypeOK'
  BY TypeNext DEF BitmapInv, Next, NameBitmaps
<1>2. ASSUME NEW q \in Passes PROVE PassOK(q)'
  BY <1>1 DEF TypeOK, BitmapInv, PassOK
<1>3. ASSUME NEW c \in Blocks PROVE Safe(c)'
  BY <1>1 DEF TypeOK, BitmapInv, BlockOK, Safe, Holds, Prone
<1>4. ASSUME NEW c \in Blocks, NEW q \in Passes PROVE SafeFrom(q, c)'
  BY <1>1 DEF TypeOK, BitmapInv, BlockOK, SafeFrom, Safe, Holds, TooLateFor, Prone
<1>5. ASSUME NEW c \in Blocks, NEW q \in Passes PROVE BehindSafe(q, c)'
  BY <1>1 DEF TypeOK, BitmapInv, BlockOK, BehindSafe, Behind, TooLateFor, Prone
<1>6. ASSUME NEW c \in Blocks, NEW q \in Passes PROVE ReadOrder(q, c)'
  BY <1>1 DEF TypeOK, BitmapInv, BlockOK, ReadOrder
<1> QED
  BY <1>1, <1>2, <1>3, <1>4, <1>5, <1>6 DEF BitmapInv, BlockOK

LEMMA StepGuestWrite ==
    ASSUME BitmapInv, NEW b \in Blocks, GuestWrite(b)
    PROVE  BitmapInv'
<1> USE DEF GuestWrite, Active, qemuVars, dbVars, initVars, dataVars, Goto, ReadRanges, BlocksOf
<1>1. TypeOK /\ TypeOK'
  BY TypeNext DEF BitmapInv, Next, GuestWrite
<1>2. ASSUME NEW q \in Passes PROVE PassOK(q)'
  BY <1>1 DEF TypeOK, BitmapInv, PassOK
<1>3. ASSUME NEW c \in Blocks PROVE Safe(c)'
  BY <1>1 DEF TypeOK, BitmapInv, BlockOK, Safe, Holds, Prone
<1>4. ASSUME NEW c \in Blocks, NEW q \in Passes PROVE SafeFrom(q, c)'
  BY <1>1 DEF TypeOK, BitmapInv, BlockOK, SafeFrom, Safe, Holds, TooLateFor, Prone
<1>5. ASSUME NEW c \in Blocks, NEW q \in Passes PROVE BehindSafe(q, c)'
  BY <1>1 DEF TypeOK, BitmapInv, BlockOK, BehindSafe, Behind, TooLateFor, Prone
<1>6. ASSUME NEW c \in Blocks, NEW q \in Passes PROVE ReadOrder(q, c)'
  BY <1>1 DEF TypeOK, BitmapInv, BlockOK, ReadOrder
<1> QED
  BY <1>1, <1>2, <1>3, <1>4, <1>5, <1>6 DEF BitmapInv, BlockOK

LEMMA StepStart ==
    ASSUME BitmapInv, NEW p \in Passes, Start(p)
    PROVE  BitmapInv'
<1>1. TypeOK /\ TypeOK'
  BY TypeNext DEF BitmapInv, Next
<1>2. /\ pc[p] = "idle" /\ got[p] = {} /\ current[p] = {}
      /\ pc'[p] = "loop" /\ todo'[p] = Disks
  BY <1>1 DEF Start, Goto, BitmapInv, PassOK, TypeOK
<1>3. \A q \in Passes \ {p} : pc'[q] = pc[q] /\ todo'[q] = todo[q] /\ job'[q] = job[q]
  BY <1>1 DEF Start, Goto, TypeOK
<1>4. UNCHANGED <<tracked, untried, dirty, hasFull, unsaved, disk, ranges, got,
                  current, reread, wrong, forgettable>>
  BY DEF Start, qemuVars, dbVars, initVars, dataVars
<1>5. ASSUME NEW q \in Passes PROVE PassOK(q)'
  <2>1. CASE q = p
    BY <1>2, <1>4, <2>1, DiskOfAssumption DEF PassOK
  <2>2. CASE q # p
    <3>1. PassOK(q)
      BY DEF BitmapInv
    <3> QED
      BY <1>3, <1>4, <2>2, <3>1 DEF PassOK
  <2> QED
    BY <2>1, <2>2
<1>6. ASSUME NEW c \in Blocks, NEW q \in Passes PROVE Holds(q, c)' <=> Holds(q, c)
  <2>1. CASE q = p
    BY <1>2, <1>4, <2>1 DEF Holds
  <2>2. CASE q # p
    BY <1>3, <1>4, <2>2 DEF Holds
  <2> QED
    BY <2>1, <2>2
<1>7. ASSUME NEW c \in Blocks, NEW q \in Passes
      PROVE  TooLateFor(q, c)' <=> TooLateFor(q, c)
  BY <1>2, <1>3, <1>4 DEF TooLateFor, ReadRanges, BlocksOf
<1>8. ASSUME NEW c \in Blocks PROVE Safe(c)'
  BY <1>4, <1>6 DEF BitmapInv, BlockOK, Safe, Prone
<1>9. ASSUME NEW c \in Blocks, NEW q \in Passes PROVE SafeFrom(q, c)'
  <2>1. SafeFrom(q, c)
    BY DEF BitmapInv, BlockOK
  <2>2. pc'[q] \in {"read", "clear"} <=> pc[q] \in {"read", "clear"}
    BY <1>2, <1>3
  <2> QED
    BY <1>4, <1>6, <1>7, <2>1, <2>2 DEF SafeFrom, Prone
<1>10. ASSUME NEW c \in Blocks, NEW q \in Passes PROVE BehindSafe(q, c)' /\ ReadOrder(q, c)'
  BY <1>4, <1>7 DEF BitmapInv, BlockOK, BehindSafe, Behind, ReadOrder, Prone
<1> QED
  BY <1>1, <1>5, <1>8, <1>9, <1>10 DEF BitmapInv, BlockOK

LEMMA StepQuery ==
    ASSUME BitmapInv, NEW p \in Passes, NEW d \in Disks, Query(p, d)
    PROVE  BitmapInv'
<1> USE DEF Query, ReadRanges, BlocksOf, qemuVars, dbVars, initVars, dataVars, Goto
<1>1. TypeOK /\ TypeOK'
  BY TypeNext DEF BitmapInv, Next, Query
<1>2. ASSUME NEW q \in Passes PROVE PassOK(q)'
  BY <1>1 DEF TypeOK, BitmapInv, PassOK
<1>3. ASSUME NEW c \in Blocks PROVE Safe(c)'
  BY <1>1 DEF TypeOK, BitmapInv, BlockOK, Safe, Holds, Prone
<1>4. ASSUME NEW c \in Blocks, NEW q \in Passes PROVE SafeFrom(q, c)'
  BY <1>1 DEF TypeOK, BitmapInv, BlockOK, SafeFrom, Safe, Holds, TooLateFor, Prone
<1>5. ASSUME NEW c \in Blocks, NEW q \in Passes PROVE BehindSafe(q, c)'
  BY <1>1 DEF TypeOK, BitmapInv, BlockOK, BehindSafe, Behind, TooLateFor, Prone
<1>6. ASSUME NEW c \in Blocks, NEW q \in Passes PROVE ReadOrder(q, c)'
  BY <1>1 DEF TypeOK, BitmapInv, BlockOK, ReadOrder
<1> QED
  BY <1>1, <1>2, <1>3, <1>4, <1>5, <1>6 DEF BitmapInv, BlockOK

LEMMA StepWriteDisk ==
    ASSUME BitmapInv, NEW p \in Passes, WriteDisk(p)
    PROVE  BitmapInv'
<1>1. TypeOK /\ TypeOK'
  BY TypeNext DEF BitmapInv, Next
<1>2. UNCHANGED <<tracked, untried, dirty, hasFull, unsaved, disk, job, ranges,
                  got, current, reread, wrong, forgettable>>
  BY DEF WriteDisk, qemuVars, dbVars, initVars, dataVars
<1>3. /\ pc[p] = "read"
      /\ \/ disk[p] \in job[p].names /\ pc'[p] = "clear" /\ todo'[p] = todo[p]
         \/ disk[p] \notin job[p].names /\ pc'[p] = "loop" /\ todo'[p] = todo[p] \ {disk[p]}
      /\ \A q \in Passes \ {p} : pc'[q] = pc[q] /\ todo'[q] = todo[q]
  BY <1>1 DEF WriteDisk, Goto, TypeOK
<1>4. ASSUME NEW q \in Passes PROVE PassOK(q)'
  BY <1>2, <1>3 DEF BitmapInv, PassOK
<1>5. ASSUME NEW c \in Blocks, NEW q \in Passes
      PROVE  /\ Holds(q, c)' <=> Holds(q, c)
             /\ TooLateFor(q, c)' => TooLateFor(q, c)
             /\ pc[q] \in {"read", "clear"} /\ TooLateFor(q, c)' => pc'[q] \in {"read", "clear"}
  <2>1. CASE q = p
    BY <1>2, <1>3, <2>1 DEF Holds, TooLateFor
  <2>2. CASE q # p
    BY <1>2, <1>3, <2>2 DEF Holds, TooLateFor, ReadRanges, BlocksOf
  <2> QED
    BY <2>1, <2>2
<1>6. ASSUME NEW c \in Blocks PROVE Safe(c)'
  BY <1>2, <1>5 DEF BitmapInv, BlockOK, Safe, Prone
<1>7. ASSUME NEW c \in Blocks, NEW q \in Passes PROVE SafeFrom(q, c)'
  <2>1. SafeFrom(q, c)
    BY DEF BitmapInv, BlockOK
  <2> QED
    BY <1>2, <1>5, <2>1 DEF SafeFrom, Prone
<1>8. ASSUME NEW c \in Blocks, NEW q \in Passes PROVE BehindSafe(q, c)' /\ ReadOrder(q, c)'
  BY <1>2, <1>5 DEF BitmapInv, BlockOK, BehindSafe, Behind, ReadOrder, Prone
<1> QED
  BY <1>1, <1>4, <1>6, <1>7, <1>8 DEF BitmapInv, BlockOK

LEMMA StepClear ==
    ASSUME BitmapInv, NEW p \in Passes, Clear(p)
    PROVE  BitmapInv'
<1> USE DEF Clear, qemuVars, dbVars, initVars, dataVars, Goto, ReadRanges, BlocksOf
<1>1. TypeOK /\ TypeOK'
  BY TypeNext DEF BitmapInv, Next, Clear
<1>2. ASSUME NEW q \in Passes PROVE PassOK(q)'
  BY <1>1 DEF TypeOK, BitmapInv, PassOK
<1>3. ASSUME NEW c \in Blocks PROVE Safe(c)'
  <2>1. ASSUME NEW q \in Passes, Holds(q, c) PROVE Holds(q, c)'
    BY <1>1, <2>1 DEF TypeOK, Holds
  <2>2. disk[p] \in todo[p] /\ disk[p] \in job[p].names
    BY DEF BitmapInv, PassOK
  <2>3. CASE DiskOf[c] = disk[p]
    <3>1. ~Holds(p, c)' => c \notin current[p]
      BY <1>1, <2>2, <2>3 DEF TypeOK, Holds
    <3>2. SafeFrom(p, c) /\ TooLateFor(p, c)
      BY <2>3 DEF BitmapInv, BlockOK, TooLateFor
    <3> QED
      BY <2>1, <3>1, <3>2 DEF Safe, SafeFrom, Prone
  <2>4. CASE DiskOf[c] # disk[p]
    <3>1. Safe(c) /\ (c \in dirty' <=> c \in dirty)
      BY <2>4 DEF BitmapInv, BlockOK
    <3> QED
      BY <2>1, <3>1 DEF Safe, Prone
  <2> QED
    BY <2>3, <2>4
<1>4. ASSUME NEW c \in Blocks, NEW q \in Passes PROVE SafeFrom(q, c)'
  BY <1>1 DEF TypeOK, BitmapInv, BlockOK, SafeFrom, Safe, Holds, TooLateFor, Prone
<1>5. ASSUME NEW c \in Blocks, NEW q \in Passes PROVE BehindSafe(q, c)'
  BY <1>1 DEF TypeOK, BitmapInv, BlockOK, BehindSafe, Behind, TooLateFor, Prone
<1>6. ASSUME NEW c \in Blocks, NEW q \in Passes PROVE ReadOrder(q, c)'
  BY <1>1 DEF TypeOK, BitmapInv, BlockOK, ReadOrder
<1> QED
  BY <1>1, <1>2, <1>3, <1>4, <1>5, <1>6 DEF BitmapInv, BlockOK

LEMMA StepRead ==
    ASSUME BitmapInv, NEW p \in Passes, Read(p) \/ ReadMissing(p)
    PROVE  BitmapInv'
<1>1. TypeOK /\ TypeOK'
  BY TypeNext DEF BitmapInv, Next
<1>2. PICK r, w \in SUBSET ReadRanges(p) :
         /\ pc[p] = "queried" /\ Got(p, r, w)
         /\ ranges[p] = {} => r \cup w = ReadRanges(p)
  BY WhatIsRead
<1> USE DEF Got, ReadRanges, BlocksOf, qemuVars, dbVars, initVars, Goto
<1>3. ASSUME NEW q \in Passes PROVE PassOK(q)'
  BY <1>1, <1>2 DEF TypeOK, BitmapInv, PassOK
<1>4. ASSUME NEW c \in Blocks PROVE Safe(c)'
  BY <1>1, <1>2 DEF TypeOK, BitmapInv, BlockOK, Safe, Holds, Prone
<1>5. ASSUME NEW c \in Blocks, NEW q \in Passes PROVE SafeFrom(q, c)'
  BY <1>1, <1>2 DEF TypeOK, BitmapInv, BlockOK, SafeFrom, Safe, Holds, TooLateFor, Prone
<1>6. ASSUME NEW c \in Blocks, NEW q \in Passes PROVE BehindSafe(q, c)'
  BY <1>1, <1>2 DEF TypeOK, BitmapInv, BlockOK, BehindSafe, Behind, TooLateFor, Prone
<1>7. ASSUME NEW c \in Blocks, NEW q \in Passes PROVE ReadOrder(q, c)'
  BY <1>1, <1>2 DEF TypeOK, BitmapInv, BlockOK, ReadOrder
<1> QED
  BY <1>1, <1>3, <1>4, <1>5, <1>6, <1>7 DEF BitmapInv, BlockOK

LEMMA StepCommit ==
    ASSUME BitmapInv, NEW p \in Passes, Commit(p)
    PROVE  BitmapInv'
<1>1. TypeOK /\ TypeOK'
  BY TypeNext DEF BitmapInv, Next
<1>2. /\ pc[p] = "loop" /\ todo[p] = {} /\ Over(p) /\ PassOK(p)
      /\ current[p] \subseteq got[p]
  BY <1>1 DEF Commit, BitmapInv, TypeOK
<1>3. /\ hasFull' = (hasFull \/ ~job[p].incremental)
      /\ unsaved' = (unsaved \ current[p]) \cup (got[p] \ current[p])
      /\ forgettable' = (forgettable \ current[p])
                          \cup wrong[p] \cup (reread[p] \ current[p])
  BY DEF Commit
<1>4. UNCHANGED <<dirty, tracked, untried>>
  BY <1>2 DEF Over, qemuVars, initVars
<1>5. /\ pc'[p] = "idle" /\ got'[p] = {} /\ current'[p] = {}
      /\ \A q \in Passes \ {p} :
            /\ pc'[q] = pc[q] /\ todo'[q] = todo[q] /\ disk'[q] = disk[q]
            /\ job'[q] = job[q] /\ ranges'[q] = ranges[q]
  BY <1>1, <1>2 DEF Over, Goto, TypeOK
<1>6. \A q \in Passes \ {p} :
         /\ got'[q] = got[q] /\ current'[q] = current[q]
         /\ reread'[q] = reread[q] /\ wrong'[q] = wrong[q]
  BY <1>1, <1>2 DEF Over, TypeOK
<1>7. ASSUME NEW q \in Passes PROVE PassOK(q)'
  <2>1. CASE q = p
    BY <1>5, <2>1 DEF PassOK
  <2>2. CASE q # p
    <3>1. PassOK(q)
      BY DEF BitmapInv
    <3> QED
      BY <1>4, <1>5, <1>6, <2>2, <3>1 DEF PassOK
  <2> QED
    BY <2>1, <2>2
<1>8. ASSUME NEW c \in Blocks, NEW q \in Passes
      PROVE  /\ q # p => (Holds(q, c)' <=> Holds(q, c))
             /\ TooLateFor(q, c)' => q # p /\ TooLateFor(q, c)
  <2>1. CASE q = p
    BY <1>5, <2>1 DEF TooLateFor
  <2>2. CASE q # p
    BY <1>5, <1>6, <2>2 DEF TooLateFor, Holds, ReadRanges, BlocksOf
  <2> QED
    BY <2>1, <2>2
<1>9. ASSUME NEW c \in Blocks, hasFull', c \in unsaved', c \notin got[p]
      PROVE  /\ hasFull /\ c \in unsaved /\ c \notin current[p] /\ ~Holds(p, c)
             /\ c \in forgettable => c \in forgettable'
  BY <1>2, <1>3, <1>9 DEF PassOK, Holds
<1>10. ASSUME NEW c \in Blocks, c \in unsaved', c \in got[p], c \notin forgettable'
       PROVE  Behind(p, c) /\ c \notin forgettable
  BY <1>3, <1>10 DEF Behind
<1>11. ASSUME NEW c \in Blocks PROVE Safe(c)'
  <2> SUFFICES ASSUME hasFull', Prone(c), c \in unsaved', c \notin dirty,
                      c \notin forgettable', \A q \in Passes : ~Holds(q, c)'
               PROVE  FALSE
    BY <1>4 DEF Safe, Prone
  <2>1. Safe(c) /\ BehindSafe(p, c)
    BY DEF BitmapInv, BlockOK
  <2> QED
    BY <1>4, <1>8, <1>9, <1>10, <2>1 DEF Safe, BehindSafe, Prone
<1>12. ASSUME NEW c \in Blocks, NEW q \in Passes PROVE SafeFrom(q, c)'
  <2> SUFFICES ASSUME hasFull', Prone(c), c \in unsaved', TooLateFor(q, c)',
                      c \notin forgettable',
                      \A r \in Passes : ~Holds(r, c)',
                      ~(pc'[q] \in {"read", "clear"} /\ c \in current'[q])
               PROVE  FALSE
    BY <1>4 DEF SafeFrom, Prone
  <2>1. SafeFrom(q, c) /\ BehindSafe(p, c)
    BY DEF BitmapInv, BlockOK
  <2>2. TooLateFor(q, c) /\ q # p
    BY <1>8
  <2>3. ~(pc[q] \in {"read", "clear"} /\ c \in current[q])
    BY <1>5, <1>6, <2>2
  <2> QED
    BY <1>4, <1>8, <1>9, <1>10, <2>1, <2>2, <2>3 DEF SafeFrom, BehindSafe, Prone
<1>13. ASSUME NEW c \in Blocks, NEW q \in Passes PROVE BehindSafe(q, c)'
  <2> SUFFICES ASSUME Behind(q, c)'
               PROVE  /\ c \in unsaved'
                      /\ Prone(c) =>
                          /\ c \in dirty \cup forgettable'
                          /\ \A r \in Passes : TooLateFor(r, c)' => c \in forgettable'
    BY <1>4 DEF BehindSafe, Prone
  <2>1. q # p
    BY <1>5 DEF Behind
  <2>2. Behind(q, c)
    BY <1>6, <2>1 DEF Behind
  <2>3. BehindSafe(q, c) /\ ReadOrder(q, c)
    BY DEF BitmapInv, BlockOK
  <2>4. c \notin current[p]
    BY <2>1, <2>2, <2>3 DEF ReadOrder, Behind
  <2> QED
    BY <1>4, <1>3, <1>8, <2>2, <2>3, <2>4 DEF BehindSafe, Prone
<1>14. ASSUME NEW c \in Blocks, NEW q \in Passes PROVE ReadOrder(q, c)'
  <2>1. ReadOrder(q, c)
    BY DEF BitmapInv, BlockOK
  <2> QED
    BY <1>5, <1>6, <2>1 DEF ReadOrder
<1> QED
  BY <1>1, <1>7, <1>11, <1>12, <1>13, <1>14 DEF BitmapInv, BlockOK

LEMMA StepFail ==
    ASSUME ClearsLast, BitmapInv, NEW p \in Passes, Fail(p)
    PROVE  BitmapInv'
<1> USE DEF ClearsLast, Fail, Over, NoJob, ClearedBy, qemuVars, dbVars, initVars, dataVars, Goto, ReadRanges, BlocksOf
<1>1. TypeOK /\ TypeOK'
  BY TypeNext DEF BitmapInv, Next, Fail
<1>2. ASSUME NEW q \in Passes PROVE PassOK(q)'
  BY <1>1 DEF TypeOK, BitmapInv, PassOK
<1>3. ASSUME NEW c \in Blocks PROVE Safe(c)'
  BY <1>1 DEF TypeOK, BitmapInv, BlockOK, Safe, Holds, Prone
<1>4. ASSUME NEW c \in Blocks, NEW q \in Passes PROVE SafeFrom(q, c)'
  BY <1>1 DEF TypeOK, BitmapInv, BlockOK, SafeFrom, Safe, Holds, TooLateFor, Prone
<1>5. ASSUME NEW c \in Blocks, NEW q \in Passes PROVE BehindSafe(q, c)'
  BY <1>1 DEF TypeOK, BitmapInv, BlockOK, BehindSafe, Behind, TooLateFor, Prone
<1>6. ASSUME NEW c \in Blocks, NEW q \in Passes PROVE ReadOrder(q, c)'
  BY <1>1 DEF TypeOK, BitmapInv, BlockOK, ReadOrder
<1> QED
  BY <1>1, <1>2, <1>3, <1>4, <1>5, <1>6 DEF BitmapInv, BlockOK

LEMMA InvInit == Init => BitmapInv
<1> SUFFICES ASSUME Init PROVE BitmapInv
  OBVIOUS
<1>1. TypeOK
  BY TypeInit
<1>2. /\ ~hasFull
      /\ \A p \in Passes : pc[p] = "idle" /\ got[p] = {} /\ current[p] = {}
  BY DEF Init
<1>3. ASSUME NEW p \in Passes PROVE PassOK(p)
  BY <1>2 DEF PassOK
<1>4. ASSUME NEW b \in Blocks PROVE BlockOK(b)
  BY <1>2 DEF BlockOK, Safe, SafeFrom, BehindSafe, Behind, ReadOrder
<1> QED
  BY <1>1, <1>3, <1>4 DEF BitmapInv

LEMMA InvNext == ClearsLast /\ BitmapInv /\ [Next]_vars => BitmapInv'
<1> SUFFICES ASSUME ClearsLast, BitmapInv, [Next]_vars PROVE BitmapInv'
  OBVIOUS
<1>1. CASE UNCHANGED vars
  <2>1. TypeOK'
    BY <1>1, TypeNext DEF BitmapInv
  <2>2. ASSUME NEW q \in Passes PROVE PassOK(q)'
    BY <1>1 DEF vars, BitmapInv, PassOK
  <2>3. ASSUME NEW c \in Blocks, NEW q \in Passes PROVE TooLateFor(q, c)' <=> TooLateFor(q, c)
    BY <1>1 DEF vars, TooLateFor, ReadRanges, BlocksOf
  <2>4. ASSUME NEW c \in Blocks PROVE BlockOK(c)'
    BY <1>1, <2>3 DEF vars, BitmapInv, BlockOK, Safe, SafeFrom, BehindSafe, Behind, ReadOrder, Holds, Prone
  <2> QED
    BY <2>1, <2>2, <2>4 DEF BitmapInv
<1>2. CASE \E d \in Disks : AddBitmap(d)
  BY <1>2, StepAddBitmap
<1>3. CASE NameBitmaps
  BY <1>3, StepNameBitmaps
<1>4. CASE \E b \in Blocks : GuestWrite(b)
  BY <1>4, StepGuestWrite
<1>5. ASSUME NEW p \in Passes, Start(p) PROVE BitmapInv'
  BY <1>5, StepStart
<1>6. ASSUME NEW p \in Passes, NEW d \in Disks, Query(p, d) PROVE BitmapInv'
  BY <1>6, StepQuery
<1>7. ASSUME NEW p \in Passes, Read(p) \/ ReadMissing(p) PROVE BitmapInv'
  BY <1>7, StepRead
<1>8. ASSUME NEW p \in Passes, WriteDisk(p) \/ Clear(p) PROVE BitmapInv'
  BY <1>8, StepWriteDisk, StepClear
<1>9. ASSUME NEW p \in Passes, Commit(p) \/ Fail(p) PROVE BitmapInv'
  BY <1>9, StepCommit, StepFail
<1> QED
  BY <1>1, <1>2, <1>3, <1>4, <1>5, <1>6, <1>7, <1>8, <1>9 DEF Next

\* A change is forgotten only in the ways that forgettable records, for any
\* number of disks, blocks and overlapping passes, whichever bitmaps QEMU has
\* refused and wherever the image file has the blocks: a clear that loses nothing
\* rests on what the pass holds (SafeFrom), a commit on what became of the
\* blocks written since they were read (BehindSafe, ReadOrder).
THEOREM ChangesRemembered ==
    ASSUME ClearsLast
    PROVE  Spec => []ForgottenOnlyAtRisk
<1>1. BitmapInv => ForgottenOnlyAtRisk
  BY DEF BitmapInv, BlockOK, Safe, Holds, Prone, ForgottenOnlyAtRisk, Forgotten
<1> QED
  BY <1>1, InvInit, InvNext, PTL DEF Spec

-----------------------------------------------------------------------------
(* What a successful pass saves *)

\* What pass p has got and does not hold any more was written since it began,
\* or is not its own data; so was a block whose bit is set although p has
\* passed its disk, unless it is saved or at risk.
WrittenOK(p) ==
    /\ job[p].incremental => hasFull
    /\ got[p] \ (current[p] \cup wrong[p]) \subseteq written[p]
    /\ \A b \in dirty \ got[p] :
         pc[p] # "idle" /\ (DiskOf[b] \notin todo[p] \/ TooLateFor(p, b)) =>
            b \in written[p] \/ b \in forgettable \/ b \notin unsaved

LEMMA WrittenInit == Init => \A p \in Passes : WrittenOK(p)
BY DEF Init, WrittenOK, NoJob

LEMMA WrittenNext ==
    ASSUME BitmapInv, \A p \in Passes : WrittenOK(p), [Next]_vars
    PROVE  \A p \in Passes : WrittenOK(p)'
<1> SUFFICES ASSUME NEW q \in Passes PROVE WrittenOK(q)'
  OBVIOUS
<1>0. TypeOK /\ TypeOK' /\ PassOK(q) /\ WrittenOK(q)
  BY TypeNext DEF BitmapInv
<1> USE DEF WrittenOK, TooLateFor, ReadRanges, BlocksOf, Goto
<1>1. CASE UNCHANGED vars
  BY <1>0, <1>1 DEF vars
<1>2. CASE NameBitmaps \/ \E d \in Disks : AddBitmap(d)
  BY <1>0, <1>2 DEF NameBitmaps, AddBitmap, qemuVars, dataVars, dbVars
<1>3. ASSUME NEW b \in Blocks, GuestWrite(b) PROVE WrittenOK(q)'
  BY <1>0, <1>3 DEF GuestWrite, Active, TypeOK, PassOK, initVars
<1>4. ASSUME NEW p \in Passes, Start(p) PROVE WrittenOK(q)'
  <2>1. UNCHANGED <<dirty, hasFull, unsaved, disk, ranges, got, current, wrong,
                    written, forgettable>>
    BY <1>4 DEF Start, qemuVars, dataVars, dbVars
  <2>2. CASE q = p
    <3>1. /\ got[q] = {} /\ todo'[q] = Disks /\ pc'[q] = "loop"
          /\ job'[q].incremental => hasFull
      BY <1>0, <1>4, <2>2 DEF Start, TypeOK, PassOK
    <3> QED
      BY <1>0, <2>1, <3>1, DiskOfAssumption DEF TypeOK
  <2>3. CASE q # p
    <3>1. pc'[q] = pc[q] /\ todo'[q] = todo[q] /\ job'[q] = job[q]
      BY <1>0, <1>4, <2>3 DEF Start, TypeOK
    <3> QED
      BY <1>0, <2>1, <3>1
  <2> QED
    BY <2>2, <2>3
<1>5. ASSUME NEW p \in Passes, NEW d \in Disks, Query(p, d) PROVE WrittenOK(q)'
  BY <1>0, <1>5 DEF Query, TypeOK, qemuVars, dataVars, dbVars
<1>6. ASSUME NEW p \in Passes, Read(p) \/ ReadMissing(p) PROVE WrittenOK(q)'
  <2>1. PICK r, w \in SUBSET ReadRanges(p) : pc[p] = "queried" /\ Got(p, r, w)
    BY <1>6, WhatIsRead
  <2>2. /\ UNCHANGED <<dirty, hasFull, unsaved, todo, disk, job, ranges, written>>
        /\ forgettable' = forgettable \cup (ReadRanges(p) \ r)
    BY <2>1 DEF Got, qemuVars, dbVars
  <2>3. CASE q = p
    <3>1. /\ pc[q] = "queried" /\ pc'[q] = "read"
          /\ got'[q] = got[q] \cup r \cup w
          /\ current'[q] = current[q] \cup r /\ wrong'[q] = wrong[q] \cup w
      BY <1>0, <2>1, <2>3 DEF Got, TypeOK
    <3> QED
      BY <1>0, <2>2, <2>3, <3>1
  <2>4. CASE q # p
    <3>1. /\ pc'[q] = pc[q] /\ got'[q] = got[q]
          /\ current'[q] = current[q] /\ wrong'[q] = wrong[q]
      BY <1>0, <2>1, <2>4 DEF Got, TypeOK
    <3> QED
      BY <1>0, <2>2, <3>1
  <2> QED
    BY <2>3, <2>4
<1>7. ASSUME NEW p \in Passes, WriteDisk(p) PROVE WrittenOK(q)'
  BY <1>0, <1>7 DEF WriteDisk, TypeOK, PassOK, qemuVars, dbVars, dataVars
<1>8. ASSUME NEW p \in Passes, Clear(p) PROVE WrittenOK(q)'
  BY <1>0, <1>8 DEF Clear, TypeOK, PassOK, dbVars, dataVars
<1>9. ASSUME NEW p \in Passes, Commit(p) \/ Fail(p) PROVE WrittenOK(q)'
  <2>0. hasFull => hasFull'
    BY <1>0, <1>9 DEF Commit, Fail, TypeOK
  <2>1. Over(p) /\ UNCHANGED dirty
    BY <1>9 DEF Commit, Fail, Over, qemuVars
  <2>2. CASE q = p
    BY <1>0, <2>1, <2>2 DEF Over, NoJob, TypeOK
  <2>3. CASE q # p
    <3>1. /\ pc'[q] = pc[q] /\ todo'[q] = todo[q] /\ disk'[q] = disk[q]
          /\ job'[q] = job[q] /\ ranges'[q] = ranges[q] /\ got'[q] = got[q]
          /\ current'[q] = current[q] /\ wrong'[q] = wrong[q] /\ written'[q] = written[q]
      BY <1>0, <2>1, <2>3 DEF Over, TypeOK
    <3>2. ASSUME NEW b \in Blocks, b \in forgettable \/ b \notin unsaved
          PROVE  b \in forgettable' \/ b \notin unsaved'
      <4>1. CASE Fail(p)
        BY <3>2, <4>1 DEF Fail
      <4>2. CASE Commit(p)
        <5>1. BehindSafe(p, b) /\ current[p] \subseteq got[p]
          BY <1>0 DEF BitmapInv, BlockOK, TypeOK
        <5> QED
          BY <3>2, <4>2, <5>1 DEF Commit, BehindSafe, Behind
      <4> QED
        BY <1>9, <4>1, <4>2
    <3>3. dirty \subseteq Blocks
      BY <1>0 DEF TypeOK
    <3> QED
      BY <1>0, <2>0, <2>1, <3>1, <3>2, <3>3
  <2> QED
    BY <2>2, <2>3
<1> QED
  BY <1>1, <1>2, <1>3, <1>4, <1>5, <1>6, <1>7, <1>8, <1>9 DEF Next

\* A backup that succeeds holds every block as it was when it began, or newer:
\* what it has not is at risk, was written since, or is in the hands of
\* another pass.  It has all of a disk whose bitmap was refused (PassOK).
THEOREM SavesChanges ==
    ASSUME ClearsLast
    PROVE  Spec => SuccessSavesChanges
<1> DEFINE Inv == BitmapInv /\ \A p \in Passes : WrittenOK(p)
<1>1. ASSUME Inv, [Next]_vars
      PROVE  \A p \in Passes :
                Commit(p) =>
                    \A b \in unsaved' :
                        \/ b \in written[p] \/ b \in forgettable'
                        \/ \E q \in Passes \ {p} : b \in current[q]
  <2> SUFFICES ASSUME NEW p \in Passes, Commit(p), NEW b \in unsaved',
                      b \notin written[p], b \notin forgettable',
                      \A q \in Passes \ {p} : b \notin current[q]
               PROVE  FALSE
    OBVIOUS
  <2>1. b \in Blocks /\ current[p] \subseteq got[p] /\ PassOK(p) /\ WrittenOK(p)
    BY <1>1, TypeNext DEF BitmapInv, TypeOK
  <2>2. /\ pc[p] = "loop" /\ todo[p] = {}
        /\ unsaved' = (unsaved \ current[p]) \cup (got[p] \ current[p])
        /\ forgettable' = (forgettable \ current[p])
                            \cup wrong[p] \cup (reread[p] \ current[p])
    BY DEF Commit
  <2>3. b \notin got[p] /\ b \notin current[p] /\ b \notin forgettable /\ b \in unsaved
    BY <2>1, <2>2 DEF WrittenOK
  <2>4. hasFull
    BY <2>1, <2>2, <2>3 DEF PassOK, WrittenOK
  <2>5. b \notin dirty
    BY <2>1, <2>2, <2>3 DEF WrittenOK
  <2>6. Safe(b) /\ \A q \in Passes : ~Holds(q, b)
    BY <1>1, <2>1, <2>3 DEF BitmapInv, BlockOK, Holds
  <2>7. Prone(b)
    BY <2>1, <2>2, <2>3, DiskOfAssumption DEF PassOK, Prone
  <2> QED
    BY <2>3, <2>4, <2>5, <2>6, <2>7 DEF Safe
<1>2. Init => Inv
  BY InvInit, WrittenInit
<1>3. Inv /\ [Next]_vars => Inv'
  BY InvNext, WrittenNext
<1> HIDE DEF Inv
<1>4. Spec => []Inv
  BY <1>2, <1>3, PTL DEF Spec
<1> QED
  BY <1>1, <1>4, PTL DEF Spec, SuccessSavesChanges

=============================================================================
