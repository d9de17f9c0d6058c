---------------------------- MODULE DirtyBitmaps ----------------------------
(***************************************************************************)
(* The blocks of one VM's disks between guest, dirty bitmaps and backups:   *)
(* _backup_disk, query_dirty_bitmap, read_disk_ranges and                   *)
(* clear_and_reset_bitmap of app/services/backup_service.py, and            *)
(* _init_dirty_bitmaps of app/services/vm_service.py.                       *)
(*                                                                          *)
(* A step is one exchange with QEMU, one read, or one commit; the guest     *)
(* writes between any two of them.  A block is what one bit of the bitmap   *)
(* stands for.  Its contents are not modelled: unsaved holds the blocks     *)
(* whose contents the newest manifest that has the block does not hold.     *)
(* Ranges are positions on the guest's disk, but they are cut out of the    *)
(* image file: only the blocks InPlace are found there, for the others the  *)
(* bytes of something else, or none beyond the end of the file.             *)
(* Passes overlap when a message is delivered again (see BackupJobs).       *)
(* A read of a whole disk is one step: a write while it goes on comes       *)
(* before or after the read of its own block, and different blocks do not   *)
(* disturb each other.                                                      *)
(*                                                                          *)
(* forgettable is a history of the ways in which the code lets go of a      *)
(* change, each recorded when it happens and not by looking at unsaved.  A  *)
(* pass that fails after it has cleared a bitmap is not one of them: it is  *)
(* what step 4 of run_backup, after the manifest, is to rule out.  But the  *)
(* code clears in _backup_disk, before the commit: "fail_after_clear".      *)
(***************************************************************************)
EXTENDS Integers, FiniteSets

CONSTANTS
    Blocks,  \* the blocks of the disks that are backup_enabled
    Disks,   \* these disks
    DiskOf,  \* DiskOf[b]: the disk of block b
    InPlace, \* the blocks at the same place in the image file as on the disk
    Passes,  \* slots for runs of run_backup on the VM
    Env,     \* the circumstances that may occur
    NoDisk   \* no disk

Circumstances == {"fail_after_clear"}

ASSUME DiskOfAssumption == DiskOf \in [Blocks -> Disks]
ASSUME InPlaceAssumption == InPlace \subseteq Blocks
ASSUME EnvAssumption == Env \subseteq Circumstances
ASSUME NoDiskAssumption == NoDisk \notin Disks

VARIABLES
    \* QEMU and the guest
    tracked,  \* the disks that have a bitmap in QEMU
    dirty,    \* the blocks whose bit is set
    \* the database
    named,    \* the disks with a bitmap_name
    hasFull,  \* a full backup has succeeded
    unsaved,  \* see above
    \* _init_dirty_bitmaps
    untried,  \* the disks that still wait for their bitmap
    given,    \* the disks whose bitmap_name is set in the task's session
    initDone, \* the task has ended
    \* the passes
    pc,       \* pc[p]: where pass p is
    todo,     \* todo[p]: the disks p has not finished
    disk,     \* disk[p]: the disk p is at
    job,      \* job[p]: its job_type and the names its session has loaded
    ranges,   \* ranges[p]: the dirty blocks QEMU has reported to p
    got,      \* got[p]: the blocks for which p has data
    current,  \* current[p]: those of them that still have the contents read
    \* history
    written,  \* written[p]: the blocks written since p began
    reread,   \* reread[p]: the blocks in got[p] that another pass has read since
    wrong,    \* wrong[p]: the blocks in got[p] whose data is not theirs
    forgettable

qemuVars == <<tracked, dirty>>
dbVars == <<named, hasFull, unsaved>>
initVars == <<untried, given, initDone>>
dataVars == <<got, current, reread, wrong>>
vars == <<tracked, dirty, named, hasFull, unsaved, untried, given, initDone, pc,
          todo, disk, job, ranges, got, current, written, reread, wrong,
          forgettable>>

-----------------------------------------------------------------------------
BlocksOf(d) == {b \in Blocks : DiskOf[b] = d}

Active == {p \in Passes : pc[p] # "idle"}

Goto(p, s) == pc' = [pc EXCEPT ![p] = s]

NoJob == [incremental |-> FALSE, names |-> {}]

\* Mutant: no ranges are nothing to read.
ReadRangesStrictly(p) == ranges[p]

\* The blocks that pass p reads of its disk: no ranges are the whole disk.
ReadRanges(p) == IF ranges[p] = {} THEN BlocksOf(disk[p]) ELSE ranges[p]

\* The blocks among them that pass p finds in the image file.
Found(p) == IF ranges[p] = {} THEN ReadRanges(p) ELSE ReadRanges(p) \cap InPlace

\* The bit of block b is set too late for pass p, which will still clear it.
TooLateFor(p, b) ==
    /\ DiskOf[b] = disk[p]
    /\ \/ pc[p] \in {"read", "clear"}
       \/ pc[p] = "queried" /\ b \notin ReadRanges(p)

\* The disks whose bitmaps pass p may have cleared: it is done with them.
ClearedBy(p) == job[p].names \ todo[p]

-----------------------------------------------------------------------------
Init ==
    /\ tracked = {} /\ dirty = {}
    /\ named = {} /\ hasFull = FALSE /\ unsaved = Blocks
    /\ untried = Disks /\ given = {} /\ initDone = FALSE
    /\ pc = [p \in Passes |-> "idle"]
    /\ todo = [p \in Passes |-> {}]
    /\ disk = [p \in Passes |-> NoDisk]
    /\ job = [p \in Passes |-> NoJob]
    /\ ranges = [p \in Passes |-> {}]
    /\ got = [p \in Passes |-> {}]
    /\ current = [p \in Passes |-> {}]
    /\ written = [p \in Passes |-> {}]
    /\ reread = [p \in Passes |-> {}]
    /\ wrong = [p \in Passes |-> {}]
    /\ forgettable = {}

-----------------------------------------------------------------------------
(* _init_dirty_bitmaps, a task of its own, and the guest *)

\* block-dirty-bitmap-add: the disk gets a bitmap or not.  An error reply is an
\* ordinary answer, and the name is set; it is not set after an exception, by
\* which the bitmap may be there or not.
AddBitmap(d) ==
    /\ d \in untried /\ ~initDone
    /\ tracked' \in {tracked, tracked \cup {d}}
    /\ given' \in {given, given \cup {d}}
    /\ untried' = untried \ {d}
    /\ UNCHANGED <<dirty, dbVars, initDone, pc, todo, disk, job, ranges,
                   dataVars, written, forgettable>>

\* Mutant: every disk has its name, whether the command has raised or not.
NameEveryDisk ==
    /\ untried = {} /\ ~initDone
    /\ named' = Disks
    /\ initDone' = TRUE
    /\ UNCHANGED <<qemuVars, hasFull, unsaved, untried, given, pc, todo, disk,
                   job, ranges, dataVars, written, forgettable>>

\* The names are committed, or the process has stopped or the commit raised.
NameBitmaps ==
    /\ untried = {} /\ ~initDone
    /\ named' \in {named, given}
    /\ initDone' = TRUE
    /\ UNCHANGED <<qemuVars, hasFull, unsaved, untried, given, pc, todo, disk,
                   job, ranges, dataVars, written, forgettable>>

\* The bit is set if the disk has a bitmap.  A change is at risk if the bitmap
\* is still to be added, or if a pass that will not read it any more is about
\* to clear its bit.
GuestWrite(b) ==
    /\ unsaved' = unsaved \cup {b}
    /\ dirty' = IF DiskOf[b] \in tracked THEN dirty \cup {b} ELSE dirty
    /\ current' = [p \in Passes |-> current[p] \ {b}]
    /\ written' = [p \in Passes |-> IF p \in Active THEN written[p] \cup {b} ELSE {}]
    /\ forgettable' =
          IF \/ DiskOf[b] \in untried
             \/ DiskOf[b] \in tracked /\ \E p \in Passes : TooLateFor(p, b)
          THEN forgettable \cup {b} ELSE forgettable \ {b}
    /\ UNCHANGED <<tracked, named, hasFull, initVars, pc, todo, disk, job,
                   ranges, got, reread, wrong>>

-----------------------------------------------------------------------------
(* run_backup and _backup_disk *)

\* An incremental job exists only once a full backup has succeeded.
Start(p) ==
    /\ pc[p] = "idle"
    /\ \E inc \in BOOLEAN :
        /\ inc => hasFull
        /\ job' = [job EXCEPT ![p] = [incremental |-> inc, names |-> named]]
    /\ todo' = [todo EXCEPT ![p] = Disks]
    /\ Goto(p, "loop")
    /\ UNCHANGED <<qemuVars, dbVars, initVars, disk, ranges, dataVars, written,
                   forgettable>>

\* The next disk: for an incremental job QEMU is asked for the ranges of its
\* bitmap; a failure, an error reply (there is no such bitmap) or an answer
\* without ranges gives none.
Query(p, d) ==
    /\ pc[p] = "loop" /\ d \in todo[p]
    /\ disk' = [disk EXCEPT ![p] = d]
    /\ \E r \in {{}, dirty \cap BlocksOf(d)} :
        /\ r # {} => job[p].incremental /\ d \in job[p].names
        /\ ranges' = [ranges EXCEPT ![p] = r]
    /\ Goto(p, "queried")
    /\ UNCHANGED <<qemuVars, dbVars, initVars, todo, job, dataVars, written,
                   forgettable>>

\* Pass p has read the blocks r, and has data for the blocks w that is not
\* theirs.  A change it should have read and has not is at risk.
Got(p, r, w) ==
    /\ got' = [got EXCEPT ![p] = @ \cup r \cup w]
    /\ current' = [current EXCEPT ![p] = @ \cup r]
    /\ wrong' = [wrong EXCEPT ![p] = @ \cup w]
    /\ reread' = [q \in Passes |-> IF q = p THEN reread[q] \ r
                                   ELSE reread[q] \cup (got[q] \cap r)]
    /\ forgettable' = forgettable \cup (ReadRanges(p) \ r)
    /\ Goto(p, "read")
    /\ UNCHANGED <<qemuVars, dbVars, initVars, todo, disk, job, ranges, written>>

\* The whole file, or slices of it: some of those that do not find their block
\* find other bytes, the rest are empty.
Read(p) ==
    /\ pc[p] = "queried"
    /\ \E w \in SUBSET (ReadRanges(p) \ Found(p)) : Got(p, Found(p), w)

\* The file is not found: 1 MB of zeros stands for it, and nothing fails.
ReadMissing(p) ==
    /\ pc[p] = "queried"
    /\ \E w \in SUBSET ReadRanges(p) :
        /\ ranges[p] = {} => w = ReadRanges(p)
        /\ Got(p, {}, w)

\* write_disk stores the chunks; then a disk with a bitmap is cleared.
WriteDisk(p) ==
    /\ pc[p] = "read"
    /\ IF disk[p] \in job[p].names THEN Goto(p, "clear") /\ UNCHANGED todo
       ELSE /\ Goto(p, "loop")
            /\ todo' = [todo EXCEPT ![p] = @ \ {disk[p]}]
    /\ UNCHANGED <<qemuVars, dbVars, initVars, disk, job, ranges, dataVars,
                   written, forgettable>>

\* block-dirty-bitmap-clear, or an exception that is logged.
Clear(p) ==
    /\ pc[p] = "clear"
    /\ dirty' \in {dirty, dirty \ BlocksOf(disk[p])}
    /\ todo' = [todo EXCEPT ![p] = @ \ {disk[p]}]
    /\ Goto(p, "loop")
    /\ UNCHANGED <<tracked, dbVars, initVars, disk, job, ranges, dataVars,
                   written, forgettable>>

\* Pass p is over; its BackupService goes with it.
Over(p) ==
    /\ Goto(p, "idle")
    /\ todo' = [todo EXCEPT ![p] = {}]
    /\ disk' = [disk EXCEPT ![p] = NoDisk]
    /\ job' = [job EXCEPT ![p] = NoJob]
    /\ ranges' = [ranges EXCEPT ![p] = {}]
    /\ got' = [got EXCEPT ![p] = {}]
    /\ current' = [current EXCEPT ![p] = {}]
    /\ written' = [written EXCEPT ![p] = {}]
    /\ reread' = [reread EXCEPT ![p] = {}]
    /\ wrong' = [wrong EXCEPT ![p] = {}]
    /\ UNCHANGED <<qemuVars, named, initVars>>

\* Manifest and status are committed.  The manifest, now the newest, has old
\* contents of the blocks that were written since they were read; a change to
\* one is at risk if another pass has read it and cleared its bit.
Commit(p) ==
    /\ pc[p] = "loop" /\ todo[p] = {}
    /\ hasFull' = (hasFull \/ ~job[p].incremental)
    /\ unsaved' = (unsaved \ current[p]) \cup (got[p] \ current[p])
    /\ forgettable' = (forgettable \ current[p])
                        \cup wrong[p] \cup (reread[p] \ current[p])
    /\ Over(p)

\* Reading or writing a disk raises and the status failed is committed, the
\* last commit raises, or the worker is killed.  There is no manifest, and the
\* bits that were cleared stay so: nothing in the code keeps a pass from it.
Fail(p) ==
    /\ pc[p] # "idle"
    /\ "fail_after_clear" \in Env \/ ClearedBy(p) = {}
    /\ Over(p)
    /\ UNCHANGED <<hasFull, unsaved, forgettable>>

-----------------------------------------------------------------------------
Next ==
    \/ \E d \in Disks : AddBitmap(d)
    \/ NameBitmaps
    \/ \E b \in Blocks : GuestWrite(b)
    \/ \E p \in Passes :
        \/ Start(p) \/ \E d \in Disks : Query(p, d)
        \/ Read(p) \/ ReadMissing(p) \/ WriteDisk(p) \/ Clear(p)
        \/ Commit(p) \/ Fail(p)

Spec == Init /\ [][Next]_vars

-----------------------------------------------------------------------------
(* Properties *)

TypeOK ==
    /\ tracked \subseteq Disks /\ given \subseteq Disks /\ named \subseteq given
    /\ dirty \subseteq {b \in Blocks : DiskOf[b] \in tracked}
    /\ unsaved \subseteq Blocks /\ forgettable \subseteq Blocks
    /\ untried \subseteq Disks /\ initDone \in BOOLEAN /\ hasFull \in BOOLEAN
    /\ pc \in [Passes -> {"idle", "loop", "queried", "read", "clear"}]
    /\ todo \in [Passes -> SUBSET Disks]
    /\ disk \in [Passes -> Disks \cup {NoDisk}]
    /\ job \in [Passes -> [incremental : BOOLEAN, names : SUBSET named]]
    /\ ranges \in [Passes -> SUBSET Blocks]
    /\ got \in [Passes -> SUBSET Blocks]
    /\ current \in [Passes -> SUBSET Blocks]
    /\ reread \in [Passes -> SUBSET Blocks]
    /\ wrong \in [Passes -> SUBSET Blocks]
    /\ \A p \in Passes : current[p] \cup reread[p] \cup wrong[p] \subseteq got[p]
    /\ written \in [Passes -> SUBSET Blocks]

\* A block has unsaved changes that no bit and no running pass will save.  On a
\* disk without a bitmap nothing is forgotten: each pass is to read all of it.
Forgotten(b) ==
    /\ b \in unsaved \ dirty /\ DiskOf[b] \in tracked
    /\ \A p \in Passes : b \notin current[p]

\* Once there is a full backup, a change is forgotten only in these ways: the
\* bitmap was still to be added when it was written, a pass between query or
\* read and clear cleared its bit unread, the slice of the image file was not
\* the block, the file was missing, or a pass that was overtaken commits older
\* data.  Every failing query, every failing clear and every refused bitmap is
\* harmless, and so is a pass that fails if it has not cleared a bitmap yet
\* (the others: "fail_after_clear").
ForgottenOnlyAtRisk ==
    hasFull => \A b \in Blocks : Forgotten(b) => b \in forgettable

\* A backup that succeeds holds every block as it was when the pass began, or
\* newer, on disks with and without a bitmap, but for changes at risk and those
\* that another running pass has taken over.
SuccessSavesChanges ==
    [][\A p \in Passes :
        Commit(p) =>
            \A b \in unsaved' :
                \/ b \in written[p] \/ b \in forgettable'
                \/ \E q \in Passes \ {p} : b \in current[q]]_vars

=============================================================================
