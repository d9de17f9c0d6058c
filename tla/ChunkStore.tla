----------------------------- MODULE ChunkStore -----------------------------
(***************************************************************************)
(* The deduplicating chunk store of dedup/chunk_store.py: the "chunks"      *)
(* table in PostgreSQL (one row per distinct chunk, with a ref_count), the  *)
(* chunk files on disk, the backup passes that write to both, the release   *)
(* of a manifest's references, and the garbage collector.                   *)
(*                                                                          *)
(* Granularity.  Every database helper of ChunkStore commits before it      *)
(* returns, so each of them is one step; so is each file-system call that   *)
(* another process can observe (open-with-truncation, write, rename,        *)
(* unlink).  A chunk stands for its content: two chunks are equal exactly   *)
(* when their SHA-256 is.  Sizes, compression and logging are left out; a   *)
(* dry-run sweep changes nothing and is left out too.                       *)
(*                                                                          *)
(* Which circumstances can arise is not decided by chunk_store.py, whose    *)
(* callers schedule it; Env names the ones a run admits:                    *)
(*   "concurrent"    several passes at once (a job redelivered after        *)
(*                   ack_wait while its first run goes on);                 *)
(*   "gc_overlap"    a sweep while a pass is running;                       *)
(*   "crash"         a pass or a release stops half-way (process killed,    *)
(*                   database error, disk full);                            *)
(*   "gc_fault"      a step of a sweep raises, or the sweep is killed;      *)
(*   "tenant_delete" a manifest vanishes by ON DELETE CASCADE.              *)
(***************************************************************************)
EXTENDS Integers, Sequences, FiniteSets

CONSTANTS
    Backups,     \* backup passes; a retried job is another pass
    Chunks,      \* distinct chunk contents
    Streams,     \* the chunk sequences a disk may be cut into
    MaxLen,      \* bound on the number of chunks of a stream
    Env,         \* the circumstances admitted, see above
    NoChunk      \* the sweep holds no chunk

Circumstances ==
    {"concurrent", "gc_overlap", "crash", "gc_fault", "tenant_delete"}

ASSUME BackupsAssumption == IsFiniteSet(Backups)
ASSUME StreamsAssumption ==
    /\ MaxLen \in Nat
    /\ Streams \subseteq Seq(Chunks)
    /\ \A s \in Streams : Len(s) <= MaxLen
ASSUME EnvAssumption == Env \subseteq Circumstances
ASSUME NoChunkAssumption == NoChunk \notin Chunks

VARIABLES
    pc,        \* pc[b]: where pass b is
    stream,    \* stream[b]: the chunks pass b cuts its disk into
    pos,       \* pos[b]: the next element of stream[b] to write or release
    fd,        \* fd[b]: where the file that b holds open can be found now
    indexed,   \* the chunks that have a row in the chunks table
    refCount,  \* the ref_count of each row (0 where there is no row)
    file,      \* what is at the final path of each chunk
    tmp,       \* what is at the .tmp path of each chunk
    gcPc,      \* where the sweep is
    eligible,  \* the rows the sweep has still to handle
    gcCur,     \* the chunk whose file the sweep has just unlinked
    gcBroken   \* the sweep's database session has failed

passVars == <<pc, stream, pos>>
dbVars == <<indexed, refCount>>
fsVars == <<fd, file, tmp>>
gcVars == <<gcPc, eligible, gcCur, gcBroken>>
vars == <<pc, stream, pos, fd, indexed, refCount, file, tmp,
          gcPc, eligible, gcCur, gcBroken>>

-----------------------------------------------------------------------------
(* Helpers *)

\* A pass is inside write_disk, or about to commit its manifest.
Writing == {"get", "bump", "open", "write", "rename", "cleanup", "insert",
            "save"}

\* The pass no longer owns a manifest and gives its references back.
Releasing == {"drop", "stranded", "dropped"}

PassStates == {"idle", "saved", "failed", "orphaned"} \cup Writing \cup Releasing

Contents == {"none", "torn", "whole"}

InFlight == {b \in Backups : pc[b] \in Writing}

Chunk(b) == stream[b][pos[b]]

\* Mutant: the loop of write_disk stops before the last chunk.
WriteFromShort(s, p) == IF p < Len(s) THEN "get" ELSE "save"

\* write_disk goes on with the element at p, or is done.
WriteFrom(s, p) == IF p <= Len(s) THEN "get" ELSE "save"

\* decrement_refs goes on with the element at p, or is done.
ReleaseFrom(s, p) == IF p <= Len(s) THEN "drop" ELSE "dropped"

\* The pass has counted the chunk at its position and turns to the next one.
Advance(b) ==
    /\ pos' = [pos EXCEPT ![b] = @ + 1]
    /\ pc' = [pc EXCEPT ![b] = WriteFrom(stream[b], pos[b] + 1)]
    /\ UNCHANGED stream

\* The file at c's tmp path is moved or removed: whoever holds it open holds
\* it at "there" from now on.  A file replaced at the final path is gone.
HandlesAfter(c, there) ==
    [x \in Backups |->
        IF pc[x] = "write" /\ Chunk(x) = c
        THEN CASE fd[x] = "tmp" -> there
               [] fd[x] = "final" /\ there = "final" -> "gone"
               [] OTHER -> fd[x]
        ELSE fd[x]]

\* The file at c's final path is unlinked.
HandlesAfterUnlink(c) ==
    [x \in Backups |->
        IF pc[x] = "write" /\ Chunk(x) = c /\ fd[x] = "final"
        THEN "gone" ELSE fd[x]]

\* Element i of pass b's stream is a reference that b has added to the
\* ref_count and not taken away.
Holds(b, i) ==
    /\ i \in 1..Len(stream[b])
    /\ IF pc[b] \in Releasing THEN i >= pos[b] ELSE i < pos[b]

Held(c) ==
    {r \in Backups \X (1..MaxLen) : Holds(r[1], r[2]) /\ stream[r[1]][r[2]] = c}

\* read_manifest finds every chunk of the manifest with its content.
Restorable(b) ==
    \A i \in 1..Len(stream[b]) : file[stream[b][i]] = "whole"

-----------------------------------------------------------------------------
Init ==
    /\ pc = [b \in Backups |-> "idle"]
    /\ stream = [b \in Backups |-> << >>]
    /\ pos = [b \in Backups |-> 1]
    /\ fd = [b \in Backups |-> "none"]
    /\ indexed = {}
    /\ refCount = [c \in Chunks |-> 0]
    /\ file = [c \in Chunks |-> "none"]
    /\ tmp = [c \in Chunks |-> "none"]
    /\ gcPc = "idle"
    /\ eligible = {}
    /\ gcCur = NoChunk
    /\ gcBroken = FALSE

-----------------------------------------------------------------------------
(* Write path *)

\* write_disk is called with a disk that is cut into the chunks s.
Begin(b) ==
    /\ pc[b] = "idle"
    /\ "concurrent" \in Env \/ InFlight = {}
    /\ "gc_overlap" \in Env \/ gcPc = "idle"
    /\ \E s \in Streams :
        /\ stream' = [stream EXCEPT ![b] = s]
        /\ pc' = [pc EXCEPT ![b] = WriteFrom(s, 1)]
    /\ UNCHANGED <<pos, dbVars, fsVars, gcVars>>

\* _db_get_chunk: the row exists, whatever its ref_count, or it does not.
LookUp(b) ==
    /\ pc[b] = "get"
    /\ pc' = [pc EXCEPT ![b] = IF Chunk(b) \in indexed THEN "bump" ELSE "open"]
    /\ UNCHANGED <<stream, pos, dbVars, fsVars, gcVars>>

\* UPDATE ... SET ref_count = ref_count + 1 WHERE sha256 = c
Incremented(c) ==
    IF c \in indexed THEN [refCount EXCEPT ![c] = @ + 1] ELSE refCount

\* Mutant: _write_chunk does not return after the increment.
BumpAndWrite(b) ==
    /\ pc[b] = "bump"
    /\ refCount' = Incremented(Chunk(b))
    /\ pc' = [pc EXCEPT ![b] = "open"]
    /\ UNCHANGED <<stream, pos, indexed, fsVars, gcVars>>

\* _db_increment_ref, with no check that a row was updated.
Bump(b) ==
    /\ pc[b] = "bump"
    /\ refCount' = Incremented(Chunk(b))
    /\ Advance(b)
    /\ UNCHANGED <<indexed, fsVars, gcVars>>

\* _write_to_disk opens the .tmp file, which truncates one that is there.
OpenTmp(b) ==
    /\ pc[b] = "open"
    /\ tmp' = [tmp EXCEPT ![Chunk(b)] = "torn"]
    /\ fd' = [fd EXCEPT ![b] = "tmp"]
    /\ pc' = [pc EXCEPT ![b] = "write"]
    /\ UNCHANGED <<stream, pos, file, dbVars, gcVars>>

\* The payload lands in the file b holds open, wherever that file is by now.
WriteTmp(b) ==
    /\ pc[b] = "write"
    /\ tmp' = IF fd[b] = "tmp" THEN [tmp EXCEPT ![Chunk(b)] = "whole"] ELSE tmp
    /\ file' = IF fd[b] = "final" THEN [file EXCEPT ![Chunk(b)] = "whole"] ELSE file
    /\ fd' = [fd EXCEPT ![b] = "none"]
    /\ pc' = [pc EXCEPT ![b] = "rename"]
    /\ UNCHANGED <<stream, pos, dbVars, gcVars>>

\* The open, the write or the rename raises (disk full, permissions).
WriteError(b) ==
    /\ "crash" \in Env
    /\ pc[b] \in {"open", "write", "rename"}
    /\ fd' = [fd EXCEPT ![b] = "none"]
    /\ pc' = [pc EXCEPT ![b] = "cleanup"]
    /\ UNCHANGED <<stream, pos, file, tmp, dbVars, gcVars>>

\* Whatever is at the .tmp path becomes the chunk file.
Rename(b) ==
    /\ pc[b] = "rename"
    /\ tmp[Chunk(b)] # "none"
    /\ file' = [file EXCEPT ![Chunk(b)] = tmp[Chunk(b)]]
    /\ tmp' = [tmp EXCEPT ![Chunk(b)] = "none"]
    /\ fd' = HandlesAfter(Chunk(b), "final")
    /\ pc' = [pc EXCEPT ![b] = "insert"]
    /\ UNCHANGED <<stream, pos, dbVars, gcVars>>

\* Another pass has moved or removed the .tmp file: rename raises.
RenameMissing(b) ==
    /\ pc[b] = "rename"
    /\ tmp[Chunk(b)] = "none"
    /\ pc' = [pc EXCEPT ![b] = "cleanup"]
    /\ UNCHANGED <<stream, pos, dbVars, fsVars, gcVars>>

\* Mutant: the handler removes the chunk file instead of the .tmp file.
CleanupFinal(b) ==
    /\ pc[b] = "cleanup"
    /\ file' = [file EXCEPT ![Chunk(b)] = "none"]
    /\ fd' = HandlesAfterUnlink(Chunk(b))
    /\ pc' = [pc EXCEPT ![b] = "failed"]
    /\ UNCHANGED <<stream, pos, tmp, dbVars, gcVars>>

\* The handler removes the .tmp file, whosever it is by now, and re-raises.
Cleanup(b) ==
    /\ pc[b] = "cleanup"
    /\ tmp' = [tmp EXCEPT ![Chunk(b)] = "none"]
    /\ fd' = HandlesAfter(Chunk(b), "gone")
    /\ pc' = [pc EXCEPT ![b] = "failed"]
    /\ UNCHANGED <<stream, pos, file, dbVars, gcVars>>

\* Mutant: ON CONFLICT DO NOTHING.
InsertedOnce(c) == [refCount EXCEPT ![c] = IF c \in indexed THEN @ ELSE 1]

\* INSERT ... VALUES (c, ..., 1) ON CONFLICT DO UPDATE SET ref_count + 1
Inserted(c) ==
    [refCount EXCEPT ![c] = IF c \in indexed THEN @ + 1 ELSE 1]

\* _db_insert_chunk
InsertRow(b) ==
    /\ pc[b] = "insert"
    /\ indexed' = indexed \cup {Chunk(b)}
    /\ refCount' = Inserted(Chunk(b))
    /\ Advance(b)
    /\ UNCHANGED <<fsVars, gcVars>>

\* run_backup commits the manifest that write_disk returned.
Save(b) ==
    /\ pc[b] = "save"
    /\ pc' = [pc EXCEPT ![b] = "saved"]
    /\ UNCHANGED <<stream, pos, dbVars, fsVars, gcVars>>

\* The pass is killed or a statement raises: its references stay counted.
Crash(b) ==
    /\ "crash" \in Env
    /\ pc[b] \in Writing
    /\ pc' = [pc EXCEPT ![b] = "failed"]
    /\ fd' = [fd EXCEPT ![b] = "none"]
    /\ UNCHANGED <<stream, pos, file, tmp, dbVars, gcVars>>

-----------------------------------------------------------------------------
(* Release of a manifest *)

\* The manifest is deleted and decrement_refs is called with its chunk_refs.
Discard(b) ==
    /\ pc[b] = "saved"
    /\ pos' = [pos EXCEPT ![b] = 1]
    /\ pc' = [pc EXCEPT ![b] = ReleaseFrom(stream[b], 1)]
    /\ UNCHANGED <<stream, dbVars, fsVars, gcVars>>

\* Mutant: no GREATEST(0, ...).
DecrementedBelow(c) == [refCount EXCEPT ![c] = @ - 1]

\* UPDATE ... SET ref_count = GREATEST(0, ref_count - 1) WHERE sha256 = c
Decremented(c) ==
    [refCount EXCEPT ![c] = IF @ > 0 THEN @ - 1 ELSE 0]

\* _db_decrement_ref
Decrement(b) ==
    /\ pc[b] = "drop"
    /\ refCount' = Decremented(Chunk(b))
    /\ pos' = [pos EXCEPT ![b] = @ + 1]
    /\ pc' = [pc EXCEPT ![b] = ReleaseFrom(stream[b], pos[b] + 1)]
    /\ UNCHANGED <<stream, indexed, fsVars, gcVars>>

\* decrement_refs stops half-way; the manifest is already gone.
Strand(b) ==
    /\ "crash" \in Env
    /\ pc[b] = "drop"
    /\ pc' = [pc EXCEPT ![b] = "stranded"]
    /\ UNCHANGED <<stream, pos, dbVars, fsVars, gcVars>>

\* delete_tenant: the manifest goes with its job, no reference is released.
CascadeDelete(b) ==
    /\ "tenant_delete" \in Env
    /\ pc[b] = "saved"
    /\ pc' = [pc EXCEPT ![b] = "orphaned"]
    /\ UNCHANGED <<stream, pos, dbVars, fsVars, gcVars>>

-----------------------------------------------------------------------------
(* Garbage collection *)

\* Mutant: WHERE ref_count <= 1.
GcStartLow ==
    /\ gcPc = "idle"
    /\ "gc_overlap" \in Env \/ InFlight = {}
    /\ gcPc' = "sweep"
    /\ eligible' = {c \in indexed : refCount[c] <= 1}
    /\ UNCHANGED <<passVars, dbVars, fsVars, gcCur, gcBroken>>

\* _db_get_zero_ref_chunks
GcStart ==
    /\ gcPc = "idle"
    /\ "gc_overlap" \in Env \/ InFlight = {}
    /\ gcPc' = "sweep"
    /\ eligible' = {c \in indexed : refCount[c] = 0}
    /\ UNCHANGED <<passVars, dbVars, fsVars, gcCur, gcBroken>>

\* The file goes first ...
GcUnlink ==
    /\ gcPc = "sweep"
    /\ \E c \in eligible :
        /\ file' = [file EXCEPT ![c] = "none"]
        /\ fd' = HandlesAfterUnlink(c)
        /\ gcCur' = c
        /\ eligible' = eligible \ {c}
    /\ gcPc' = "delete"
    /\ UNCHANGED <<passVars, dbVars, tmp, gcBroken>>

\* ... or cannot be removed, which the loop logs and passes over.
GcUnlinkFails ==
    /\ "gc_fault" \in Env
    /\ gcPc = "sweep"
    /\ \E c \in eligible : eligible' = eligible \ {c}
    /\ UNCHANGED <<passVars, dbVars, fsVars, gcPc, gcCur, gcBroken>>

\* DELETE FROM chunks WHERE sha256 = c AND ref_count = 0
Deletable(c) == refCount[c] = 0

\* Mutant: the DELETE is not committed.
GcDeleteUncommitted ==
    /\ gcPc = "delete"
    /\ ~gcBroken
    /\ gcPc' = "sweep"
    /\ gcCur' = NoChunk
    /\ UNCHANGED <<passVars, dbVars, fsVars, eligible, gcBroken>>

\* _db_delete_chunk
GcDelete ==
    /\ gcPc = "delete"
    /\ ~gcBroken
    /\ indexed' = IF Deletable(gcCur) THEN indexed \ {gcCur} ELSE indexed
    /\ gcPc' = "sweep"
    /\ gcCur' = NoChunk
    /\ UNCHANGED <<passVars, refCount, fsVars, eligible, gcBroken>>

\* The statement raises, the loop goes on; nothing rolls the session back, so
\* every later statement of this sweep raises as well.
GcDeleteFails ==
    /\ "gc_fault" \in Env
    /\ gcPc = "delete"
    /\ gcPc' = "sweep"
    /\ gcCur' = NoChunk
    /\ gcBroken' = TRUE
    /\ UNCHANGED <<passVars, dbVars, fsVars, eligible>>

GcEnd ==
    /\ gcPc = "sweep"
    /\ eligible = {}
    /\ gcPc' = "idle"
    /\ gcBroken' = FALSE
    /\ UNCHANGED <<passVars, dbVars, fsVars, eligible, gcCur>>

\* The process that sweeps is killed.
GcKilled ==
    /\ "gc_fault" \in Env
    /\ gcPc # "idle"
    /\ gcPc' = "idle"
    /\ eligible' = {}
    /\ gcCur' = NoChunk
    /\ gcBroken' = FALSE
    /\ UNCHANGED <<passVars, dbVars, fsVars>>

-----------------------------------------------------------------------------
WriteStep(b) ==
    \/ LookUp(b) \/ Bump(b) \/ OpenTmp(b) \/ WriteTmp(b) \/ Rename(b)
    \/ RenameMissing(b) \/ Cleanup(b) \/ InsertRow(b) \/ Save(b)

FaultStep(b) == WriteError(b) \/ Crash(b) \/ Strand(b) \/ CascadeDelete(b)

PassStep(b) ==
    Begin(b) \/ WriteStep(b) \/ Discard(b) \/ Decrement(b) \/ FaultStep(b)

GcStep == GcUnlink \/ GcDelete \/ GcEnd

GcFault == GcUnlinkFails \/ GcDeleteFails \/ GcKilled

Next == (\E b \in Backups : PassStep(b)) \/ GcStart \/ GcStep \/ GcFault

Spec == Init /\ [][Next]_vars

\* A pass that runs goes on, a release goes on, and sweeps are started again
\* and again ("Scheduled GC (run periodically)", chunk_store.py:209) and run
\* to their end.  Nothing obliges anyone to begin or to discard a backup.
Fairness ==
    /\ \A b \in Backups : WF_vars(WriteStep(b)) /\ WF_vars(Decrement(b))
    /\ WF_vars(GcStart)
    /\ WF_vars(GcStep)

FairSpec == Spec /\ Fairness

-----------------------------------------------------------------------------
(* Properties *)

\* Every variable has its type; in particular no ref_count goes below zero.
TypeOK ==
    /\ pc \in [Backups -> PassStates]
    /\ stream \in [Backups -> Seq(Chunks)]
    /\ \A b \in Backups : Len(stream[b]) <= MaxLen
    /\ pos \in [Backups -> Nat \ {0}]
    /\ fd \in [Backups -> {"none", "tmp", "final", "gone"}]
    /\ indexed \subseteq Chunks
    /\ refCount \in [Chunks -> Nat]
    /\ file \in [Chunks -> Contents]
    /\ tmp \in [Chunks -> Contents]
    /\ gcPc \in {"idle", "sweep", "delete"}
    /\ eligible \subseteq Chunks
    /\ gcCur \in Chunks \cup {NoChunk}
    /\ gcPc = "delete" => gcCur # NoChunk
    /\ gcBroken \in BOOLEAN

\* The ref_count of a chunk is the number of references to it that passes
\* have written and not released, whatever the interleaving of passes that
\* write and release the same chunk and wherever they crash.  (The select and
\* the insert of _write_chunk are separate transactions.)
RefCountExact == \A c \in Chunks : refCount[c] = Cardinality(Held(c))

\* Even when sweeps run among the passes, a ref_count never exceeds the
\* number of references: an unreferenced chunk is never kept by mistake.
NoOvercount == \A c \in Chunks : refCount[c] <= Cardinality(Held(c))

\* "given a manifest, we can reconstruct the disk" (models/__init__.py:288):
\* as long as a manifest is stored, each chunk it names is on disk, complete.
ManifestsRestorable ==
    \A b \in Backups : pc[b] = "saved" => Restorable(b)

\* What read_manifest returns for b's manifest; NoChunk stands for the
\* exception at a file that is missing or for the garbage of an incomplete one.
ReadBack(b) ==
    [i \in 1..Len(stream[b]) |->
        IF file[stream[b][i]] = "whole" THEN stream[b][i] ELSE NoChunk]

Catalog == INSTANCE BackupCatalog WITH
    Images <- Streams,
    contents <- [b \in Backups |-> IF pc[b] = "saved" THEN {ReadBack(b)} ELSE {}],
    retired <- {b \in Backups : pc[b] \in Releasing \cup {"orphaned"}}

\* To its callers the store is a catalog of immutable backups: reading a
\* stored one returns what was written, in spite of sharing, of releases, of
\* crashes half-way through other passes and of the sweeps in between.
ImplementsCatalog == Catalog!Spec

\* Two passes that write the same new chunk share its .tmp file, and a stored
\* manifest may for a while name a file that is still being written.  If no
\* pass crashes, the file is complete in the end, or the manifest is released.
ManifestsSettle ==
    \A b \in Backups : pc[b] = "saved" ~> (pc[b] # "saved" \/ Restorable(b))

\* Some pass will write c's content into the file that is at its .tmp path, or
\* at its final one.
Opened(c, at) ==
    \E a \in Backups : pc[a] = "write" /\ fd[a] = at /\ Chunk(a) = c

\* What makes them settle: a file that a stored manifest names is there, and as
\* long as it is incomplete some pass holds just this file open and is about to
\* complete it, whoever has renamed or replaced it since.
TornIsWritten ==
    \A b \in Backups : pc[b] = "saved" =>
        \A i \in 1..Len(stream[b]) :
            LET c == stream[b][i]
            IN  file[c] = "whole" \/ (file[c] = "torn" /\ Opened(c, "final"))

\* "Chunks that reach 0 will be collected by the next GC sweep"
\* (chunk_store.py:412): a row without references is removed, or referenced
\* again; and the file with it.
UnreferencedReclaimed ==
    \A c \in Chunks :
        (c \in indexed /\ refCount[c] = 0)
            ~> (refCount[c] > 0 \/ (c \notin indexed /\ file[c] = "none"))

=============================================================================
