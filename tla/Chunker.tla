------------------------------- MODULE Chunker -------------------------------
(***************************************************************************)
(* The content-defined chunker _rabin_cdc_chunks of dedup/chunk_store.py:   *)
(* a loop over the bytes of a disk that yields (offset, bytes) pairs.       *)
(*                                                                          *)
(* A step is one turn of the loop.  The fingerprint is a parameter: Roll is *)
(* its step, Hit the boundary condition, both given by module Rabin for     *)
(* TLC.  The sizes are chosen once, since DEDUP_MIN_CHUNK_SIZE and          *)
(* DEDUP_MAX_CHUNK_SIZE are settings that nothing compares.                 *)
(***************************************************************************)
EXTENDS Integers, Sequences

CONSTANTS
    Byte,         \* the bytes of a disk
    Word,         \* the values of the fingerprint
    Streams,      \* the disks that may be chunked
    Limits,       \* the pairs <<min_size, max_size>> that may be set
    WindowSize,   \* _WINDOW_SIZE
    Roll(_, _, _),\* Roll(fp, outgoing, byte): the next fingerprint
    Hit(_)        \* Hit(fp): (fp & mask) == magic

ASSUME ByteAssumption == 0 \in Byte
ASSUME WordAssumption ==
    /\ 0 \in Word
    /\ \A fp \in Word, outgoing, byte \in Byte : Roll(fp, outgoing, byte) \in Word
ASSUME StreamsAssumption == Streams \subseteq Seq(Byte)
ASSUME LimitsAssumption == Limits \subseteq Nat \X Nat
ASSUME WindowAssumption == WindowSize \in Nat \ {0}

VARIABLES
    data,       \* the disk
    limits,     \* <<min_size, max_size>>
    pos,        \* how many bytes were consumed
    chunkStart, \* where the current chunk starts
    window,     \* the last bytes, a ring
    wPos,       \* the oldest entry of the ring
    fp,         \* the fingerprint
    chunks,     \* the chunks yielded
    ended       \* the generator has returned

vars == <<data, limits, pos, chunkStart, window, wPos, fp, chunks, ended>>

-----------------------------------------------------------------------------
minSize == limits[1]
maxSize == limits[2]

NoWindow == [i \in 0..(WindowSize - 1) |-> 0]

Chunk == [offset : Nat, data : Seq(Byte)]

\* The bytes from chunkStart up to and excluding offset e, as they are yielded.
ChunkUpTo(e) == [offset |-> chunkStart, data |-> SubSeq(data, chunkStart + 1, e)]

\* The fingerprint once the next byte is in the window.
NextFp == Roll(fp, window[wPos], data[pos + 1])

\* Mutant: the ring does not wrap around.
NextSlotUnwrapped == wPos + 1

\* The oldest entry of the ring once the next byte is in it.
NextSlot == (wPos + 1) % WindowSize

\* Mutant: the fingerprint goes on behind a boundary.
KeepWindow == fp' = NextFp /\ UNCHANGED <<window, wPos>>

\* The window of the next chunk.
ResetWindow == fp' = 0 /\ window' = NoWindow /\ wPos' = 0

\* Mutant: a remainder is emitted only if it is long enough for a chunk.
RemainderLong == chunkStart < pos /\ pos - chunkStart >= minSize

\* Bytes are left behind the last boundary.
Remainder == chunkStart < pos

\* Mutant: the first byte of a chunk is not counted.
BoundaryLate ==
    LET chunkLen == pos - chunkStart
    IN  chunkLen >= minSize /\ (Hit(NextFp) \/ chunkLen >= maxSize)

\* The chunk that ends with the next byte is long enough, and either its
\* fingerprint says so or it is as long as a chunk may be.
Boundary ==
    LET chunkLen == pos + 1 - chunkStart
    IN  chunkLen >= minSize /\ (Hit(NextFp) \/ chunkLen >= maxSize)

-----------------------------------------------------------------------------
Init ==
    /\ data \in Streams
    /\ limits \in Limits
    /\ pos = 0
    /\ chunkStart = 0
    /\ window = NoWindow
    /\ wPos = 0
    /\ fp = 0
    /\ chunks = << >>
    /\ ended = FALSE

\* The byte goes into the window and the chunk goes on.
Absorb ==
    /\ pos < Len(data)
    /\ ~Boundary
    /\ fp' = NextFp
    /\ window' = [window EXCEPT ![wPos] = data[pos + 1]]
    /\ wPos' = NextSlot
    /\ pos' = pos + 1
    /\ UNCHANGED <<data, limits, chunkStart, chunks, ended>>

\* The byte ends a chunk, and the window starts anew.
Cut ==
    /\ pos < Len(data)
    /\ Boundary
    /\ chunks' = Append(chunks, ChunkUpTo(pos + 1))
    /\ pos' = pos + 1
    /\ chunkStart' = pos + 1
    /\ ResetWindow
    /\ UNCHANGED <<data, limits, ended>>

\* What is left after the last boundary is emitted, whatever its length.
End ==
    /\ pos = Len(data) /\ ~ended
    /\ chunks' = IF Remainder THEN Append(chunks, ChunkUpTo(pos)) ELSE chunks
    /\ ended' = TRUE
    /\ UNCHANGED <<data, limits, pos, chunkStart, window, wPos, fp>>

Next == Absorb \/ Cut \/ End

Spec == Init /\ [][Next]_vars

-----------------------------------------------------------------------------
(* Properties *)

\* Every variable has its type, and the current chunk lies before pos.
TypeOK ==
    /\ data \in Seq(Byte)
    /\ limits \in Nat \X Nat
    /\ pos \in 0..Len(data)
    /\ chunkStart \in 0..pos
    /\ window \in [0..(WindowSize - 1) -> Byte]
    /\ wPos \in 0..(WindowSize - 1)
    /\ fp \in Word
    /\ chunks \in Seq(Chunk)
    /\ ended \in BOOLEAN

\* Where chunk c ends.
EndOf(c) == c.offset + Len(c.data)

\* Where the next chunk to be yielded will start.
Covered == IF chunks = << >> THEN 0 ELSE EndOf(chunks[Len(chunks)])

\* The chunks "[cover] the entire disk" (chunk_store.py:17): each holds the
\* bytes at its offset and starts where the one before it ends, and when the
\* generator returns no byte is missing.
CoversDisk ==
    /\ \A i \in 1..Len(chunks) :
        /\ chunks[i].offset = IF i = 1 THEN 0 ELSE EndOf(chunks[i - 1])
        /\ chunks[i].data = SubSeq(data, chunks[i].offset + 1, EndOf(chunks[i]))
        /\ chunks[i].data # << >>
    /\ Covered = IF ended THEN Len(data) ELSE chunkStart

\* Every chunk but the one that ends the disk has "a minimum of MIN_SIZE and a
\* maximum of MAX_SIZE" (chunk_store.py:11-12); where the settings contradict
\* each other the minimum wins, and a chunk has at least one byte.
SizesBounded ==
    \A i \in 1..Len(chunks) :
        LET n == Len(chunks[i].data)
        IN  /\ n <= maxSize \/ n <= minSize \/ n = 1
            /\ n >= minSize \/ EndOf(chunks[i]) = Len(data)

\* The fingerprint of the bytes s, from an empty window.
Fingerprint(s) ==
    LET f[k \in 0..Len(s)] ==
            IF k = 0 THEN 0
            ELSE Roll(f[k - 1], IF k > WindowSize THEN s[k - WindowSize] ELSE 0, s[k])
    IN  f[Len(s)]

\* A chunk may end after the bytes s.
MayEnd(s) ==
    Len(s) >= minSize /\ (Hit(Fingerprint(s)) \/ Len(s) >= maxSize)

\* Deduplication rests on it: where a chunk ends depends on the bytes since
\* its start and on nothing before them, neither on the data of an earlier
\* chunk nor on the offset, so equal data behind a boundary has equal chunks.
ContentDefined ==
    \A i \in 1..Len(chunks) :
        LET s == chunks[i].data
        IN  /\ \A k \in 1..(Len(s) - 1) : ~MayEnd(SubSeq(s, 1, k))
            /\ MayEnd(s) \/ EndOf(chunks[i]) = Len(data)

=============================================================================
