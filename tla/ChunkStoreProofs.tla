-------------------------- MODULE ChunkStoreProofs --------------------------
(* Theorems of ChunkStore, for all values of its constants. *)
EXTENDS ChunkStore, FiniteSetTheorems, TLAPS

-----------------------------------------------------------------------------
(* Types *)

\* The states in which a pass is working on the chunk at its position.
AtChunk == {"get", "bump", "open", "write", "rename", "cleanup", "insert",
            "drop", "stranded"}

\* A pass at a chunk has one, a pass that has not begun is at the start, and
\* the others have cut their disk into one of the streams.
PosOK ==
    \A b \in Backups :
        /\ pc[b] \in AtChunk => pos[b] \in 1..Len(stream[b])
        /\ pc[b] = "idle" => pos[b] = 1
        /\ pc[b] # "idle" => stream[b] \in Streams

TypeInv == TypeOK /\ PosOK

LEMMA ChunkType ==
    ASSUME TypeInv, NEW b \in Backups, pc[b] \in AtChunk
    PROVE  Chunk(b) \in Chunks
<1>1. stream[b] \in Seq(Chunks) /\ pos[b] \in 1..Len(stream[b])
  BY DEF TypeInv, TypeOK, PosOK
<1> QED BY <1>1 DEF Chunk

LEMMA TypeInit == Init => TypeInv
<1> SUFFICES ASSUME Init PROVE TypeInv
  OBVIOUS
<1>1. << >> \in Seq(Chunks) /\ Len(<< >>) <= MaxLen
  BY StreamsAssumption
<1>2. stream \in [Backups -> Seq(Chunks)]
  BY <1>1 DEF Init
<1>3. \A b \in Backups : Len(stream[b]) <= MaxLen
  BY <1>1 DEF Init
<1>4. /\ pc \in [Backups -> PassStates]
      /\ pos \in [Backups -> Nat \ {0}]
      /\ fd \in [Backups -> {"none", "tmp", "final", "gone"}]
      /\ refCount \in [Chunks -> Nat]
      /\ file \in [Chunks -> Contents]
      /\ tmp \in [Chunks -> Contents]
  BY DEF Init, PassStates, Contents
<1>5. PosOK
  BY DEF Init, PosOK, AtChunk
<1> QED BY <1>2, <1>3, <1>4, <1>5 DEF Init, TypeInv, TypeOK

LEMMA HandlesType ==
    ASSUME TypeInv, NEW c, NEW t \in {"tmp", "final", "gone"}
    PROVE  /\ HandlesAfter(c, t) \in [Backups -> {"none", "tmp", "final", "gone"}]
           /\ HandlesAfterUnlink(c) \in [Backups -> {"none", "tmp", "final", "gone"}]
BY DEF TypeInv, TypeOK, HandlesAfter, HandlesAfterUnlink

LEMMA TypeStep == TypeInv /\ [Next]_vars => TypeInv'
<1> SUFFICES ASSUME TypeInv, [Next]_vars PROVE TypeInv'
  OBVIOUS
<1> USE DEF TypeInv, TypeOK, PosOK, PassStates, Contents, Writing, Releasing,
            AtChunk, WriteFrom, ReleaseFrom
<1>1. ASSUME NEW b \in Backups, Begin(b) PROVE TypeInv'
  <2>1. PICK s \in Streams :
          /\ stream' = [stream EXCEPT ![b] = s]
          /\ pc' = [pc EXCEPT ![b] = WriteFrom(s, 1)]
    BY <1>1 DEF Begin
  <2>2. s \in Seq(Chunks) /\ Len(s) <= MaxLen /\ Len(s) \in Nat
    BY StreamsAssumption
  <2> QED BY <1>1, <2>1, <2>2 DEF Begin, dbVars, fsVars, gcVars
<1>2. ASSUME NEW b \in Backups, LookUp(b) PROVE TypeInv'
  BY <1>2 DEF LookUp, dbVars, fsVars, gcVars
<1>3. ASSUME NEW b \in Backups, Bump(b) PROVE TypeInv'
  BY <1>3 DEF Bump, Advance, Incremented, fsVars, gcVars
<1>4. ASSUME NEW b \in Backups, OpenTmp(b) PROVE TypeInv'
  BY <1>4 DEF OpenTmp, dbVars, gcVars
<1>5. ASSUME NEW b \in Backups, WriteTmp(b) PROVE TypeInv'
  BY <1>5 DEF WriteTmp, dbVars, gcVars
<1>6. ASSUME NEW b \in Backups, WriteError(b) PROVE TypeInv'
  BY <1>6 DEF WriteError, dbVars, gcVars
<1>7. ASSUME NEW b \in Backups, Rename(b) PROVE TypeInv'
  <2>1. fd' \in [Backups -> {"none", "tmp", "final", "gone"}]
    BY <1>7, HandlesType DEF Rename
  <2>2. Chunk(b) \in Chunks
    BY <1>7, ChunkType DEF Rename
  <2> QED BY <1>7, <2>1, <2>2 DEF Rename, dbVars, gcVars
<1>8. ASSUME NEW b \in Backups, RenameMissing(b) PROVE TypeInv'
  BY <1>8 DEF RenameMissing, dbVars, fsVars, gcVars
<1>9. ASSUME NEW b \in Backups, Cleanup(b) PROVE TypeInv'
  <2>1. fd' \in [Backups -> {"none", "tmp", "final", "gone"}]
    BY <1>9, HandlesType DEF Cleanup
  <2> QED BY <1>9, <2>1 DEF Cleanup, dbVars, gcVars
<1>10. ASSUME NEW b \in Backups, InsertRow(b) PROVE TypeInv'
  <2>1. Chunk(b) \in Chunks
    BY <1>10, ChunkType DEF InsertRow
  <2> QED BY <1>10, <2>1 DEF InsertRow, Advance, Inserted, fsVars, gcVars
<1>11. ASSUME NEW b \in Backups, Save(b) PROVE TypeInv'
  BY <1>11 DEF Save, dbVars, fsVars, gcVars
<1>12. ASSUME NEW b \in Backups, Crash(b) PROVE TypeInv'
  BY <1>12 DEF Crash, dbVars, gcVars
<1>13. ASSUME NEW b \in Backups, Discard(b) PROVE TypeInv'
  BY <1>13 DEF Discard, dbVars, fsVars, gcVars
<1>14. ASSUME NEW b \in Backups, Decrement(b) PROVE TypeInv'
  <2>1. refCount' = [refCount EXCEPT ![Chunk(b)] = IF @ > 0 THEN @ - 1 ELSE 0]
    BY <1>14 DEF Decrement, Decremented
  <2>2. \A n \in Nat : (IF n > 0 THEN n - 1 ELSE 0) \in Nat
    OBVIOUS
  <2>3. Chunk(b) \in Chunks
    BY <1>14, ChunkType DEF Decrement
  <2>4. refCount' \in [Chunks -> Nat]
    BY <2>1, <2>2, <2>3
  <2>5. /\ pc' \in [Backups -> PassStates]
        /\ pos' \in [Backups -> Nat \ {0}]
        /\ UNCHANGED <<stream, indexed, fsVars, gcVars>>
    BY <1>14 DEF Decrement
  <2>6. PosOK'
    BY <1>14 DEF Decrement
  <2> QED BY <2>4, <2>5, <2>6 DEF fsVars, gcVars
<1>15. ASSUME NEW b \in Backups, Strand(b) PROVE TypeInv'
  BY <1>15 DEF Strand, dbVars, fsVars, gcVars
<1>16. ASSUME NEW b \in Backups, CascadeDelete(b) PROVE TypeInv'
  BY <1>16 DEF CascadeDelete, dbVars, fsVars, gcVars
<1>17. CASE GcStart
  BY <1>17 DEF GcStart, passVars, dbVars, fsVars
<1>18. CASE GcUnlink
  <2>1. PICK c \in eligible :
          /\ file' = [file EXCEPT ![c] = "none"]
          /\ fd' = HandlesAfterUnlink(c)
          /\ gcCur' = c
          /\ eligible' = eligible \ {c}
    BY <1>18 DEF GcUnlink
  <2>2. fd' \in [Backups -> {"none", "tmp", "final", "gone"}]
    BY <2>1, HandlesType
  <2> QED BY <1>18, <2>1, <2>2, NoChunkAssumption DEF GcUnlink, passVars, dbVars
<1>19. CASE GcDelete
  BY <1>19 DEF GcDelete, passVars, fsVars
<1>20. CASE GcEnd
  BY <1>20 DEF GcEnd, passVars, dbVars, fsVars
<1>21. CASE GcUnlinkFails
  BY <1>21 DEF GcUnlinkFails, passVars, dbVars, fsVars
<1>22. CASE GcDeleteFails
  BY <1>22 DEF GcDeleteFails, passVars, dbVars, fsVars
<1>23. CASE GcKilled
  BY <1>23 DEF GcKilled, passVars, dbVars, fsVars
<1>24. CASE UNCHANGED vars
  BY <1>24 DEF vars, Chunk
<1> QED
  BY <1>1, <1>2, <1>3, <1>4, <1>5, <1>6, <1>7, <1>8, <1>9, <1>10, <1>11,
     <1>12, <1>13, <1>14, <1>15, <1>16, <1>17, <1>18, <1>19, <1>20, <1>21,
     <1>22, <1>23, <1>24
     DEF Next, PassStep, WriteStep, FaultStep, GcStep, GcFault

LEMMA TypeInvariant == Spec => []TypeInv
BY TypeInit, TypeStep, PTL DEF Spec

\* In every reachable state each variable has its type; in particular no
\* ref_count is negative.
THEOREM TypeCorrect == Spec => []TypeOK
<1>1. TypeInv => TypeOK
  BY DEF TypeInv
<1> QED BY <1>1, TypeInvariant, PTL

-----------------------------------------------------------------------------
(* Reference counts *)

\* A pass that has written its whole stream has passed every position.
DoneOK ==
    \A b \in Backups : pc[b] \in {"save", "saved"} => pos[b] = Len(stream[b]) + 1

\* No sweep runs while a pass is writing.
SweepAlone == gcPc # "idle" => InFlight = {}

\* Only a row counts, and what a pass is about to increment is a row.
RowsOK ==
    /\ \A c \in Chunks : c \notin indexed => refCount[c] = 0
    /\ \A b \in Backups : pc[b] = "bump" => Chunk(b) \in indexed

CountOK == DoneOK /\ SweepAlone /\ RowsOK /\ RefCountExact

CountInv == TypeInv /\ CountOK

LEMMA CardinalityAdd ==
    ASSUME NEW S, IsFiniteSet(S), NEW r, r \notin S, NEW T, T = S \cup {r}
    PROVE  Cardinality(T) = Cardinality(S) + 1
BY FS_AddElement

LEMMA CardinalityRemove ==
    ASSUME NEW S, IsFiniteSet(S), NEW r, r \in S, NEW T, T = S \ {r}
    PROVE  Cardinality(S) > 0 /\ Cardinality(T) = Cardinality(S) - 1
<1>1. Cardinality(S) \in Nat
  BY FS_CardinalityType
<1>2. Cardinality(S) # 0
  BY FS_EmptySet
<1>3. Cardinality(T) = Cardinality(S) - 1
  BY FS_RemoveElement
<1> QED BY <1>1, <1>2, <1>3

LEMMA HeldFinite ==
    ASSUME NEW c PROVE IsFiniteSet(Held(c)) /\ Cardinality(Held(c)) \in Nat
<1>1. IsFiniteSet(Backups \X (1..MaxLen))
  <2>1. IsFiniteSet(1..MaxLen)
    BY StreamsAssumption, FS_Interval
  <2> QED BY <2>1, BackupsAssumption, FS_Product
<1>2. Held(c) \subseteq Backups \X (1..MaxLen)
  BY DEF Held
<1>3. IsFiniteSet(Held(c))
  BY <1>1, <1>2, FS_Subset
<1> QED BY <1>3, FS_CardinalityType

\* A step after which every pass holds what it held.
LEMMA HeldSame ==
    ASSUME NEW c,
           \A b \in Backups, i \in 1..MaxLen :
               /\ Holds(b, i)' <=> Holds(b, i)
               /\ Holds(b, i) => stream'[b][i] = stream[b][i]
    PROVE  Held(c)' = Held(c)
<1>1. \A r \in Backups \X (1..MaxLen) : r \in Held(c)' <=> r \in Held(c)
  BY DEF Held
<1>2. Held(c)' \subseteq Backups \X (1..MaxLen) /\ Held(c) \subseteq Backups \X (1..MaxLen)
  BY DEF Held
<1> QED BY <1>1, <1>2

\* Pass b takes hold of element i of its stream.
LEMMA HeldMore ==
    ASSUME NEW b \in Backups, NEW i \in 1..MaxLen, stream' = stream,
           ~Holds(b, i), Holds(b, i)',
           \A x \in Backups, j \in 1..MaxLen :
               x # b \/ j # i => (Holds(x, j)' <=> Holds(x, j)),
           NEW c
    PROVE  /\ c = stream[b][i] =>
                 Cardinality(Held(c)') = Cardinality(Held(c)) + 1
           /\ c # stream[b][i] => Held(c)' = Held(c)
<1> DEFINE r == <<b, i>>
<1>0. r \in Backups \X (1..MaxLen) /\ r[1] = b /\ r[2] = i
  OBVIOUS
<1>1. \A q \in Backups \X (1..MaxLen) : q # r => (q \in Held(c)' <=> q \in Held(c))
  <2>1. \A q \in Backups \X (1..MaxLen) : q # r => q[1] # b \/ q[2] # i
    OBVIOUS
  <2> QED BY <2>1 DEF Held
<1>2. Held(c)' \subseteq Backups \X (1..MaxLen) /\ Held(c) \subseteq Backups \X (1..MaxLen)
  BY DEF Held
<1>3. r \notin Held(c)
  BY <1>0 DEF Held
<1>4. r \in Held(c)' <=> c = stream[b][i]
  BY <1>0 DEF Held
<1>5. ASSUME c = stream[b][i] PROVE Cardinality(Held(c)') = Cardinality(Held(c)) + 1
  <2>1. Held(c)' = Held(c) \cup {r}
    BY <1>0, <1>1, <1>2, <1>4, <1>5
  <2>2. IsFiniteSet(Held(c))
    BY HeldFinite
  <2>3. \A T : T = Held(c) \cup {r} => Cardinality(T) = Cardinality(Held(c)) + 1
    BY <2>2, <1>3, CardinalityAdd
  <2> QED BY <2>1, <2>3
<1>6. ASSUME c # stream[b][i] PROVE Held(c)' = Held(c)
  <2>1. \A q \in Backups \X (1..MaxLen) : q \in Held(c)' <=> q \in Held(c)
    BY <1>1, <1>3, <1>4, <1>6
  <2> QED BY <2>1, <1>2
<1> QED BY <1>5, <1>6

\* Pass b gives up element i of its stream.
LEMMA HeldLess ==
    ASSUME NEW b \in Backups, NEW i \in 1..MaxLen, stream' = stream,
           Holds(b, i), ~Holds(b, i)',
           \A x \in Backups, j \in 1..MaxLen :
               x # b \/ j # i => (Holds(x, j)' <=> Holds(x, j)),
           NEW c
    PROVE  /\ c = stream[b][i] =>
                 /\ Cardinality(Held(c)) > 0
                 /\ Cardinality(Held(c)') = Cardinality(Held(c)) - 1
           /\ c # stream[b][i] => Held(c)' = Held(c)
<1> DEFINE r == <<b, i>>
<1>0. r \in Backups \X (1..MaxLen) /\ r[1] = b /\ r[2] = i
  OBVIOUS
<1>1. \A q \in Backups \X (1..MaxLen) : q # r => (q \in Held(c)' <=> q \in Held(c))
  <2>1. \A q \in Backups \X (1..MaxLen) : q # r => q[1] # b \/ q[2] # i
    OBVIOUS
  <2> QED BY <2>1 DEF Held
<1>2. Held(c)' \subseteq Backups \X (1..MaxLen) /\ Held(c) \subseteq Backups \X (1..MaxLen)
  BY DEF Held
<1>3. r \notin Held(c)'
  BY <1>0 DEF Held
<1>4. r \in Held(c) <=> c = stream[b][i]
  BY <1>0 DEF Held
<1>5. ASSUME c = stream[b][i]
      PROVE  Cardinality(Held(c)) > 0 /\ Cardinality(Held(c)') = Cardinality(Held(c)) - 1
  <2>1. Held(c)' = Held(c) \ {r} /\ r \in Held(c)
    BY <1>0, <1>1, <1>2, <1>3, <1>4, <1>5
  <2>2. IsFiniteSet(Held(c))
    BY HeldFinite
  <2>3. \A T : T = Held(c) \ {r} =>
            Cardinality(Held(c)) > 0 /\ Cardinality(T) = Cardinality(Held(c)) - 1
    BY <2>1, <2>2, CardinalityRemove
  <2> QED BY <2>1, <2>3
<1>6. ASSUME c # stream[b][i] PROVE Held(c)' = Held(c)
  <2>1. \A q \in Backups \X (1..MaxLen) : q \in Held(c)' <=> q \in Held(c)
    BY <1>1, <1>3, <1>4, <1>6
  <2> QED BY <2>1, <1>2
<1> QED BY <1>5, <1>6

LEMMA CountInit == Init => CountInv
<1> SUFFICES ASSUME Init PROVE CountInv
  OBVIOUS
<1>1. TypeInv
  BY TypeInit
<1>2. DoneOK /\ SweepAlone /\ RowsOK
  BY DEF Init, DoneOK, SweepAlone, RowsOK
<1>3. ASSUME NEW c \in Chunks PROVE refCount[c] = Cardinality(Held(c))
  <2>1. \A b \in Backups, i \in 1..MaxLen : ~Holds(b, i)
    BY DEF Init, Holds
  <2>2. Held(c) = {}
    BY <2>1 DEF Held
  <2> QED BY <2>2, FS_EmptySet DEF Init
<1> QED BY <1>1, <1>2, <1>3 DEF CountInv, CountOK, RefCountExact

\* A step that touches neither the rows nor what passes hold.
LEMMA CountUntouched ==
    ASSUME RefCountExact, refCount' = refCount,
           \A b \in Backups, i \in 1..MaxLen :
               /\ Holds(b, i)' <=> Holds(b, i)
               /\ Holds(b, i) => stream'[b][i] = stream[b][i]
    PROVE  RefCountExact'
<1>1. ASSUME NEW c \in Chunks PROVE refCount'[c] = Cardinality(Held(c)')
  BY HeldSame DEF RefCountExact
<1> QED BY <1>1 DEF RefCountExact

\* The same, for a step of pass b that stays on one side of Releasing.
LEMMA CountUntouchedPc ==
    ASSUME TypeInv, RefCountExact, NEW b \in Backups, NEW s,
           UNCHANGED <<stream, pos, refCount>>,
           pc' = [pc EXCEPT ![b] = s], pc[b] \in Releasing <=> s \in Releasing
    PROVE  RefCountExact'
<1>1. \A x \in Backups : pc'[x] \in Releasing <=> pc[x] \in Releasing
  BY DEF TypeInv, TypeOK
<1>2. \A x \in Backups, i \in 1..MaxLen : Holds(x, i)' <=> Holds(x, i)
  BY <1>1 DEF Holds
<1> QED BY <1>2, CountUntouched

\* Pass b takes hold of the chunk at its position.
LEMMA AdvanceHeld ==
    ASSUME TypeInv, NEW b \in Backups, pc[b] \in {"bump", "insert"}, Advance(b), NEW c
    PROVE  /\ c = Chunk(b) => Cardinality(Held(c)') = Cardinality(Held(c)) + 1
           /\ c # Chunk(b) => Held(c)' = Held(c)
<1>0. PICK i : i = pos[b]
  OBVIOUS
<1>1. i \in 1..Len(stream[b]) /\ i \in 1..MaxLen
  BY <1>0, StreamsAssumption DEF TypeInv, TypeOK, PosOK, AtChunk
<1>2. /\ pc \in [Backups -> PassStates] /\ pos \in [Backups -> Nat \ {0}]
      /\ stream' = stream
      /\ pos' = [pos EXCEPT ![b] = i + 1]
      /\ pc'[b] \notin Releasing /\ pc[b] \notin Releasing
      /\ \A x \in Backups : x # b => pc'[x] = pc[x]
  BY <1>0 DEF Advance, WriteFrom, Releasing, TypeInv, TypeOK
<1>3. ~Holds(b, i) /\ Holds(b, i)'
  BY <1>0, <1>1, <1>2 DEF Holds
<1>4. \A x \in Backups, j \in 1..MaxLen :
        x # b \/ j # i => (Holds(x, j)' <=> Holds(x, j))
  <2>1. \A j \in 1..MaxLen : j # i => (j < i + 1 <=> j < i) /\ (j >= i + 1 <=> j >= i)
    BY <1>1
  <2> QED BY <1>0, <1>1, <1>2, <2>1 DEF Holds
<1>5. /\ c = stream[b][i] => Cardinality(Held(c)') = Cardinality(Held(c)) + 1
      /\ c # stream[b][i] => Held(c)' = Held(c)
  BY <1>1, <1>2, <1>3, <1>4, HeldMore
<1> QED BY <1>0, <1>5 DEF Chunk

\* A release gives up the chunk at the position of b.
LEMMA DecrementHeld ==
    ASSUME TypeInv, NEW b \in Backups, Decrement(b), NEW c
    PROVE  /\ c = Chunk(b) => /\ Cardinality(Held(c)) > 0
                              /\ Cardinality(Held(c)') = Cardinality(Held(c)) - 1
           /\ c # Chunk(b) => Held(c)' = Held(c)
<1>0. PICK i : i = pos[b]
  OBVIOUS
<1>1. i \in 1..Len(stream[b]) /\ i \in 1..MaxLen
  BY <1>0, StreamsAssumption DEF Decrement, TypeInv, TypeOK, PosOK, AtChunk
<1>2. /\ pc \in [Backups -> PassStates] /\ pos \in [Backups -> Nat \ {0}]
      /\ stream' = stream
      /\ pos' = [pos EXCEPT ![b] = i + 1]
      /\ pc'[b] \in Releasing /\ pc[b] \in Releasing
      /\ \A x \in Backups : x # b => pc'[x] = pc[x]
  BY <1>0 DEF Decrement, ReleaseFrom, Releasing, TypeInv, TypeOK
<1>3. Holds(b, i) /\ ~Holds(b, i)'
  BY <1>0, <1>1, <1>2 DEF Holds
<1>4. \A x \in Backups, j \in 1..MaxLen :
        x # b \/ j # i => (Holds(x, j)' <=> Holds(x, j))
  <2>1. \A j \in 1..MaxLen : j # i => (j < i + 1 <=> j < i) /\ (j >= i + 1 <=> j >= i)
    BY <1>1
  <2> QED BY <1>0, <1>1, <1>2, <2>1 DEF Holds
<1>5. /\ c = stream[b][i] => /\ Cardinality(Held(c)) > 0
                             /\ Cardinality(Held(c)') = Cardinality(Held(c)) - 1
      /\ c # stream[b][i] => Held(c)' = Held(c)
  BY <1>1, <1>2, <1>3, <1>4, HeldLess
<1> QED BY <1>0, <1>5 DEF Chunk

\* A step of pass b that counts the chunk at its position.
LEMMA CountMore ==
    ASSUME TypeInv, RefCountExact, NEW b \in Backups,
           pc[b] \in {"bump", "insert"}, Advance(b),
           refCount' = [refCount EXCEPT ![Chunk(b)] = @ + 1]
    PROVE  RefCountExact'
<1>1. ASSUME NEW c \in Chunks PROVE refCount'[c] = Cardinality(Held(c)')
  <2>1. /\ c = Chunk(b) => Cardinality(Held(c)') = Cardinality(Held(c)) + 1
        /\ c # Chunk(b) => Held(c)' = Held(c)
    BY AdvanceHeld
  <2>2. refCount[c] = Cardinality(Held(c)) /\ refCount \in [Chunks -> Nat]
    BY DEF RefCountExact, TypeInv, TypeOK
  <2> QED BY <2>1, <2>2
<1> QED BY <1>1 DEF RefCountExact

\* A step of pass b that releases the chunk at its position.
LEMMA CountLess ==
    ASSUME TypeInv, RefCountExact, NEW b \in Backups, Decrement(b)
    PROVE  RefCountExact'
<1>1. ASSUME NEW c \in Chunks PROVE refCount'[c] = Cardinality(Held(c)')
  <2>1. /\ c = Chunk(b) => /\ Cardinality(Held(c)) > 0
                           /\ Cardinality(Held(c)') = Cardinality(Held(c)) - 1
        /\ c # Chunk(b) => Held(c)' = Held(c)
    BY DecrementHeld
  <2>2. refCount[c] = Cardinality(Held(c)) /\ refCount \in [Chunks -> Nat]
    BY DEF RefCountExact, TypeInv, TypeOK
  <2>3. refCount' = [refCount EXCEPT ![Chunk(b)] = IF @ > 0 THEN @ - 1 ELSE 0]
    BY DEF Decrement, Decremented
  <2> QED BY <2>1, <2>2, <2>3
<1> QED BY <1>1 DEF RefCountExact

\* A step of pass b that moves on without counting or releasing.
LEMMA CountQuietPass ==
    ASSUME CountInv, NEW b \in Backups, NEW s,
           UNCHANGED <<stream, pos, indexed, refCount, gcPc>>,
           pc' = [pc EXCEPT ![b] = s],
           pc[b] \in Releasing <=> s \in Releasing,
           s \in Writing => pc[b] \in Writing,
           s \in {"save", "saved"} => pc[b] \in {"save", "saved"},
           s = "bump" => Chunk(b) \in indexed
    PROVE  CountOK'
<1>1. pc \in [Backups -> PassStates]
  BY DEF CountInv, TypeInv, TypeOK
<1>2. DoneOK'
  BY <1>1 DEF CountInv, CountOK, DoneOK
<1>3. SweepAlone'
  BY <1>1 DEF CountInv, CountOK, SweepAlone, InFlight
<1>4. RowsOK'
  BY <1>1 DEF CountInv, CountOK, RowsOK, Chunk
<1>5. RefCountExact'
  BY CountUntouchedPc DEF CountInv, CountOK
<1> QED BY <1>2, <1>3, <1>4, <1>5 DEF CountOK

\* A step of the sweep that deletes no row.
LEMMA CountQuietSweep ==
    ASSUME CountInv, UNCHANGED <<stream, pos, pc, indexed, refCount>>,
           gcPc' # "idle" => InFlight = {}
    PROVE  CountOK'
<1>1. DoneOK' /\ SweepAlone' /\ RowsOK'
  BY DEF CountInv, CountOK, DoneOK, SweepAlone, RowsOK, InFlight, Chunk
<1>2. \A x \in Backups, i \in 1..MaxLen : Holds(x, i)' <=> Holds(x, i)
  BY DEF Holds
<1>3. RefCountExact'
  BY <1>2, CountUntouched DEF CountInv, CountOK
<1> QED BY <1>1, <1>3 DEF CountOK

LEMMA CountStep ==
    ASSUME "gc_overlap" \notin Env, CountInv, [Next]_vars PROVE CountInv'
<1>0. TypeInv /\ TypeInv' /\ RefCountExact
  BY TypeStep DEF CountInv, CountOK
<1>a. CountOK
  BY DEF CountInv
<1>b. pc \in [Backups -> PassStates] /\ pos \in [Backups -> Nat \ {0}]
  BY <1>0 DEF TypeInv, TypeOK
<1> USE DEF Writing, Releasing
\* Steps of a pass.
<1>1. ASSUME NEW b \in Backups, Begin(b) PROVE CountOK'
  <2>1. PICK s \in Streams :
          /\ stream' = [stream EXCEPT ![b] = s]
          /\ pc' = [pc EXCEPT ![b] = WriteFrom(s, 1)]
    BY <1>1 DEF Begin
  <2>2. /\ pc[b] = "idle" /\ pos[b] = 1 /\ pos' = pos /\ gcPc = "idle" /\ gcPc' = gcPc
        /\ refCount' = refCount /\ indexed' = indexed
    BY <1>0, <1>1 DEF Begin, TypeInv, PosOK, dbVars, gcVars
  <2>3. Len(s) \in Nat
    BY StreamsAssumption
  <2>4. WriteFrom(s, 1) \in {"get", "save"} /\ (WriteFrom(s, 1) = "save" => Len(s) = 0)
    BY <2>3 DEF WriteFrom
  <2>5. DoneOK'
    BY <1>0, <1>a, <1>b, <2>1, <2>2, <2>4 DEF CountOK, DoneOK, TypeInv, TypeOK
  <2>6. SweepAlone' /\ RowsOK'
    BY <1>0, <1>a, <1>b, <2>1, <2>2, <2>4
       DEF CountOK, SweepAlone, RowsOK, TypeInv, TypeOK, Chunk
  <2>7. ASSUME NEW x \in Backups, NEW i \in 1..MaxLen
        PROVE  /\ Holds(x, i)' <=> Holds(x, i)
               /\ Holds(x, i) => stream'[x][i] = stream[x][i]
    <3>1. CASE x = b
      BY <1>0, <1>b, <2>1, <2>2, <2>4, <3>1 DEF Holds, TypeInv, TypeOK
    <3>2. CASE x # b
      BY <1>0, <1>b, <2>1, <2>2, <3>2 DEF Holds, TypeInv, TypeOK
    <3> QED BY <3>1, <3>2
  <2>8. RefCountExact'
    BY <1>0, <2>2, <2>7, CountUntouched
  <2> QED BY <2>5, <2>6, <2>8 DEF CountOK
<1>2. ASSUME NEW b \in Backups, LookUp(b) PROVE CountOK'
  BY <1>2, CountQuietPass DEF LookUp, dbVars, gcVars
<1>3. ASSUME NEW b \in Backups, Bump(b) PROVE CountOK'
  <2>1. Chunk(b) \in indexed /\ pc[b] = "bump" /\ InFlight # {}
    BY <1>3, <1>a DEF Bump, CountOK, RowsOK, InFlight
  <2>2. RefCountExact'
    BY <1>0, <1>3, <2>1, CountMore DEF Bump, Incremented
  <2>3. DoneOK'
    BY <1>0, <1>3, <1>a, <1>b DEF Bump, Advance, WriteFrom, CountOK, DoneOK, PosOK, AtChunk, TypeInv, TypeOK
  <2>4. SweepAlone'
    BY <1>3, <1>a, <2>1 DEF Bump, CountOK, SweepAlone, gcVars
  <2>5. RowsOK'
    BY <1>0, <1>3, <1>a, <1>b, <2>1
       DEF Bump, Advance, WriteFrom, Incremented, CountOK, RowsOK, Chunk, TypeInv, TypeOK
  <2> QED BY <2>2, <2>3, <2>4, <2>5 DEF CountOK
<1>4. ASSUME NEW b \in Backups, OpenTmp(b) PROVE CountOK'
  BY <1>4, CountQuietPass DEF OpenTmp, dbVars, gcVars
<1>5. ASSUME NEW b \in Backups, WriteTmp(b) PROVE CountOK'
  BY <1>5, CountQuietPass DEF WriteTmp, dbVars, gcVars
<1>6. ASSUME NEW b \in Backups, WriteError(b) PROVE CountOK'
  BY <1>6, CountQuietPass DEF WriteError, dbVars, gcVars
<1>7. ASSUME NEW b \in Backups, Rename(b) PROVE CountOK'
  BY <1>7, CountQuietPass DEF Rename, dbVars, gcVars
<1>8. ASSUME NEW b \in Backups, RenameMissing(b) PROVE CountOK'
  BY <1>8, CountQuietPass DEF RenameMissing, dbVars, gcVars
<1>9. ASSUME NEW b \in Backups, Cleanup(b) PROVE CountOK'
  BY <1>9, CountQuietPass DEF Cleanup, dbVars, gcVars
<1>10. ASSUME NEW b \in Backups, InsertRow(b) PROVE CountOK'
  <2>1. /\ Chunk(b) \in Chunks /\ refCount[Chunk(b)] \in Nat
        /\ pc[b] = "insert" /\ InFlight # {}
    BY <1>0, <1>10, ChunkType DEF InsertRow, InFlight, AtChunk, TypeInv, TypeOK
  <2>2. refCount' = [refCount EXCEPT ![Chunk(b)] = @ + 1]
    <3>1. Chunk(b) \notin indexed => refCount[Chunk(b)] = 0
      BY <1>a, <2>1 DEF CountOK, RowsOK
    <3>2. (IF Chunk(b) \in indexed THEN refCount[Chunk(b)] + 1 ELSE 1) = refCount[Chunk(b)] + 1
      BY <2>1, <3>1
    <3> QED BY <1>10, <3>2 DEF InsertRow, Inserted
  <2>3. RefCountExact'
    BY <1>0, <1>10, <2>1, <2>2, CountMore DEF InsertRow
  <2>4. DoneOK'
    BY <1>0, <1>10, <1>a, <1>b
       DEF InsertRow, Advance, WriteFrom, CountOK, DoneOK, PosOK, AtChunk, TypeInv, TypeOK
  <2>5. SweepAlone'
    BY <1>10, <1>a, <2>1 DEF InsertRow, CountOK, SweepAlone, gcVars
  <2>6. RowsOK'
    BY <1>0, <1>10, <1>a, <1>b, <2>1, <2>2
       DEF InsertRow, Advance, WriteFrom, CountOK, RowsOK, Chunk, TypeInv, TypeOK
  <2> QED BY <2>3, <2>4, <2>5, <2>6 DEF CountOK
<1>11. ASSUME NEW b \in Backups, Save(b) PROVE CountOK'
  BY <1>11, CountQuietPass DEF Save, dbVars, gcVars
<1>12. ASSUME NEW b \in Backups, Crash(b) PROVE CountOK'
  BY <1>12, CountQuietPass DEF Crash, dbVars, gcVars
<1>13. ASSUME NEW b \in Backups, Discard(b) PROVE CountOK'
  <2>1. pos[b] = Len(stream[b]) + 1 /\ Len(stream[b]) \in Nat
    BY <1>0, <1>13, <1>a DEF Discard, CountOK, DoneOK, TypeInv, TypeOK
  <2>2. DoneOK' /\ SweepAlone' /\ RowsOK'
    BY <1>0, <1>13, <1>a, <1>b
       DEF Discard, ReleaseFrom, CountOK, DoneOK, SweepAlone, RowsOK, Chunk, InFlight,
           dbVars, gcVars, TypeInv, TypeOK
  <2>3. ASSUME NEW x \in Backups, NEW i \in 1..MaxLen
        PROVE  Holds(x, i)' <=> Holds(x, i)
    <3>1. CASE x = b
      BY <1>b, <1>13, <2>1, <3>1 DEF Discard, ReleaseFrom, Holds
    <3>2. CASE x # b
      BY <1>b, <1>13, <3>2 DEF Discard, Holds
    <3> QED BY <3>1, <3>2
  <2>4. RefCountExact'
    BY <1>0, <1>13, <2>3, CountUntouched DEF Discard, dbVars
  <2> QED BY <2>2, <2>4 DEF CountOK
<1>14. ASSUME NEW b \in Backups, Decrement(b) PROVE CountOK'
  <2>1. RefCountExact'
    BY <1>0, <1>14, CountLess
  <2>2. DoneOK' /\ SweepAlone'
    BY <1>0, <1>14, <1>a, <1>b
       DEF Decrement, ReleaseFrom, CountOK, DoneOK, SweepAlone, InFlight, gcVars, TypeInv, TypeOK
  <2>3. \A c \in Chunks : refCount[c] = 0 => refCount'[c] = 0
    BY <1>0, <1>14 DEF Decrement, Decremented, TypeInv, TypeOK
  <2>4. RowsOK'
    BY <1>0, <1>14, <1>a, <1>b, <2>3
       DEF Decrement, ReleaseFrom, CountOK, RowsOK, Chunk, TypeInv, TypeOK
  <2> QED BY <2>1, <2>2, <2>4 DEF CountOK
<1>15. ASSUME NEW b \in Backups, Strand(b) PROVE CountOK'
  BY <1>15, CountQuietPass DEF Strand, dbVars, gcVars
<1>16. ASSUME NEW b \in Backups, CascadeDelete(b) PROVE CountOK'
  BY <1>16, CountQuietPass DEF CascadeDelete, dbVars, gcVars
\* Steps of the sweep.
<1>17. ASSUME GcStart PROVE CountOK'
  BY <1>17, CountQuietSweep DEF GcStart, passVars, dbVars
<1>18. ASSUME GcUnlink PROVE CountOK'
  BY <1>18, <1>a, CountQuietSweep DEF GcUnlink, CountOK, SweepAlone, passVars, dbVars
<1>19. ASSUME GcDelete PROVE CountOK'
  <2>1. InFlight = {} /\ UNCHANGED <<pc, stream, pos, refCount>>
    BY <1>19, <1>a DEF GcDelete, CountOK, SweepAlone, passVars
  <2>2. DoneOK' /\ SweepAlone' /\ RowsOK'
    BY <1>19, <1>a, <2>1
       DEF GcDelete, Deletable, CountOK, DoneOK, SweepAlone, RowsOK, InFlight, Chunk
  <2>3. \A x \in Backups, i \in 1..MaxLen : Holds(x, i)' <=> Holds(x, i)
    BY <2>1 DEF Holds
  <2>4. RefCountExact'
    BY <1>0, <2>1, <2>3, CountUntouched
  <2> QED BY <2>2, <2>4 DEF CountOK
<1>20. ASSUME GcEnd PROVE CountOK'
  BY <1>20, CountQuietSweep DEF GcEnd, passVars, dbVars
<1>21. ASSUME GcUnlinkFails PROVE CountOK'
  BY <1>21, <1>a, CountQuietSweep DEF GcUnlinkFails, CountOK, SweepAlone, passVars, dbVars
<1>22. ASSUME GcDeleteFails PROVE CountOK'
  BY <1>22, <1>a, CountQuietSweep DEF GcDeleteFails, CountOK, SweepAlone, passVars, dbVars
<1>23. ASSUME GcKilled PROVE CountOK'
  BY <1>23, CountQuietSweep DEF GcKilled, passVars, dbVars
<1>24. ASSUME UNCHANGED vars PROVE CountOK'
  BY <1>24, <1>a, CountQuietSweep DEF vars, CountOK, SweepAlone
<1>25. CountOK'
  BY <1>1, <1>2, <1>3, <1>4, <1>5, <1>6, <1>7, <1>8, <1>9, <1>10, <1>11,
     <1>12, <1>13, <1>14, <1>15, <1>16, <1>17, <1>18, <1>19, <1>20, <1>21,
     <1>22, <1>23, <1>24
     DEF Next, PassStep, WriteStep, FaultStep, GcStep, GcFault
<1> QED BY <1>0, <1>25 DEF CountInv

\* If no sweep overlaps a pass, the ref_count of a chunk is exactly the number
\* of references written and not released: for any number of passes that
\* write and release the same chunks at once, wherever they crash, whatever
\* the sweeps in between do or fail to do.
THEOREM RefCountsExact ==
    ASSUME "gc_overlap" \notin Env PROVE Spec => []RefCountExact
<1>1. CountInv /\ [Next]_vars => CountInv'
  BY CountStep
<1>2. CountInv => RefCountExact
  BY DEF CountInv, CountOK
<1> QED BY CountInit, <1>1, <1>2, PTL DEF Spec

-----------------------------------------------------------------------------
(* Sweeps among the passes *)

\* In every circumstance, sweeps among the passes included: a sweep may take
\* away a row that a pass is about to increment, so that references are written
\* which nothing counts, but never the other way round.
OverInv == TypeInv /\ DoneOK /\ NoOvercount

\* A step that neither counts nor releases.
LEMMA OverUntouched ==
    ASSUME TypeInv, NoOvercount, refCount' = refCount,
           \A b \in Backups, i \in 1..MaxLen :
               /\ Holds(b, i)' <=> Holds(b, i)
               /\ Holds(b, i) => stream'[b][i] = stream[b][i]
    PROVE  NoOvercount'
<1>1. ASSUME NEW c \in Chunks PROVE refCount'[c] <= Cardinality(Held(c)')
  BY HeldSame DEF NoOvercount
<1> QED BY <1>1 DEF NoOvercount

\* The same, for a step of pass b that stays on one side of Releasing.
LEMMA OverUntouchedPc ==
    ASSUME OverInv, NEW b \in Backups, NEW s,
           UNCHANGED <<stream, pos, refCount>>,
           pc' = [pc EXCEPT ![b] = s], pc[b] \in Releasing <=> s \in Releasing,
           s \in {"save", "saved"} => pc[b] \in {"save", "saved"}
    PROVE  DoneOK' /\ NoOvercount'
<1>1. pc \in [Backups -> PassStates]
  BY DEF OverInv, TypeInv, TypeOK
<1>2. \A x \in Backups : pc'[x] \in Releasing <=> pc[x] \in Releasing
  BY <1>1
<1>3. \A x \in Backups, i \in 1..MaxLen : Holds(x, i)' <=> Holds(x, i)
  BY <1>2 DEF Holds
<1>4. NoOvercount'
  BY <1>3, OverUntouched DEF OverInv
<1>5. DoneOK'
  BY <1>1 DEF OverInv, DoneOK
<1> QED BY <1>4, <1>5

\* A step of pass b that passes the chunk at its position, and counts it or,
\* when the row is gone, does not.
LEMMA OverMore ==
    ASSUME OverInv, NEW b \in Backups, pc[b] \in {"bump", "insert"}, Advance(b),
           \A c \in Chunks : c # Chunk(b) => refCount'[c] = refCount[c],
           refCount'[Chunk(b)] \in {refCount[Chunk(b)], refCount[Chunk(b)] + 1, 1}
    PROVE  DoneOK' /\ NoOvercount'
<1>1. ASSUME NEW c \in Chunks PROVE refCount'[c] <= Cardinality(Held(c)')
  <2>1. /\ c = Chunk(b) => Cardinality(Held(c)') = Cardinality(Held(c)) + 1
        /\ c # Chunk(b) => Held(c)' = Held(c)
    BY AdvanceHeld DEF OverInv
  <2>2. refCount[c] <= Cardinality(Held(c)) /\ refCount[c] \in Nat
    BY DEF OverInv, NoOvercount, TypeInv, TypeOK
  <2>3. Cardinality(Held(c)) \in Nat
    BY HeldFinite
  <2>4. CASE c = Chunk(b)
    BY <2>1, <2>2, <2>3, <2>4
  <2>5. CASE c # Chunk(b)
    BY <2>1, <2>2, <2>5
  <2> QED BY <2>4, <2>5
<1>2. DoneOK'
  BY DEF OverInv, DoneOK, Advance, WriteFrom, PosOK, AtChunk, TypeInv, TypeOK
<1> QED BY <1>1, <1>2 DEF NoOvercount

\* A step of the sweep.
LEMMA OverSweep ==
    ASSUME OverInv, UNCHANGED <<stream, pos, pc, refCount>>
    PROVE  DoneOK' /\ NoOvercount'
<1>1. \A x \in Backups, i \in 1..MaxLen : Holds(x, i)' <=> Holds(x, i)
  BY DEF Holds
<1>2. NoOvercount'
  BY <1>1, OverUntouched DEF OverInv
<1> QED BY <1>2 DEF OverInv, DoneOK

LEMMA OverStep == OverInv /\ [Next]_vars => OverInv'
<1> SUFFICES ASSUME OverInv, [Next]_vars PROVE DoneOK' /\ NoOvercount'
  BY TypeStep DEF OverInv
<1>0. /\ TypeInv /\ DoneOK /\ NoOvercount
      /\ pc \in [Backups -> PassStates] /\ pos \in [Backups -> Nat \ {0}]
      /\ refCount \in [Chunks -> Nat]
  BY DEF OverInv, TypeInv, TypeOK
<1> USE DEF dbVars, gcVars
<1>1. ASSUME NEW b \in Backups, Begin(b) PROVE DoneOK' /\ NoOvercount'
  <2>1. PICK s \in Streams :
          /\ stream' = [stream EXCEPT ![b] = s]
          /\ pc' = [pc EXCEPT ![b] = WriteFrom(s, 1)]
    BY <1>1 DEF Begin
  <2>2. /\ pc[b] = "idle" /\ pos[b] = 1 /\ pos' = pos /\ refCount' = refCount
    BY <1>0, <1>1 DEF Begin, TypeInv, PosOK
  <2>3. Len(s) \in Nat
    BY StreamsAssumption
  <2>4. WriteFrom(s, 1) \in {"get", "save"} /\ (WriteFrom(s, 1) = "save" => Len(s) = 0)
    BY <2>3 DEF WriteFrom
  <2>5. DoneOK'
    BY <1>0, <2>1, <2>2, <2>4 DEF DoneOK, TypeInv, TypeOK
  <2>6. ASSUME NEW x \in Backups, NEW i \in 1..MaxLen
        PROVE  /\ Holds(x, i)' <=> Holds(x, i)
               /\ Holds(x, i) => stream'[x][i] = stream[x][i]
    <3>1. CASE x = b
      BY <1>0, <2>1, <2>2, <2>4, <3>1 DEF Holds, TypeInv, TypeOK, Releasing
    <3>2. CASE x # b
      BY <1>0, <2>1, <2>2, <3>2 DEF Holds, TypeInv, TypeOK
    <3> QED BY <3>1, <3>2
  <2> QED BY <1>0, <2>2, <2>5, <2>6, OverUntouched
<1>2. ASSUME NEW b \in Backups, Bump(b) PROVE DoneOK' /\ NoOvercount'
  <2>1. Chunk(b) \in Chunks
    BY <1>0, <1>2, ChunkType DEF Bump, AtChunk
  <2>2. /\ \A c \in Chunks : c # Chunk(b) => refCount'[c] = refCount[c]
        /\ refCount'[Chunk(b)] \in {refCount[Chunk(b)], refCount[Chunk(b)] + 1, 1}
    BY <1>0, <1>2, <2>1 DEF Bump, Incremented
  <2> QED BY <1>2, <2>2, OverMore DEF Bump
<1>3. ASSUME NEW b \in Backups, InsertRow(b) PROVE DoneOK' /\ NoOvercount'
  <2>1. Chunk(b) \in Chunks
    BY <1>0, <1>3, ChunkType DEF InsertRow, AtChunk
  <2>2. /\ \A c \in Chunks : c # Chunk(b) => refCount'[c] = refCount[c]
        /\ refCount'[Chunk(b)] \in {refCount[Chunk(b)], refCount[Chunk(b)] + 1, 1}
    BY <1>0, <1>3, <2>1 DEF InsertRow, Inserted
  <2> QED BY <1>3, <2>2, OverMore DEF InsertRow
<1>4. ASSUME NEW b \in Backups, Discard(b) PROVE DoneOK' /\ NoOvercount'
  <2>1. /\ pc[b] = "saved" /\ pos[b] = Len(stream[b]) + 1
        /\ pos' = [pos EXCEPT ![b] = 1] /\ stream' = stream /\ refCount' = refCount
        /\ pc' = [pc EXCEPT ![b] = ReleaseFrom(stream[b], 1)]
        /\ ReleaseFrom(stream[b], 1) \in {"drop", "dropped"} /\ Len(stream[b]) \in Nat
    BY <1>0, <1>4 DEF Discard, DoneOK, ReleaseFrom, TypeInv, TypeOK
  <2>2. DoneOK'
    BY <1>0, <2>1 DEF DoneOK
  <2>3. \A x \in Backups, i \in 1..MaxLen : Holds(x, i)' <=> Holds(x, i)
    BY <1>0, <2>1 DEF Holds, Releasing
  <2> QED BY <1>0, <2>1, <2>2, <2>3, OverUntouched
<1>5. ASSUME NEW b \in Backups, Decrement(b) PROVE DoneOK' /\ NoOvercount'
  <2>1. ASSUME NEW c \in Chunks PROVE refCount'[c] <= Cardinality(Held(c)')
    <3>1. /\ c = Chunk(b) => /\ Cardinality(Held(c)) > 0
                             /\ Cardinality(Held(c)') = Cardinality(Held(c)) - 1
          /\ c # Chunk(b) => Held(c)' = Held(c)
      BY <1>0, <1>5, DecrementHeld
    <3>2. refCount[c] <= Cardinality(Held(c)) /\ refCount[c] \in Nat /\ Cardinality(Held(c)) \in Nat
      BY <1>0, HeldFinite DEF NoOvercount
    <3>3. refCount' = [refCount EXCEPT ![Chunk(b)] = IF @ > 0 THEN @ - 1 ELSE 0]
      BY <1>5 DEF Decrement, Decremented
    <3>4. CASE c = Chunk(b)
      BY <1>0, <3>1, <3>2, <3>3, <3>4
    <3>5. CASE c # Chunk(b)
      BY <1>0, <3>1, <3>2, <3>3, <3>5
    <3> QED BY <3>4, <3>5
  <2>2. DoneOK'
    BY <1>0, <1>5 DEF Decrement, ReleaseFrom, DoneOK, TypeInv, TypeOK
  <2> QED BY <2>1, <2>2 DEF NoOvercount
<1>6. ASSUME NEW b \in Backups,
             \/ LookUp(b) \/ OpenTmp(b) \/ WriteTmp(b) \/ Rename(b) \/ RenameMissing(b)
             \/ Cleanup(b) \/ Save(b) \/ FaultStep(b)
      PROVE  DoneOK' /\ NoOvercount'
  <2>1. PICK s :
          /\ UNCHANGED <<stream, pos, refCount>>
          /\ pc' = [pc EXCEPT ![b] = s]
          /\ pc[b] \in Releasing <=> s \in Releasing
          /\ s \in {"save", "saved"} => pc[b] \in {"save", "saved"}
    BY <1>6 DEF LookUp, OpenTmp, WriteTmp, Rename, RenameMissing, Cleanup, Save, FaultStep,
                WriteError, Crash, Strand, CascadeDelete, Releasing, Writing
  <2> QED BY <2>1, OverUntouchedPc
<1>7. ASSUME GcStart \/ GcStep \/ GcFault \/ UNCHANGED vars PROVE DoneOK' /\ NoOvercount'
  <2>1. UNCHANGED <<stream, pos, pc, refCount>>
    BY <1>7 DEF GcStart, GcStep, GcFault, GcUnlink, GcDelete, GcEnd, GcUnlinkFails,
                GcDeleteFails, GcKilled, passVars, vars
  <2> QED BY <2>1, OverSweep
<1> QED
  BY <1>1, <1>2, <1>3, <1>4, <1>5, <1>6, <1>7 DEF Next, PassStep, WriteStep

\* In every circumstance a ref_count is at most the number of references, so no
\* unreferenced chunk is kept by mistake: neither a sweep that deletes a row
\* between the select and the update of _write_chunk, nor any crash, makes the
\* count exceed what passes have written and not released.
THEOREM NeverOvercounted == Spec => []NoOvercount
<1>1. Init => OverInv
  <2>1. \A c : Cardinality(Held(c)) \in Nat
    BY HeldFinite
  <2> QED BY <2>1, TypeInit DEF Init, OverInv, DoneOK, NoOvercount
<1>2. OverInv => NoOvercount
  BY DEF OverInv
<1> QED BY <1>1, <1>2, OverStep, PTL DEF Spec

-----------------------------------------------------------------------------
(* Chunk files *)

\* One pass at a time, no sweep meanwhile, and no sweep that stops half-way.
\* The runs that admit the contrary violate ManifestsRestorable.
Orderly == {"concurrent", "gc_overlap", "gc_fault"} \cap Env = {}

OnePass == \A x, y \in InFlight : x = y

\* A row has its file, except between the two halves of GC's step.
WholeOK == \A c \in indexed : file[c] = "whole" \/ (gcPc = "delete" /\ gcCur = c)

\* What the sweep has chosen is still unreferenced.
SweepOK ==
    /\ gcPc = "idle" => eligible = {}
    /\ \A c \in eligible : refCount[c] = 0
    /\ gcPc = "delete" => refCount[gcCur] = 0

\* The writer's file is where its next call expects it.
WriterOK ==
    \A b \in Backups :
        /\ pc[b] = "write" => fd[b] = "tmp"
        /\ pc[b] = "rename" => tmp[Chunk(b)] = "whole"
        /\ pc[b] = "insert" => file[Chunk(b)] = "whole"

FileOK == OnePass /\ WholeOK /\ SweepOK /\ WriterOK

FileInv == CountInv /\ FileOK

LEMMA FileInit == Init => FileInv
<1>1. Init => FileOK
  BY DEF Init, FileOK, OnePass, WholeOK, SweepOK, WriterOK, InFlight, Writing
<1> QED BY <1>1, CountInit DEF FileInv

\* While a pass writes there is no other, and no sweep.
LEMMA WriterAlone ==
    ASSUME FileInv, NEW b \in Backups, pc[b] \in Writing
    PROVE  /\ gcPc = "idle" /\ eligible = {}
           /\ \A x \in Backups : x # b => pc[x] \notin Writing
BY DEF FileInv, CountInv, CountOK, SweepAlone, FileOK, OnePass, SweepOK, InFlight

\* A step of the writer b that changes no row and keeps every file that has one.
LEMMA FileQuietWriter ==
    ASSUME FileInv, NEW b \in Backups, NEW s,
           pc[b] \in Writing,
           pc' = [pc EXCEPT ![b] = s],
           UNCHANGED <<stream, indexed, gcVars>>,
           \A c \in indexed : file[c] = "whole" => file'[c] = "whole",
           s = "write" => fd'[b] = "tmp",
           s = "rename" => tmp'[Chunk(b)] = "whole" /\ pos' = pos,
           s = "insert" => file'[Chunk(b)] = "whole" /\ pos' = pos
    PROVE  FileOK'
<1>1. pc \in [Backups -> PassStates]
  BY DEF FileInv, CountInv, TypeInv, TypeOK
<1>2. /\ gcPc = "idle" /\ eligible = {}
      /\ \A x \in Backups : x # b => pc[x] \notin Writing
  BY WriterAlone
<1>3. OnePass'
  BY <1>1, <1>2 DEF OnePass, InFlight
<1>4. WholeOK'
  BY <1>2 DEF FileInv, FileOK, WholeOK, gcVars
<1>5. SweepOK'
  BY <1>2 DEF SweepOK, gcVars
<1>6. WriterOK'
  BY <1>1, <1>2 DEF WriterOK, Writing, Chunk
<1> QED BY <1>3, <1>4, <1>5, <1>6 DEF FileOK

\* A step of a pass b that is not writing and stays so.
LEMMA FileQuietRelease ==
    ASSUME FileInv, NEW b \in Backups, NEW s,
           pc[b] \notin Writing, s \notin Writing,
           pc' = [pc EXCEPT ![b] = s], pos' = [pos EXCEPT ![b] = pos'[b]],
           UNCHANGED <<stream, indexed, fsVars, gcVars>>,
           \A c \in Chunks : refCount[c] = 0 => refCount'[c] = 0
    PROVE  FileOK'
<1>1. /\ pc \in [Backups -> PassStates]
      /\ pos \in [Backups -> Nat \ {0}]
      /\ eligible \subseteq Chunks /\ gcCur \in Chunks \cup {NoChunk}
      /\ gcPc = "delete" => gcCur # NoChunk
  BY DEF FileInv, CountInv, TypeInv, TypeOK
<1>2. OnePass'
  BY <1>1 DEF FileInv, FileOK, OnePass, InFlight
<1>3. WholeOK' /\ SweepOK'
  BY <1>1 DEF FileInv, FileOK, WholeOK, SweepOK, gcVars, fsVars
<1>4. WriterOK'
  BY <1>1 DEF FileInv, FileOK, WriterOK, Writing, Chunk, fsVars
<1> QED BY <1>2, <1>3, <1>4 DEF FileOK

\* A step of the sweep.
LEMMA FileSweep ==
    ASSUME FileInv, Orderly, GcStart \/ GcStep PROVE FileOK'
<1>0. /\ file \in [Chunks -> Contents] /\ indexed \subseteq Chunks /\ eligible \subseteq Chunks
      /\ gcCur \in Chunks \cup {NoChunk}
      /\ WholeOK /\ SweepOK
  BY DEF FileInv, FileOK, CountInv, TypeInv, TypeOK
<1>1. InFlight = {} /\ UNCHANGED <<pc, stream, pos, refCount>>
  BY DEF FileInv, CountInv, CountOK, SweepAlone, Orderly,
         GcStart, GcStep, GcUnlink, GcDelete, GcEnd, passVars, dbVars
<1>2. OnePass' /\ WriterOK'
  BY <1>1 DEF InFlight, Writing, OnePass, WriterOK, Chunk
<1>3. WholeOK' /\ SweepOK'
  <2>1. CASE GcStart
    BY <2>1, <1>0, <1>1 DEF GcStart, WholeOK, SweepOK, dbVars, fsVars
  <2>2. CASE GcUnlink
    BY <2>2, <1>0, <1>1 DEF GcUnlink, WholeOK, SweepOK, dbVars
  <2>3. CASE GcDelete
    BY <2>3, <1>0, <1>1 DEF GcDelete, Deletable, WholeOK, SweepOK, fsVars
  <2>4. CASE GcEnd
    BY <2>4, <1>0, <1>1 DEF GcEnd, WholeOK, SweepOK, dbVars, fsVars
  <2> QED BY <2>1, <2>2, <2>3, <2>4 DEF GcStep
<1> QED BY <1>2, <1>3 DEF FileOK

LEMMA FileStep ==
    ASSUME Orderly, FileInv, [Next]_vars PROVE FileInv'
<1>0. CountInv'
  BY CountStep DEF FileInv, Orderly
<1>a. /\ pc \in [Backups -> PassStates]
      /\ pos \in [Backups -> Nat \ {0}]
      /\ fd \in [Backups -> {"none", "tmp", "final", "gone"}]
      /\ indexed \subseteq Chunks
      /\ refCount \in [Chunks -> Nat]
      /\ file \in [Chunks -> Contents]
      /\ tmp \in [Chunks -> Contents]
      /\ FileOK
  BY DEF FileInv, CountInv, TypeInv, TypeOK
<1>b. ASSUME NEW b \in Backups, pc[b] \in AtChunk PROVE Chunk(b) \in Chunks
  BY <1>b, ChunkType DEF FileInv, CountInv
<1>1. ASSUME NEW b \in Backups, Begin(b) PROVE FileOK'
  <2>1. PICK s \in Streams :
          /\ stream' = [stream EXCEPT ![b] = s]
          /\ pc' = [pc EXCEPT ![b] = WriteFrom(s, 1)]
    BY <1>1 DEF Begin
  <2>2. InFlight = {} /\ gcPc = "idle" /\ UNCHANGED <<pos, dbVars, fsVars, gcVars>>
    BY <1>1 DEF Begin, Orderly
  <2>3. WriteFrom(s, 1) \in {"get", "save"}
    BY DEF WriteFrom
  <2>4. OnePass' /\ WriterOK'
    BY <1>a, <2>1, <2>2, <2>3 DEF OnePass, WriterOK, InFlight, Writing
  <2>5. WholeOK' /\ SweepOK'
    BY <1>a, <2>2 DEF FileOK, WholeOK, SweepOK, dbVars, fsVars, gcVars
  <2> QED BY <2>4, <2>5 DEF FileOK
<1>2. ASSUME NEW b \in Backups, LookUp(b) PROVE FileOK'
  BY <1>2, FileQuietWriter DEF LookUp, Writing, dbVars, fsVars
<1>3. ASSUME NEW b \in Backups, Bump(b) PROVE FileOK'
  BY <1>3, FileQuietWriter DEF Bump, Advance, WriteFrom, Writing, fsVars
<1>4. ASSUME NEW b \in Backups, OpenTmp(b) PROVE FileOK'
  BY <1>4, <1>a, FileQuietWriter DEF OpenTmp, Writing, dbVars
<1>5. ASSUME NEW b \in Backups, WriteTmp(b) PROVE FileOK'
  <2>1. pc[b] = "write" /\ fd[b] = "tmp" /\ Chunk(b) \in Chunks
    BY <1>5, <1>a, <1>b DEF WriteTmp, FileOK, WriterOK, AtChunk
  <2>2. file' = file /\ tmp' = [tmp EXCEPT ![Chunk(b)] = "whole"]
    BY <1>5, <2>1 DEF WriteTmp
  <2> QED BY <1>5, <1>a, <2>1, <2>2, FileQuietWriter DEF WriteTmp, Writing, dbVars
<1>6. ASSUME NEW b \in Backups, WriteError(b) PROVE FileOK'
  BY <1>6, FileQuietWriter DEF WriteError, Writing, dbVars
<1>7. ASSUME NEW b \in Backups, Rename(b) PROVE FileOK'
  <2>1. pc[b] = "rename" /\ tmp[Chunk(b)] = "whole" /\ Chunk(b) \in Chunks
    BY <1>7, <1>a, <1>b DEF Rename, FileOK, WriterOK, AtChunk
  <2>2. file' = [file EXCEPT ![Chunk(b)] = "whole"]
    BY <1>7, <2>1 DEF Rename
  <2> QED BY <1>7, <1>a, <2>1, <2>2, FileQuietWriter DEF Rename, Writing, dbVars
<1>8. ASSUME NEW b \in Backups, RenameMissing(b) PROVE FileOK'
  BY <1>8, FileQuietWriter DEF RenameMissing, Writing, dbVars, fsVars
<1>9. ASSUME NEW b \in Backups, Cleanup(b) PROVE FileOK'
  <2>1. /\ pc[b] \in Writing /\ pc' = [pc EXCEPT ![b] = "failed"]
        /\ UNCHANGED <<stream, indexed, gcVars, file>>
    BY <1>9 DEF Cleanup, Writing, dbVars
  <2> QED BY <2>1, FileQuietWriter
<1>10. ASSUME NEW b \in Backups, InsertRow(b) PROVE FileOK'
  <2>1. pc[b] = "insert" /\ file[Chunk(b)] = "whole" /\ pc[b] \in Writing
    BY <1>10, <1>a DEF InsertRow, FileOK, WriterOK, Writing
  <2>2. /\ gcPc = "idle" /\ eligible = {}
        /\ \A x \in Backups : x # b => pc[x] \notin Writing
    BY <2>1, WriterAlone
  <2>3. pc' = [pc EXCEPT ![b] = pc'[b]] /\ pc'[b] \in {"get", "save"}
    BY <1>10, <1>a DEF InsertRow, Advance, WriteFrom
  <2>4. OnePass' /\ WriterOK'
    BY <1>a, <2>2, <2>3 DEF OnePass, WriterOK, InFlight, Writing
  <2>5. WholeOK' /\ SweepOK'
    BY <1>10, <1>a, <2>1, <2>2 DEF InsertRow, FileOK, WholeOK, SweepOK, fsVars, gcVars
  <2> QED BY <2>4, <2>5 DEF FileOK
<1>11. ASSUME NEW b \in Backups, Save(b) PROVE FileOK'
  <2>1. /\ pc[b] \in Writing /\ pc' = [pc EXCEPT ![b] = "saved"]
        /\ UNCHANGED <<stream, indexed, gcVars, file>>
    BY <1>11 DEF Save, Writing, dbVars, fsVars
  <2> QED BY <2>1, FileQuietWriter
<1>12. ASSUME NEW b \in Backups, Crash(b) PROVE FileOK'
  <2>1. /\ pc[b] \in Writing /\ pc' = [pc EXCEPT ![b] = "failed"]
        /\ UNCHANGED <<stream, indexed, gcVars, file>>
    BY <1>12 DEF Crash, Writing, dbVars
  <2> QED BY <2>1, FileQuietWriter
<1>13. ASSUME NEW b \in Backups, Discard(b) PROVE FileOK'
  BY <1>13, <1>a, FileQuietRelease DEF Discard, ReleaseFrom, Writing, dbVars
<1>14. ASSUME NEW b \in Backups, Decrement(b) PROVE FileOK'
  <2>1. \A c \in Chunks : refCount[c] = 0 => refCount'[c] = 0
    BY <1>14, <1>a DEF Decrement, Decremented
  <2>2. pos' = [pos EXCEPT ![b] = pos'[b]]
    BY <1>14, <1>a DEF Decrement
  <2> QED BY <1>14, <2>1, <2>2, FileQuietRelease DEF Decrement, ReleaseFrom, Writing
<1>15. ASSUME NEW b \in Backups, Strand(b) PROVE FileOK'
  BY <1>15, <1>a, FileQuietRelease DEF Strand, Writing, dbVars
<1>16. ASSUME NEW b \in Backups, CascadeDelete(b) PROVE FileOK'
  BY <1>16, <1>a, FileQuietRelease DEF CascadeDelete, Writing, dbVars
<1>17. ASSUME GcStart \/ GcStep PROVE FileOK'
  BY <1>17, FileSweep
<1>18. ASSUME GcFault PROVE FALSE
  BY <1>18 DEF GcFault, GcUnlinkFails, GcDeleteFails, GcKilled, Orderly
<1>19. ASSUME UNCHANGED vars PROVE FileOK'
  BY <1>19, <1>a DEF vars, FileOK, OnePass, WholeOK, SweepOK, WriterOK, InFlight, Chunk
<1>20. FileOK'
  BY <1>1, <1>2, <1>3, <1>4, <1>5, <1>6, <1>7, <1>8, <1>9, <1>10, <1>11,
     <1>12, <1>13, <1>14, <1>15, <1>16, <1>17, <1>18, <1>19
     DEF Next, PassStep, WriteStep, FaultStep
<1> QED BY <1>0, <1>20 DEF FileInv

\* A chunk that a stored manifest names is counted, so its row exists.
LEMMA StoredIsCounted ==
    ASSUME CountInv, NEW b \in Backups, pc[b] = "saved", NEW i \in 1..Len(stream[b])
    PROVE  stream[b][i] \in indexed /\ refCount[stream[b][i]] # 0
<1>1. PICK c : c = stream[b][i]
  OBVIOUS
<1>2. /\ stream[b] \in Seq(Chunks) /\ Len(stream[b]) <= MaxLen /\ Len(stream[b]) \in Nat
      /\ pos[b] = Len(stream[b]) + 1
  BY DEF CountInv, CountOK, DoneOK, TypeInv, TypeOK
<1>3. c \in Chunks /\ i \in 1..MaxLen
  BY <1>1, <1>2, StreamsAssumption
<1>4. Holds(b, i)
  BY <1>2 DEF Holds, Releasing
<1>5. <<b, i>> \in Held(c)
  BY <1>1, <1>3, <1>4 DEF Held
<1>6. refCount[c] # 0
  <2>1. IsFiniteSet(Held(c)) /\ Held(c) # {}
    BY <1>5, HeldFinite
  <2>2. Cardinality(Held(c)) # 0
    BY <2>1, FS_EmptySet
  <2> QED BY <1>3, <2>2 DEF CountInv, CountOK, RefCountExact
<1> QED BY <1>1, <1>3, <1>6 DEF CountInv, CountOK, RowsOK

\* The sweep does not have it in hand: its file is there.
LEMMA StoredIsWhole ==
    ASSUME FileInv, NEW b \in Backups, pc[b] = "saved" PROVE Restorable(b)
<1> SUFFICES ASSUME NEW i \in 1..Len(stream[b]) PROVE file[stream[b][i]] = "whole"
  BY DEF Restorable
<1>1. stream[b][i] \in indexed /\ refCount[stream[b][i]] # 0
  BY StoredIsCounted DEF FileInv
<1> QED BY <1>1 DEF FileInv, FileOK, WholeOK, SweepOK

\* If passes do not overlap each other or a sweep, and sweeps are not cut off
\* between unlink and DELETE, then every stored manifest can be restored: after
\* any number of backups that share chunks, of crashes half-way through a pass
\* or a release, of discarded manifests and of sweeps.
THEOREM ManifestsStayRestorable ==
    ASSUME Orderly PROVE Spec => []ManifestsRestorable
<1>1. FileInv /\ [Next]_vars => FileInv'
  BY FileStep
<1>2. FileInv => ManifestsRestorable
  BY StoredIsWhole DEF ManifestsRestorable
<1> QED BY FileInit, <1>1, <1>2, PTL DEF Spec

-----------------------------------------------------------------------------
(* Passes that race for one .tmp file *)

\* Passes may overlap, but none is cut off, and sweeps keep away and run to
\* their end.
Uncut == {"crash", "gc_overlap", "gc_fault"} \cap Env = {}

\* An incomplete file is held open, where it is, by a pass that completes it.
OpenOK ==
    \A c \in Chunks :
        /\ tmp[c] = "torn" => Opened(c, "tmp")
        /\ file[c] = "torn" => Opened(c, "final")

\* A row has a file, complete or not, except between the two halves of GC's step.
PresentOK ==
    /\ \A c \in indexed : file[c] # "none" \/ (gcPc = "delete" /\ gcCur = c)
    /\ \A b \in Backups : pc[b] = "insert" => file[Chunk(b)] # "none"

RaceInv == CountInv /\ OpenOK /\ PresentOK /\ SweepOK

\* While a pass writes no sweep has anything in hand.
LEMMA WriterKeepsSweepOff ==
    ASSUME RaceInv, NEW b \in Backups, pc[b] \in Writing
    PROVE  gcPc = "idle" /\ eligible = {}
BY DEF RaceInv, CountInv, CountOK, SweepAlone, SweepOK, InFlight

\* A step that opens, writes and moves no file.
LEMMA OpenQuiet ==
    ASSUME OpenOK, UNCHANGED <<file, tmp>>,
           \A a \in Backups : pc[a] = "write" =>
               pc'[a] = "write" /\ fd'[a] = fd[a] /\ Chunk(a)' = Chunk(a)
    PROVE  OpenOK'
<1>1. ASSUME NEW c, NEW at, Opened(c, at) PROVE Opened(c, at)'
  BY <1>1 DEF Opened
<1> QED BY <1>1 DEF OpenOK

\* A step of the writer b.
LEMMA OpenWriter ==
    ASSUME RaceInv, NEW b \in Backups,
           OpenTmp(b) \/ WriteTmp(b) \/ Rename(b) \/ Cleanup(b)
    PROVE  OpenOK'
<1>0. /\ pc \in [Backups -> PassStates]
      /\ fd \in [Backups -> {"none", "tmp", "final", "gone"}]
      /\ file \in [Chunks -> Contents] /\ tmp \in [Chunks -> Contents]
      /\ OpenOK
      /\ Chunk(b) \in Chunks
  <2>1. pc[b] \in AtChunk
    BY DEF OpenTmp, WriteTmp, Rename, Cleanup, AtChunk
  <2> QED BY <2>1, ChunkType DEF RaceInv, CountInv, TypeInv, TypeOK
<1>1. \A a \in Backups : Chunk(a)' = Chunk(a)
  BY DEF OpenTmp, WriteTmp, Rename, Cleanup, Chunk
<1>d. PICK d \in Chunks : d = Chunk(b)
  BY <1>0
\* A holder that b neither is nor moves goes on holding.
<1>2. ASSUME NEW c \in Chunks, NEW at, NEW a \in Backups, Chunk(a) = c,
             pc'[a] = "write", fd'[a] = at
      PROVE  Opened(c, at)'
  BY <1>1, <1>2 DEF Opened
<1>3. CASE OpenTmp(b)
  <2>1. /\ pc[b] = "open" /\ pc' = [pc EXCEPT ![b] = "write"]
        /\ fd' = [fd EXCEPT ![b] = "tmp"] /\ tmp' = [tmp EXCEPT ![d] = "torn"]
        /\ file' = file
    BY <1>3, <1>d DEF OpenTmp
  <2>2. \A c \in Chunks, at \in {"tmp", "final"} : Opened(c, at) => Opened(c, at)'
    BY <1>0, <1>2, <2>1 DEF Opened
  <2>3. Opened(d, "tmp")'
    <3>1. Chunk(b) = d /\ pc'[b] = "write" /\ fd'[b] = "tmp"
      BY <1>0, <1>d, <2>1
    <3> QED BY <1>0, <1>2, <3>1
  <2> QED BY <1>0, <2>1, <2>2, <2>3 DEF OpenOK
<1>4. CASE WriteTmp(b)
  <2>1. /\ pc[b] = "write" /\ pc' = [pc EXCEPT ![b] = "rename"]
        /\ fd' = [fd EXCEPT ![b] = "none"]
        /\ tmp' = IF fd[b] = "tmp" THEN [tmp EXCEPT ![d] = "whole"] ELSE tmp
        /\ file' = IF fd[b] = "final" THEN [file EXCEPT ![d] = "whole"] ELSE file
    BY <1>4, <1>d DEF WriteTmp
  <2>2. ASSUME NEW c \in Chunks, NEW at, Opened(c, at), c # d \/ fd[b] # at
        PROVE  Opened(c, at)'
    <3>1. PICK a \in Backups : pc[a] = "write" /\ fd[a] = at /\ Chunk(a) = c
      BY <2>2 DEF Opened
    <3>2. a # b
      BY <1>d, <2>2, <3>1
    <3> QED BY <1>0, <1>2, <2>1, <3>1, <3>2
  <2>3. ASSUME NEW c \in Chunks, tmp'[c] = "torn" PROVE Opened(c, "tmp")'
    <3>1. tmp[c] = "torn" /\ (c # d \/ fd[b] # "tmp")
      BY <1>0, <2>1, <2>3
    <3> QED BY <1>0, <2>2, <3>1 DEF OpenOK
  <2>4. ASSUME NEW c \in Chunks, file'[c] = "torn" PROVE Opened(c, "final")'
    <3>1. file[c] = "torn" /\ (c # d \/ fd[b] # "final")
      BY <1>0, <2>1, <2>4
    <3> QED BY <1>0, <2>2, <3>1 DEF OpenOK
  <2> QED BY <2>3, <2>4 DEF OpenOK
<1>5. CASE Rename(b)
  <2>1. /\ pc[b] = "rename" /\ pc' = [pc EXCEPT ![b] = "insert"]
        /\ file' = [file EXCEPT ![d] = tmp[d]] /\ tmp' = [tmp EXCEPT ![d] = "none"]
        /\ fd' = HandlesAfter(d, "final")
    BY <1>5, <1>d DEF Rename
  <2>2. \A a \in Backups : pc[a] = "write" =>
          pc'[a] = "write" /\ fd'[a] = IF Chunk(a) # d THEN fd[a]
                                       ELSE CASE fd[a] = "tmp" -> "final"
                                              [] fd[a] = "final" -> "gone"
                                              [] OTHER -> fd[a]
    BY <1>0, <2>1 DEF HandlesAfter
  <2>3. ASSUME NEW c \in Chunks, c # d, NEW at, Opened(c, at) PROVE Opened(c, at)'
    BY <1>2, <2>2, <2>3 DEF Opened
  <2>4. ASSUME tmp[d] = "torn" PROVE Opened(d, "final")'
    <3>1. PICK a \in Backups : pc[a] = "write" /\ fd[a] = "tmp" /\ Chunk(a) = d
      BY <1>0, <2>4 DEF OpenOK, Opened
    <3>2. pc'[a] = "write" /\ fd'[a] = "final"
      BY <2>2, <3>1
    <3> QED BY <1>0, <1>2, <3>1, <3>2
  <2> QED BY <1>0, <2>1, <2>3, <2>4 DEF OpenOK
<1>6. CASE Cleanup(b)
  <2>1. /\ pc[b] = "cleanup" /\ pc' = [pc EXCEPT ![b] = "failed"]
        /\ tmp' = [tmp EXCEPT ![d] = "none"] /\ file' = file
        /\ fd' = HandlesAfter(d, "gone")
    BY <1>6, <1>d DEF Cleanup
  <2>2. \A a \in Backups : pc[a] = "write" =>
          /\ pc'[a] = "write"
          /\ Chunk(a) # d \/ fd[a] = "final" => fd'[a] = fd[a]
    BY <1>0, <2>1 DEF HandlesAfter
  <2>3. ASSUME NEW c \in Chunks, NEW at, Opened(c, at), c # d \/ at = "final"
        PROVE  Opened(c, at)'
    BY <1>2, <2>2, <2>3 DEF Opened
  <2> QED BY <1>0, <2>1, <2>3 DEF OpenOK
<1> QED BY <1>3, <1>4, <1>5, <1>6

LEMMA OpenStep ==
    ASSUME Uncut, RaceInv, [Next]_vars PROVE OpenOK'
<1>a. /\ pc \in [Backups -> PassStates] /\ OpenOK
      /\ file \in [Chunks -> Contents] /\ tmp \in [Chunks -> Contents]
      /\ stream \in [Backups -> Seq(Chunks)] /\ pos \in [Backups -> Nat \ {0}]
  BY DEF RaceInv, CountInv, TypeInv, TypeOK
<1>1. ASSUME NEW b \in Backups,
             Begin(b) \/ LookUp(b) \/ Bump(b) \/ RenameMissing(b) \/ InsertRow(b)
             \/ Save(b) \/ Discard(b) \/ Decrement(b) \/ CascadeDelete(b)
      PROVE  OpenOK'
  <2>1. /\ pc[b] # "write"
        /\ UNCHANGED <<file, tmp, fd>>
        /\ \A a \in Backups : a # b => pc'[a] = pc[a] /\ Chunk(a)' = Chunk(a)
    BY <1>1, <1>a
       DEF Begin, LookUp, Bump, RenameMissing, InsertRow, Save, Discard, Decrement,
           CascadeDelete, Advance, Chunk, fsVars
  <2> QED BY <1>a, <2>1, OpenQuiet
<1>2. ASSUME NEW b \in Backups,
             OpenTmp(b) \/ WriteTmp(b) \/ Rename(b) \/ Cleanup(b)
      PROVE  OpenOK'
  BY <1>2, OpenWriter
<1>3. ASSUME NEW b \in Backups, WriteError(b) \/ Crash(b) \/ Strand(b) PROVE OpenOK'
  BY <1>3 DEF WriteError, Crash, Strand, Uncut
<1>4. CASE GcStart \/ GcDelete \/ GcEnd \/ UNCHANGED vars
  <2>1. UNCHANGED <<pc, stream, pos, fd, file, tmp>>
    BY <1>4 DEF GcStart, GcDelete, GcEnd, vars, passVars, fsVars
  <2> QED BY <1>a, <2>1, OpenQuiet DEF Chunk
<1>5. CASE GcUnlink
  <2>1. InFlight = {}
    BY <1>5 DEF GcUnlink, RaceInv, CountInv, CountOK, SweepAlone
  <2>2. \A c \in Chunks : tmp[c] # "torn" /\ file[c] # "torn"
    BY <1>a, <2>1 DEF OpenOK, Opened, InFlight, Writing
  <2>3. \A c \in Chunks : tmp'[c] # "torn" /\ file'[c] # "torn"
    BY <1>5, <1>a, <2>2 DEF GcUnlink
  <2> QED BY <2>3 DEF OpenOK
<1>6. CASE GcFault
  BY <1>6 DEF GcFault, GcUnlinkFails, GcDeleteFails, GcKilled, Uncut
<1> QED
  BY <1>1, <1>2, <1>3, <1>4, <1>5, <1>6
     DEF Next, PassStep, WriteStep, FaultStep, GcStep

\* A step of the writer b after which every file that was there still is.
LEMMA PresentWriter ==
    ASSUME RaceInv, NEW b \in Backups, NEW s,
           pc[b] \in Writing,
           pc' = [pc EXCEPT ![b] = s],
           UNCHANGED <<stream, gcVars>>,
           \A c \in Chunks : file[c] # "none" => file'[c] # "none",
           \A c \in indexed' : c \in indexed \/ (c \in Chunks /\ file[c] # "none"),
           \A a \in Backups : a # b => pos'[a] = pos[a],
           s = "insert" => file'[Chunk(b)] # "none" /\ pos' = pos
    PROVE  PresentOK' /\ SweepOK'
<1>1. gcPc = "idle" /\ eligible = {}
  BY WriterKeepsSweepOff
<1>2. /\ pc \in [Backups -> PassStates] /\ PresentOK
      /\ indexed \subseteq Chunks /\ file \in [Chunks -> Contents]
      /\ \A a \in Backups : pc[a] = "insert" => Chunk(a) \in Chunks
  BY ChunkType DEF RaceInv, CountInv, TypeInv, TypeOK, AtChunk
<1>3. SweepOK'
  BY <1>1 DEF SweepOK, gcVars
<1>4. \A c \in indexed' : file'[c] # "none"
  <2> SUFFICES ASSUME NEW c \in indexed' PROVE file'[c] # "none"
    OBVIOUS
  <2>1. CASE c \in indexed
    BY <1>1, <1>2, <2>1 DEF PresentOK
  <2>2. CASE c \notin indexed
    <3>1. c \in Chunks /\ file[c] # "none"
      BY <2>2
    <3> QED BY <3>1
  <2> QED BY <2>1, <2>2
<1>5. ASSUME NEW a \in Backups, pc'[a] = "insert" PROVE file'[Chunk(a)'] # "none"
  <2>1. CASE a = b
    BY <1>2, <1>5, <2>1 DEF Chunk
  <2>2. CASE a # b
    <3>1. pc[a] = "insert" /\ Chunk(a)' = Chunk(a)
      BY <1>2, <1>5, <2>2 DEF Chunk
    <3> QED BY <1>2, <3>1 DEF PresentOK
  <2> QED BY <2>1, <2>2
<1> QED BY <1>3, <1>4, <1>5 DEF PresentOK

LEMMA PresentStep ==
    ASSUME Uncut, RaceInv, [Next]_vars PROVE PresentOK' /\ SweepOK'
<1>a. /\ pc \in [Backups -> PassStates]
      /\ pos \in [Backups -> Nat \ {0}]
      /\ indexed \subseteq Chunks /\ eligible \subseteq Chunks
      /\ refCount \in [Chunks -> Nat]
      /\ file \in [Chunks -> Contents] /\ tmp \in [Chunks -> Contents]
      /\ gcCur \in Chunks \cup {NoChunk} /\ (gcPc = "delete" => gcCur # NoChunk)
      /\ PresentOK /\ SweepOK
  BY DEF RaceInv, CountInv, TypeInv, TypeOK
<1>b. ASSUME NEW b \in Backups, pc[b] \in AtChunk PROVE Chunk(b) \in Chunks
  BY <1>b, ChunkType DEF RaceInv, CountInv
<1>1. ASSUME NEW b \in Backups, Begin(b) PROVE PresentOK' /\ SweepOK'
  <2>1. PICK s \in Streams : /\ stream' = [stream EXCEPT ![b] = s]
                             /\ pc' = [pc EXCEPT ![b] = WriteFrom(s, 1)]
    BY <1>1 DEF Begin
  <2>2. WriteFrom(s, 1) # "insert" /\ UNCHANGED <<pos, indexed, refCount, file, gcVars>>
    BY <1>1 DEF Begin, WriteFrom, dbVars, fsVars
  <2> QED BY <1>a, <2>1, <2>2 DEF PresentOK, SweepOK, gcVars, Chunk
<1>2. ASSUME NEW b \in Backups,
             LookUp(b) \/ OpenTmp(b) \/ RenameMissing(b) \/ Cleanup(b) \/ Save(b)
      PROVE  PresentOK' /\ SweepOK'
  <2>1. PICK s : s # "insert" /\ pc' = [pc EXCEPT ![b] = s]
    BY <1>2 DEF LookUp, OpenTmp, RenameMissing, Cleanup, Save
  <2>2. pc[b] \in Writing /\ UNCHANGED <<stream, pos, indexed, file, gcVars>>
    BY <1>2 DEF LookUp, OpenTmp, RenameMissing, Cleanup, Save, Writing, dbVars, fsVars
  <2> QED BY <2>1, <2>2, PresentWriter
<1>3. ASSUME NEW b \in Backups, Bump(b) PROVE PresentOK' /\ SweepOK'
  <2>1. PICK s : s # "insert" /\ pc' = [pc EXCEPT ![b] = s]
    BY <1>3 DEF Bump, Advance, WriteFrom
  <2>2. /\ pc[b] \in Writing /\ UNCHANGED <<stream, indexed, file, gcVars>>
        /\ \A a \in Backups : a # b => pos'[a] = pos[a]
    BY <1>3, <1>a DEF Bump, Advance, Writing, fsVars
  <2> QED BY <2>1, <2>2, PresentWriter
<1>4. ASSUME NEW b \in Backups, WriteTmp(b) PROVE PresentOK' /\ SweepOK'
  <2>1. /\ pc[b] \in Writing /\ pc' = [pc EXCEPT ![b] = "rename"]
        /\ UNCHANGED <<stream, pos, indexed, gcVars>>
        /\ \A c \in Chunks : file[c] # "none" => file'[c] # "none"
    BY <1>4, <1>a DEF WriteTmp, Writing, dbVars
  <2> QED BY <2>1, PresentWriter
<1>5. ASSUME NEW b \in Backups, Rename(b) PROVE PresentOK' /\ SweepOK'
  <2>1. /\ pc[b] = "rename" /\ pc' = [pc EXCEPT ![b] = "insert"]
        /\ tmp[Chunk(b)] # "none" /\ file' = [file EXCEPT ![Chunk(b)] = tmp[Chunk(b)]]
        /\ UNCHANGED <<stream, pos, indexed, gcVars>>
    BY <1>5 DEF Rename, dbVars
  <2>2. Chunk(b) \in Chunks /\ pc[b] \in Writing
    BY <1>b, <2>1 DEF AtChunk, Writing
  <2>3. /\ \A c \in Chunks : file[c] # "none" => file'[c] # "none"
        /\ file'[Chunk(b)] # "none"
    BY <1>a, <2>1, <2>2
  <2> QED BY <2>1, <2>2, <2>3, PresentWriter
<1>6. ASSUME NEW b \in Backups, InsertRow(b) PROVE PresentOK' /\ SweepOK'
  <2>1. PICK s : s # "insert" /\ pc' = [pc EXCEPT ![b] = s]
    <3>1. /\ WriteFrom(stream[b], pos[b] + 1) # "insert"
          /\ pc' = [pc EXCEPT ![b] = WriteFrom(stream[b], pos[b] + 1)]
      BY <1>6 DEF InsertRow, Advance, WriteFrom
    <3> QED BY <3>1
  <2>2. /\ pc[b] = "insert" /\ indexed' = indexed \cup {Chunk(b)}
        /\ UNCHANGED <<stream, file, gcVars>>
        /\ \A a \in Backups : a # b => pos'[a] = pos[a]
    BY <1>6, <1>a DEF InsertRow, Advance, fsVars
  <2>3. pc[b] \in Writing /\ Chunk(b) \in Chunks /\ file[Chunk(b)] # "none"
    BY <1>a, <1>b, <2>2 DEF PresentOK, Writing, AtChunk
  <2>4. \A c \in indexed' : c \in indexed \/ (c \in Chunks /\ file[c] # "none")
    BY <2>2, <2>3
  <2> QED BY <2>1, <2>2, <2>3, <2>4, PresentWriter
<1>7. ASSUME NEW b \in Backups, Discard(b) \/ Decrement(b) \/ CascadeDelete(b)
      PROVE  PresentOK' /\ SweepOK'
  <2>1. /\ UNCHANGED <<stream, indexed, file, gcVars>>
        /\ \A c \in Chunks : refCount[c] = 0 => refCount'[c] = 0
    BY <1>7, <1>a
       DEF Discard, Decrement, Decremented, CascadeDelete, dbVars, fsVars
  <2>2. \A a \in Backups : pc'[a] = "insert" => pc[a] = "insert" /\ pos'[a] = pos[a]
    BY <1>7, <1>a DEF Discard, Decrement, CascadeDelete, ReleaseFrom
  <2> QED BY <1>a, <2>1, <2>2 DEF PresentOK, SweepOK, Chunk, gcVars
<1>8. ASSUME NEW b \in Backups, WriteError(b) \/ Crash(b) \/ Strand(b)
      PROVE  PresentOK' /\ SweepOK'
  BY <1>8 DEF WriteError, Crash, Strand, Uncut
<1>9. ASSUME GcStart \/ GcStep PROVE PresentOK' /\ SweepOK'
  <2>1. InFlight = {} /\ UNCHANGED <<pc, stream, pos, refCount>>
    BY <1>9 DEF RaceInv, CountInv, CountOK, SweepAlone, Uncut,
                GcStart, GcStep, GcUnlink, GcDelete, GcEnd, passVars, dbVars
  <2>2. \A a \in Backups : pc'[a] # "insert"
    BY <2>1 DEF InFlight, Writing
  <2>3. CASE GcStart
    BY <1>a, <2>1, <2>2, <2>3 DEF GcStart, PresentOK, SweepOK, dbVars, fsVars
  <2>4. CASE GcUnlink
    BY <1>a, <2>1, <2>2, <2>4 DEF GcUnlink, PresentOK, SweepOK, dbVars
  <2>5. CASE GcDelete
    BY <1>a, <2>1, <2>2, <2>5 DEF GcDelete, Deletable, PresentOK, SweepOK, fsVars
  <2>6. CASE GcEnd
    BY <1>a, <2>1, <2>2, <2>6 DEF GcEnd, PresentOK, SweepOK, dbVars, fsVars
  <2> QED BY <1>9, <2>3, <2>4, <2>5, <2>6 DEF GcStep
<1>10. CASE GcFault
  BY <1>10 DEF GcFault, GcUnlinkFails, GcDeleteFails, GcKilled, Uncut
<1>11. CASE UNCHANGED vars
  BY <1>a, <1>11 DEF vars, PresentOK, SweepOK, Chunk
<1> QED
  BY <1>1, <1>2, <1>3, <1>4, <1>5, <1>6, <1>7, <1>8, <1>9, <1>10, <1>11
     DEF Next, PassStep, WriteStep, FaultStep

LEMMA RaceStep ==
    ASSUME Uncut PROVE RaceInv /\ [Next]_vars => RaceInv'
<1> SUFFICES ASSUME RaceInv, [Next]_vars PROVE RaceInv'
  OBVIOUS
<1>1. CountInv'
  BY CountStep DEF RaceInv, Uncut
<1> QED BY <1>1, OpenStep, PresentStep DEF RaceInv

LEMMA RaceInit == Init => RaceInv
<1>1. Init => OpenOK /\ PresentOK /\ SweepOK
  BY DEF Init, OpenOK, PresentOK, SweepOK
<1> QED BY <1>1, CountInit DEF RaceInv

\* Any number of passes may race to write the same new chunks through the same
\* .tmp files: if none is cut off and sweeps keep away, a stored manifest names
\* only files that are there, and an incomplete one is held open, where it is, by
\* a pass whose next step completes it.
THEOREM TornFilesAreWritten ==
    ASSUME Uncut PROVE Spec => []TornIsWritten
<1>1. RaceInv => TornIsWritten
  <2> SUFFICES ASSUME RaceInv, NEW b \in Backups, pc[b] = "saved",
                      NEW i \in 1..Len(stream[b]), NEW c, c = stream[b][i]
               PROVE  file[c] = "whole" \/ (file[c] = "torn" /\ Opened(c, "final"))
    BY DEF TornIsWritten
  <2>1. c \in indexed /\ refCount[c] # 0
    BY StoredIsCounted DEF RaceInv
  <2>2. c \in Chunks /\ file[c] \in Contents
    BY <2>1 DEF RaceInv, CountInv, TypeInv, TypeOK
  <2>3. file[c] # "none"
    BY <2>1 DEF RaceInv, PresentOK, SweepOK
  <2> QED BY <2>2, <2>3 DEF RaceInv, OpenOK, Contents
<1>2. RaceInv /\ [Next]_vars => RaceInv'
  BY RaceStep
<1> QED BY <1>1, <1>2, RaceInit, PTL DEF Spec

-----------------------------------------------------------------------------
(* The chunk store implements the catalog of backups *)

\* What reading b returns, and the backups that are gone.
ContentsOf(b) == IF pc[b] = "saved" THEN {stream[b]} ELSE {}
Retired == {b \in Backups : pc[b] \in Releasing \cup {"orphaned"}}

Shown ==
    [b \in Backups |-> IF pc[b] = "saved" THEN {ReadBack(b)} ELSE {}]

ShownOK == Shown = [b \in Backups |-> ContentsOf(b)]

LEMMA ReadBackIsStream == FileInv => ShownOK
<1> SUFFICES ASSUME FileInv, NEW b \in Backups, pc[b] = "saved" PROVE ReadBack(b) = stream[b]
  BY DEF ShownOK, Shown, ContentsOf
<1>1. \A i \in 1..Len(stream[b]) : file[stream[b][i]] = "whole"
  BY StoredIsWhole DEF Restorable
<1>2. stream[b] \in Seq(Chunks)
  BY DEF FileInv, CountInv, TypeInv, TypeOK
<1>3. stream[b] = [i \in 1..Len(stream[b]) |-> stream[b][i]]
  BY <1>2
<1> QED BY <1>1, <1>3 DEF ReadBack

\* A step of the catalog, in terms of the chunk store.
CatalogStepOf(b) ==
    \/ /\ pc[b] \notin Releasing \cup {"saved", "orphaned"}
       /\ pc' = [pc EXCEPT ![b] = "saved"]
       /\ stream[b] \in Streams
    \/ /\ pc[b] = "saved"
       /\ \E s \in Releasing \cup {"orphaned"} : pc' = [pc EXCEPT ![b] = s]

LEMMA CatalogStep ==
    ASSUME FileInv, FileInv', NEW b \in Backups, stream' = stream, CatalogStepOf(b)
    PROVE  Catalog!Next
<1>1. pc \in [Backups -> PassStates]
  BY DEF FileInv, CountInv, TypeInv, TypeOK
<1>2. Shown = [x \in Backups |-> ContentsOf(x)]
  BY ReadBackIsStream DEF ShownOK
<1>3. Shown' = [x \in Backups |-> ContentsOf(x)]'
  <2>1. ShownOK'
    BY ReadBackIsStream, PTL
  <2> QED BY <2>1 DEF ShownOK
<1>4. CASE /\ pc[b] \notin Releasing \cup {"saved", "orphaned"}
           /\ pc' = [pc EXCEPT ![b] = "saved"]
           /\ stream[b] \in Streams
  <2>1. Shown[b] = {} /\ b \notin Retired
    BY <1>2, <1>4 DEF ContentsOf, Retired
  <2>2. Shown' = [Shown EXCEPT ![b] = {stream[b]}]
    BY <1>1, <1>2, <1>3, <1>4 DEF ContentsOf
  <2>3. Retired' = Retired
    BY <1>1, <1>4 DEF Retired, Releasing
  <2>4. Catalog!Store(b)
    BY <1>4, <2>1, <2>2, <2>3 DEF Catalog!Store, Shown, Retired
  <2> QED BY <2>4 DEF Catalog!Next
<1>5. CASE /\ pc[b] = "saved"
           /\ \E s \in Releasing \cup {"orphaned"} : pc' = [pc EXCEPT ![b] = s]
  <2>1. PICK s \in Releasing \cup {"orphaned"} : pc' = [pc EXCEPT ![b] = s]
    BY <1>5
  <2>2. s # "saved"
    BY DEF Releasing
  <2>3. Shown[b] # {}
    BY <1>2, <1>5 DEF ContentsOf
  <2>4. Shown' = [Shown EXCEPT ![b] = {}]
    BY <1>1, <1>2, <1>3, <2>1, <2>2 DEF ContentsOf
  <2>5. Retired' = Retired \cup {b}
    BY <1>1, <2>1 DEF Retired
  <2>6. Catalog!Retire(b)
    BY <2>3, <2>4, <2>5 DEF Catalog!Retire, Shown, Retired
  <2> QED BY <2>6 DEF Catalog!Next
<1> QED BY <1>4, <1>5 DEF CatalogStepOf

\* A step of pass b in which no backup is stored or retired.
LEMMA CatalogStutter ==
    ASSUME TypeInv, NEW b \in Backups, NEW s,
           pc' = [pc EXCEPT ![b] = s],
           pc[b] = "saved" <=> s = "saved",
           pc[b] \in Releasing \cup {"orphaned"} <=> s \in Releasing \cup {"orphaned"},
           \A x \in Backups : pc[x] = "saved" => stream'[x] = stream[x]
    PROVE  /\ [x \in Backups |-> ContentsOf(x)]' = [x \in Backups |-> ContentsOf(x)]
           /\ Retired' = Retired
<1>1. pc \in [Backups -> PassStates]
  BY DEF TypeInv, TypeOK
<1>2. \A x \in Backups :
        /\ pc'[x] = "saved" <=> pc[x] = "saved"
        /\ pc'[x] \in Releasing \cup {"orphaned"} <=> pc[x] \in Releasing \cup {"orphaned"}
  BY <1>1
<1> QED BY <1>2 DEF ContentsOf, Retired

LEMMA CatalogRefined ==
    ASSUME Orderly, FileInv, [Next]_vars PROVE [Catalog!Next]_(Catalog!catalogVars)
<1> DEFINE Same == /\ [x \in Backups |-> ContentsOf(x)]' = [x \in Backups |-> ContentsOf(x)]
                  /\ Retired' = Retired
<1>0. FileInv' /\ TypeInv
  BY FileStep DEF FileInv, CountInv
<1>a. pc \in [Backups -> PassStates]
  BY <1>0 DEF TypeInv, TypeOK
<1>b. ASSUME Same PROVE UNCHANGED Catalog!catalogVars
  <2>1. ShownOK /\ ShownOK'
    BY <1>0, ReadBackIsStream, PTL
  <2>2. Shown' = Shown
    BY <1>b, <2>1 DEF ShownOK
  <2> QED BY <1>b, <2>2 DEF Catalog!catalogVars, Shown, Retired
<1>1. ASSUME NEW b \in Backups, Save(b) \/ Discard(b) \/ CascadeDelete(b)
      PROVE  Catalog!Next
  <2>1. stream' = stream
    BY <1>1 DEF Save, Discard, CascadeDelete
  <2>2. CatalogStepOf(b)
    <3>1. CASE Save(b)
      BY <1>0, <3>1 DEF Save, CatalogStepOf, Releasing, TypeInv, PosOK
    <3>2. CASE Discard(b)
      BY <3>2 DEF Discard, ReleaseFrom, CatalogStepOf, Releasing
    <3>3. CASE CascadeDelete(b)
      BY <3>3 DEF CascadeDelete, CatalogStepOf
    <3> QED BY <1>1, <3>1, <3>2, <3>3
  <2> QED BY <1>0, <2>1, <2>2, CatalogStep
<1>2. ASSUME NEW b \in Backups,
             Begin(b) \/ LookUp(b) \/ Bump(b) \/ OpenTmp(b) \/ WriteTmp(b) \/ Rename(b)
               \/ RenameMissing(b) \/ Cleanup(b) \/ InsertRow(b)
               \/ Decrement(b) \/ WriteError(b) \/ Crash(b) \/ Strand(b)
      PROVE  Same
  <2>1. /\ pc' = [pc EXCEPT ![b] = pc'[b]]
        /\ \A x \in Backups : pc[x] = "saved" => stream'[x] = stream[x]
        /\ \/ pc[b] \notin Releasing \cup {"saved", "orphaned"}
              /\ pc'[b] \notin Releasing \cup {"saved", "orphaned"}
           \/ pc[b] \in Releasing /\ pc'[b] \in Releasing
    <3>1. CASE Begin(b)
      BY <1>0, <1>a, <3>1 DEF Begin, WriteFrom, Releasing, TypeInv, TypeOK
    <3>2. CASE Bump(b) \/ InsertRow(b)
      BY <1>a, <3>2 DEF Bump, InsertRow, Advance, WriteFrom, Releasing
    <3>3. CASE Decrement(b)
      BY <1>a, <3>3 DEF Decrement, ReleaseFrom, Releasing
    <3>4. CASE Crash(b) \/ WriteError(b) \/ Strand(b)
      BY <1>a, <3>4 DEF Crash, WriteError, Strand, Writing, Releasing
    <3>5. CASE LookUp(b) \/ OpenTmp(b) \/ WriteTmp(b) \/ Rename(b) \/ RenameMissing(b)
                 \/ Cleanup(b)
      BY <1>a, <3>5 DEF LookUp, OpenTmp, WriteTmp, Rename, RenameMissing, Cleanup, Releasing
    <3> QED BY <1>2, <3>1, <3>2, <3>3, <3>4, <3>5
  <2>2. "saved" \notin Releasing
    BY DEF Releasing
  <2> QED BY <1>0, <2>1, <2>2, CatalogStutter
<1>3. ASSUME GcStart \/ GcStep \/ GcFault \/ UNCHANGED vars PROVE Same
  <2>1. UNCHANGED <<pc, stream>>
    BY <1>3 DEF GcStart, GcStep, GcUnlink, GcDelete, GcEnd, GcFault, GcUnlinkFails,
                GcDeleteFails, GcKilled, passVars, vars
  <2> QED BY <2>1 DEF ContentsOf, Retired
<1> QED
  BY <1>b, <1>1, <1>2, <1>3 DEF Next, PassStep, WriteStep, FaultStep

\* Under the same conditions the chunk store implements the catalog: a backup,
\* once stored, reads back as written until it is retired, and a retired one
\* does not come back.
THEOREM ChunkStoreIsCatalog ==
    ASSUME Orderly PROVE Spec => ImplementsCatalog
<1>1. Init => Catalog!Init
  BY DEF Init, Catalog!Init, Releasing
<1>2. FileInv /\ [Next]_vars => FileInv'
  BY FileStep
<1>3. FileInv /\ [Next]_vars => [Catalog!Next]_(Catalog!catalogVars)
  BY CatalogRefined
<1> QED BY <1>1, <1>2, <1>3, FileInit, PTL DEF Spec, ImplementsCatalog, Catalog!Spec

=============================================================================
