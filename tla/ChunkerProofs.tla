--------------------------- MODULE ChunkerProofs ---------------------------
(* Theorems of Chunker, for every fingerprint, window, limit and disk. *)
EXTENDS Chunker, SequenceTheorems, TLAPS

-----------------------------------------------------------------------------
(* Types *)

LEMMA ChunkFields ==
    ASSUME NEW o \in Nat, NEW s \in Seq(Byte)
    PROVE  [offset |-> o, data |-> s] \in Chunk
BY DEF Chunk

\* What ChunkUpTo yields.
LEMMA ChunkShape ==
    ASSUME TypeOK, NEW e \in chunkStart..Len(data)
    PROVE  /\ ChunkUpTo(e) \in Chunk
           /\ ChunkUpTo(e).offset = chunkStart
           /\ ChunkUpTo(e).data = SubSeq(data, chunkStart + 1, e)
           /\ Len(ChunkUpTo(e).data) = e - chunkStart
<1>1. \A i \in (chunkStart + 1)..e : data[i] \in Byte
  BY DEF TypeOK
<1>2. chunkStart + 1 \in Int /\ e \in Int /\ chunkStart \in Nat
  BY DEF TypeOK
<1>3. /\ SubSeq(data, chunkStart + 1, e) \in Seq(Byte)
      /\ Len(SubSeq(data, chunkStart + 1, e))
            = IF chunkStart + 1 <= e THEN e - (chunkStart + 1) + 1 ELSE 0
  BY <1>1, <1>2, SubSeqProperties
<1>4. Len(SubSeq(data, chunkStart + 1, e)) = e - chunkStart
  BY <1>2, <1>3
<1>5. ChunkUpTo(e) = [offset |-> chunkStart, data |-> SubSeq(data, chunkStart + 1, e)]
  BY DEF ChunkUpTo
<1>6. /\ ChunkUpTo(e) \in Chunk /\ ChunkUpTo(e).offset = chunkStart
      /\ ChunkUpTo(e).data = SubSeq(data, chunkStart + 1, e)
  <2> DEFINE s == SubSeq(data, chunkStart + 1, e)
  <2>1. s \in Seq(Byte) /\ chunkStart \in Nat
    BY <1>2, <1>3
  <2>2. ChunkUpTo(e) = [offset |-> chunkStart, data |-> s]
    BY <1>5
  <2> HIDE DEF s
  <2>3. ChunkUpTo(e).offset = chunkStart /\ ChunkUpTo(e).data = s
    BY <2>2
  <2>4. ChunkUpTo(e) \in Chunk
    BY <2>1, <2>2, ChunkFields
  <2> QED
    BY <2>3, <2>4 DEF s
<1> QED
  BY <1>4, <1>6

LEMMA TypeInit == Init => TypeOK
<1> SUFFICES ASSUME Init PROVE TypeOK
  OBVIOUS
<1>1. data \in Seq(Byte) /\ limits \in Nat \X Nat /\ fp \in Word
  BY StreamsAssumption, LimitsAssumption, WordAssumption DEF Init
<1>2. window \in [0..(WindowSize - 1) -> Byte] /\ wPos \in 0..(WindowSize - 1)
  BY ByteAssumption, WindowAssumption DEF Init, NoWindow
<1>3. chunks \in Seq(Chunk)
  BY EmptySeq DEF Init
<1>4. pos \in 0..Len(data) /\ chunkStart \in 0..pos /\ ended \in BOOLEAN
  <2>1. Len(data) \in Nat
    BY <1>1, LenProperties
  <2>2. pos = 0 /\ chunkStart = 0
    BY DEF Init
  <2>3. ended \in BOOLEAN
    BY DEF Init
  <2>4. pos \in 0..Len(data) /\ chunkStart \in 0..pos
    BY <2>1, <2>2
  <2> QED
    BY <2>3, <2>4
<1> QED
  BY <1>1, <1>2, <1>3, <1>4 DEF TypeOK

\* The next byte and the next fingerprint exist.
LEMMA NextByte ==
    ASSUME TypeOK, pos < Len(data)
    PROVE  pos + 1 \in 1..Len(data) /\ data[pos + 1] \in Byte /\ NextFp \in Word
<1>1. pos + 1 \in 1..Len(data) /\ data[pos + 1] \in Byte /\ window[wPos] \in Byte
  BY DEF TypeOK
<1> QED
  BY <1>1, WordAssumption DEF TypeOK, NextFp

LEMMA TypeStep == TypeOK /\ [Next]_vars => TypeOK'
<1> SUFFICES ASSUME TypeOK, [Next]_vars PROVE TypeOK'
  OBVIOUS
<1>1. CASE Absorb
  <2>1. wPos' \in 0..(WindowSize - 1)
    BY <1>1, WindowAssumption DEF Absorb, NextSlot, TypeOK
  <2>2. window' \in [0..(WindowSize - 1) -> Byte]
    BY <1>1, NextByte DEF Absorb, NextSlot, TypeOK
  <2>3. fp' \in Word /\ pos' \in 0..Len(data') /\ chunkStart' \in 0..pos'
    BY <1>1, NextByte DEF Absorb, NextSlot, TypeOK
  <2> QED
    BY <1>1, <2>1, <2>2, <2>3 DEF Absorb, NextSlot, TypeOK
<1>2. CASE Cut
  <2>1. pos + 1 \in chunkStart..Len(data)
    BY <1>2 DEF Cut, ResetWindow, TypeOK
  <2>2. chunks' \in Seq(Chunk)
    BY <1>2, <2>1, ChunkShape, AppendProperties DEF Cut, ResetWindow, TypeOK
  <2>3. window' \in [0..(WindowSize - 1) -> Byte] /\ wPos' \in 0..(WindowSize - 1)
    BY <1>2, ByteAssumption, WindowAssumption DEF Cut, ResetWindow, NoWindow
  <2>4. pos' \in 0..Len(data') /\ chunkStart' \in 0..pos' /\ fp' \in Word
    BY <1>2, <2>1, WordAssumption DEF Cut, ResetWindow, TypeOK
  <2> QED
    BY <1>2, <2>2, <2>3, <2>4 DEF Cut, ResetWindow, TypeOK
<1>3. CASE End
  <2>1. pos \in chunkStart..Len(data)
    BY <1>3 DEF End, Remainder, TypeOK
  <2>2. chunks' \in Seq(Chunk)
    BY <1>3, <2>1, ChunkShape, AppendProperties DEF End, Remainder, TypeOK
  <2> QED
    BY <1>3, <2>2 DEF End, Remainder, TypeOK
<1>4. CASE UNCHANGED vars
  BY <1>4 DEF vars, TypeOK
<1> QED
  BY <1>1, <1>2, <1>3, <1>4 DEF Next

\* The chunker keeps its types: the ring index stays in the ring, the current
\* chunk before pos and the fingerprint in its word.
THEOREM TypeCorrect == Spec => []TypeOK
<1> QED
  BY TypeInit, TypeStep, PTL DEF Spec

-----------------------------------------------------------------------------
(* The chunks cover the disk, with the sizes that are set *)

\* What holds of a chunk yielded when all before it cover up to chunkStart.
LEMMA Yielded ==
    ASSUME TypeOK, CoversDisk, ~ended,
           NEW e \in (chunkStart + 1)..Len(data),
           chunks' = Append(chunks, ChunkUpTo(e)), UNCHANGED data
    PROVE  /\ Len(chunks') = Len(chunks) + 1
           /\ \A i \in 1..Len(chunks) : chunks'[i] = chunks[i]
           /\ chunks'[Len(chunks')] = ChunkUpTo(e)
           /\ Covered' = e
           /\ \A i \in 1..Len(chunks') :
                /\ chunks'[i].offset = IF i = 1 THEN 0 ELSE EndOf(chunks'[i - 1])
                /\ chunks'[i].data
                     = SubSeq(data, chunks'[i].offset + 1, EndOf(chunks'[i]))
                /\ chunks'[i].data # << >>
<1> DEFINE c == ChunkUpTo(e)
           n == Len(chunks)
<1>1. /\ c \in Chunk /\ c.offset = chunkStart
      /\ c.data = SubSeq(data, chunkStart + 1, e) /\ Len(c.data) = e - chunkStart
      /\ chunkStart \in Nat /\ e \in Nat /\ e > chunkStart
  BY ChunkShape DEF TypeOK
<1>2. /\ n \in Nat /\ Len(chunks') = n + 1
      /\ \A i \in 1..n : chunks'[i] = chunks[i]
      /\ chunks'[n + 1] = c
      /\ chunks' # << >>
  <2>1. chunks \in Seq(Chunk) /\ c \in Chunk /\ chunks' = Append(chunks, c)
    BY <1>1 DEF TypeOK
  <2> HIDE DEF c
  <2> QED
    BY <2>1, AppendProperties, LenProperties
<1>3. EndOf(c) = e /\ c.data # << >>
  <2> HIDE DEF c
  <2>1. EndOf(c) = e
    BY <1>1 DEF EndOf
  <2>2. Len(<< >>) = 0
    OBVIOUS
  <2>3. Len(c.data) # 0
    BY <1>1
  <2> QED
    BY <2>1, <2>2, <2>3
<1>4. Covered' = e
  BY <1>2, <1>3 DEF Covered, EndOf
<1>5. ASSUME NEW i \in 1..Len(chunks')
      PROVE  /\ chunks'[i].offset = IF i = 1 THEN 0 ELSE EndOf(chunks'[i - 1])
             /\ chunks'[i].data = SubSeq(data, chunks'[i].offset + 1, EndOf(chunks'[i]))
             /\ chunks'[i].data # << >>
  <2>1. CASE i \in 1..n
    <3>1. i # 1 => i - 1 \in 1..n
      BY <2>1, <1>2
    <3> QED
      BY <2>1, <3>1, <1>2 DEF CoversDisk
  <2>2. CASE i = n + 1
    <3>1. c.offset = IF i = 1 THEN 0 ELSE EndOf(chunks[i - 1])
      <4>1. Covered = chunkStart
        BY DEF CoversDisk
      <4>2. CASE chunks = << >>
        <5>1. n = 0
          BY <4>2
        <5> QED
          BY <4>1, <4>2, <5>1, <2>2, <1>1 DEF Covered
      <4>3. CASE chunks # << >>
        <5>1. n \in Nat \ {0}
          BY <4>3, EmptySeq DEF TypeOK
        <5> QED
          BY <4>1, <4>3, <5>1, <2>2, <1>1 DEF Covered
      <4> QED
        BY <4>2, <4>3
    <3>2. i # 1 => i - 1 \in 1..n
      BY <2>2, <1>2
    <3> QED
      BY <2>2, <3>1, <3>2, <1>1, <1>2, <1>3
  <2> QED
    BY <2>1, <2>2, <1>2
<1> QED
  BY <1>2, <1>4, <1>5

\* The inductive invariant: the generator returns at the end of the disk only,
\* and a chunk that goes on has not reached both sizes.
CoverInv ==
    /\ TypeOK
    /\ CoversDisk
    /\ SizesBounded
    /\ ended => pos = Len(data)
    /\ pos = chunkStart \/ pos - chunkStart < maxSize \/ pos - chunkStart < minSize

\* A chunk whose size is right leaves the sizes bounded.
LEMMA SizesYielded ==
    ASSUME TypeOK, CoversDisk, SizesBounded, ~ended,
           NEW e \in (chunkStart + 1)..Len(data),
           chunks' = Append(chunks, ChunkUpTo(e)), UNCHANGED <<data, limits>>,
           \/ e - chunkStart <= maxSize \/ e - chunkStart <= minSize
           \/ e - chunkStart = 1,
           e - chunkStart >= minSize \/ e = Len(data)
    PROVE  SizesBounded'
<1>1. /\ Len(ChunkUpTo(e).data) = e - chunkStart
      /\ ChunkUpTo(e).offset = chunkStart /\ chunkStart \in Nat /\ e \in Nat
  BY ChunkShape DEF TypeOK
<1>2. EndOf(ChunkUpTo(e)) = e
  BY <1>1 DEF EndOf
<1>3. /\ Len(chunks') = Len(chunks) + 1 /\ Len(chunks) \in Nat
      /\ \A i \in 1..Len(chunks) : chunks'[i] = chunks[i]
      /\ chunks'[Len(chunks')] = ChunkUpTo(e)
  BY Yielded, LenProperties DEF TypeOK
<1>4. minSize' = minSize /\ maxSize' = maxSize
  BY DEF minSize, maxSize
<1>5. ASSUME NEW i \in 1..Len(chunks')
      PROVE  /\ \/ Len(chunks'[i].data) <= maxSize \/ Len(chunks'[i].data) <= minSize
                \/ Len(chunks'[i].data) = 1
             /\ Len(chunks'[i].data) >= minSize \/ EndOf(chunks'[i]) = Len(data)
  <2>1. CASE i = Len(chunks')
    BY <1>1, <1>2, <1>3, <2>1
  <2>2. CASE i \in 1..Len(chunks)
    BY <1>3, <2>2 DEF SizesBounded
  <2> QED
    BY <1>3, <2>1, <2>2
<1> QED
  BY <1>4, <1>5 DEF SizesBounded, EndOf

LEMMA CoverInit == Init => CoverInv
BY TypeInit DEF Init, CoverInv, CoversDisk, SizesBounded, Covered

LEMMA CoverStep == CoverInv /\ [Next]_vars => CoverInv'
<1> SUFFICES ASSUME CoverInv, [Next]_vars PROVE CoverInv'
  OBVIOUS
<1>0. /\ TypeOK /\ TypeOK'
      /\ pos \in Nat /\ chunkStart \in Nat /\ Len(data) \in Nat
      /\ chunkStart <= pos /\ pos <= Len(data)
      /\ minSize \in Nat /\ maxSize \in Nat /\ Len(chunks) \in Nat
  BY TypeStep, LenProperties DEF CoverInv, TypeOK, minSize, maxSize
<1>1. CASE Absorb
  <2>1. ~ended
    BY <1>0, <1>1 DEF Absorb, NextSlot, CoverInv
  <2>2. CoversDisk' /\ SizesBounded'
    BY <1>1, <2>1 DEF Absorb, NextSlot, CoverInv, CoversDisk, SizesBounded, Covered, EndOf,
                minSize, maxSize
  <2>3. pos' - chunkStart' < maxSize' \/ pos' - chunkStart' < minSize'
    BY <1>0, <1>1 DEF Absorb, NextSlot, Boundary, minSize, maxSize
  <2> QED
    BY <1>0, <1>1, <2>1, <2>2, <2>3 DEF Absorb, NextSlot, CoverInv
<1>2. CASE Cut
  <2>1. pos + 1 \in (chunkStart + 1)..Len(data) /\ ~ended
    BY <1>0, <1>2 DEF Cut, ResetWindow, CoverInv
  <2>2. CoversDisk'
    BY <1>0, <1>2, <2>1, Yielded DEF Cut, ResetWindow, CoverInv, CoversDisk, EndOf
  <2>3. SizesBounded'
    <3>1. /\ pos + 1 - chunkStart >= minSize
          /\ \/ pos + 1 - chunkStart <= maxSize \/ pos + 1 - chunkStart <= minSize
             \/ pos + 1 - chunkStart = 1
      BY <1>0, <1>2 DEF Cut, ResetWindow, Boundary, CoverInv
    <3> QED
      BY <1>0, <1>2, <2>1, <3>1, SizesYielded DEF Cut, ResetWindow, CoverInv
  <2> QED
    BY <1>0, <1>2, <2>1, <2>2, <2>3 DEF Cut, ResetWindow, CoverInv
<1>3. CASE End
  <2>1. CASE chunkStart < pos
    <3>1. /\ pos \in (chunkStart + 1)..Len(data) /\ ~ended
          /\ chunks' = Append(chunks, ChunkUpTo(pos))
      BY <1>0, <1>3, <2>1 DEF End, Remainder
    <3>2. CoversDisk'
      BY <1>0, <1>3, <3>1, Yielded DEF End, Remainder, CoverInv, CoversDisk, EndOf
    <3>3. SizesBounded'
      <4>1. \/ pos - chunkStart <= maxSize \/ pos - chunkStart <= minSize
        BY <1>0, <2>1 DEF CoverInv
      <4> QED
        BY <1>0, <1>3, <3>1, <4>1, SizesYielded DEF End, Remainder, CoverInv
    <3> QED
      BY <1>0, <1>3, <3>2, <3>3 DEF End, Remainder, CoverInv, minSize, maxSize
  <2>2. CASE ~(chunkStart < pos)
    BY <1>0, <1>3, <2>2 DEF End, Remainder, CoverInv, CoversDisk, SizesBounded, Covered, EndOf,
                           minSize, maxSize
  <2> QED
    BY <2>1, <2>2
<1>4. CASE UNCHANGED vars
  BY <1>0, <1>4 DEF vars, CoverInv, CoversDisk, SizesBounded, Covered, EndOf,
                    minSize, maxSize
<1> QED
  BY <1>1, <1>2, <1>3, <1>4 DEF Next

\* Whatever the fingerprint, the window and the sizes, the chunks of every disk
\* follow each other without gap or overlap and hold its bytes, and together
\* they are the whole disk when the chunker returns.
THEOREM ChunksCoverDisk == Spec => []CoversDisk
<1>1. CoverInv => CoversDisk
  BY DEF CoverInv
<1> QED
  BY CoverInit, CoverStep, <1>1, PTL DEF Spec

\* Every chunk keeps to the sizes that are set, but for the last of the disk.
THEOREM ChunkSizes == Spec => []SizesBounded
<1>1. CoverInv => SizesBounded
  BY DEF CoverInv
<1> QED
  BY CoverInit, CoverStep, <1>1, PTL DEF Spec

-----------------------------------------------------------------------------
(* Where a chunk ends is in its bytes *)

\* The byte that leaves the window when byte k of s enters it.
Outgoing(s, k) == IF k > WindowSize THEN s[k - WindowSize] ELSE 0

\* g holds the fingerprints of the prefixes of s.
Rolls(g, s) ==
    g = [k \in 0..Len(s) |-> IF k = 0 THEN 0 ELSE Roll(g[k - 1], Outgoing(s, k), s[k])]

\* Rolling over s ends in x.  Each byte consumed extends it, so that no
\* induction over s is needed.
RolledTo(s, x) ==
    /\ \E g : Rolls(g, s)
    /\ \A g : Rolls(g, s) => g[Len(s)] = x

LEMMA FingerprintRolled ==
    ASSUME NEW s, NEW x, RolledTo(s, x) PROVE Fingerprint(s) = x
<1> DEFINE f == CHOOSE g : Rolls(g, s)
<1>1. Rolls(f, s)
  BY DEF RolledTo
<1>2. Fingerprint(s) = f[Len(s)]
  BY DEF Fingerprint, Rolls, Outgoing
<1> QED BY <1>1, <1>2 DEF RolledTo

LEMMA RolledNothing ==
    ASSUME NEW s, Len(s) = 0 PROVE RolledTo(s, 0)
<1>1. Rolls([k \in {0} |-> 0], s)
  <2>1. 0..Len(s) = {0}
    OBVIOUS
  <2> QED BY <2>1 DEF Rolls
<1>2. ASSUME NEW g, Rolls(g, s) PROVE g[Len(s)] = 0
  BY <1>2 DEF Rolls
<1> QED BY <1>1, <1>2 DEF RolledTo

\* One more byte.
LEMMA RolledFurther ==
    ASSUME NEW s, NEW s1, NEW x, Len(s) \in Nat, Len(s1) = Len(s) + 1,
           \A i \in 1..Len(s) : s1[i] = s[i], RolledTo(s, x)
    PROVE  RolledTo(s1, Roll(x, Outgoing(s1, Len(s1)), s1[Len(s1)]))
<1> DEFINE n == Len(s)
           y == Roll(x, Outgoing(s1, n + 1), s1[n + 1])
<1>0. \A k \in 1..n : s1[k] = s[k] /\ Outgoing(s1, k) = Outgoing(s, k)
  BY WindowAssumption DEF Outgoing
<1>1. \E g : Rolls(g, s1)
  <2>1. PICK g : Rolls(g, s)
    BY DEF RolledTo
  <2>2. g[n] = x
    BY <2>1 DEF RolledTo
  <2> DEFINE h == [k \in 0..(n + 1) |-> IF k = n + 1 THEN y ELSE g[k]]
  <2>3. ASSUME NEW k \in 0..(n + 1)
        PROVE  h[k] = IF k = 0 THEN 0 ELSE Roll(h[k - 1], Outgoing(s1, k), s1[k])
    <3>1. CASE k = n + 1
      BY <2>2, <3>1
    <3>2. CASE k = 0
      <4>1. g[0] = 0
        BY <2>1 DEF Rolls
      <4> QED BY <3>2, <4>1
    <3>3. CASE k \in 1..n
      <4>1. g[k] = Roll(g[k - 1], Outgoing(s, k), s[k])
        BY <2>1, <3>3 DEF Rolls
      <4>2. h[k] = g[k] /\ h[k - 1] = g[k - 1]
        BY <3>3
      <4> QED BY <1>0, <3>3, <4>1, <4>2
    <3> QED BY <3>1, <3>2, <3>3
  <2>4. Rolls(h, s1)
    <3> HIDE DEF y
    <3>1. h = [k \in 0..(n + 1) |-> h[k]]
      OBVIOUS
    <3> HIDE DEF h
    <3> QED BY <2>3, <3>1 DEF Rolls
  <2> QED BY <2>4
<1>2. ASSUME NEW g, Rolls(g, s1) PROVE g[n + 1] = y
  <2> DEFINE h == [k \in 0..n |-> g[k]]
  <2>1. \A k \in 0..(n + 1) :
          g[k] = IF k = 0 THEN 0 ELSE Roll(g[k - 1], Outgoing(s1, k), s1[k])
    BY <1>2 DEF Rolls
  <2>2. \A k \in 0..n : h[k] = IF k = 0 THEN 0 ELSE Roll(h[k - 1], Outgoing(s, k), s[k])
    BY <1>0, <2>1
  <2>3. Rolls(h, s)
    <3>1. h = [k \in 0..n |-> h[k]]
      OBVIOUS
    <3> HIDE DEF h
    <3> QED BY <2>2, <3>1 DEF Rolls
  <2>4. h[n] = x /\ h[n] = g[n]
    BY <2>3 DEF RolledTo
  <2> QED BY <2>1, <2>4
<1> QED BY <1>1, <1>2 DEF RolledTo

\* Entry d of the ring, counted back from the newest, and the byte it holds: the
\* one d bytes back, if the chunk is that long.
Slot(d) == IF d <= wPos THEN wPos - d ELSE wPos - d + WindowSize

Back(d) == IF d <= pos - chunkStart THEN data[pos + 1 - d] ELSE 0

RingOK == \A d \in 1..WindowSize : window[Slot(d)] = Back(d)

\* The bytes from the start of the chunk up to offset e.
Since(e) == SubSeq(data, chunkStart + 1, e)

\* The inductive invariant: the ring and the fingerprint are those of the bytes
\* since the start of the chunk, and after none of them it could have ended.
CutInv ==
    /\ CoverInv
    /\ RingOK
    /\ RolledTo(Since(pos), fp)
    /\ \A e \in (chunkStart + 1)..pos : ~MayEnd(Since(e))
    /\ ContentDefined

LEMMA SinceShape ==
    ASSUME TypeOK, NEW e \in chunkStart..Len(data)
    PROVE  /\ Len(Since(e)) = e - chunkStart
           /\ \A i \in 1..(e - chunkStart) : Since(e)[i] = data[chunkStart + i]
<1>1. /\ \A i \in (chunkStart + 1)..e : data[i] \in Byte
      /\ chunkStart + 1 \in Int /\ e \in Int /\ chunkStart \in Nat
  BY DEF TypeOK
<1>2. /\ Len(Since(e)) = IF chunkStart + 1 <= e THEN e - (chunkStart + 1) + 1 ELSE 0
      /\ \A i \in 1..(e - (chunkStart + 1) + 1) :
            Since(e)[i] = data[(chunkStart + 1) + i - 1]
  BY <1>1, SubSeqProperties DEF Since
<1> QED BY <1>1, <1>2

\* NextFp is the fingerprint of the bytes with the next one.
LEMMA RolledNext ==
    ASSUME CutInv, pos < Len(data)
    PROVE  RolledTo(Since(pos + 1), NextFp) /\ (MayEnd(Since(pos + 1)) <=> Boundary)
<1> DEFINE s == Since(pos)
           s1 == Since(pos + 1)
           n == pos - chunkStart
<1>0. /\ TypeOK /\ pos \in Nat /\ chunkStart \in Nat /\ Len(data) \in Nat
      /\ n \in Nat /\ pos \in chunkStart..Len(data) /\ pos + 1 \in chunkStart..Len(data)
      /\ wPos \in Nat /\ wPos < WindowSize /\ WindowSize \in Nat \ {0}
  BY WindowAssumption, LenProperties DEF CutInv, CoverInv, TypeOK
<1>1. /\ Len(s) = n /\ \A i \in 1..n : s[i] = data[chunkStart + i]
      /\ Len(s1) = n + 1 /\ \A i \in 1..(n + 1) : s1[i] = data[chunkStart + i]
  <2>1. pos + 1 - chunkStart = n + 1
    BY <1>0
  <2> QED BY <1>0, <2>1, SinceShape
<1>2. RolledTo(s, fp)
  BY DEF CutInv
<1>3. s1[n + 1] = data[pos + 1] /\ Outgoing(s1, n + 1) = window[wPos]
  <2>1. window[Slot(WindowSize)] = Back(WindowSize) /\ Slot(WindowSize) = wPos
    BY <1>0 DEF CutInv, RingOK, Slot
  <2>2. CASE n + 1 > WindowSize
    <3>1. n + 1 - WindowSize \in 1..(n + 1)
          /\ chunkStart + (n + 1 - WindowSize) = pos + 1 - WindowSize
      BY <1>0, <2>2
    <3>2. Outgoing(s1, n + 1) = data[pos + 1 - WindowSize]
      <4>0. n + 1 > WindowSize /\ n \in Nat /\ WindowSize \in Nat
        BY <1>0, <2>2
      <4> HIDE DEF s1, n
      <4>1. s1[n + 1 - WindowSize] = data[chunkStart + (n + 1 - WindowSize)]
        BY <1>1, <3>1
      <4>2. Outgoing(s1, n + 1) = s1[n + 1 - WindowSize]
        BY <4>0 DEF Outgoing
      <4> QED BY <3>1, <4>1, <4>2
    <3> QED BY <1>0, <1>1, <2>1, <2>2, <3>2 DEF Back
  <2>3. CASE ~(n + 1 > WindowSize)
    BY <1>0, <1>1, <2>1, <2>3 DEF Back, Outgoing
  <2> QED BY <2>2, <2>3
<1>4. RolledTo(s1, NextFp)
  <2> HIDE DEF s, s1, n
  <2>1. \A i \in 1..Len(s) : s1[i] = s[i]
    BY <1>0, <1>1
  <2>2. RolledTo(s1, Roll(fp, Outgoing(s1, Len(s1)), s1[Len(s1)]))
    BY <1>0, <1>1, <1>2, <2>1, RolledFurther
  <2> QED BY <1>1, <1>3, <2>2 DEF NextFp
<1>5. Fingerprint(s1) = NextFp /\ Len(s1) = pos + 1 - chunkStart
  BY <1>0, <1>1, <1>4, FingerprintRolled
<1> QED BY <1>4, <1>5 DEF MayEnd, Boundary

LEMMA NextSlotValue ==
    ASSUME wPos \in 0..(WindowSize - 1)
    PROVE  NextSlot = IF wPos + 1 = WindowSize THEN 0 ELSE wPos + 1
BY WindowAssumption DEF NextSlot

\* A chunk that ends where the code says is determined by its content.
LEMMA EndYielded ==
    ASSUME CutInv, ~ended, NEW e \in (chunkStart + 1)..Len(data),
           chunks' = Append(chunks, ChunkUpTo(e)), UNCHANGED <<data, limits>>,
           \A k \in (chunkStart + 1)..(e - 1) : ~MayEnd(Since(k)),
           MayEnd(Since(e)) \/ e = Len(data)
    PROVE  ContentDefined'
<1> DEFINE c == ChunkUpTo(e)
<1>0. /\ TypeOK /\ CoversDisk /\ pos \in Nat /\ chunkStart \in Nat /\ Len(data) \in Nat
      /\ e \in Nat /\ data \in Seq(Byte)
  BY LenProperties DEF CutInv, CoverInv, TypeOK
<1>1. /\ c.offset = chunkStart /\ c.data = Since(e) /\ Len(c.data) = e - chunkStart
  BY <1>0, ChunkShape DEF Since
<1>2. /\ Len(chunks') = Len(chunks) + 1 /\ Len(chunks) \in Nat
      /\ \A i \in 1..Len(chunks) : chunks'[i] = chunks[i]
      /\ chunks'[Len(chunks')] = c
  BY <1>0, Yielded, LenProperties DEF TypeOK
<1>3. \A s : MayEnd(s)' <=> MayEnd(s)
  BY DEF MayEnd, minSize, maxSize
<1> DEFINE Ended(d) ==
             /\ \A k \in 1..(Len(d.data) - 1) : ~MayEnd(SubSeq(d.data, 1, k))
             /\ MayEnd(d.data) \/ EndOf(d) = Len(data)
<1>4. Ended(c)
  <2>1. ASSUME NEW k \in 1..(Len(c.data) - 1) PROVE ~MayEnd(SubSeq(c.data, 1, k))
    <3>1. SubSeq(Since(e), 1, k) = Since(chunkStart + k)
      <4>1. /\ chunkStart + 1 \in 1..Len(data) /\ e \in 1..Len(data)
            /\ 1 \in 1..(e - (chunkStart + 1) + 1) /\ k \in 1..(e - (chunkStart + 1) + 1)
        BY <1>0, <1>1, <2>1
      <4>2. SubSeq(SubSeq(data, chunkStart + 1, e), 1, k)
              = SubSeq(data, (chunkStart + 1) + 1 - 1, (chunkStart + 1) + k - 1)
        BY <1>0, <4>1, SubSeqOfSubSeq
      <4>3. (chunkStart + 1) + 1 - 1 = chunkStart + 1
            /\ (chunkStart + 1) + k - 1 = chunkStart + k
        BY <1>0
      <4> QED BY <4>2, <4>3 DEF Since
    <3>2. chunkStart + k \in (chunkStart + 1)..(e - 1)
      BY <1>0, <1>1, <2>1
    <3> QED BY <1>1, <3>1, <3>2
  <2>2. EndOf(c) = e
    BY <1>0, <1>1 DEF EndOf
  <2> HIDE DEF c
  <2> QED BY <1>1, <2>1, <2>2
<1>5. \A i \in 1..Len(chunks) : Ended(chunks[i])
  BY DEF CutInv, ContentDefined
<1>6. \A i \in 1..Len(chunks') : Ended(chunks'[i])
  <2> HIDE DEF Ended, c
  <2> QED BY <1>2, <1>4, <1>5
<1> QED BY <1>3, <1>6 DEF ContentDefined, EndOf

LEMMA CutInit == Init => CutInv
<1> SUFFICES ASSUME Init PROVE CutInv
  OBVIOUS
<1>1. CoverInv /\ ContentDefined
  BY CoverInit DEF Init, ContentDefined
<1>2. RingOK
  BY WindowAssumption DEF Init, RingOK, Slot, Back, NoWindow
<1>3. RolledTo(Since(pos), fp)
  <2>1. Len(Since(0)) = 0
    BY <1>1, SinceShape DEF Init, CoverInv, TypeOK
  <2> QED BY <2>1, RolledNothing DEF Init
<1> QED BY <1>1, <1>2, <1>3 DEF Init, CutInv

LEMMA CutStep == CutInv /\ [Next]_vars => CutInv'
<1> SUFFICES ASSUME CutInv, [Next]_vars PROVE CutInv'
  OBVIOUS
<1>0. /\ CoverInv /\ CoverInv' /\ TypeOK /\ TypeOK'
      /\ pos \in Nat /\ chunkStart \in Nat /\ Len(data) \in Nat
      /\ chunkStart <= pos /\ pos <= Len(data)
      /\ wPos \in 0..(WindowSize - 1) /\ WindowSize \in Nat \ {0}
      /\ window \in [0..(WindowSize - 1) -> Byte]
  BY SMTT(30), CoverStep, LenProperties, WindowAssumption DEF CutInv, CoverInv, TypeOK
<1>a. ASSUME UNCHANGED <<data, limits, chunkStart>>
      PROVE  \A e : Since(e)' = Since(e) /\ (MayEnd(Since(e))' <=> MayEnd(Since(e)))
  BY <1>a DEF Since, MayEnd, minSize, maxSize
<1>b. ASSUME UNCHANGED <<data, limits, chunks>> PROVE ContentDefined'
  BY <1>b DEF CutInv, ContentDefined, MayEnd, minSize, maxSize, EndOf
<1>1. CASE Absorb
  <2>0. /\ pos < Len(data) /\ ~Boundary /\ fp' = NextFp /\ pos' = pos + 1
        /\ window' = [window EXCEPT ![wPos] = data[pos + 1]]
        /\ wPos' = IF wPos + 1 = WindowSize THEN 0 ELSE wPos + 1
        /\ UNCHANGED <<data, limits, chunkStart, chunks>>
    BY <1>0, <1>1, NextSlotValue DEF Absorb
  <2>1. RingOK'
    <3> SUFFICES ASSUME NEW d \in 1..WindowSize PROVE window'[Slot(d)'] = Back(d)'
      BY DEF RingOK
    <3>1. CASE d = 1
      <4>1. Slot(d)' = wPos /\ Back(d)' = data[pos + 1]
        BY <1>0, <2>0, <3>1 DEF Slot, Back
      <4> QED BY <1>0, <2>0, <4>1
    <3>2. CASE d # 1
      <4>1. /\ d - 1 \in 1..WindowSize /\ Slot(d)' = Slot(d - 1)
            /\ Slot(d - 1) \in 0..(WindowSize - 1) \ {wPos}
        BY <1>0, <2>0, <3>2 DEF Slot
      <4>2. Back(d)' = Back(d - 1)
        <5>1. pos' + 1 - d = pos + 1 - (d - 1)
              /\ (d <= pos' - chunkStart <=> d - 1 <= pos - chunkStart)
          BY <1>0, <2>0
        <5> QED BY <2>0, <5>1 DEF Back
      <4>3. window[Slot(d - 1)] = Back(d - 1)
        BY <4>1 DEF CutInv, RingOK
      <4> QED BY <1>0, <2>0, <4>1, <4>2, <4>3
    <3> QED BY <3>1, <3>2
  <2>2. RolledTo(Since(pos), fp)' /\ ~MayEnd(Since(pos + 1))
    BY <1>a, <2>0, RolledNext
  <2>3. \A e \in (chunkStart + 1)..(pos + 1) : ~MayEnd(Since(e))
    BY <1>0, <2>2 DEF CutInv
  <2> QED BY <1>0, <1>a, <1>b, <2>0, <2>1, <2>2, <2>3 DEF CutInv
<1>2. CASE Cut
  <2>0. /\ pos < Len(data) /\ Boundary /\ pos' = pos + 1 /\ chunkStart' = pos + 1
        /\ chunks' = Append(chunks, ChunkUpTo(pos + 1))
        /\ fp' = 0 /\ window' = NoWindow /\ wPos' = 0
        /\ UNCHANGED <<data, limits>> /\ ~ended
    BY <1>0, <1>2 DEF Cut, ResetWindow, CoverInv
  <2>1. RingOK'
    BY <1>0, <2>0 DEF RingOK, Slot, Back, NoWindow
  <2>2. RolledTo(Since(pos), fp)'
    <3>1. Len(Since(pos)') = 0
      <4>1. Since(pos)' = SubSeq(data, pos + 2, pos + 1)
        BY <1>0, <2>0 DEF Since
      <4>2. SubSeq(data, pos + 2, pos + 1) = << >>
        BY <1>0, SubSeqEmpty
      <4>3. Len(<< >>) = 0
        OBVIOUS
      <4> QED BY <4>1, <4>2, <4>3
    <3> QED BY <2>0, <3>1, RolledNothing
  <2>3. ContentDefined'
    <3>1. pos + 1 \in (chunkStart + 1)..Len(data) /\ (pos + 1) - 1 = pos
      BY <1>0, <2>0
    <3>2. MayEnd(Since(pos + 1))
      BY <2>0, RolledNext
    <3>3. \A k \in (chunkStart + 1)..((pos + 1) - 1) : ~MayEnd(Since(k))
      BY <3>1 DEF CutInv
    <3> QED BY <2>0, <3>1, <3>2, <3>3, EndYielded
  <2> QED BY <1>0, <2>0, <2>1, <2>2, <2>3 DEF CutInv
<1>3. CASE End
  <2>0. /\ pos = Len(data) /\ ~ended
        /\ UNCHANGED <<data, limits, pos, chunkStart, window, wPos, fp>>
        /\ IF chunkStart < pos THEN chunks' = Append(chunks, ChunkUpTo(pos))
                               ELSE UNCHANGED chunks
    BY <1>3 DEF End, Remainder
  <2>1. RingOK' /\ RolledTo(Since(pos), fp)'
        /\ (\A e \in (chunkStart + 1)..pos : ~MayEnd(Since(e)))'
    BY <1>a, <2>0 DEF CutInv, RingOK, Slot, Back
  <2>2. CASE chunkStart < pos
    <3>1. pos \in (chunkStart + 1)..Len(data)
      BY <1>0, <2>0, <2>2
    <3>2. \A k \in (chunkStart + 1)..(pos - 1) : ~MayEnd(Since(k))
      BY <1>0 DEF CutInv
    <3>3. ContentDefined'
      BY <2>0, <2>2, <3>1, <3>2, EndYielded
    <3> QED BY <1>0, <2>1, <3>3 DEF CutInv
  <2>3. CASE ~(chunkStart < pos)
    BY <1>0, <1>b, <2>0, <2>1, <2>3 DEF CutInv
  <2> QED BY <2>2, <2>3
<1>4. CASE UNCHANGED vars
  <2>1. RingOK' /\ RolledTo(Since(pos), fp)'
        /\ (\A e \in (chunkStart + 1)..pos : ~MayEnd(Since(e)))'
    BY <1>4, <1>a DEF vars, CutInv, RingOK, Slot, Back
  <2> QED BY <1>0, <1>4, <1>b, <2>1 DEF vars, CutInv
<1> QED BY <1>1, <1>2, <1>3, <1>4 DEF Next

\* Where a chunk ends is decided by its own bytes: whatever the polynomial, the
\* window and the sizes, the ring and the fingerprint that the loop carries are
\* those of the bytes since the last boundary, so no byte before it matters.
THEOREM ChunksContentDefined == Spec => []ContentDefined
<1>1. CutInv => ContentDefined
  BY DEF CutInv
<1> QED BY CutInit, CutStep, <1>1, PTL DEF Spec

=============================================================================
