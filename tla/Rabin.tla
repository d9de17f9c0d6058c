-------------------------------- MODULE Rabin --------------------------------
(***************************************************************************)
(* The arithmetic of the fingerprint of dedup/chunk_store.py for words of   *)
(* FpBits bits (64 there), bytes of ByteBits bits (8) and any polynomial.   *)
(***************************************************************************)
EXTENDS Integers, Bitwise

CONSTANTS FpBits, ByteBits, Poly, TargetSize

Bytes == 0..(2^ByteBits - 1)
Words == 0..(2^FpBits - 1)

\* _OUT_TABLE: one division step of the byte for each of its bits.
OutTable ==
    [i \in Bytes |->
        LET entry[k \in 0..ByteBits] ==
                IF k = 0 THEN i
                ELSE (entry[k - 1] \div 2)
                        ^^ (IF entry[k - 1] % 2 = 1 THEN Poly ELSE 0)
        IN  entry[ByteBits]]

\* The next fingerprint: the table entry of the byte that leaves the window,
\* a rotation to the left, the byte that enters.
Slide(fp, outgoing, byte) ==
    LET x == fp ^^ OutTable[outgoing]
    IN  ((x * 2 + x \div 2^(FpBits - 1)) % 2^FpBits) ^^ byte

\* (target_size - 1).bit_length()
BitLength(n) == CHOOSE k \in 0..FpBits : n < 2^k /\ (k = 0 \/ 2^(k - 1) <= n)

Mask == 2^BitLength(TargetSize - 1) - 1

\* (fp & mask) == magic
IsMagic(fp) == fp % (Mask + 1) = Mask \div 2

=============================================================================
