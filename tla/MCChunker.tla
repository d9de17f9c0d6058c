----------------------------- MODULE MCChunker -----------------------------
(* Chunker with the fingerprint of Rabin, for TLC. *)
EXTENDS Chunker, Rabin

CONSTANT MaxLen

\* Every disk of at most MaxLen bytes.
MCStreams == UNION {[1..n -> Bytes] : n \in 0..MaxLen}

\* The usual order, a single size, no minimum, and settings that contradict
\* each other.
MCLimits == {<<2, 4>>, <<3, 3>>, <<0, 5>>, <<3, 1>>, <<0, 0>>}

=============================================================================
