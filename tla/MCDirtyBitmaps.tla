--------------------------- MODULE MCDirtyBitmaps ---------------------------
(* An instance of DirtyBitmaps for TLC. *)
EXTENDS DirtyBitmaps, TLC

CONSTANTS a1, a2, A, p1, p2

\* A disk of two blocks, so that a range can leave one out; one of them is
\* found in the image file, the other is not.  Two passes.
MCBlocks == {a1, a2}
MCDisks == {A}
MCDiskOf == [b \in Blocks |-> A]
MCInPlace == {a1}
MCPasses == {p1, p2}

Symmetry == Permutations(MCPasses)

=============================================================================
