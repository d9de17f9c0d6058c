---------------------------- MODULE MCChunkStore ----------------------------
(* Instances of ChunkStore for TLC. *)
EXTENDS ChunkStore, TLC

CONSTANTS b1, b2, b3, c1, c2

MCBackups2 == {b1, b2}
MCBackups3 == {b1, b2, b3}
MCChunks == {c1, c2}

\* Every stream of at most two chunks: the empty disk, a disk whose two halves
\* are equal, and two chunks in either order.
MCStreams == UNION {[1..n -> MCChunks] : n \in 0..2}

\* Streams that share a chunk, for the instances with three passes.
MCSharedStreams == {<<c1>>, <<c1, c1>>, <<c2, c1>>}

\* One new chunk that every pass writes.
MCOneChunk == {<<c1>>, <<c1, c1>>}

MCSerialEnv == {"crash", "tenant_delete"}
MCAnyEnv == {"concurrent", "gc_overlap", "crash", "gc_fault", "tenant_delete"}
MCOverlapEnv == {"gc_overlap"}
MCWritersEnv == {"concurrent"}

\* Passes are interchangeable in the safety run that has three of them.
PassSymmetry == Permutations(MCBackups3)

=============================================================================
