SPECIFICATION Spec
CONSTANTS
    b1 = b1
    b2 = b2
    b3 = b3
    c1 = c1
    c2 = c2
    NoChunk = NoChunk
    Backups <- MCBackups2
    Chunks <- MCChunks
    Streams <- MCStreams
    MaxLen = 2
    Env <- MCOverlapEnv
INVARIANT ManifestsRestorable
