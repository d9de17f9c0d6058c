SPECIFICATION FairSpec
CONSTANTS
    b1 = b1
    b2 = b2
    b3 = b3
    c1 = c1
    c2 = c2
    NoChunk = NoChunk
    Backups <- MCBackups3
    Chunks <- MCChunks
    Streams <- MCOneChunk
    MaxLen = 2
    Env <- MCWritersEnv
INVARIANT RefCountExact
INVARIANT TornIsWritten
PROPERTY ManifestsSettle
PROPERTY UnreferencedReclaimed
