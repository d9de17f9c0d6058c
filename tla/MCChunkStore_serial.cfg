SPECIFICATION Spec
CONSTANTS
    b1 = b1
    b2 = b2
    b3 = b3
    c1 = c1
    c2 = c2
    NoChunk = NoChunk
    Backups <- MCBackups3
    Chunks <- MCChunks
    Streams <- MCSharedStreams
    MaxLen = 2
    Env <- MCSerialEnv
INVARIANT ManifestsRestorable
INVARIANT RefCountExact
PROPERTY ImplementsCatalog
SYMMETRY PassSymmetry
