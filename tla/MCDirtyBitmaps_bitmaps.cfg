SPECIFICATION Spec
CONSTANTS
    a1 = a1
    a2 = a2
    A = A
    p1 = p1
    p2 = p2
    NoDisk = NoDisk
    Blocks <- MCBlocks
    Disks <- MCDisks
    DiskOf <- MCDiskOf
    InPlace <- MCInPlace
    Passes <- MCPasses
    Env = {}
INVARIANT TypeOK
INVARIANT ForgottenOnlyAtRisk
PROPERTY SuccessSavesChanges
SYMMETRY Symmetry
