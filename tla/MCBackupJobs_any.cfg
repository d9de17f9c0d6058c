SPECIFICATION Spec
CONSTANTS
    j1 = j1
    j2 = j2
    j3 = j3
    w1 = w1
    w2 = w2
    v1 = v1
    v2 = v2
    NoJob = NoJob
    MaxDeliver = 3
    Jobs <- MCJobs2
    VmOf <- MCOneVm
    Workers <- MCWorkers
    Env <- Circumstances
CHECK_DEADLOCK FALSE
INVARIANT TypeOK
INVARIANT SuccessHasManifest
INVARIANT ParentsPrecede
INVARIANT OrphanedOnlyIfUndone
INVARIANT JobsInHand
PROPERTY CancelStands
SYMMETRY Symmetry
