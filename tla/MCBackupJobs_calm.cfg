SPECIFICATION FairSpec
CONSTANTS
    j1 = j1
    j2 = j2
    j3 = j3
    w1 = w1
    w2 = w2
    v1 = v1
    v2 = v2
    NoJob = NoJob
    MaxDeliver = 2
    Jobs <- MCJobs3
    VmOf <- MCTwoVms
    Workers <- MCWorkers
    Env <- MCCalmEnv
CHECK_DEADLOCK FALSE
INVARIANT IncrementalHasParent
PROPERTY ImplementsLifecycle
PROPERTY MessagesSettle
