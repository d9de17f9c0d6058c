SPECIFICATION Spec
CONSTANTS
    v1 = v1
    v2 = v2
    VMs <- MCVMs
    Tenants <- MCVMs
    TenantOf <- MCTenantOf
    MeterInterval = 1
    ManagerInterval = 1
    PassTicks = 1
    MonthTicks = 2
    FirstMonth <- MCFirstMonth
    Start = 1
    Horizon = 6
    MaxErrors = 1
    MaxFails = 2
INVARIANT TypeOK
INVARIANT PartitionsAhead
INVARIANT NoOverbilling
INVARIANT NoLostInterval
PROPERTY ShutDownQuiet
SYMMETRY Symmetry
