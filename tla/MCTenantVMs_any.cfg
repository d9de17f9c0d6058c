SPECIFICATION Spec
CONSTANTS
    v1 = v1
    v2 = v2
    v3 = v3
    t1 = t1
    t2 = t2
    q1 = q1
    q2 = q2
    n1 = n1
    n2 = n2
    VMs <- MCOneVm
    Tenants = {t1}
    TenantOf <- MCTenantOf
    NameOf <- MCNameOf
    Requests <- MCRequests2
    Env <- Circumstances
INVARIANT TypeOK
INVARIANT RowsHaveTenant
SYMMETRY RequestSymmetry
