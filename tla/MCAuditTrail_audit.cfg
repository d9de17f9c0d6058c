SPECIFICATION Spec
CONSTANTS
    e1 = e1
    e2 = e2
    e3 = e3
    e4 = e4
    op = op
    admin = admin
    t1 = t1
    msp = msp
    NULL = NULL
    Events = {e1, e2, e3, e4}
    Users = {op, admin}
    Tenants = {t1, msp}
    Home <- MCHome
    Actor <- MCActor
    Action <- MCAction
    Subject <- MCSubject
    Filters <- MCFilters
    Windows <- MCWindows
    PageSizes <- MCPageSizes
    Horizon = 2
INVARIANT TypeOK
INVARIANT EventsVerify
INVARIANT PagingMisses
INVARIANT ExportMisses
SYMMETRY Symmetry
