CONSTANTS
    u1 = u1
    u2 = u2
    r1 = r1
    r2 = r2
    Users = {u1, u2}
    Creates = {r1, r2}
    Imports = {}
    Deletes = {d1}
    Vmids <- MCVmids
    Owner <- MCOwner
    Endpoint <- MCEndpoint
    Quota <- MCQuota
    Protectable = {r1}
    Faults <- MCFaults
    ShutdownAge = 1
    DestroyAge = 2
    Foreign = Foreign
    NoInstance = NoInstance
    NoRow = NoRow
    NoVmid = NoVmid
    Free = Free
    Unlinked = Unlinked
SPECIFICATION LifecycleSpec
INVARIANT IdleDestroyTargetsOwn
CHECK_DEADLOCK FALSE
