CONSTANTS
    u1 = u1
    u2 = u2
    r1 = r1
    r2 = r2
    r3 = r3
    i1 = i1
    Users = {u1, u2}
    Creates = {r1, r2}
    Imports = {i1}
    Deletes = {d1, d2}
    Vmids <- MCVmids
    Owner <- MCOwner
    Endpoint <- MCEndpoint
    Quota <- MCQuota
    Protectable = {}
    Faults <- SerialFaults
    Foreign = Foreign
    NoInstance = NoInstance
    NoRow = NoRow
    NoVmid = NoVmid
    Free = Free
    Unlinked = Unlinked
SPECIFICATION Spec
SYMMETRY DeleteSymmetry
INVARIANTS TypeOK ReservationHeld OwnInstance PurgeTargetsOwn PoolCoversRows
PROPERTIES ImplementsLease
CHECK_DEADLOCK FALSE
