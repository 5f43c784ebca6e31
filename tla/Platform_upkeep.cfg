CONSTANTS
    Parts = {"drift", "quota", "owners", "status", "list", "snapshots", "limits", "deletion", "templates", "files", "api", "worker", "quotas", "tiers", "catalog"}
    Insts = {i1, i2}
    Other = i2
    Owners = {o1,o2}
    LoneOwner = o1
    Nodes = {1, 2}
    Scans = {s1}
    MaxCores = 2
    Limits = {1,2}
    Overlap = FALSE
    NoInst = NoInst
    NoOwner = NoOwner
    Readers = {p1, p2}
    Snaps = {n1}
    NoSnap = NoSnap
    Absent = Absent
    Clusters = {k1,k2}
    Hosts = {ha,hb}
    FirstHost = ha
    Loads = {l1,l2}
    RegFaults = {}
    NoCluster = NoCluster
    NoHost = NoHost
    Askers = {u1}
    Desks = {d1,d2}
    AskIds = {x1,x2}
    Tiers = {t1,t2}
    MaxQuota = 3
    Images = {g1}
    ReviewsOverlap = FALSE
    NoAsker = NoAsker
    NoTier = NoTier
    NoAskId = NoAskId
    LoneHolder = h1
    Holders = {h1, h2}
    Machines = {m1}
    Clerks = {c1, c2}
    RowIds = {r1, r2, r3}
    MaxRows = 1
    MaxFiles = 1
    MaxDumps = 2
    NoHolder = NoHolder
    NoMachine = NoMachine

SPECIFICATION PlatformSpec
INVARIANTS PlatformTypeOK RowsWithinLimit RegistryKnown ReviewsStand
PROPERTIES StatusRepaired DriftReported QuotaEnforced CachesSettle 
CHECK_DEADLOCK FALSE
