CONSTANTS
    Users = {u1, u2}
    NoUser = NoUser
    Parts = {"setup", "sessions", "owners", "groups", "entities", "objects", "names", "nodes"}
    Pairs = {a, b}
    AccProcs = {p1, p2}
    MaxFails = 2
    AccFaults = {}
    NoPair = NoPair
    Groups = {a, b}
    Entities = {e1}
    ShareProcs = {p1, p2}
    Platform = {}
    NoGroup = NoGroup
    NoEntity = NoEntity
    Names = {a, b}
    ObjectKeys = {k1, k2}
    ObjectSizes = {1}
    BucketProcs = {p1, p2}
    MaxBuckets = 2
    MaxStorage = 2
    MaxInteger = 3
    MoveOntoItself = FALSE
    NoName = NoName
    NoKey = NoKey
    HaNames = {n1}
    NodeLists = {c, d}
    HaAdmins = {p1, p2}
    HaInsts = {i1}
    HaFaults = {"crash"}
    NoNodes = NoNodes
    NoHaName = NoHaName
SPECIFICATION ServicesSpec
SYMMETRY ServicesSymmetry
INVARIANTS ServicesTypeOK    SizeCharged AnsweredKept 
CHECK_DEADLOCK FALSE
