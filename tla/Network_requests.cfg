CONSTANTS
    u1 = u1
    Users = {u1}
    Vpcs = {n1, n2}
    Insts = {i1, i2}
    NetProcs = {p1, p2}
    InstOwner <- MCInstOwner
    GroupAdmins = {}
    Blocks = {1, 2}
    MaxTag = 2
    MaxHost = 3
    MaxNic = 1
    MaxNetworks = 2
    Gateways = {1}
    NetFaults = {}
    NoVpc = NoVpc
    NoInst = NoInst
    NoUser = NoUser
SPECIFICATION MCSpec
SYMMETRY NetworkSymmetry
INVARIANTS NetworkTypeOK      
CHECK_DEADLOCK FALSE
