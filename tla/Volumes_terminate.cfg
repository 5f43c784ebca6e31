CONSTANTS
    Vols = {d1}
    Vms = {v1, v2}
    Procs = {p1}
    MaxSlot = 2
    MaxSize = 2
    NewSizes = {1}
    NoVm = NoVm
    NoVol = NoVol
    Faults = {}
SPECIFICATION Spec
SYMMETRY VolumeSymmetry
INVARIANTS DetachedImageExists
CHECK_DEADLOCK FALSE
