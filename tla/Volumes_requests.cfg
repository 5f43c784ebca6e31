CONSTANTS
    Vols = {d1, d2}
    Vms = {v1, v2}
    Procs = {p1, p2}
    MaxSlot = 2
    MaxSize = 2
    NewSizes = {1}
    NoVm = NoVm
    NoVol = NoVol
    Faults = {}
SPECIFICATION Spec
SYMMETRY VolumeSymmetry
INVARIANTS VolumesTypeOK AttachedIsPlugged OneSlotPerDisk SizeCovered AttachedImageExists
CHECK_DEADLOCK FALSE
