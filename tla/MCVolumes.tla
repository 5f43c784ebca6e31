----------------------------- MODULE MCVolumes -----------------------------
(* Small instances of Volumes for TLC. *)
EXTENDS Volumes, TLC

EagerStorage == {"frees"}

VolumeSymmetry ==
    Permutations(Vols) \union Permutations(Vms) \union Permutations(Procs)
=============================================================================
