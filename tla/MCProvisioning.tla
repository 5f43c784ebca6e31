--------------------------- MODULE MCProvisioning ---------------------------
(* Small instances of Provisioning for TLC. *)
EXTENDS Provisioning, TLC

CONSTANTS u1, u2, r1, r2, r3, i1

\* Two VMIDs, so that a freed one is the next to be handed out
MCVmids == 100 .. 101
OneVmid == 100 .. 100

\* r1 and r3 belong to one user, r2 and the import to another
MCOwner == [x \in ResIds |-> IF x \in {r2, i1} THEN u2 ELSE u1]

\* r2 is a container request
MCEndpoint == [r \in Creates |-> IF r = r2 THEN "lxc" ELSE "vm"]
AllVms     == [r \in Creates |-> "vm"]

MCQuota    == [t \in Types |-> 2]
TightQuota == [t \in Types |-> 1]

SerialFaults == FaultKinds \ {"late_failure", "overlapping_deletes"}

AnyFault == FaultKinds

LateFailure == {"late_failure"}

DeleteSymmetry == Permutations(Deletes)
=============================================================================
