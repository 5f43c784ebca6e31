---------------------------- MODULE MCLifecycle ----------------------------
(* Small instances of Lifecycle for TLC. *)
EXTENDS Lifecycle

CONSTANTS u1, u2, r1, r2

\* One VMID: whoever is created after a deletion gets it again.
MCVmids == 100 .. 100

MCOwner == [x \in ResIds |-> IF x = r2 THEN u2 ELSE u1]

\* r2 is a container request.
MCEndpoint == [r \in Creates |-> IF r = r2 THEN "lxc" ELSE "vm"]

MCQuota == [t \in Types |-> 1]

MCFaults == {"api_crash", "worker_crash"}
=============================================================================
