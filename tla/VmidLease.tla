----------------------------- MODULE VmidLease -----------------------------
(***************************************************************************)
(* What the VMID bookkeeping of PAWS promises to those who hold a VMID: a  *)
(* VMID is leased by one holder at a time, it goes back to nobody before   *)
(* anyone else gets it, and one whose holder died with the API process is  *)
(* retired: it is never leased again, because nothing removes its pool     *)
(* row.                                                                    *)
(***************************************************************************)
CONSTANTS Vmids, Holders

VARIABLES
    lease,     \* the holder of each VMID, as a set of at most one
    retired    \* VMIDs that were lost to a crash

Init ==
    /\ lease = [v \in Vmids |-> {}]
    /\ retired = {}

Acquire(v, x) ==
    /\ lease[v] = {}
    /\ v \notin retired
    /\ \A w \in Vmids : x \notin lease[w]
    /\ lease' = [lease EXCEPT ![v] = {x}]
    /\ UNCHANGED retired

Return(v) ==
    /\ lease[v] # {}
    /\ lease' = [lease EXCEPT ![v] = {}]
    /\ UNCHANGED retired

\* Several holders may die at once.
Retire(lost) ==
    /\ \A v \in lost : lease[v] # {}
    /\ lease' = [v \in Vmids |-> IF v \in lost THEN {} ELSE lease[v]]
    /\ retired' = retired \union lost

Next ==
    \/ \E v \in Vmids, x \in Holders : Acquire(v, x)
    \/ \E v \in Vmids : Return(v)
    \/ \E lost \in SUBSET Vmids : Retire(lost)

Spec == Init /\ [][Next]_<<lease, retired>>
=============================================================================
