----------------------------- MODULE MCNetwork -----------------------------
(***************************************************************************)
(* Small instances of Network for TLC.  A behaviour takes one of two       *)
(* views, chosen at the start: "modes" has one instance and one request at *)
(* a time, no reservation by hand, and networks of every mode; "addresses" *)
(* has private networks that are always built, at most one reservation by  *)
(* hand, and instances and requests that compete for addresses.            *)
(***************************************************************************)
EXTENDS Network, TLC

CONSTANT u1

VARIABLE view

mcVars == <<netVars, view>>

MCInstOwner == [i \in Insts |-> u1]

ModesView ==
    /\ Cardinality({i \in Insts : insts'[i].known}) <= 1
    /\ Cardinality({p \in NetProcs : nreq'[p] # Free}) <= 1
    /\ \A e \in reserved' : e.inst # NoInst

AddressesView ==
    /\ Cardinality({e \in reserved' : e.inst = NoInst}) <= 1
    /\ \A v \in Vpcs : vpcs'[v].mode = "private" /\ vpcs'[v].status # "error"
    /\ \A p \in NetProcs :
         /\ nreq'[p].mode = "private" /\ nreq'[p].copy.mode = "private"
         /\ nreq'[p].step # "done" \/ nreq'[p].copy.subnet = "active" \/ nreq'[p].op # "create"

MCInit == NetworkInit /\ view \in {"modes", "addresses"}

MCNext ==
    /\ NetworkNext
    /\ view = "modes" => ModesView
    /\ view = "addresses" => AddressesView
    /\ UNCHANGED view

MCSpec == MCInit /\ [][MCNext]_mcVars

NetworkSymmetry ==
    {f @@ g @@ h : f \in Permutations(Vpcs), g \in Permutations(Insts), h \in Permutations(NetProcs)}
=============================================================================
