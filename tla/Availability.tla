------------------------------ MODULE Availability ------------------------------
(***************************************************************************)
(* Groups of nodes for high availability: rows of PAWS and groups of       *)
(* Proxmox that administrators keep alike, and the instances that users    *)
(* put under its care (routers/admin_ha.py).  A call of Proxmox answers    *)
(* before anything else runs; the database does not.                       *)
(***************************************************************************)
EXTENDS Naturals

CONSTANTS
    HaNames,      \* names of groups in Proxmox, of one cluster
    NodeLists,    \* lists of nodes a group may have
    HaAdmins,     \* requests to the API
    HaInsts,      \* instances
    HaFaults,     \* a subset of HaFaultKinds
    NoNodes, NoHaName

HaFaultKinds ==
    {"overlap",   \* requests about one group meet
     "foreign",   \* groups change without PAWS
     "crash"}     \* the API dies between Proxmox and the database

ASSUME HaConstants ==
    HaFaults \subseteq HaFaultKinds /\ NoNodes \notin NodeLists /\ NoHaName \notin HaNames

VARIABLES
    haRow,     \* the ha_groups table
    pveGroup,  \* the groups of Proxmox: their nodes, or NoNodes
    ruled,     \* Proxmox has migrated its groups to rules
    loose,     \* history: groups that PAWS has not had to itself
    haReq,     \* requests between two of their awaits
    present,      \* the instances that have a row
    managed    \* the HA resources of Proxmox: the group of an instance, or "no"

haVars == <<haRow, pveGroup, ruled, loose, haReq, present, managed>>

HaRow == [nodes : NodeLists \union {NoNodes}, active : BOOLEAN]
NoHaRow == [nodes |-> NoNodes, active |-> FALSE]
\* loaded and row: what the request would write and what it has read; alive: the
\* row it has read is still there; seen and add: the groups of a sync.
HaReq == [op : {"none", "create", "update", "delete", "sync", "enable", "disable"},
          inst : HaInsts \union {NoHaName}, called : BOOLEAN,
          name : HaNames \union {NoHaName}, loaded : HaRow, row : HaRow, alive : BOOLEAN,
          seen : SUBSET HaNames, add : [HaNames -> NodeLists \union {NoNodes}]]
NoHaReq == [op |-> "none", inst |-> NoHaName, called |-> FALSE, name |-> NoHaName, loaded |-> NoHaRow,
            row |-> NoHaRow, alive |-> FALSE, seen |-> {}, add |-> [n \in HaNames |-> NoNodes]]

\* A row has nodes, and an instance is managed in a group or in none.
AvailabilityTypeOK ==
    /\ haRow \in [HaNames -> HaRow] /\ pveGroup \in [HaNames -> NodeLists \union {NoNodes}]
    /\ \A n \in HaNames : haRow[n].active => haRow[n].nodes # NoNodes
    /\ ruled \in BOOLEAN /\ loose \subseteq HaNames
    /\ haReq \in [HaAdmins -> HaReq]
    /\ present \subseteq HaInsts
    /\ managed \in [HaInsts -> HaNames \union {NoHaName, "no"}]

AvailabilityInit ==
    /\ haRow = [n \in HaNames |-> NoHaRow]
    /\ pveGroup \in [HaNames -> NodeLists \union {NoNodes}]
    /\ ruled \in BOOLEAN /\ loose = {n \in HaNames : pveGroup[n] # NoNodes}
    /\ haReq = [p \in HaAdmins |-> NoHaReq]
    /\ present = {} /\ managed = [i \in HaInsts |-> "no"]

HasRow(n) == haRow[n] # NoHaRow
HasGroup(n) == pveGroup[n] # NoNodes
About(n) == {p \in HaAdmins : haReq[p].name = n \/ haReq[p].op = "sync"}
HaEnd(p) == haReq' = [haReq EXCEPT ![p] = NoHaReq]
HaCalled(p) == haReq' = [haReq EXCEPT ![p].called = TRUE]

-----------------------------------------------------------------------------
(* The administrators *)

HaBegin(p, op, n, loaded, row) ==
    /\ haReq[p] = NoHaReq
    /\ "overlap" \in HaFaults \/ About(n) = {}
    /\ haReq' = [haReq EXCEPT ![p] = [NoHaReq EXCEPT !.op = op, !.name = n, !.loaded = loaded,
                                                     !.row = row, !.alive = TRUE]]
    /\ UNCHANGED <<haRow, pveGroup, ruled, loose, present, managed>>

\* "HA group with this PVE name already exists"
ReadForHaCreate(p, n, nodes) ==
    ~HasRow(n) /\ HaBegin(p, "create", n, NoHaRow, [nodes |-> nodes, active |-> TRUE])

ReadForHaUpdate(p, n, row) ==
    HasRow(n) /\ HaBegin(p, "update", n, haRow[n], row)

ReadForHaDelete(p, n) == HasRow(n) /\ HaBegin(p, "delete", n, haRow[n], haRow[n])

\* A group that is there already is taken as it is, and after the migration to
\* rules PAWS keeps the row alone.  Any other refusal ends the request.
CallHaCreate(p) ==
    LET r == haReq[p] IN
    /\ r.op = "create" /\ ~r.called
    /\ \/ /\ HaCalled(p)
          /\ IF ruled \/ HasGroup(r.name)
             THEN loose' = loose \union {r.name} /\ UNCHANGED pveGroup
             ELSE pveGroup' = [pveGroup EXCEPT ![r.name] = r.row.nodes] /\ UNCHANGED loose
       \/ ~ruled /\ HaEnd(p) /\ UNCHANGED <<pveGroup, loose>>
    /\ UNCHANGED <<haRow, ruled, present, managed>>

\* Mutant: whatever Proxmox says, the row is updated.
CallHaUpdateSwallows(p) ==
    LET r == haReq[p] IN
    /\ r.op = "update" /\ ~r.called
    /\ HaCalled(p) /\ UNCHANGED pveGroup
    /\ UNCHANGED <<haRow, ruled, loose, present, managed>>

\* Only the nodes go to Proxmox, which has no group to change, or refuses.
CallHaUpdate(p) ==
    LET r == haReq[p] IN
    /\ r.op = "update" /\ ~r.called
    /\ \/ /\ r.row.nodes = r.loaded.nodes \/ ruled
          /\ HaCalled(p)
          /\ loose' = IF r.row.nodes = r.loaded.nodes THEN loose ELSE loose \union {r.name}
          /\ UNCHANGED pveGroup
       \/ /\ ~ruled /\ HasGroup(r.name)
          /\ HaCalled(p)
          /\ pveGroup' = [pveGroup EXCEPT ![r.name] = r.row.nodes] /\ UNCHANGED loose
       \/ ~ruled /\ HaEnd(p) /\ UNCHANGED <<pveGroup, loose>>
    /\ UNCHANGED <<haRow, ruled, present, managed>>

\* A group that is gone is as good as deleted; Proxmox keeps one in use.
CallHaDelete(p) ==
    LET r == haReq[p] IN
    /\ r.op = "delete" /\ ~r.called
    /\ \/ /\ ruled \/ \A i \in HaInsts : managed[i] # r.name
          /\ HaCalled(p)
          /\ pveGroup' = IF ruled THEN pveGroup ELSE [pveGroup EXCEPT ![r.name] = NoNodes]
          /\ loose' = IF ruled THEN loose \union {r.name} ELSE loose
       \/ ~ruled /\ HasGroup(r.name) /\ HaEnd(p) /\ UNCHANGED <<pveGroup, loose>>
    /\ UNCHANGED <<haRow, ruled, present, managed>>

\* An UPDATE has the changed columns, and none if nothing has changed; it fails
\* on a row that is gone.
Updated(p) ==
    LET r == haReq[p] IN
    IF ~r.alive THEN haRow[r.name]
    ELSE [nodes |-> IF r.row.nodes = r.loaded.nodes THEN haRow[r.name].nodes ELSE r.row.nodes,
          active |-> IF r.row.active = r.loaded.active THEN haRow[r.name].active
                     ELSE r.row.active]

\* uq_ha_cluster_pvename refuses the second row of a group.
CommitHa(p) ==
    LET r == haReq[p] IN
    /\ r.called /\ r.op \in {"create", "update", "delete"}
    /\ haRow' = [haRow EXCEPT ![r.name] =
                   CASE r.op = "create" /\ ~HasRow(r.name) -> r.row
                     [] r.op = "update" -> Updated(p)
                     [] r.op = "delete" /\ r.alive -> NoHaRow
                     [] OTHER -> @]
    /\ haReq' = [q \in HaAdmins |->
                   IF q = p THEN NoHaReq
                   ELSE IF r.op = "delete" /\ haReq[q].name = r.name
                   THEN [haReq[q] EXCEPT !.alive = FALSE] ELSE haReq[q]]
    /\ UNCHANGED <<pveGroup, ruled, loose, present, managed>>

\* _fetch_ha_rules_as_groups: no answer reads as no rules.
Listed(answered) == {n \in HaNames : answered /\ HasGroup(n)}

\* sync_ha_groups lists the groups, or the location rules, and looks for the row
\* of each.
ListHaGroups(p, answered) ==
    /\ haReq[p] = NoHaReq
    /\ "overlap" \in HaFaults \/ \A q \in HaAdmins : haReq[q] = NoHaReq
    /\ answered \/ ruled
    /\ haReq' = [haReq EXCEPT ![p] =
                   [NoHaReq EXCEPT !.op = "sync", !.called = TRUE, !.add = pveGroup,
                                   !.seen = Listed(answered)]]
    /\ UNCHANGED <<haRow, pveGroup, ruled, loose, present, managed>>

LookForHaRow(p, n) ==
    /\ haReq[p].op = "sync" /\ n \in haReq[p].seen /\ HasRow(n)
    /\ haReq' = [haReq EXCEPT ![p].seen = @ \ {n}]
    /\ UNCHANGED <<haRow, pveGroup, ruled, loose, present, managed>>

\* One commit for all the groups without a row: one that got its row meanwhile
\* refuses them all.
CommitHaSync(p) ==
    LET r == haReq[p] IN
    /\ r.op = "sync"
    /\ haRow' = IF \E n \in r.seen : HasRow(n) THEN haRow
                ELSE [n \in HaNames |-> IF n \in r.seen
                                        THEN [nodes |-> r.add[n], active |-> TRUE] ELSE haRow[n]]
    /\ loose' = {n \in loose : n \notin r.seen \/ r.add[n] # haRow'[n].nodes}
    /\ HaEnd(p)
    /\ UNCHANGED <<pveGroup, ruled, present, managed>>

-----------------------------------------------------------------------------
(* The users *)

\* enable_instance_ha and disable_instance_ha read the instance, whatever its
\* status, and enable_instance_ha an active group, or none.
ReadForHa(p, op, i, n) ==
    /\ haReq[p] = NoHaReq /\ i \in present
    /\ op = "enable" /\ n # NoHaName => haRow[n].active
    /\ op = "disable" => n = NoHaName
    /\ haReq' = [haReq EXCEPT ![p] = [NoHaReq EXCEPT !.op = op, !.name = n, !.inst = i]]
    /\ UNCHANGED <<haRow, pveGroup, ruled, loose, present, managed>>

\* Proxmox knows the guest and the group, and takes a guest once; it may always
\* refuse.
CallHa(p) ==
    LET r == haReq[p] IN
    /\ r.op \in {"enable", "disable"}
    /\ managed' \in {managed,
                     IF r.op = "disable" THEN [managed EXCEPT ![r.inst] = "no"]
                     ELSE IF r.inst \in present /\ managed[r.inst] = "no"
                             /\ (r.name # NoHaName => ~ruled /\ HasGroup(r.name))
                     THEN [managed EXCEPT ![r.inst] = r.name] ELSE managed}
    /\ HaEnd(p) /\ UNCHANGED <<haRow, pveGroup, ruled, loose, present>>

\* create_vm and _terminate_vm, which do not know of HA: Proxmox keeps a managed
\* guest, and the VMID with it.
HoldInstance(i) ==
    /\ i \notin present /\ managed[i] = "no"
    /\ present' = present \union {i}
    /\ UNCHANGED <<haRow, pveGroup, ruled, loose, haReq, managed>>

TerminateInstance(i) ==
    /\ i \in present
    /\ present' = present \ {i}
    /\ UNCHANGED <<haRow, pveGroup, ruled, loose, haReq, managed>>

-----------------------------------------------------------------------------
(* What PAWS does not do *)

ForeignGroup(n, nodes) ==
    /\ "foreign" \in HaFaults
    /\ pveGroup' = [pveGroup EXCEPT ![n] = nodes] /\ loose' = loose \union {n}
    /\ UNCHANGED <<haRow, ruled, haReq, present, managed>>

HaCrash ==
    /\ "crash" \in HaFaults
    /\ loose' = loose \union {n \in HaNames : \E p \in HaAdmins : haReq[p].name = n /\ haReq[p].called}
    /\ haReq' = [p \in HaAdmins |-> NoHaReq]
    /\ UNCHANGED <<haRow, pveGroup, ruled, present, managed>>

AvailabilityNext ==
    \/ \E p \in HaAdmins, n \in HaNames :
         \/ \E nodes \in NodeLists : ReadForHaCreate(p, n, nodes)
         \/ \E row \in [nodes : NodeLists, active : BOOLEAN] : ReadForHaUpdate(p, n, row)
         \/ ReadForHaDelete(p, n) \/ LookForHaRow(p, n)
    \/ \E p \in HaAdmins :
         \/ CallHaCreate(p) \/ CallHaUpdate(p) \/ CallHaDelete(p) \/ CommitHa(p)
         \/ (\E answered \in BOOLEAN : ListHaGroups(p, answered)) \/ CommitHaSync(p) \/ CallHa(p)
         \/ \E op \in {"enable", "disable"}, i \in HaInsts, n \in HaNames \union {NoHaName} :
              ReadForHa(p, op, i, n)
    \/ \E i \in HaInsts : HoldInstance(i) \/ TerminateInstance(i)
    \/ \E n \in HaNames, nodes \in NodeLists \union {NoNodes} : ForeignGroup(n, nodes)
    \/ HaCrash

AvailabilitySpec == AvailabilityInit /\ [][AvailabilityNext]_haVars

-----------------------------------------------------------------------------
(* Properties *)

(***************************************************************************)
(* A group that PAWS has created or synced has in Proxmox the nodes of its *)
(* row, and is there only as long as the row, whatever Proxmox refuses; a  *)
(* death of the API between the two, or a group that PAWS found taken, is  *)
(* named by loose.  Requests about one group that meet break it.           *)
(***************************************************************************)
GroupsAgree ==
    \A n \in HaNames \ loose :
        (\A p \in About(n) : ~haReq[p].called) => pveGroup[n] = haRow[n].nodes
===============================================================================
