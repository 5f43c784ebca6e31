------------------------------ MODULE Network ------------------------------
(***************************************************************************)
(* VPCs, their VNets on Proxmox, address reservations and the NICs of      *)
(* instances (routers/vpcs.py, routers/networking.py, services/ipam_       *)
(* service.py, services/sdn_service.py and the network handlers of         *)
(* routers/compute.py).                                                    *)
(*                                                                         *)
(* A request is split where it awaits the database between two things that *)
(* others can see; Proxmox calls do not yield.  Each VPC has the one       *)
(* subnet create_vpc gives it.  Addresses are host numbers: a subnet has   *)
(* the usable hosts 1 .. MaxHost.  A CIDR is one block of the address      *)
(* plan: two CIDRs overlap when they are equal.  Bound of the model: a VPC *)
(* slot is always created under the same name.                             *)
(***************************************************************************)
EXTENDS Integers, FiniteSets, Sequences

CONSTANTS
    Users, Vpcs, Insts, NetProcs,
    InstOwner,    \* who owns each instance
    GroupAdmins,  \* users with "admin" on what others own, through group shares
    Blocks,       \* bound: the CIDRs of the address plan
    MaxTag,       \* bound: VXLAN tags are 1 .. MaxTag
    MaxHost,      \* bound: usable hosts of a subnet
    MaxNic,       \* bound: NICs are net0 .. net<MaxNic>
    MaxNetworks,  \* UserQuota.max_networks
    Gateways,     \* bound: gateways a create asks for (1 when it asks for none)
    NetFaults, NoVpc, NoInst, NoUser

(***************************************************************************)
(* What a run adds to the ordinary behaviour.                              *)
(* creates, subnet, instance, vpc: two requests that create VPCs, take an  *)
(* address of one subnet, change one instance, or one of which deletes or  *)
(* changes a VPC that the other uses, are under way together.              *)
(* any_nic: a NIC other than the last one is removed.                      *)
(* any_target: net0 is moved to a network of another mode than the         *)
(* firewall has, to one that allows no secondary NICs, or to one on which  *)
(* the instance has a secondary NIC.                                       *)
(* firewall: Proxmox refuses firewall calls.  lost: the API dies.          *)
(***************************************************************************)
NetFaultKinds == {"creates", "subnet", "instance", "vpc", "any_nic", "any_target",
                  "firewall", "lost"}

ASSUME NetworkConstants ==
    /\ InstOwner \in [Insts -> Users] /\ GroupAdmins \subseteq Users
    /\ MaxTag \in Nat /\ MaxHost \in Nat /\ MaxNic \in Nat /\ MaxNetworks \in Nat
    /\ Gateways \subseteq 1 .. MaxHost
    /\ NoVpc \notin Vpcs /\ NoInst \notin Insts /\ NoUser \notin Users
    /\ NetFaults \subseteq NetFaultKinds

VARIABLES
    vpcs,      \* the vpcs table with the one subnet of each row
    vnets,     \* the VXLAN tag of each VPC's VNet on Proxmox, 0 without VNet
    groups,    \* the "Published: <name>" security groups: <<owner, VPC>>
    insts,     \* resource rows: specs.vpc_id and specs.secondary_vpc_ids
    nics,      \* the NICs of each guest
    firewall,  \* the mode whose rules each guest's firewall has
    reserved,  \* the ip_reservations table
    nreq       \* the request each process serves

netVars == <<vpcs, vnets, groups, insts, nics, firewall, reserved, nreq>>

Modes == {"published", "private", "isolated"}
Hosts == 1 .. MaxHost
Nics == 0 .. MaxNic
OwnNic == -1  \* of a reservation a user made by hand

\* grouped: security_group_id is set.  subnet: the status of the subnet.
Vpc == [status : {"absent", "active", "error"}, owner : Users \union {NoUser},
        cidr : Blocks \union {0}, gw : 0 .. MaxHost, mode : Modes, tag : 0 .. MaxTag,
        grouped : BOOLEAN, subnet : {"active", "error"}]
NoRow == [status |-> "absent", owner |-> NoUser, cidr |-> 0, gw |-> 0, mode |-> "private",
          tag |-> 0, grouped |-> FALSE, subnet |-> "error"]

\* ip 0: the NIC has no address.  NoVpc: the disconnected vmbr0, or no NIC.
Nic == [vpc : Vpcs \union {NoVpc}, ip : 0 .. MaxHost]
Unplugged == [vpc |-> NoVpc, ip |-> 0]

Instance == [known : BOOLEAN, vpc : Vpcs \union {NoVpc}, second : Seq(Vpcs)]
Unknown == [known |-> FALSE, vpc |-> NoVpc, second |-> <<>>]

Reservation == [vpc : Vpcs, ip : Hosts, inst : Insts \union {NoInst}, nic : Nics \union {OwnNic}]

\* copy: the VPC row as read, or the row a create wants.  old: net0 as it was.
NetRequest == [op : {"none", "create", "drop", "mode", "launch", "migrate", "add", "remove", "ip"},
               step : {"idle", "read", "flushed", "done", "unplugged"},
               user : Users \union {NoUser}, vpc : Vpcs \union {NoVpc},
               inst : Insts \union {NoInst}, nic : Nics, ip : 0 .. MaxHost,
               copy : Vpc, mode : Modes, attached : SUBSET Insts, old : Nic]
Free == [op |-> "none", step |-> "idle", user |-> NoUser, vpc |-> NoVpc, inst |-> NoInst,
         nic |-> 0, ip |-> 0, copy |-> NoRow, mode |-> "private", attached |-> {},
         old |-> Unplugged]

Exists(v) == vpcs[v].status # "absent"

\* A row names its VXLAN tag and owner exactly while it exists.
NetworkTypeOK ==
    /\ vpcs \in [Vpcs -> Vpc]
    /\ \A v \in Vpcs : /\ Exists(v) <=> vpcs[v].owner # NoUser
                       /\ Exists(v) <=> vpcs[v].tag # 0
    /\ vnets \in [Vpcs -> 0 .. MaxTag]
    /\ groups \subseteq Users \X Vpcs
    /\ insts \in [Insts -> Instance]
    /\ nics \in [Insts -> [Nics -> Nic]]
    /\ firewall \in [Insts -> Modes \union {"none"}]
    /\ reserved \subseteq Reservation
    /\ nreq \in [NetProcs -> NetRequest]

NetworkInit ==
    /\ vpcs = [v \in Vpcs |-> NoRow]
    /\ vnets = [v \in Vpcs |-> 0]
    /\ groups = {}
    /\ insts = [i \in Insts |-> Unknown]
    /\ nics = [i \in Insts |-> [k \in Nics |-> Unplugged]]
    /\ firewall = [i \in Insts |-> "none"]
    /\ reserved = {}
    /\ nreq = [p \in NetProcs |-> Free]

-----------------------------------------------------------------------------
(* Which requests a run lets overlap *)

Takers == {"launch", "add", "ip", "migrate"}
InFlight(op, v) == \E p \in NetProcs : nreq[p].op = op /\ nreq[p].vpc = v
Settled(i) == \A p \in NetProcs : nreq[p].inst # i
Changing(v) == InFlight("drop", v) \/ InFlight("mode", v)

MayCreate == "creates" \in NetFaults \/ \A p \in NetProcs : nreq[p].op # "create"
MayChange(i) == "instance" \in NetFaults \/ Settled(i)
MayUse(v) == "vpc" \in NetFaults \/ ~Changing(v)
MayLeave(i) == insts[i].vpc \in Vpcs => MayUse(insts[i].vpc)
MayAlter(v) ==
    "vpc" \in NetFaults \/ \A p \in NetProcs :
        nreq[p].vpc # v /\ (nreq[p].inst # NoInst => insts[nreq[p].inst].vpc # v)

\* Only the requests that plug a NIC before they insert have to be alone.
MayTake(v, op) ==
    \/ "subnet" \in NetFaults
    \/ \A o \in IF op \in {"migrate", "reserve"} THEN Takers \ {"migrate"} ELSE Takers :
          ~InFlight(o, v)

Begin(p, r) ==
    /\ nreq[p] = Free
    /\ nreq' = [nreq EXCEPT ![p] = r]

End(p) == nreq' = [nreq EXCEPT ![p] = Free]
Goto(p, step) == nreq' = [nreq EXCEPT ![p].step = step]

At(p, op, step) == nreq[p].op = op /\ nreq[p].step = step

-----------------------------------------------------------------------------
(* Rows, tags and addresses *)

\* get_current_active_user and check_group_access
OwnsOrAdmins(u, owner) == u = owner \/ u \in GroupAdmins

VpcsOf(u) == {v \in Vpcs : vpcs[v].owner = u}

\* check_cidr_globally_unique
CidrFree(b) == \A v \in Vpcs : vpcs[v].cidr # b

\* Mutant: allocate_vxlan_tag goes by the rows only.
FreeTagsOfRows == {t \in 1 .. MaxTag : \A v \in Vpcs : vpcs[v].tag # t}

\* allocate_vxlan_tag as create_vpc calls it: the VNets of Proxmox, not the rows
FreeTags == {t \in 1 .. MaxTag : \A v \in Vpcs : vnets[v] # t}

Least(S) == IF S = {} THEN 0 ELSE CHOOSE x \in S : \A y \in S : x <= y

Taken(v) == {r.ip : r \in {q \in reserved : q.vpc = v}}

\* Mutant: the first host is handed out as well.
NextAddressAnyHost(v) ==
    IF vpcs[v].subnet = "active" THEN Least(Hosts \ Taken(v)) ELSE 0

\* list(network.hosts())[1:], whatever the gateway is
NextAddress(v) ==
    IF vpcs[v].subnet = "active" THEN Least((2 .. MaxHost) \ Taken(v)) ELSE 0

\* uq_subnet_ip and the foreign key on the subnet
Insertable(v, h) == Exists(v) /\ h \notin Taken(v)

\* Another transaction that has flushed the same address holds up the insert.
Holds(q, v, h) == At(q, "migrate", "done") /\ nreq[q].vpc = v /\ nreq[q].ip = h
Awaited(p, v, h) == \E q \in NetProcs \ {p} : Holds(q, v, h)

Entry(v, h, i, k) == [vpc |-> v, ip |-> h, inst |-> i, nic |-> k]
EntriesOf(i) == {r \in reserved : r.inst = i}

-----------------------------------------------------------------------------
(* create_vpc *)

ReadForCreate(p, u, v, b, g, m) ==
    /\ MayCreate
    /\ ~Exists(v) /\ vnets[v] = 0 /\ ~InFlight("create", v)
    /\ Cardinality(VpcsOf(u)) < MaxNetworks
    /\ CidrFree(b)
    /\ FreeTags # {}
    /\ Begin(p, [Free EXCEPT !.op = "create", !.step = "read", !.user = u, !.vpc = v,
                    !.copy = [NoRow EXCEPT !.owner = u, !.cidr = b, !.gw = g, !.mode = m,
                                           !.tag = Least(FreeTags)]])
    /\ UNCHANGED <<vpcs, vnets, groups, insts, nics, firewall, reserved>>

\* The flush of the row: uq_vpc_cluster_vxlan waits for another transaction
\* with the same tag and refuses a tag that is in the table.
FlushCreate(p) ==
    LET tag == nreq[p].copy.tag IN
    /\ At(p, "create", "read")
    /\ \A q \in NetProcs : nreq[q].step \in {"flushed", "done"} => nreq[q].copy.tag # tag
    /\ IF \E v \in Vpcs : vpcs[v].tag = tag THEN End(p) ELSE Goto(p, "flushed")
    /\ UNCHANGED <<vpcs, vnets, groups, insts, nics, firewall, reserved>>

\* The VNet and its subnet on Proxmox; without VNet there is no subnet.
BuildVnet(p) ==
    LET v == nreq[p].vpc IN
    /\ At(p, "create", "flushed")
    /\ \E made \in {<<"active", "active">>, <<"active", "error">>, <<"error", "error">>} :
         /\ vnets' = IF made[1] = "active" THEN [vnets EXCEPT ![v] = nreq[p].copy.tag] ELSE vnets
         /\ nreq' = [nreq EXCEPT ![p].step = "done", ![p].copy.status = made[1],
                                 ![p].copy.subnet = made[2]]
    /\ UNCHANGED <<vpcs, groups, insts, nics, firewall, reserved>>

\* _ensure_published_sg and the commit.  A group of that name is left when an
\* earlier VPC of the name was deleted: uq_sg_owner_name ends the request.
CommitCreate(p) ==
    LET r == nreq[p] IN
    LET published == r.copy.mode = "published" IN
    /\ At(p, "create", "done")
    /\ \/ /\ published => <<r.user, r.vpc>> \notin groups
          /\ vpcs' = [vpcs EXCEPT ![r.vpc] = [r.copy EXCEPT !.grouped = published]]
          /\ groups' = IF published THEN groups \union {<<r.user, r.vpc>>} ELSE groups
       \/ /\ published /\ <<r.user, r.vpc>> \in groups
          /\ UNCHANGED <<vpcs, groups>>
    /\ End(p)
    /\ UNCHANGED <<vnets, insts, nics, firewall, reserved>>

-----------------------------------------------------------------------------
(* delete_vpc *)

\* The instances of the requesting user whose specs name the VPC
SpecsName(i, v) == insts[i].vpc = v \/ \E k \in DOMAIN insts[i].second : insts[i].second[k] = v
UsersOf(u, v) == {i \in Insts : InstOwner[i] = u /\ insts[i].known /\ SpecsName(i, v)}

\* Mutant: only the primary network of an instance counts.
DropVnetPrimaryOnly(p, u, v) ==
    /\ MayAlter(v)
    /\ Exists(v) /\ OwnsOrAdmins(u, vpcs[v].owner)
    /\ \A i \in Insts : insts[i].known => insts[i].vpc # v
    /\ \E gone \in {0, vnets[v]} : vnets' = [vnets EXCEPT ![v] = gone]
    /\ Begin(p, [Free EXCEPT !.op = "drop", !.step = "done", !.user = u, !.vpc = v])
    /\ UNCHANGED <<vpcs, groups, insts, nics, firewall, reserved>>

\* The last await before the VNet goes is the SELECT of the instances.  A
\* VNet that cannot be deleted stays.
DropVnet(p, u, v) ==
    /\ MayAlter(v)
    /\ Exists(v) /\ OwnsOrAdmins(u, vpcs[v].owner)
    /\ UsersOf(u, v) = {}
    /\ \E gone \in {0, vnets[v]} : vnets' = [vnets EXCEPT ![v] = gone]
    /\ Begin(p, [Free EXCEPT !.op = "drop", !.step = "done", !.user = u, !.vpc = v])
    /\ UNCHANGED <<vpcs, groups, insts, nics, firewall, reserved>>

\* Mutant: the row stays, without owner.
DropRowDisowned(p) ==
    LET v == nreq[p].vpc IN
    /\ At(p, "drop", "done")
    /\ vpcs' = [vpcs EXCEPT ![v].owner = NoUser]
    /\ reserved' = {r \in reserved : r.vpc # v}
    /\ End(p)
    /\ UNCHANGED <<vnets, groups, insts, nics, firewall>>

\* The row goes with its subnet and that one's reservations; its security
\* group stays.
DropRow(p) ==
    LET v == nreq[p].vpc IN
    /\ At(p, "drop", "done")
    /\ vpcs' = [vpcs EXCEPT ![v] = NoRow]
    /\ reserved' = {r \in reserved : r.vpc # v}
    /\ End(p)
    /\ UNCHANGED <<vnets, groups, insts, nics, firewall>>

-----------------------------------------------------------------------------
(* update_vpc_mode *)

\* Mutant: secondary NICs do not keep a network from being published.
ReadForModeAnyNics(p, u, v, m) ==
    /\ MayAlter(v)
    /\ Exists(v) /\ OwnsOrAdmins(u, vpcs[v].owner)
    /\ m # vpcs[v].mode
    /\ Begin(p, [Free EXCEPT !.op = "mode", !.step = "read", !.user = u, !.vpc = v, !.mode = m,
                             !.copy = vpcs[v],
                             !.attached = {i \in UsersOf(u, v) : insts[i].vpc = v}])
    /\ UNCHANGED <<vpcs, vnets, groups, insts, nics, firewall, reserved>>

ReadForMode(p, u, v, m) ==
    LET attached == {i \in UsersOf(u, v) : insts[i].vpc = v} IN
    /\ MayAlter(v)
    /\ Exists(v) /\ OwnsOrAdmins(u, vpcs[v].owner)
    /\ m # vpcs[v].mode
    /\ m # "private" =>
         /\ \A i \in attached : insts[i].second = <<>>
         /\ UsersOf(u, v) = attached
    /\ Begin(p, [Free EXCEPT !.op = "mode", !.step = "read", !.user = u, !.vpc = v, !.mode = m,
                             !.copy = vpcs[v], !.attached = attached])
    /\ UNCHANGED <<vpcs, vnets, groups, insts, nics, firewall, reserved>>

\* update_network_mode of an instance changes its primary VPC, if that is the
\* user's own.
ReadForInstanceMode(p, u, i, m) ==
    /\ insts[i].known /\ OwnsOrAdmins(u, InstOwner[i])
    /\ insts[i].vpc # NoVpc /\ vpcs[insts[i].vpc].owner = u
    /\ ReadForMode(p, u, insts[i].vpc, m)

\* Mutant: the rules of VPCs that get private are left as they are.
ApplyModeNotPrivate(p) ==
    LET r == nreq[p] IN
    /\ At(p, "mode", "read")
    /\ firewall' = [i \in Insts |-> IF i \in r.attached /\ insts[i].known /\ r.mode # "private"
                                    THEN r.mode ELSE firewall[i]]
    /\ Goto(p, "done")
    /\ UNCHANGED <<vpcs, vnets, groups, insts, nics, reserved>>

\* The flush of a new security group ends the request when the group of an
\* earlier published time is still there.  Firewall errors are swallowed.
ApplyMode(p) ==
    LET r == nreq[p] IN
    LET guests == {i \in r.attached : insts[i].known} IN
    /\ At(p, "mode", "read")
    /\ \/ /\ r.mode = "published" /\ ~r.copy.grouped /\ <<r.user, r.vpc>> \in groups
          /\ End(p)
          /\ UNCHANGED firewall
       \/ /\ ~(r.mode = "published" /\ ~r.copy.grouped /\ <<r.user, r.vpc>> \in groups)
          /\ \E done \in IF "firewall" \in NetFaults THEN SUBSET guests ELSE {guests} :
               firewall' = [i \in Insts |-> IF i \in done THEN r.mode ELSE firewall[i]]
          /\ Goto(p, "done")
    /\ UNCHANGED <<vpcs, vnets, groups, insts, nics, reserved>>

\* Only the columns that differ from what was read are written.
CommitMode(p) ==
    LET r == nreq[p] IN
    /\ At(p, "mode", "done")
    /\ vpcs' = IF ~Exists(r.vpc) THEN vpcs
               ELSE [vpcs EXCEPT ![r.vpc].mode = r.mode,
                                 ![r.vpc].grouped = IF r.copy.grouped # (r.mode = "published")
                                                    THEN r.mode = "published" ELSE @]
    /\ groups' = IF Exists(r.vpc) /\ r.mode = "published" /\ ~r.copy.grouped
                 THEN groups \union {<<r.user, r.vpc>>} ELSE groups
    /\ End(p)
    /\ UNCHANGED <<vnets, insts, nics, firewall, reserved>>

-----------------------------------------------------------------------------
(* _resolve_vpc_networking, for the row that create_vm or create_container *)
(* has just committed                                                      *)

\* Without a usable VPC net0 is on vmbr0, disconnected.
LaunchDetached(i) ==
    /\ MayChange(i)
    /\ ~insts[i].known
    /\ insts' = [insts EXCEPT ![i].known = TRUE]
    /\ UNCHANGED <<vpcs, vnets, groups, nics, firewall, reserved, nreq>>

ReadForLaunch(p, i, v) ==
    /\ MayChange(i) /\ MayUse(v) /\ MayTake(v, "launch")
    /\ ~insts[i].known
    /\ vpcs[v].status = "active" /\ vpcs[v].owner = InstOwner[i]
    /\ insts' = [insts EXCEPT ![i].known = TRUE]
    /\ Begin(p, [Free EXCEPT !.op = "launch", !.step = "read", !.user = InstOwner[i],
                             !.vpc = v, !.inst = i, !.ip = NextAddress(v), !.copy = vpcs[v]])
    /\ UNCHANGED <<vpcs, vnets, groups, nics, firewall, reserved>>

\* When the NIC cannot be set the reservation is still committed.
PlugLaunch(p) ==
    LET r == nreq[p] IN
    /\ At(p, "launch", "read")
    /\ \/ /\ nics' = [nics EXCEPT ![r.inst][0] = [vpc |-> r.vpc, ip |-> r.ip]]
          /\ Goto(p, "done")
       \/ /\ UNCHANGED nics
          /\ Goto(p, "unplugged")
    /\ UNCHANGED <<vpcs, vnets, groups, insts, firewall, reserved>>

\* A refused insert surfaces in the reads of the firewall settings, which
\* swallow it; the firewall is applied and the commit fails.
CommitLaunch(p) ==
    LET r == nreq[p] IN
    LET refused == r.ip # 0 /\ ~Insertable(r.vpc, r.ip) IN
    /\ r.op = "launch" /\ r.step \in {"done", "unplugged"}
    /\ ~Awaited(p, r.vpc, r.ip)
    /\ reserved' = IF r.ip # 0 /\ ~refused THEN reserved \union {Entry(r.vpc, r.ip, r.inst, 0)}
                   ELSE reserved
    /\ insts' = IF r.step = "done" /\ ~refused THEN [insts EXCEPT ![r.inst].vpc = r.vpc] ELSE insts
    /\ \E rules \in {r.copy.mode}
                    \union (IF "firewall" \in NetFaults THEN {firewall[r.inst]} ELSE {}) :
         firewall' = IF r.step = "done" /\ r.copy.subnet = "active"
                     THEN [firewall EXCEPT ![r.inst] = rules] ELSE firewall
    /\ End(p)
    /\ UNCHANGED <<vpcs, vnets, groups, nics>>

\* _terminate_vm: the guest goes, and the reservations that name its row
Terminate(i) ==
    /\ MayChange(i) /\ MayLeave(i)
    /\ insts[i].known
    /\ insts' = [insts EXCEPT ![i] = Unknown]
    /\ nics' = [nics EXCEPT ![i] = [k \in Nics |-> Unplugged]]
    /\ firewall' = [firewall EXCEPT ![i] = "none"]
    /\ reserved' = reserved \ EntriesOf(i)
    /\ UNCHANGED <<vpcs, vnets, groups, nreq>>

-----------------------------------------------------------------------------
(* update_vm_network: net0 moves to another network *)

ReadForMigrate(p, u, i, v) ==
    LET ip == Least((Hosts \ {vpcs[v].gw}) \ Taken(v)) IN
    /\ MayChange(i) /\ MayLeave(i) /\ MayUse(v) /\ MayTake(v, "migrate")
    /\ insts[i].known /\ OwnsOrAdmins(u, InstOwner[i])
    /\ vpcs[v].owner = u
    /\ "any_target" \in NetFaults \/
         /\ firewall[i] = vpcs[v].mode
         /\ vpcs[v].mode # "private" => insts[i].second = <<>>
         /\ \A k \in Nics \ {0} : nics[i][k].vpc # v
    /\ vpcs[v].subnet = "active" /\ ip # 0
    /\ Begin(p, [Free EXCEPT !.op = "migrate", !.step = "read", !.user = u, !.vpc = v, !.inst = i,
                             !.ip = ip, !.old = nics[i][0]])
    /\ UNCHANGED <<vpcs, vnets, groups, insts, nics, firewall, reserved>>

\* The reservation is flushed before Proxmox is touched; on an error of
\* Proxmox the old NIC is put back and the transaction rolled back.
ApplyMigrate(p) ==
    LET r == nreq[p] IN
    /\ At(p, "migrate", "read")
    /\ ~Awaited(p, r.vpc, r.ip)
    /\ \/ /\ Insertable(r.vpc, r.ip)
          /\ nics' = [nics EXCEPT ![r.inst][0] = [vpc |-> r.vpc, ip |-> r.ip]]
          /\ Goto(p, "done")
       \/ End(p) /\ UNCHANGED nics
    /\ UNCHANGED <<vpcs, vnets, groups, insts, firewall, reserved>>

\* The old reservation is the one labelled for net0 in the old network.  A
\* failed commit puts the old NIC back.
CommitMigrate(p) ==
    LET r == nreq[p] IN
    /\ At(p, "migrate", "done")
    /\ \/ /\ reserved' = {e \in reserved : ~(e.inst = r.inst /\ e.nic = 0
                                             /\ e.vpc = insts[r.inst].vpc)}
                         \union {Entry(r.vpc, r.ip, r.inst, 0)}
          /\ insts' = [insts EXCEPT ![r.inst].vpc = r.vpc]
          /\ UNCHANGED nics
       \/ /\ nics' = [nics EXCEPT ![r.inst][0] = r.old]
          /\ UNCHANGED <<reserved, insts>>
    /\ End(p)
    /\ UNCHANGED <<vpcs, vnets, groups, firewall>>

-----------------------------------------------------------------------------
(* add_nic and remove_nic *)

Plugged(i) == {k \in Nics \ {0} : nics[i][k] # Unplugged}
LastNic(i) == CHOOSE k \in Plugged(i) \union {0} : \A l \in Plugged(i) : l <= k

\* Every instance has a net0, so that a published network admits none.
ReadForAdd(p, u, i, v) ==
    LET primary == insts[i].vpc IN
    /\ MayChange(i) /\ MayUse(v)
    /\ insts[i].known /\ OwnsOrAdmins(u, InstOwner[i])
    /\ primary \in Vpcs => MayUse(primary)
    /\ primary \in Vpcs /\ Exists(primary) => vpcs[primary].mode = "private"
    /\ vpcs[v].owner = u /\ vpcs[v].mode = "private"
    /\ \A k \in Nics : nics[i][k].vpc # v
    /\ LastNic(i) < MaxNic
    /\ Begin(p, [Free EXCEPT !.op = "add", !.step = "read", !.user = u, !.vpc = v, !.inst = i,
                             !.nic = LastNic(i) + 1])
    /\ UNCHANGED <<vpcs, vnets, groups, insts, nics, firewall, reserved>>

\* The subnet is read and the NIC plugged in, or there is no address left.
PlugNic(p) ==
    LET r == nreq[p] IN
    LET ip == NextAddress(r.vpc) IN
    /\ At(p, "add", "read")
    /\ \A o \in Takers, q \in NetProcs \ {p} :
         "subnet" \notin NetFaults => ~(nreq[q].op = o /\ nreq[q].vpc = r.vpc)
    /\ \/ /\ vpcs[r.vpc].subnet = "error" \/ ip # 0
          /\ nics' = [nics EXCEPT ![r.inst][r.nic] = [vpc |-> r.vpc, ip |-> ip]]
          /\ nreq' = [nreq EXCEPT ![p].step = "done", ![p].ip = ip]
       \/ End(p) /\ UNCHANGED nics
    /\ UNCHANGED <<vpcs, vnets, groups, insts, firewall, reserved>>

\* A refused insert leaves the NIC plugged in.
CommitNic(p) ==
    LET r == nreq[p] IN
    /\ At(p, "add", "done")
    /\ ~Awaited(p, r.vpc, r.ip)
    /\ \/ /\ r.ip = 0 \/ Insertable(r.vpc, r.ip)
          /\ reserved' = IF r.ip = 0 THEN reserved
                         ELSE reserved \union {Entry(r.vpc, r.ip, r.inst, r.nic)}
          /\ insts' = [insts EXCEPT ![r.inst].second = Append(@, r.vpc)]
       \/ /\ r.ip # 0 /\ ~Insertable(r.vpc, r.ip)
          /\ UNCHANGED <<reserved, insts>>
    /\ End(p)
    /\ UNCHANGED <<vpcs, vnets, groups, nics, firewall>>

UnplugNic(p, u, i, k) ==
    /\ MayChange(i)
    /\ insts[i].known /\ OwnsOrAdmins(u, InstOwner[i])
    /\ k \in Plugged(i)
    /\ "any_nic" \in NetFaults \/ k = LastNic(i)
    /\ nics' = [nics EXCEPT ![i][k] = Unplugged]
    /\ Begin(p, [Free EXCEPT !.op = "remove", !.step = "done", !.user = u, !.inst = i, !.nic = k])
    /\ UNCHANGED <<vpcs, vnets, groups, insts, firewall, reserved>>

\* specs forgets the network that was added last, whichever NIC went.
CommitUnplug(p) ==
    LET r == nreq[p] IN
    LET second == insts[r.inst].second IN
    /\ At(p, "remove", "done")
    /\ reserved' = {e \in reserved : ~(e.inst = r.inst /\ e.nic = r.nic)}
    /\ insts' = IF second = <<>> THEN insts
                ELSE [insts EXCEPT ![r.inst].second = SubSeq(second, 1, Len(second) - 1)]
    /\ End(p)
    /\ UNCHANGED <<vpcs, vnets, groups, nics, firewall>>

-----------------------------------------------------------------------------
(* change_instance_ip, reserve_static_ip, release_static_ip *)

ReadForIp(p, i, h) ==
    LET v == insts[i].vpc IN
    /\ MayChange(i)
    /\ insts[i].known /\ v \in Vpcs
    /\ MayUse(v) /\ MayTake(v, "ip")
    /\ vpcs[v].owner = InstOwner[i] /\ vpcs[v].subnet = "active"
    /\ h # vpcs[v].gw
    /\ \A e \in reserved : e.vpc = v /\ e.ip = h => e.inst = i
    /\ Begin(p, [Free EXCEPT !.op = "ip", !.step = "read", !.user = InstOwner[i], !.vpc = v,
                             !.inst = i, !.ip = h])
    /\ UNCHANGED <<vpcs, vnets, groups, insts, nics, firewall, reserved>>

\* net0 is rewritten before the new reservation is inserted.
ApplyIp(p) ==
    LET r == nreq[p] IN
    /\ At(p, "ip", "read")
    /\ \/ /\ nics' = [nics EXCEPT ![r.inst][0] = [vpc |-> r.vpc, ip |-> r.ip]]
          /\ Goto(p, "done")
       \/ End(p) /\ UNCHANGED nics
    /\ UNCHANGED <<vpcs, vnets, groups, insts, firewall, reserved>>

\* Mutant: the old reservation is kept, the new one is not made.
CommitIpKeepsOld(p) ==
    /\ At(p, "ip", "done")
    /\ End(p)
    /\ UNCHANGED <<vpcs, vnets, groups, insts, nics, firewall, reserved>>

\* All reservations of the instance in this network give way to the new one.
CommitIp(p) ==
    LET r == nreq[p] IN
    LET others == {e \in reserved : ~(e.inst = r.inst /\ e.vpc = r.vpc)} IN
    /\ At(p, "ip", "done")
    /\ ~Awaited(p, r.vpc, r.ip)
    /\ reserved' = IF Exists(r.vpc) /\ \A e \in others : e.vpc = r.vpc => e.ip # r.ip
                   THEN others \union {Entry(r.vpc, r.ip, r.inst, 0)} ELSE reserved
    /\ End(p)
    /\ UNCHANGED <<vpcs, vnets, groups, insts, nics, firewall>>

\* A conflict is answered with 409, so reading and inserting are one step.
ReserveStatic(u, v, h) ==
    /\ MayUse(v) /\ MayTake(v, "reserve")
    /\ vpcs[v].owner = u
    /\ Insertable(v, h)
    /\ \A q \in NetProcs : ~Holds(q, v, h)
    /\ reserved' = reserved \union {Entry(v, h, NoInst, OwnNic)}
    /\ UNCHANGED <<vpcs, vnets, groups, insts, nics, firewall, nreq>>

\* A reservation that a resource uses is not released.
ReleaseStatic(e) ==
    /\ e.inst = NoInst
    /\ reserved' = reserved \ {e}
    /\ UNCHANGED <<vpcs, vnets, groups, insts, nics, firewall, nreq>>

\* The API dies or an answer is lost: nothing is compensated or committed.
LoseRequest(p) ==
    /\ "lost" \in NetFaults
    /\ nreq[p] # Free
    /\ End(p)
    /\ UNCHANGED <<vpcs, vnets, groups, insts, nics, firewall, reserved>>

-----------------------------------------------------------------------------
NetStart(p) ==
    \/ \E u \in Users, v \in Vpcs :
         \/ \E b \in Blocks, g \in Gateways, m \in Modes : ReadForCreate(p, u, v, b, g, m)
         \/ DropVnet(p, u, v)
         \/ \E m \in Modes : ReadForMode(p, u, v, m)
         \/ \E i \in Insts : ReadForMigrate(p, u, i, v) \/ ReadForAdd(p, u, i, v)
    \/ \E u \in Users, i \in Insts, m \in Modes : ReadForInstanceMode(p, u, i, m)
    \/ \E i \in Insts :
         \/ \E v \in Vpcs : ReadForLaunch(p, i, v)
         \/ \E u \in Users, k \in Nics : UnplugNic(p, u, i, k)
         \/ \E h \in Hosts : ReadForIp(p, i, h)

NetContinue(p) ==
    \/ FlushCreate(p) \/ BuildVnet(p) \/ CommitCreate(p) \/ DropRow(p)
    \/ ApplyMode(p) \/ CommitMode(p) \/ PlugLaunch(p) \/ CommitLaunch(p)
    \/ ApplyMigrate(p) \/ CommitMigrate(p) \/ PlugNic(p) \/ CommitNic(p)
    \/ CommitUnplug(p) \/ ApplyIp(p) \/ CommitIp(p)

NetworkNext ==
    \/ \E p \in NetProcs : NetStart(p) \/ NetContinue(p) \/ LoseRequest(p)
    \/ \E i \in Insts : LaunchDetached(i) \/ Terminate(i)
    \/ \E u \in Users, v \in Vpcs, h \in Hosts : ReserveStatic(u, v, h)
    \/ \E e \in reserved : ReleaseStatic(e)

NetworkSpec == NetworkInit /\ [][NetworkNext]_netVars

-----------------------------------------------------------------------------
(* Properties *)

(***************************************************************************)
(* The isolation of tenants: no two VNets share a VXLAN tag, also when one *)
(* is left over from a VPC whose row is gone, and no two VPCs overlap.     *)
(***************************************************************************)
NetworksApart ==
    \A v, w \in Vpcs : v # w =>
        /\ vnets[v] # 0 => vnets[v] # vnets[w]
        /\ Exists(v) => vpcs[v].cidr # vpcs[w].cidr

(***************************************************************************)
(* Two guests never have one address on one VNet, nor has a guest that of  *)
(* the gateway, whatever happens between the read of the reservations, the *)
(* Proxmox calls and the commit.                                           *)
(***************************************************************************)
NicAddressesDiffer ==
    \A i, j \in Insts, k, l \in Nics :
        LET a == nics[i][k]  b == nics[j][l] IN
        a.ip # 0 => /\ a = b => i = j /\ k = l
                    /\ a.ip # vpcs[a.vpc].gw

(***************************************************************************)
(* Once no request works on an instance, each of its addresses is reserved *)
(* for that very NIC: update_vm_network's "consistency contract", kept     *)
(* also when Proxmox or the commit fails, and by the other handlers.       *)
(***************************************************************************)
NicsReserved ==
    \A i \in Insts, k \in Nics :
        Settled(i) /\ nics[i][k].ip # 0
          => Entry(nics[i][k].vpc, nics[i][k].ip, i, k) \in reserved

(***************************************************************************)
(* "Reject if resources are still attached (primary or secondary NIC)": a  *)
(* VPC or its VNet never goes while a NIC is plugged into it.              *)
(***************************************************************************)
PluggedVpcKept ==
    \A i \in Insts, k \in Nics :
        LET v == nics[i][k].vpc IN
        v # NoVpc => Exists(v) /\ (vpcs[v].status = "active" => vnets[v] # 0)

(***************************************************************************)
(* The rules add_nic states: an instance whose network is published or     *)
(* isolated has one NIC, and secondary NICs are on private networks, also  *)
(* after the mode of a network has changed.                                *)
(***************************************************************************)
NicRules ==
    \A i \in Insts : Plugged(i) # {} =>
        \A k \in Nics : nics[i][k].vpc # NoVpc => vpcs[nics[i][k].vpc].mode = "private"

(***************************************************************************)
(* "Network mode is now a per-network property": the firewall of a guest   *)
(* has the rules of the mode its network has.                              *)
(***************************************************************************)
FirewallFollowsMode ==
    \A i \in Insts :
        LET v == nics[i][0].vpc IN
        Settled(i) /\ nics[i][0].ip # 0 /\ ~Changing(v) => firewall[i] = vpcs[v].mode
=============================================================================
