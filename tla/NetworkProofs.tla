--------------------------- MODULE NetworkProofs ---------------------------
(***************************************************************************)
(* VPCs, addresses, NICs and firewalls, for any users, VPCs, instances,    *)
(* processes, address plans, hosts and NICs.                               *)
(***************************************************************************)
EXTENDS Network, SequenceTheorems, WellFoundedInduction, TLAPS

\* One create at a time.
CreatesApart == "creates" \notin NetFaults

\* Requests overlap as they do without faults, but creates and firewall calls
\* are free, and no user administers what others own.
Orderly == NetFaults \subseteq {"creates", "firewall"} /\ GroupAdmins = {}

-----------------------------------------------------------------------------
(* The inductive invariant *)

Alters == {"drop", "mode"}
Works == {"launch", "migrate", "add", "remove", "ip"}

Steps(op) ==
    CASE op = "none"   -> {"idle"}
      [] op = "create" -> {"read", "flushed", "done"}
      [] op = "launch" -> {"read", "done", "unplugged"}
      [] op \in {"drop", "remove"} -> {"done"}
      [] OTHER -> {"read", "done"}

\* What each request knows of itself, with any faults.
KnowsItself(r) ==
    /\ r.step \in Steps(r.op)
    /\ r.vpc \in Vpcs <=> r.op \in Takers \union Alters \union {"create"}
    /\ r.inst \in Insts <=> r.op \in Works
    /\ r.user \in Users <=> r.op # "none"
    /\ r.op \in {"migrate", "ip"} => r.ip # 0
    /\ r.nic # 0 <=> r.op \in {"add", "remove"}
    /\ r.op = "create" => /\ r.copy.owner # NoUser /\ r.copy.tag # 0
                          /\ r.copy.status = "absent" <=> r.step # "done"

TypeInv == NetworkTypeOK /\ \A p \in NetProcs : KnowsItself(nreq[p])

\* No two rows overlap and no two VNets share a tag; neither does the row that
\* the one create under way wants, whose VNet has its tag.
OneCreate == \A p, q \in NetProcs : nreq[p].op = "create" /\ nreq[q].op = "create" => p = q
RowsApart ==
    /\ \A v \in Vpcs : Exists(v) <=> vpcs[v].cidr # 0
    /\ \A v, w \in Vpcs : v # w =>
         /\ vnets[v] # 0 => vnets[v] # vnets[w]
         /\ Exists(v) => vpcs[v].cidr # vpcs[w].cidr
CreateFits == \A p \in NetProcs :
    LET r == nreq[p] IN
    r.op = "create" =>
      /\ ~Exists(r.vpc)
      /\ \A v \in Vpcs : /\ vpcs[v].cidr # r.copy.cidr
                         /\ v # r.vpc => vnets[v] # r.copy.tag
      /\ vnets[r.vpc] = IF r.copy.status = "active" THEN r.copy.tag ELSE 0

ApartInv == OneCreate /\ RowsApart /\ CreateFits

\* What a request works on is there.
RequestsKnown == \A p \in NetProcs :
    LET r == nreq[p] IN
    /\ r.op \in Takers \union Alters => Exists(r.vpc)
    /\ r.op = "create" => ~Exists(r.vpc)
    /\ r.op \in Works => insts[r.inst].known

\* One create of a VPC, one request on an instance, and nobody else on a VPC
\* that is deleted or changed.
OnePerVpc == \A p, q \in NetProcs :
    nreq[p].op = "create" /\ nreq[q].op = "create" /\ nreq[p].vpc = nreq[q].vpc => p = q
OnePerInst == \A p, q \in NetProcs :
    nreq[p].inst = nreq[q].inst /\ nreq[p].inst # NoInst => p = q
AltersAlone == \A p, q \in NetProcs :
    nreq[p].op \in Alters /\ p # q =>
      /\ nreq[q].vpc # nreq[p].vpc
      /\ nreq[q].op \in Takers => insts[nreq[q].inst].vpc # nreq[p].vpc

UnknownBare == \A i \in Insts : ~insts[i].known => insts[i] = Unknown

RequestInv == RequestsKnown /\ OnePerVpc /\ OnePerInst /\ AltersAlone /\ UnknownBare

\* Who takes an address of a subnet is alone there, but for other migrations
\* and for an add that has not read the subnet yet.
TakersAlone == \A p, q \in NetProcs :
    /\ p # q /\ nreq[p].op \in Takers /\ nreq[q].op \in Takers /\ nreq[p].vpc = nreq[q].vpc
    => \/ nreq[p].op = "migrate" /\ nreq[q].op = "migrate"
       \/ At(p, "add", "read") \/ At(q, "add", "read")

\* The address of a request is nobody's, or that of the instance.
TakersFresh == \A p \in NetProcs :
    LET r == nreq[p] IN
    /\ r.op = "launch" \/ At(p, "add", "done") \/ At(p, "migrate", "done")
         => r.ip \notin Taken(r.vpc)
    /\ r.op = "ip" => \A e \in reserved : e.vpc = r.vpc /\ e.ip = r.ip => e.inst = r.inst
MigratesDiffer == \A p, q \in NetProcs :
    At(p, "migrate", "done") /\ p # q => ~Holds(q, nreq[p].vpc, nreq[p].ip)
ReservedOnce == \A e, f \in reserved : e.vpc = f.vpc /\ e.ip = f.ip => e = f

AddressInv == TakersAlone /\ TakersFresh /\ MigratesDiffer /\ ReservedOnce

\* The network that specs names for a NIC
Named(i, k) ==
    IF k = 0 THEN insts[i].vpc
    ELSE IF k <= Len(insts[i].second) THEN insts[i].second[k] ELSE NoVpc

\* A request has just set the NIC, and specs does not say so yet.
Worked(i, k) == \E p \in NetProcs :
    nreq[p].inst = i /\ nreq[p].nic = k /\ nreq[p].step = "done"

NicsNamed(i) ==
    /\ Len(insts[i].second) <= MaxNic
    /\ \A k \in Nics : /\ nics[i][k].vpc = NoVpc => nics[i][k] = Unplugged
                       /\ ~Worked(i, k) => nics[i][k].vpc = Named(i, k)
NamedOnce(i) == \A k, l \in Nics :
    k # l /\ Named(i, k) # NoVpc => Named(i, k) # Named(i, l)

\* What a request knows of the NICs of its instance.
WorkKnown(p) ==
    LET r == nreq[p] IN
    LET i == r.inst IN
    /\ r.op \in Takers /\ r.step = "done" => nics[i][r.nic] = [vpc |-> r.vpc, ip |-> r.ip]
    /\ r.op = "launch" => insts[i].vpc = NoVpc /\ insts[i].second = <<>>
    /\ r.op = "migrate" => /\ r.old.vpc = insts[i].vpc
                           /\ r.old.vpc = NoVpc => r.old = Unplugged
                           /\ r.step = "read" => r.old = nics[i][0]
                           /\ \A k \in Nics \ {0} : Named(i, k) # r.vpc
    /\ r.op = "add" => /\ r.nic = Len(insts[i].second) + 1
                       /\ \A k \in Nics : Named(i, k) # r.vpc
    /\ r.op = "remove" => r.nic = Len(insts[i].second) /\ nics[i][r.nic] = Unplugged
    /\ r.op = "ip" => insts[i].vpc = r.vpc

NicInv ==
    /\ \A i \in Insts : NicsNamed(i) /\ NamedOnce(i)
    /\ \A p \in NetProcs : WorkKnown(p)

\* Every network in use exists and is the owner's; its VNet is there.
Owned(v, i) == Exists(v) /\ vpcs[v].owner = InstOwner[i]
NamedOwned == \A i \in Insts, k \in Nics : Named(i, k) # NoVpc => Owned(Named(i, k), i)
WorksOwned == \A p \in NetProcs : nreq[p].op \in Takers => Owned(nreq[p].vpc, nreq[p].inst)
DropsUnused == \A p \in NetProcs :
    nreq[p].op = "drop" => \A i \in Insts, k \in Nics : Named(i, k) # nreq[p].vpc
VnetsThere ==
    /\ \A v \in Vpcs : vpcs[v].status = "active" /\ vnets[v] = 0 => InFlight("drop", v)
    /\ \A p \in NetProcs :
         At(p, "create", "done") /\ nreq[p].copy.status = "active" => vnets[nreq[p].vpc] # 0

OwnerInv == NamedOwned /\ WorksOwned /\ DropsUnused /\ VnetsThere

\* A NIC nobody works on is reserved; so is the one a migration may put back.
NicsKept == \A i \in Insts, k \in Nics :
    ~Worked(i, k) /\ nics[i][k].ip # 0 => Entry(nics[i][k].vpc, nics[i][k].ip, i, k) \in reserved
OldKept == \A p \in NetProcs :
    LET r == nreq[p] IN
    r.op = "migrate" /\ r.old.ip # 0 => Entry(r.old.vpc, r.old.ip, r.inst, 0) \in reserved

KeptInv == NicsKept /\ OldKept

\* The first host is the gateway, and no guest has it.
GatewaysFirst == Gateways \subseteq {1}
NotFirst(r) ==
    /\ r.op = "create" => r.copy.gw = 1
    /\ r.ip # 1 /\ r.old.ip # 1
NoneFirst ==
    /\ \A v \in Vpcs : Exists(v) => vpcs[v].gw = 1
    /\ \A p \in NetProcs : NotFirst(nreq[p])
    /\ \A i \in Insts, k \in Nics : nics[i][k].ip # 1

\* Secondary NICs and private networks
Private(v) == v # NoVpc => vpcs[v].mode = "private"
NicsPrivate(i) == insts[i].second # <<>> => \A k \in Nics : Private(Named(i, k))
Alone(i, v) ==
    /\ insts[i].vpc = v => insts[i].second = <<>>
    /\ \A k \in Nics \ {0} : Named(i, k) # v
ModeAllowed(r) ==
    /\ r.op = "add" => Private(r.vpc) /\ Private(insts[r.inst].vpc)
    /\ r.op = "migrate" => Private(r.vpc) \/ insts[r.inst].second = <<>>
    /\ r.op = "mode" /\ r.mode # "private" => \A i \in Insts : Alone(i, r.vpc)
ModeInv ==
    /\ \A i \in Insts : NicsPrivate(i)
    /\ \A p \in NetProcs : ModeAllowed(nreq[p])

\* Where no subnet was built nobody has an address.
Dry(v, h) == v \in Vpcs /\ vpcs[v].subnet # "active" => h = 0
AsksDry(r) == /\ r.op \in Takers => Dry(r.vpc, r.ip)
              /\ r.op = "migrate" => Dry(r.old.vpc, r.old.ip)
DryInv ==
    /\ \A i \in Insts, k \in Nics : Dry(nics[i][k].vpc, nics[i][k].ip)
    /\ \A p \in NetProcs : AsksDry(nreq[p])

\* A guest has the rules of its network, or already those that a change of mode
\* is about to commit.
NoFirewallFaults == "firewall" \notin NetFaults
Applied(p, v) == At(p, "mode", "done") /\ nreq[p].vpc = v
Ruled(i, v) ==
    v \in Vpcs /\ vpcs[v].subnet = "active" =>
      /\ \A p \in NetProcs : Applied(p, v) => firewall[i] = nreq[p].mode
      /\ firewall[i] = vpcs[v].mode \/ \E p \in NetProcs : Applied(p, v)
KnowsRules(r) ==
    /\ r.op = "migrate" => Ruled(r.inst, r.vpc)
    /\ r.op = "launch" => r.copy.mode = vpcs[r.vpc].mode /\ r.copy.subnet = vpcs[r.vpc].subnet
    /\ r.op = "mode" => r.attached = {i \in Insts : insts[i].vpc = r.vpc}
RulesInv ==
    /\ \A i \in Insts : Ruled(i, insts[i].vpc)
    /\ \A p \in NetProcs : KnowsRules(nreq[p])

-----------------------------------------------------------------------------
(* Tags, addresses, NICs and records *)

LEMMA LeastIsIn ==
  ASSUME NEW S \in SUBSET Nat, S # {}
  PROVE  Least(S) \in S /\ \A x \in S : Least(S) <= x
<1>. DEFINE below == {p \in Nat \X Nat : p[1] < p[2]}
<1>1. IsWellFoundedOn(below, Nat)
  BY NatLessThanWellFounded DEF OpToRel
<1>2. PICK s \in S : \A t \in S : ~(<<t, s>> \in below)
  <2>. HIDE DEF below
  <2>. QED
    BY <1>1, WFMin
<1>3. \A t \in S : t \in Nat /\ s \in Nat /\ ~(t < s)
  BY <1>2
<1>4. \A t \in S : s <= t
  BY <1>3
<1>. QED
  BY <1>4 DEF Least

LEMMA GreatestIsIn ==
  ASSUME NEW n \in Nat, NEW S \in SUBSET (0 .. n), S # {}
  PROVE  \E x \in S : \A y \in S : y <= x
<1>. DEFINE T == {n - x : x \in S}
<1>0. \A x \in S : x \in Nat /\ n - x \in Nat
  OBVIOUS
<1>1. T \in SUBSET Nat /\ T # {}
  BY <1>0
<1>2. Least(T) \in T /\ \A t \in T : Least(T) <= t
  BY <1>1, LeastIsIn
<1>3. PICK x \in S : Least(T) = n - x
  BY <1>2
<1>4. ASSUME NEW y \in S
      PROVE  y <= x
  <2>1. Least(T) <= n - y
    BY <1>2
  <2>. QED
    BY <1>0, <1>3, <2>1
<1>. QED
  BY <1>4

LEMMA LastNicIsIn ==
  ASSUME NEW i
  PROVE  /\ LastNic(i) \in Plugged(i) \union {0} /\ LastNic(i) \in Nics
         /\ \A k \in Plugged(i) : k <= LastNic(i)
<1>1. Plugged(i) \union {0} \in SUBSET (0 .. MaxNic) /\ MaxNic \in Nat
  BY NetworkConstants DEF Plugged, Nics
<1>2. \E x \in Plugged(i) \union {0} : \A y \in Plugged(i) \union {0} : y <= x
  BY <1>1, GreatestIsIn
<1>3. LastNic(i) \in Plugged(i) \union {0} /\ \A k \in Plugged(i) : k <= LastNic(i)
  BY <1>2 DEF LastNic
<1>. QED
  BY <1>1, <1>3 DEF Nics

LEMMA AddressesFree ==
  ASSUME NEW v
  PROVE  /\ NextAddress(v) \in 0 .. MaxHost
         /\ NextAddress(v) # 0 => /\ NextAddress(v) \in (2 .. MaxHost) \ Taken(v)
                                  /\ vpcs[v].subnet = "active"
         /\ \A g : LET h == Least((Hosts \ {g}) \ Taken(v)) IN
                   h \in 0 .. MaxHost /\ (h # 0 => h \in (Hosts \ {g}) \ Taken(v))
<1>1. MaxHost \in Nat
  BY NetworkConstants
<1>2. ASSUME NEW S \in SUBSET (1 .. MaxHost)
      PROVE  Least(S) = 0 \/ Least(S) \in S
  <2>1. CASE S = {}
    BY <2>1 DEF Least
  <2>2. CASE S # {}
    <3>1. S \in SUBSET Nat
      BY <1>1
    <3>. QED
      BY <2>2, <3>1, LeastIsIn
  <2>. QED
    BY <2>1, <2>2
<1>3. NextAddress(v) # 0 =>
        vpcs[v].subnet = "active" /\ NextAddress(v) \in (2 .. MaxHost) \ Taken(v)
  BY <1>1, <1>2 DEF NextAddress
<1>4. ASSUME NEW g
      PROVE  LET h == Least((Hosts \ {g}) \ Taken(v)) IN
             h # 0 => h \in (Hosts \ {g}) \ Taken(v)
  BY <1>2 DEF Hosts
<1>. QED
  BY <1>1, <1>3, <1>4 DEF Hosts

LEMMA LastAdded ==
  ASSUME NEW S, NEW s \in Seq(S), NEW v \in S
  PROVE  /\ Len(Append(s, v)) = Len(s) + 1
         /\ \A k \in Nat \ {0} : /\ k <= Len(s) => Append(s, v)[k] = s[k]
                                 /\ k = Len(s) + 1 => Append(s, v)[k] = v
BY LenProperties

LEMMA LastForgotten ==
  ASSUME NEW S, NEW s \in Seq(S), s # <<>>
  PROVE  LET t == SubSeq(s, 1, Len(s) - 1) IN
         /\ Len(s) \in Nat \ {0} /\ Len(t) = Len(s) - 1
         /\ \A k \in Nat \ {0} : k < Len(s) => t[k] = s[k]
<1>1. Len(s) \in Nat \ {0}
  BY EmptySeq
<1>2. PICK n \in Nat : n = Len(s) - 1
  BY <1>1
<1>3. \A k \in 1 .. n : s[k] \in S
  BY <1>1, <1>2, ElementOfSeq
<1>4. /\ Len(SubSeq(s, 1, n)) = IF 1 <= n THEN n - 1 + 1 ELSE 0
      /\ \A k \in 1 .. n - 1 + 1 : SubSeq(s, 1, n)[k] = s[1 + k - 1]
  BY <1>3, SubSeqProperties
<1>5. \A k \in Nat \ {0} : k < Len(s) => k \in 1 .. n - 1 + 1 /\ 1 + k - 1 = k
  BY <1>1, <1>2
<1>. QED
  BY <1>1, <1>2, <1>4, <1>5

LEMMA FreeTagFits ==
  ASSUME FreeTags # {}
  PROVE  Least(FreeTags) \in FreeTags /\ Least(FreeTags) \in 1 .. MaxTag
<1>1. FreeTags \in SUBSET Nat /\ FreeTags \subseteq 1 .. MaxTag
  BY NetworkConstants DEF FreeTags
<1>. QED
  BY <1>1, LeastIsIn

LEMMA NullsTyped ==
  /\ NoRow \in Vpc /\ Unplugged \in Nic /\ Unknown \in Instance /\ Free \in NetRequest
  /\ NoRow.status = "absent" /\ NoRow.owner = NoUser /\ NoRow.tag = 0 /\ NoRow.cidr = 0
  /\ Unplugged.vpc = NoVpc /\ Unplugged.ip = 0
  /\ ~Unknown.known /\ Unknown.vpc = NoVpc /\ Unknown.second = <<>>
  /\ Free.op = "none" /\ Free.step = "idle" /\ Free.vpc = NoVpc /\ Free.inst = NoInst
  /\ Free.user = NoUser /\ Free.nic = 0 /\ Free.ip = 0 /\ Free.old = Unplugged
  /\ NoVpc \notin Vpcs /\ NoInst \notin Insts /\ NoUser \notin Users
<1>1. NoRow \in Vpc
  BY NetworkConstants DEF NoRow, Vpc, Modes
<1>2. Unplugged \in Nic /\ Unknown \in Instance
  BY NetworkConstants DEF Unplugged, Nic, Unknown, Instance
<1>3. Free \in NetRequest
  BY <1>1, <1>2, NetworkConstants DEF Free, NetRequest, Nics, Modes
<1>. QED
  BY <1>1, <1>2, <1>3, NetworkConstants DEF NoRow, Unplugged, Unknown, Free

-----------------------------------------------------------------------------
(* Types *)

\* A request is begun, goes on or ends; the others are what they were.
LEMMA OneRequestChanges ==
  ASSUME TypeInv, NEW p \in NetProcs, NEW r \in NetRequest, KnowsItself(r),
         nreq' = [nreq EXCEPT ![p] = r]
  PROVE  /\ nreq' \in [NetProcs -> NetRequest] /\ \A q \in NetProcs : KnowsItself(nreq'[q])
         /\ nreq'[p] = r /\ \A q \in NetProcs : q # p => nreq'[q] = nreq[q]
BY DEF TypeInv, NetworkTypeOK

LEMMA RequestEnds ==
  ASSUME TypeInv, NEW p \in NetProcs, End(p)
  PROVE  /\ nreq' \in [NetProcs -> NetRequest] /\ \A q \in NetProcs : KnowsItself(nreq'[q])
         /\ nreq'[p] = Free /\ \A q \in NetProcs : q # p => nreq'[q] = nreq[q]
<1>1. KnowsItself(Free)
  BY NullsTyped DEF KnowsItself, Steps, Takers, Alters, Works
<1>. QED
  BY <1>1, NullsTyped, OneRequestChanges DEF End

\* The fields that a Proxmox call changes.
LEMMA RequestGoesOn ==
  ASSUME TypeInv, NEW p \in NetProcs, NEW step, Goto(p, step), nreq[p].op # "create",
         step \in Steps(nreq[p].op)
  PROVE  /\ nreq' \in [NetProcs -> NetRequest] /\ \A q \in NetProcs : KnowsItself(nreq'[q])
         /\ nreq'[p] = [nreq[p] EXCEPT !.step = step]
         /\ \A q \in NetProcs : q # p => nreq'[q] = nreq[q]
<1>. DEFINE r == [nreq[p] EXCEPT !.step = step]
<1>1. nreq[p] \in NetRequest /\ KnowsItself(nreq[p])
  BY DEF TypeInv, NetworkTypeOK
<1>2. step \in {"idle", "read", "flushed", "done", "unplugged"}
  BY DEF Steps
<1>3. r \in NetRequest /\ KnowsItself(r)
  BY <1>1, <1>2 DEF NetRequest, KnowsItself
<1>4. nreq' = [nreq EXCEPT ![p] = r]
  BY DEF Goto
<1>. QED
  BY <1>3, <1>4, OneRequestChanges

LEMMA TypeStarts == NetworkInit => TypeInv
<1>. SUFFICES ASSUME NetworkInit PROVE TypeInv
  OBVIOUS
<1>1. KnowsItself(Free)
  BY NullsTyped DEF KnowsItself, Steps, Takers, Alters, Works
<1>2. NetworkTypeOK
  BY NullsTyped, NetworkConstants DEF NetworkInit, NetworkTypeOK, Exists, Modes
<1>. QED
  BY <1>1, <1>2 DEF TypeInv, NetworkInit

\* The tables, Proxmox and the guests
Tables == <<vpcs, vnets, groups, insts, nics, firewall, reserved>>
TablesTyped ==
    /\ vpcs \in [Vpcs -> Vpc]
    /\ \A v \in Vpcs : /\ Exists(v) <=> vpcs[v].owner # NoUser
                       /\ Exists(v) <=> vpcs[v].tag # 0
    /\ vnets \in [Vpcs -> 0 .. MaxTag]
    /\ groups \subseteq Users \X Vpcs
    /\ insts \in [Insts -> Instance]
    /\ nics \in [Insts -> [Nics -> Nic]]
    /\ firewall \in [Insts -> Modes \union {"none"}]
    /\ reserved \subseteq Reservation

LEMMA TypeParts ==
  /\ TypeInv => TablesTyped /\ nreq \in [NetProcs -> NetRequest]
  /\ TypeInv' <=> /\ TablesTyped' /\ nreq' \in [NetProcs -> NetRequest]
                  /\ \A p \in NetProcs : KnowsItself(nreq'[p])
BY DEF TypeInv, TablesTyped, NetworkTypeOK, KnowsItself

LEMMA TablesStay ==
  ASSUME TypeInv, UNCHANGED Tables
  PROVE  TablesTyped'
BY DEF TypeInv, NetworkTypeOK, Tables, TablesTyped, Exists

LEMMA CreateTyped ==
  ASSUME TypeInv, NEW p \in NetProcs, NEW u \in Users, NEW v \in Vpcs, NEW b \in Blocks,
         NEW g \in Gateways, NEW m \in Modes, ReadForCreate(p, u, v, b, g, m)
  PROVE  TypeInv'
<1>. DEFINE row == [NoRow EXCEPT !.owner = u, !.cidr = b, !.gw = g, !.mode = m,
                                 !.tag = Least(FreeTags)]
            r == [Free EXCEPT !.op = "create", !.step = "read", !.user = u, !.vpc = v, !.copy = row]
<1>1. Least(FreeTags) \in 1 .. MaxTag /\ MaxTag \in Nat /\ g \in 0 .. MaxHost
  BY FreeTagFits, NetworkConstants DEF ReadForCreate
<1>2. row \in Vpc /\ row.owner # NoUser /\ row.tag # 0 /\ row.status = "absent"
  <2>1. PICK t \in 1 .. MaxTag : t = Least(FreeTags)
    BY <1>1
  <2>2. t \in 0 .. MaxTag /\ t # 0
    BY <1>1
  <2>. QED
    BY <1>1, <2>1, <2>2, NullsTyped DEF Vpc, NoRow
<1>3. r \in NetRequest
  BY <1>2, NullsTyped DEF NetRequest, Free
<1>4. KnowsItself(r)
  BY <1>2, NullsTyped DEF KnowsItself, Steps, Takers, Alters, Works, Free
<1>5. nreq' = [nreq EXCEPT ![p] = r] /\ UNCHANGED Tables
  BY DEF ReadForCreate, Begin, Tables
<1>. QED
  BY <1>3, <1>4, <1>5, OneRequestChanges, TablesStay, TypeParts

\* What a handler that starts knows of rows and NICs.
LEMMA ReadsTyped ==
  ASSUME TypeInv
  PROVE  /\ \A v \in Vpcs : vpcs[v] \in Vpc /\ vpcs[v].mode \in Modes
         /\ \A i \in Insts : /\ insts[i].vpc \in Vpcs \union {NoVpc} /\ InstOwner[i] \in Users
                             /\ \A k \in Nics : nics[i][k] \in Nic
         /\ 0 \in Nics /\ 0 \in 0 .. MaxHost /\ Hosts \subseteq 1 .. MaxHost
         /\ NoRow \in Vpc /\ Unplugged \in Nic /\ "private" \in Modes
<1>1. \A v \in Vpcs : vpcs[v] \in Vpc /\ vpcs[v].mode \in Modes
  BY DEF TypeInv, NetworkTypeOK, Vpc
<1>2. \A i \in Insts : insts[i].vpc \in Vpcs \union {NoVpc} /\ InstOwner[i] \in Users
  BY NetworkConstants DEF TypeInv, NetworkTypeOK, Instance
<1>3. \A i \in Insts, k \in Nics : nics[i][k] \in Nic
  BY DEF TypeInv, NetworkTypeOK
<1>4. 0 \in Nics /\ 0 \in 0 .. MaxHost /\ Hosts \subseteq 1 .. MaxHost /\ "private" \in Modes
  BY NetworkConstants DEF Nics, Hosts, Modes
<1>. QED
  BY <1>1, <1>2, <1>3, <1>4, NullsTyped

\* The records that the reads of rows make.
LEMMA RequestRecords ==
  ASSUME NEW u \in Users, NEW v \in Vpcs
  PROVE  /\ \A m \in Modes, row \in Vpc, att \in SUBSET Insts :
              [Free EXCEPT !.op = "mode", !.step = "read", !.user = u, !.vpc = v, !.mode = m,
                           !.copy = row, !.attached = att] \in NetRequest
         /\ \A i \in Insts, h \in 0 .. MaxHost, nic \in Nic :
              [Free EXCEPT !.op = "migrate", !.step = "read", !.user = u, !.vpc = v, !.inst = i,
                           !.ip = h, !.old = nic] \in NetRequest
         /\ \A i \in Insts, k \in Nics :
              [Free EXCEPT !.op = "add", !.step = "read", !.user = u, !.vpc = v, !.inst = i,
                           !.nic = k] \in NetRequest
         /\ \A i \in Insts, h \in 0 .. MaxHost, row \in Vpc :
              [Free EXCEPT !.op = "launch", !.step = "read", !.user = u, !.vpc = v, !.inst = i,
                           !.ip = h, !.copy = row] \in NetRequest
<1>1. 0 \in Nics /\ 0 \in 0 .. MaxHost /\ "private" \in Modes
  BY NetworkConstants DEF Nics, Modes
<1>2. ASSUME NEW m \in Modes, NEW row \in Vpc, NEW att \in SUBSET Insts
      PROVE  [Free EXCEPT !.op = "mode", !.step = "read", !.user = u, !.vpc = v, !.mode = m,
                          !.copy = row, !.attached = att] \in NetRequest
  BY <1>1, NullsTyped DEF NetRequest, Free
<1>3. ASSUME NEW i \in Insts, NEW h \in 0 .. MaxHost, NEW nic \in Nic
      PROVE  [Free EXCEPT !.op = "migrate", !.step = "read", !.user = u, !.vpc = v, !.inst = i,
                          !.ip = h, !.old = nic] \in NetRequest
  BY <1>1, NullsTyped DEF NetRequest, Free
<1>4. ASSUME NEW i \in Insts, NEW k \in Nics
      PROVE  [Free EXCEPT !.op = "add", !.step = "read", !.user = u, !.vpc = v, !.inst = i,
                          !.nic = k] \in NetRequest
  BY <1>1, NullsTyped DEF NetRequest, Free
<1>5. ASSUME NEW i \in Insts, NEW h \in 0 .. MaxHost, NEW row \in Vpc
      PROVE  [Free EXCEPT !.op = "launch", !.step = "read", !.user = u, !.vpc = v, !.inst = i,
                          !.ip = h, !.copy = row] \in NetRequest
  BY <1>1, NullsTyped DEF NetRequest, Free
<1>. QED
  BY <1>2, <1>3, <1>4, <1>5

LEMMA StartTyped ==
  ASSUME TypeInv, NEW p \in NetProcs, NetStart(p)
  PROVE  TypeInv'
<1>. USE ReadsTyped, NullsTyped
<1>1. ASSUME NEW u \in Users, NEW v \in Vpcs, DropVnet(p, u, v)
      PROVE  TypeInv'
  <2>. DEFINE r == [Free EXCEPT !.op = "drop", !.step = "done", !.user = u, !.vpc = v]
  <2>1. r \in NetRequest
    BY DEF NetRequest, Free
  <2>2. KnowsItself(r)
    BY DEF KnowsItself, Free, Takers, Alters, Works, Steps
  <2>3. nreq' \in [NetProcs -> NetRequest] /\ \A q \in NetProcs : KnowsItself(nreq'[q])
    BY <1>1, <2>1, <2>2, OneRequestChanges DEF DropVnet, Begin
  <2>4. TablesTyped'
    BY <1>1, TypeParts, NetworkConstants DEF DropVnet, TablesTyped, Exists
  <2>. QED
    BY <2>3, <2>4, TypeParts
<1>2. ASSUME NEW u \in Users, NEW v \in Vpcs, NEW m \in Modes, ReadForMode(p, u, v, m)
      PROVE  TypeInv'
  <2>1. {i \in UsersOf(u, v) : insts[i].vpc = v} \in SUBSET Insts
    BY DEF UsersOf
  <2>. DEFINE r == [Free EXCEPT !.op = "mode", !.step = "read", !.user = u, !.vpc = v, !.mode = m,
                                !.copy = vpcs[v],
                                !.attached = {i \in UsersOf(u, v) : insts[i].vpc = v}]
  <2>2. r \in NetRequest
    BY <2>1, RequestRecords
  <2>3. KnowsItself(r)
    BY <2>1 DEF KnowsItself, Free, Takers, Alters, Works, Steps
  <2>4. nreq' \in [NetProcs -> NetRequest] /\ \A q \in NetProcs : KnowsItself(nreq'[q])
    BY <1>2, <2>2, <2>3, OneRequestChanges DEF ReadForMode, Begin
  <2>. QED
    BY <1>2, <2>4, TablesStay, TypeParts DEF ReadForMode, Tables
<1>3. ASSUME NEW u \in Users, NEW v \in Vpcs, NEW i \in Insts, ReadForMigrate(p, u, i, v)
      PROVE  TypeInv'
  <2>1. /\ Least((Hosts \ {vpcs[v].gw}) \ Taken(v)) \in 0 .. MaxHost
        /\ Least((Hosts \ {vpcs[v].gw}) \ Taken(v)) # 0
    BY <1>3, AddressesFree DEF ReadForMigrate
  <2>. DEFINE r == [Free EXCEPT !.op = "migrate", !.step = "read", !.user = u, !.vpc = v, !.inst = i,
                                !.ip = Least((Hosts \ {vpcs[v].gw}) \ Taken(v)),
                                !.old = nics[i][0]]
  <2>2. r \in NetRequest
    BY <2>1, RequestRecords
  <2>3. KnowsItself(r)
    BY <2>1 DEF KnowsItself, Free, Takers, Alters, Works, Steps
  <2>4. nreq' \in [NetProcs -> NetRequest] /\ \A q \in NetProcs : KnowsItself(nreq'[q])
    BY <1>3, <2>2, <2>3, OneRequestChanges DEF ReadForMigrate, Begin
  <2>. QED
    BY <1>3, <2>4, TablesStay, TypeParts DEF ReadForMigrate, Tables
<1>4. ASSUME NEW u \in Users, NEW v \in Vpcs, NEW i \in Insts, ReadForAdd(p, u, i, v)
      PROVE  TypeInv'
  <2>1. LastNic(i) + 1 \in Nics /\ LastNic(i) + 1 # 0
    BY <1>4, LastNicIsIn, NetworkConstants DEF ReadForAdd, Nics
  <2>. DEFINE r == [Free EXCEPT !.op = "add", !.step = "read", !.user = u, !.vpc = v, !.inst = i,
                                !.nic = LastNic(i) + 1]
  <2>2. r \in NetRequest
    BY <2>1, RequestRecords
  <2>3. KnowsItself(r)
    BY <2>1 DEF KnowsItself, Free, Takers, Alters, Works, Steps
  <2>4. nreq' \in [NetProcs -> NetRequest] /\ \A q \in NetProcs : KnowsItself(nreq'[q])
    BY <1>4, <2>2, <2>3, OneRequestChanges DEF ReadForAdd, Begin
  <2>. QED
    BY <1>4, <2>4, TablesStay, TypeParts DEF ReadForAdd, Tables
<1>5. ASSUME NEW v \in Vpcs, NEW i \in Insts, ReadForLaunch(p, i, v)
      PROVE  TypeInv'
  <2>1. NextAddress(v) \in 0 .. MaxHost
    BY AddressesFree
  <2>. DEFINE r == [Free EXCEPT !.op = "launch", !.step = "read", !.user = InstOwner[i],
                                !.vpc = v, !.inst = i, !.ip = NextAddress(v), !.copy = vpcs[v]]
  <2>2. r \in NetRequest
    BY <2>1, RequestRecords
  <2>3. KnowsItself(r)
    BY <2>1 DEF KnowsItself, Free, Takers, Alters, Works, Steps
  <2>4. nreq' \in [NetProcs -> NetRequest] /\ \A q \in NetProcs : KnowsItself(nreq'[q])
    BY <1>5, <2>2, <2>3, OneRequestChanges DEF ReadForLaunch, Begin
  <2>5. TablesTyped'
    BY <1>5, TypeParts DEF ReadForLaunch, TablesTyped, Exists, Instance
  <2>. QED
    BY <2>4, <2>5, TypeParts
<1>6. ASSUME NEW u \in Users, NEW k \in Nics, NEW i \in Insts, UnplugNic(p, u, i, k)
      PROVE  TypeInv'
  <2>. DEFINE r == [Free EXCEPT !.op = "remove", !.step = "done", !.user = u, !.inst = i,
                                !.nic = k]
  <2>1. r \in NetRequest /\ k # 0
    BY <1>6 DEF UnplugNic, NetRequest, Free, Plugged
  <2>2. KnowsItself(r)
    BY <2>1 DEF KnowsItself, Free, Takers, Alters, Works, Steps
  <2>3. nreq' \in [NetProcs -> NetRequest] /\ \A q \in NetProcs : KnowsItself(nreq'[q])
    BY <1>6, <2>1, <2>2, OneRequestChanges DEF UnplugNic, Begin
  <2>4. TablesTyped'
    BY <1>6, TypeParts DEF UnplugNic, TablesTyped, Exists
  <2>. QED
    BY <2>3, <2>4, TypeParts
<1>7. ASSUME NEW h \in Hosts, NEW i \in Insts, ReadForIp(p, i, h)
      PROVE  TypeInv'
  <2>. DEFINE r == [Free EXCEPT !.op = "ip", !.step = "read", !.user = InstOwner[i], !.vpc = insts[i].vpc,
                                !.inst = i, !.ip = h]
  <2>4. insts[i].vpc \in Vpcs /\ h \in 0 .. MaxHost /\ h # 0
    BY <1>7 DEF ReadForIp
  <2>1. r \in NetRequest
    BY <2>4 DEF NetRequest, Free
  <2>2. KnowsItself(r)
    BY <2>4 DEF KnowsItself, Free, Takers, Alters, Works, Steps
  <2>3. nreq' \in [NetProcs -> NetRequest] /\ \A q \in NetProcs : KnowsItself(nreq'[q])
    BY <1>7, <2>1, <2>2, OneRequestChanges DEF ReadForIp, Begin
  <2>. QED
    BY <1>7, <2>3, TablesStay, TypeParts DEF ReadForIp, Tables
<1>8. ASSUME NEW u \in Users, NEW i \in Insts, NEW m \in Modes, ReadForInstanceMode(p, u, i, m)
      PROVE  TypeInv'
  BY <1>2, <1>8 DEF ReadForInstanceMode
<1>. QED
  BY <1>1, <1>2, <1>3, <1>4, <1>5, <1>6, <1>7, <1>8, CreateTyped DEF NetStart

\* What a request that goes on has got.
LEMMA RequestFields ==
  ASSUME TypeInv, NEW p \in NetProcs
  PROVE  LET r == nreq[p] IN
         /\ r \in NetRequest /\ r.copy \in Vpc /\ r.old \in Nic /\ KnowsItself(r)
         /\ r.op # "none" => r.user \in Users
         /\ r.mode \in Modes /\ r.copy.mode \in Modes
         /\ r.nic \in Nics /\ r.ip \in 0 .. MaxHost /\ r.attached \subseteq Insts
         /\ [vpc |-> r.vpc, ip |-> r.ip] \in Nic
         /\ r.op \in Takers \union Alters \union {"create"} => r.vpc \in Vpcs
         /\ r.op \in Works => r.inst \in Insts
BY DEF TypeInv, NetworkTypeOK, NetRequest, Vpc, Nic, KnowsItself

LEMMA CreateGoesOn ==
  ASSUME TypeInv, NEW p \in NetProcs, FlushCreate(p) \/ BuildVnet(p) \/ CommitCreate(p)
  PROVE  TypeInv'
<1>1. nreq[p] \in NetRequest /\ KnowsItself(nreq[p]) /\ nreq[p].copy \in Vpc
  BY RequestFields
<1>2. CASE FlushCreate(p)
  <2>. DEFINE r == [nreq[p] EXCEPT !.step = "flushed"]
  <2>1. r \in NetRequest /\ KnowsItself(r)
    BY <1>1, <1>2 DEF FlushCreate, At, NetRequest, KnowsItself, Steps
  <2>2. CASE End(p)
    BY <1>2, <2>2, RequestEnds, TablesStay, TypeParts DEF FlushCreate, Tables
  <2>3. CASE Goto(p, "flushed")
    <3>1. nreq' = [nreq EXCEPT ![p] = r]
      BY <2>3 DEF Goto
    <3>. QED
      BY <1>2, <2>1, <3>1, OneRequestChanges, TablesStay, TypeParts DEF FlushCreate, Tables
  <2>. QED
    BY <1>2, <2>2, <2>3 DEF FlushCreate
<1>3. CASE BuildVnet(p)
  <2>1. PICK made \in {<<"active", "active">>, <<"active", "error">>, <<"error", "error">>} :
          /\ vnets' = IF made[1] = "active" THEN [vnets EXCEPT ![nreq[p].vpc] = nreq[p].copy.tag]
                      ELSE vnets
          /\ nreq' = [nreq EXCEPT ![p].step = "done", ![p].copy.status = made[1],
                                  ![p].copy.subnet = made[2]]
    BY <1>3 DEF BuildVnet
  <2>2. made[1] \in {"active", "error"} /\ made[2] \in {"active", "error"}
    OBVIOUS
  <2>. DEFINE row == [nreq[p].copy EXCEPT !.status = made[1], !.subnet = made[2]]
              r == [nreq[p] EXCEPT !.step = "done", !.copy = row]
  <2>3. row \in Vpc /\ row.owner = nreq[p].copy.owner /\ row.tag = nreq[p].copy.tag
        /\ row.status # "absent"
    BY <1>1, <2>2 DEF Vpc
  <2>4. r \in NetRequest
    BY <1>1, <2>3 DEF NetRequest
  <2>5. KnowsItself(r)
    BY <1>1, <1>3, <2>3 DEF BuildVnet, At, NetRequest, KnowsItself, Steps
  <2>6. nreq' = [nreq EXCEPT ![p] = r]
    BY <1>1, <2>1 DEF NetRequest, Vpc
  <2>7. nreq[p].copy.tag \in 0 .. MaxTag
    BY <1>1 DEF Vpc
  <2>8. TablesTyped'
    BY <1>3, <2>1, <2>7, TypeParts DEF BuildVnet, TablesTyped, Exists
  <2>. QED
    BY <2>4, <2>5, <2>6, <2>8, OneRequestChanges, TypeParts
<1>4. CASE CommitCreate(p)
  <2>. DEFINE row == [nreq[p].copy EXCEPT !.grouped = nreq[p].copy.mode = "published"]
  <2>1. row \in Vpc /\ row.owner = nreq[p].copy.owner /\ row.tag = nreq[p].copy.tag
        /\ row.status = nreq[p].copy.status
    BY <1>1 DEF Vpc
  <2>2. nreq[p].vpc \in Vpcs /\ row.status # "absent" /\ row.owner # NoUser /\ row.tag # 0
    BY <1>1, <1>4, <2>1 DEF CommitCreate, At, KnowsItself
  <2>3. nreq[p].user \in Users
    BY <1>1, <1>4 DEF CommitCreate, At, KnowsItself
  <2>4. TablesTyped'
    <3>1. CASE UNCHANGED <<vpcs, groups>>
      BY <1>4, <3>1, TypeParts DEF CommitCreate, TablesTyped, Exists
    <3>2. CASE /\ vpcs' = [vpcs EXCEPT ![nreq[p].vpc] = row]
               /\ \/ groups' = groups
                  \/ groups' = groups \union {<<nreq[p].user, nreq[p].vpc>>}
      <4>1. groups' \subseteq Users \X Vpcs
        BY <2>2, <2>3, <3>2, TypeParts DEF TablesTyped
      <4>2. vpcs' \in [Vpcs -> Vpc]
            /\ \A v \in Vpcs : vpcs'[v] = IF v = nreq[p].vpc THEN row ELSE vpcs[v]
        BY <2>1, <2>2, <3>2, TypeParts DEF TablesTyped
      <4>. QED
        BY <1>4, <2>2, <4>1, <4>2, TypeParts DEF CommitCreate, TablesTyped, Exists
    <3>. QED
      BY <1>4, <3>1, <3>2 DEF CommitCreate
  <2>. QED
    BY <1>4, <2>4, RequestEnds, TypeParts DEF CommitCreate
<1>. QED
  BY <1>2, <1>3, <1>4

LEMMA ReservationsTyped ==
  ASSUME NEW v \in Vpcs, NEW h \in 0 .. MaxHost, h # 0, NEW i \in Insts \union {NoInst},
         NEW k \in Nics \union {OwnNic}
  PROVE  Entry(v, h, i, k) \in Reservation
<1>1. h \in Hosts
  BY NetworkConstants DEF Hosts
<1>. QED
  BY <1>1 DEF Entry, Reservation

LEMMA InstancesTyped ==
  ASSUME TypeInv, NEW i \in Insts
  PROVE  /\ insts[i] \in Instance /\ insts[i].second \in Seq(Vpcs) /\ insts[i].known \in BOOLEAN
         /\ insts[i].vpc \in Vpcs \union {NoVpc}
         /\ \A v \in Vpcs : [insts[i] EXCEPT !.vpc = v] \in Instance
         /\ \A s \in Seq(Vpcs) : [insts[i] EXCEPT !.second = s] \in Instance
BY DEF TypeInv, NetworkTypeOK, Instance

\* Only the NICs, the reservations and the row of one instance change.
LEMMA GuestTyped ==
  ASSUME TypeInv, NEW i \in Insts, NEW row \in Instance, insts' = insts \/ insts' = [insts EXCEPT ![i] = row],
         NEW k \in Nics, NEW nic \in Nic, nics' = nics \/ nics' = [nics EXCEPT ![i][k] = nic],
         reserved' \subseteq Reservation, firewall' \in [Insts -> Modes \union {"none"}],
         UNCHANGED <<vpcs, vnets, groups>>
  PROVE  TablesTyped'
<1>1. insts' \in [Insts -> Instance]
  BY DEF TypeInv, NetworkTypeOK
<1>2. nics' \in [Insts -> [Nics -> Nic]]
  <2>1. nics \in [Insts -> [Nics -> Nic]]
    BY DEF TypeInv, NetworkTypeOK
  <2>2. [nics[i] EXCEPT ![k] = nic] \in [Nics -> Nic]
    BY <2>1
  <2>3. [nics EXCEPT ![i][k] = nic] = [nics EXCEPT ![i] = [nics[i] EXCEPT ![k] = nic]]
    BY <2>1
  <2>. QED
    BY <2>1, <2>2, <2>3
<1>. QED
  BY <1>1, <1>2, TypeParts DEF TablesTyped, Exists

LEMMA OthersGoOn ==
  ASSUME TypeInv, NEW p \in NetProcs, NetContinue(p),
         ~FlushCreate(p), ~BuildVnet(p), ~CommitCreate(p)
  PROVE  TypeInv'
<1>. DEFINE r == nreq[p]
            nic == [vpc |-> r.vpc, ip |-> r.ip]
            NewRequests == nreq' \in [NetProcs -> NetRequest] /\ \A q \in NetProcs : KnowsItself(nreq'[q])
<1>0. /\ r \in NetRequest /\ r.copy \in Vpc /\ r.old \in Nic /\ KnowsItself(r)
      /\ r.mode \in Modes /\ r.copy.mode \in Modes
      /\ r.nic \in Nics /\ r.ip \in 0 .. MaxHost /\ r.attached \subseteq Insts /\ nic \in Nic
  BY RequestFields
<1>a. reserved \subseteq Reservation /\ firewall \in [Insts -> Modes \union {"none"}] /\ 0 \in Nics
  BY TypeParts, NetworkConstants DEF TablesTyped, Nics
<1>b. ASSUME r.op \in Works
      PROVE  r.inst \in Insts /\ insts[r.inst] \in Instance /\ insts[r.inst].second \in Seq(Vpcs)
  BY <1>b, <1>0, InstancesTyped DEF KnowsItself
<1>c. ASSUME r.op \in Takers \union Alters
      PROVE  /\ r.vpc \in Vpcs
             /\ r.op \in Works /\ r.ip # 0 => Entry(r.vpc, r.ip, r.inst, r.nic) \in Reservation
             /\ r.op \in Works => [insts[r.inst] EXCEPT !.vpc = r.vpc] \in Instance
  BY <1>c, <1>0, ReservationsTyped, RequestFields, InstancesTyped
<1>d. ASSUME End(p)
      PROVE  NewRequests
  BY <1>d, RequestEnds
<1>e. ASSUME NEW step, Goto(p, step), r.op # "create", step \in Steps(r.op)
      PROVE  NewRequests
  BY <1>e, RequestGoesOn
<1>1. CASE DropRow(p)
  <2>1. r.vpc \in Vpcs
    BY <1>1, <1>c DEF DropRow, At, Alters
  <2>2. vpcs' = [vpcs EXCEPT ![r.vpc] = NoRow] /\ reserved' \subseteq Reservation
    BY <1>1, <1>a DEF DropRow
  <2>3. TablesTyped'
    BY <1>1, <2>1, <2>2, NullsTyped, TypeParts DEF DropRow, TablesTyped, Exists
  <2>. QED
    BY <1>1, <1>d, <2>3, TypeParts DEF DropRow
<1>2. CASE ApplyMode(p)
  <2>1. firewall' \in [Insts -> Modes \union {"none"}]
    BY <1>2, <1>0, <1>a DEF ApplyMode
  <2>2. TablesTyped'
    BY <1>2, <2>1, TypeParts DEF ApplyMode, TablesTyped, Exists
  <2>3. NewRequests
    BY <1>2, <1>d, <1>e DEF ApplyMode, At, Steps
  <2>. QED
    BY <2>2, <2>3, TypeParts
<1>3. CASE CommitMode(p)
  <2>1. r.vpc \in Vpcs /\ r.user \in Users
    BY <1>3, <1>0, <1>c DEF CommitMode, At, KnowsItself, Alters
  <2>2. groups' \subseteq Users \X Vpcs
    BY <1>3, <2>1, TypeParts DEF CommitMode, TablesTyped
  <2>3. PICK row \in Vpc :
          /\ row.owner = vpcs[r.vpc].owner /\ row.tag = vpcs[r.vpc].tag
          /\ row.status = vpcs[r.vpc].status
          /\ vpcs' = vpcs \/ vpcs' = [vpcs EXCEPT ![r.vpc] = row]
    <3>. DEFINE new == [vpcs[r.vpc] EXCEPT !.mode = r.mode,
                          !.grouped = IF r.copy.grouped # (r.mode = "published")
                                      THEN r.mode = "published" ELSE @]
    <3>1. vpcs[r.vpc] \in Vpc /\ vpcs \in [Vpcs -> Vpc]
      BY <2>1, TypeParts DEF TablesTyped
    <3>2. new \in Vpc /\ new.owner = vpcs[r.vpc].owner /\ new.tag = vpcs[r.vpc].tag
          /\ new.status = vpcs[r.vpc].status
      BY <1>0, <3>1 DEF Vpc
    <3>3. vpcs' = vpcs \/ vpcs' = [vpcs EXCEPT ![r.vpc] = new]
      BY <1>3, <2>1, <3>1 DEF CommitMode
    <3>. QED
      BY <3>2, <3>3
  <2>4. /\ vpcs' \in [Vpcs -> Vpc]
        /\ \A v \in Vpcs : vpcs'[v].owner = vpcs[v].owner /\ vpcs'[v].tag = vpcs[v].tag
                           /\ vpcs'[v].status = vpcs[v].status
    BY <2>1, <2>3, TypeParts DEF TablesTyped
  <2>5. TablesTyped'
    BY <1>3, <2>2, <2>4, TypeParts DEF CommitMode, TablesTyped, Exists
  <2>. QED
    BY <1>3, <1>d, <2>5, TypeParts DEF CommitMode
<1>4. CASE PlugLaunch(p)
  <2>1. TablesTyped'
    BY <1>4, <1>0, <1>a, <1>b, GuestTyped DEF PlugLaunch, At, Works
  <2>2. NewRequests
    BY <1>4, <1>e DEF PlugLaunch, At, Steps
  <2>. QED
    BY <2>1, <2>2, TypeParts
<1>5. CASE CommitLaunch(p)
  <2>1. r.op \in Works /\ r.op \in Takers /\ r.nic = 0
    BY <1>5, <1>0 DEF CommitLaunch, Works, Takers, KnowsItself
  <2>2. reserved' \subseteq Reservation
    BY <1>5, <1>a, <1>c, <2>1 DEF CommitLaunch
  <2>3. firewall' \in [Insts -> Modes \union {"none"}]
    BY <1>5, <1>0, <1>a, <1>b, <2>1 DEF CommitLaunch
  <2>4. insts' = insts \/ insts' = [insts EXCEPT ![r.inst] = [insts[r.inst] EXCEPT !.vpc = r.vpc]]
    BY <1>5 DEF CommitLaunch
  <2>5. TablesTyped'
    BY <1>5, <1>0, <1>b, <1>c, <2>1, <2>2, <2>3, <2>4, GuestTyped DEF CommitLaunch
  <2>. QED
    BY <1>5, <1>d, <2>5, TypeParts DEF CommitLaunch
<1>6. CASE ApplyMigrate(p)
  <2>1. TablesTyped'
    BY <1>6, <1>0, <1>a, <1>b, GuestTyped DEF ApplyMigrate, At, Works
  <2>2. NewRequests
    BY <1>6, <1>d, <1>e DEF ApplyMigrate, At, Steps
  <2>. QED
    BY <2>1, <2>2, TypeParts
<1>7. CASE CommitMigrate(p)
  <2>1. r.op \in Works /\ r.op \in Takers /\ r.nic = 0 /\ r.ip # 0
    BY <1>7, <1>0 DEF CommitMigrate, At, Works, Takers, KnowsItself
  <2>2. reserved' \subseteq Reservation
    BY <1>7, <1>a, <1>c, <2>1 DEF CommitMigrate
  <2>3. nics' = nics \/ nics' = [nics EXCEPT ![r.inst][0] = r.old]
    BY <1>7 DEF CommitMigrate
  <2>4. insts' = insts \/ insts' = [insts EXCEPT ![r.inst] = [insts[r.inst] EXCEPT !.vpc = r.vpc]]
    BY <1>7 DEF CommitMigrate
  <2>5. TablesTyped'
    BY <1>7, <1>0, <1>a, <1>b, <1>c, <2>1, <2>2, <2>3, <2>4, GuestTyped DEF CommitMigrate
  <2>. QED
    BY <1>7, <1>d, <2>5, TypeParts DEF CommitMigrate
<1>8. CASE PlugNic(p)
  <2>1. /\ r.op = "add" /\ r.inst \in Insts /\ r.vpc \in Vpcs
        /\ NextAddress(r.vpc) \in 0 .. MaxHost
    BY <1>8, <1>0, <1>b, <1>c, AddressesFree DEF PlugNic, At, Works, Takers
  <2>2. CASE End(p) /\ UNCHANGED nics
    <3>1. TablesTyped'
      BY <1>8, <2>2, TablesStay DEF PlugNic, Tables
    <3>. QED
      BY <1>d, <2>2, <3>1, TypeParts
  <2>3. CASE /\ nics' = [nics EXCEPT ![r.inst][r.nic] =
                           [vpc |-> r.vpc, ip |-> NextAddress(r.vpc)]]
             /\ nreq' = [nreq EXCEPT ![p].step = "done", ![p].ip = NextAddress(r.vpc)]
    <3>. DEFINE new == [r EXCEPT !.step = "done", !.ip = NextAddress(r.vpc)]
    <3>1. new \in NetRequest
      BY <1>0, <2>1 DEF NetRequest
    <3>2. KnowsItself(new)
      BY <1>0, <2>1 DEF KnowsItself, NetRequest, Steps
    <3>3. nreq' = [nreq EXCEPT ![p] = new]
      BY <2>3
    <3>4. NewRequests
      BY <3>1, <3>2, <3>3, OneRequestChanges
    <3>5. [vpc |-> r.vpc, ip |-> NextAddress(r.vpc)] \in Nic
      BY <2>1 DEF Nic
    <3>6. nics' \in [Insts -> [Nics -> Nic]]
      BY <1>0, <2>1, <2>3, <3>5, TypeParts DEF TablesTyped
    <3>7. TablesTyped'
      BY <1>8, <3>6, TypeParts DEF PlugNic, TablesTyped, Exists
    <3>. QED
      BY <3>4, <3>7, TypeParts
  <2>. QED
    BY <1>8, <2>2, <2>3 DEF PlugNic
<1>9. CASE CommitNic(p)
  <2>1. r.op \in Works /\ r.op \in Takers
    BY <1>9 DEF CommitNic, At, Works, Takers
  <2>2. reserved' \subseteq Reservation
    BY <1>9, <1>a, <1>c, <2>1 DEF CommitNic
  <2>3. Append(insts[r.inst].second, r.vpc) \in Seq(Vpcs)
    BY <1>b, <1>c, <2>1
  <2>4. [insts[r.inst] EXCEPT !.second = Append(@, r.vpc)] \in Instance
    BY <1>b, <2>1, <2>3, InstancesTyped
  <2>5. insts' = insts
        \/ insts' = [insts EXCEPT ![r.inst] = [insts[r.inst] EXCEPT !.second = Append(@, r.vpc)]]
    BY <1>9 DEF CommitNic
  <2>6. TablesTyped'
    BY <1>9, <1>0, <1>a, <1>b, <2>1, <2>2, <2>4, <2>5, GuestTyped DEF CommitNic
  <2>. QED
    BY <1>9, <1>d, <2>6, TypeParts DEF CommitNic
<1>10. CASE CommitUnplug(p)
  <2>. DEFINE second == insts[r.inst].second
              less == [insts[r.inst] EXCEPT !.second = SubSeq(second, 1, Len(second) - 1)]
  <2>1. r.op \in Works
    BY <1>10 DEF CommitUnplug, At, Works
  <2>2. insts' = insts \/ (second # <<>> /\ insts' = [insts EXCEPT ![r.inst] = less])
    BY <1>10 DEF CommitUnplug
  <2>3. SubSeq(second, 1, Len(second) - 1) \in Seq(Vpcs)
    BY <1>b, <2>1, SubSeqProperties
  <2>4. less \in Instance
    BY <1>b, <2>1, <2>3, InstancesTyped
  <2>5. TablesTyped'
    BY <1>10, <1>0, <1>a, <1>b, <2>1, <2>2, <2>4, GuestTyped DEF CommitUnplug
  <2>. QED
    BY <1>10, <1>d, <2>5, TypeParts DEF CommitUnplug
<1>11. CASE ApplyIp(p)
  <2>1. TablesTyped'
    BY <1>11, <1>0, <1>a, <1>b, GuestTyped DEF ApplyIp, At, Works
  <2>2. NewRequests
    BY <1>11, <1>d, <1>e DEF ApplyIp, At, Steps
  <2>. QED
    BY <2>1, <2>2, TypeParts
<1>12. CASE CommitIp(p)
  <2>1. r.op \in Works /\ r.op \in Takers /\ r.nic = 0 /\ r.ip # 0
    BY <1>12, <1>0 DEF CommitIp, At, Works, Takers, KnowsItself
  <2>2. reserved' \subseteq Reservation
    BY <1>12, <1>a, <1>c, <2>1 DEF CommitIp
  <2>3. TablesTyped'
    BY <1>12, <1>0, <1>b, <2>1, <2>2, <1>a, GuestTyped DEF CommitIp
  <2>. QED
    BY <1>12, <1>d, <2>3, TypeParts DEF CommitIp
<1>. QED
  BY <1>1, <1>2, <1>3, <1>4, <1>5, <1>6, <1>7, <1>8, <1>9, <1>10, <1>11, <1>12 DEF NetContinue

LEMMA TypeStep ==
  ASSUME TypeInv, [NetworkNext]_netVars
  PROVE  TypeInv'
<1>1. ASSUME NEW p \in NetProcs, NetContinue(p)
      PROVE  TypeInv'
  BY <1>1, CreateGoesOn, OthersGoOn
<1>2. ASSUME NEW p \in NetProcs, LoseRequest(p)
      PROVE  TypeInv'
  BY <1>2, RequestEnds, TablesStay, TypeParts DEF LoseRequest, Tables
<1>. DEFINE Typed == nreq \in [NetProcs -> NetRequest] /\ \A p \in NetProcs : KnowsItself(nreq[p])
<1>3. Typed
  BY DEF TypeInv, NetworkTypeOK
<1>4. UNCHANGED nreq => nreq' \in [NetProcs -> NetRequest] /\ \A p \in NetProcs : KnowsItself(nreq'[p])
  BY <1>3
<1>5. ASSUME NEW i \in Insts, LaunchDetached(i)
      PROVE  TypeInv'
  <2>1. TablesTyped'
    BY <1>5, TypeParts DEF LaunchDetached, TablesTyped, Exists, Instance
  <2>. QED
    BY <1>4, <1>5, <2>1, TypeParts DEF LaunchDetached
<1>6. ASSUME NEW i \in Insts, Terminate(i)
      PROVE  TypeInv'
  <2>1. TablesTyped'
    BY <1>6, NullsTyped, TypeParts DEF Terminate, TablesTyped, Exists
  <2>. QED
    BY <1>4, <1>6, <2>1, TypeParts DEF Terminate
<1>7. ASSUME NEW u \in Users, NEW v \in Vpcs, NEW h \in Hosts, ReserveStatic(u, v, h)
      PROVE  TypeInv'
  <2>1. Entry(v, h, NoInst, OwnNic) \in Reservation
    BY DEF Entry, Reservation
  <2>2. TablesTyped'
    BY <1>7, <2>1, TypeParts DEF ReserveStatic, TablesTyped, Exists
  <2>. QED
    BY <1>4, <1>7, <2>2, TypeParts DEF ReserveStatic
<1>8. ASSUME NEW e \in reserved, ReleaseStatic(e)
      PROVE  TypeInv'
  <2>1. TablesTyped'
    BY <1>8, TypeParts DEF ReleaseStatic, TablesTyped, Exists
  <2>. QED
    BY <1>4, <1>8, <2>1, TypeParts DEF ReleaseStatic
<1>9. CASE UNCHANGED netVars
  <2>1. TablesTyped'
    BY <1>9, TablesStay DEF netVars, Tables
  <2>. QED
    BY <1>4, <1>9, <2>1, TypeParts DEF netVars
<1>. QED
  BY <1>1, <1>2, <1>5, <1>6, <1>7, <1>8, <1>9, StartTyped DEF NetworkNext

LEMMA TypeInvAlways == NetworkSpec => []TypeInv
BY TypeStarts, TypeStep, PTL DEF NetworkSpec

(***************************************************************************)
(* Rows, NICs, reservations and requests have their types, with any faults *)
(* and any overlap of requests; a row names an owner and a tag exactly     *)
(* while it exists.                                                        *)
(***************************************************************************)
THEOREM NetworkTyped == NetworkSpec => []NetworkTypeOK
<1>1. TypeInv => NetworkTypeOK
  BY DEF TypeInv
<1>. QED
  BY <1>1, TypeInvAlways, PTL

-----------------------------------------------------------------------------
(* Requests *)

Others(p) == \A q \in NetProcs \ {p} : nreq'[q] = nreq[q]

\* A free process takes up a request.
Begins(p, op, step, v, i, k, h) ==
    /\ nreq[p] = Free /\ Others(p)
    /\ nreq'[p].op = op /\ nreq'[p].step = step /\ nreq'[p].vpc = v
    /\ nreq'[p].inst = i /\ nreq'[p].nic = k /\ nreq'[p].ip = h

\* A request goes on to another step and keeps the rest.
Moves(p, step) ==
    /\ Others(p) /\ nreq'[p].step = step
    /\ nreq'[p].op = nreq[p].op /\ nreq'[p].vpc = nreq[p].vpc /\ nreq'[p].inst = nreq[p].inst
    /\ nreq'[p].nic = nreq[p].nic /\ nreq'[p].ip = nreq[p].ip /\ nreq'[p].old = nreq[p].old
    /\ nreq'[p].copy = nreq[p].copy /\ nreq'[p].mode = nreq[p].mode
    /\ nreq'[p].attached = nreq[p].attached

Ends(p) == nreq'[p] = Free /\ Others(p)

LEMMA Continues ==
  ASSUME TypeInv, NEW p \in NetProcs
  PROVE  /\ End(p) => Ends(p)
         /\ \A step : Goto(p, step) => Moves(p, step)
<1>1. nreq \in [NetProcs -> NetRequest]
  BY TypeParts
<1>. QED
  BY <1>1 DEF End, Goto, Ends, Moves, Others, NetRequest

LEMMA StartEffects ==
  ASSUME TypeInv, NEW p \in NetProcs
  PROVE
    /\ \A u \in Users, v \in Vpcs, b \in Blocks, g \in Gateways, m \in Modes :
         ReadForCreate(p, u, v, b, g, m) => Begins(p, "create", "read", v, NoInst, 0, 0)
    /\ \A u \in Users, v \in Vpcs :
         DropVnet(p, u, v) => Begins(p, "drop", "done", v, NoInst, 0, 0)
    /\ \A u \in Users, v \in Vpcs, m \in Modes :
         ReadForMode(p, u, v, m) => Begins(p, "mode", "read", v, NoInst, 0, 0)
    /\ \A i \in Insts, v \in Vpcs :
         ReadForLaunch(p, i, v) => Begins(p, "launch", "read", v, i, 0, NextAddress(v))
    /\ \A u \in Users, i \in Insts, v \in Vpcs :
         ReadForMigrate(p, u, i, v) => Begins(p, "migrate", "read", v, i, 0, nreq'[p].ip)
    /\ \A u \in Users, i \in Insts, v \in Vpcs :
         ReadForAdd(p, u, i, v) => Begins(p, "add", "read", v, i, LastNic(i) + 1, 0)
    /\ \A u \in Users, i \in Insts, k \in Nics :
         UnplugNic(p, u, i, k) => Begins(p, "remove", "done", NoVpc, i, k, 0)
    /\ \A i \in Insts, h \in Hosts :
         ReadForIp(p, i, h) => Begins(p, "ip", "read", insts[i].vpc, i, 0, h)
<1>0. nreq \in [NetProcs -> NetRequest]
  BY TypeParts
<1>1. ASSUME NEW u \in Users, NEW v \in Vpcs, NEW b \in Blocks, NEW g \in Gateways, NEW m \in Modes,
             ReadForCreate(p, u, v, b, g, m)
      PROVE  Begins(p, "create", "read", v, NoInst, 0, 0)
  BY <1>0, <1>1 DEF ReadForCreate, Begin, Begins, Others, Free
<1>2. ASSUME NEW u \in Users, NEW v \in Vpcs,
             DropVnet(p, u, v)
      PROVE  Begins(p, "drop", "done", v, NoInst, 0, 0)
  BY <1>0, <1>2 DEF DropVnet, Begin, Begins, Others, Free
<1>3. ASSUME NEW u \in Users, NEW v \in Vpcs, NEW m \in Modes,
             ReadForMode(p, u, v, m)
      PROVE  Begins(p, "mode", "read", v, NoInst, 0, 0)
  BY <1>0, <1>3 DEF ReadForMode, Begin, Begins, Others, Free
<1>4. ASSUME NEW i \in Insts, NEW v \in Vpcs,
             ReadForLaunch(p, i, v)
      PROVE  Begins(p, "launch", "read", v, i, 0, NextAddress(v))
  BY <1>0, <1>4 DEF ReadForLaunch, Begin, Begins, Others, Free
<1>5. ASSUME NEW u \in Users, NEW i \in Insts, NEW v \in Vpcs,
             ReadForMigrate(p, u, i, v)
      PROVE  Begins(p, "migrate", "read", v, i, 0, nreq'[p].ip)
  BY <1>0, <1>5 DEF ReadForMigrate, Begin, Begins, Others, Free
<1>6. ASSUME NEW u \in Users, NEW i \in Insts, NEW v \in Vpcs,
             ReadForAdd(p, u, i, v)
      PROVE  Begins(p, "add", "read", v, i, LastNic(i) + 1, 0)
  BY <1>0, <1>6 DEF ReadForAdd, Begin, Begins, Others, Free
<1>7. ASSUME NEW u \in Users, NEW i \in Insts, NEW k \in Nics,
             UnplugNic(p, u, i, k)
      PROVE  Begins(p, "remove", "done", NoVpc, i, k, 0)
  BY <1>0, <1>7 DEF UnplugNic, Begin, Begins, Others, Free
<1>8. ASSUME NEW i \in Insts, NEW h \in Hosts,
             ReadForIp(p, i, h)
      PROVE  Begins(p, "ip", "read", insts[i].vpc, i, 0, h)
  BY <1>0, <1>8 DEF ReadForIp, Begin, Begins, Others, Free
<1>. QED
  BY <1>1, <1>2, <1>3, <1>4, <1>5, <1>6, <1>7, <1>8

-----------------------------------------------------------------------------
(* Tags and CIDRs *)

LEMMA ApartStarts ==
  ASSUME NetworkInit
  PROVE  ApartInv
BY NullsTyped DEF NetworkInit, ApartInv, OneCreate, RowsApart, CreateFits, Exists

\* Neither CIDRs nor VNets nor creates change.
LEMMA ApartStays ==
  ASSUME TypeInv, ApartInv, UNCHANGED vnets,
         \A v \in Vpcs : vpcs'[v].cidr = vpcs[v].cidr /\ (Exists(v)' <=> Exists(v)),
         \A q \in NetProcs : nreq'[q].op = "create" => nreq'[q] = nreq[q]
  PROVE  ApartInv'
<1>1. OneCreate' /\ RowsApart'
  BY DEF ApartInv, OneCreate, RowsApart
<1>2. \A q \in NetProcs : nreq[q].op = "create" => nreq[q].vpc \in Vpcs
  BY RequestFields
<1>3. CreateFits'
  <2>. SUFFICES ASSUME NEW q \in NetProcs, nreq[q].op = "create", nreq'[q] = nreq[q]
                PROVE  LET r == nreq[q] IN
                       /\ ~Exists(r.vpc)'
                       /\ \A w \in Vpcs : /\ vpcs'[w].cidr # r.copy.cidr
                                          /\ w # r.vpc => vnets'[w] # r.copy.tag
                       /\ vnets'[r.vpc] = IF r.copy.status = "active" THEN r.copy.tag ELSE 0
    BY <1>2 DEF CreateFits, Exists
  <2>. QED
    BY <1>2 DEF ApartInv, CreateFits
<1>. QED
  BY <1>1, <1>3 DEF ApartInv

\* Handlers that start touch neither rows nor VNets, but for delete_vpc.
LEMMA StartsApart ==
  ASSUME TypeInv, NEW p \in NetProcs, NetStart(p),
         \A u \in Users, v \in Vpcs : /\ ~DropVnet(p, u, v)
           /\ \A b \in Blocks, g \in Gateways, m \in Modes : ~ReadForCreate(p, u, v, b, g, m)
  PROVE  UNCHANGED <<vpcs, vnets>> /\ nreq'[p].op # "create" /\ Others(p)
<1>1. ASSUME NEW u \in Users, NEW v \in Vpcs, NEW m \in Modes, ReadForMode(p, u, v, m)
      PROVE  UNCHANGED <<vpcs, vnets>> /\ nreq'[p].op # "create" /\ Others(p)
  BY <1>1, StartEffects DEF ReadForMode, Begins
<1>2. ASSUME NEW i \in Insts, NEW v \in Vpcs, ReadForLaunch(p, i, v)
      PROVE  UNCHANGED <<vpcs, vnets>> /\ nreq'[p].op # "create" /\ Others(p)
  BY <1>2, StartEffects DEF ReadForLaunch, Begins
<1>3. ASSUME NEW u \in Users, NEW i \in Insts, NEW v \in Vpcs, ReadForMigrate(p, u, i, v)
      PROVE  UNCHANGED <<vpcs, vnets>> /\ nreq'[p].op # "create" /\ Others(p)
  BY <1>3, StartEffects DEF ReadForMigrate, Begins
<1>4. ASSUME NEW u \in Users, NEW i \in Insts, NEW v \in Vpcs, ReadForAdd(p, u, i, v)
      PROVE  UNCHANGED <<vpcs, vnets>> /\ nreq'[p].op # "create" /\ Others(p)
  BY <1>4, StartEffects DEF ReadForAdd, Begins
<1>5. ASSUME NEW u \in Users, NEW i \in Insts, NEW k \in Nics, UnplugNic(p, u, i, k)
      PROVE  UNCHANGED <<vpcs, vnets>> /\ nreq'[p].op # "create" /\ Others(p)
  BY <1>5, StartEffects DEF UnplugNic, Begins
<1>6. ASSUME NEW i \in Insts, NEW h \in Hosts, ReadForIp(p, i, h)
      PROVE  UNCHANGED <<vpcs, vnets>> /\ nreq'[p].op # "create" /\ Others(p)
  BY <1>6, StartEffects DEF ReadForIp, Begins
<1>. QED
  BY <1>1, <1>2, <1>3, <1>4, <1>5, <1>6, InstancesTyped DEF NetStart, ReadForInstanceMode

LEMMA ApartCreates ==
  ASSUME TypeInv, ApartInv, CreatesApart, NEW p \in NetProcs, NEW u \in Users, NEW v \in Vpcs,
         NEW b \in Blocks, NEW g \in Gateways, NEW m \in Modes, ReadForCreate(p, u, v, b, g, m)
  PROVE  ApartInv'
<1>1. Begins(p, "create", "read", v, NoInst, 0, 0) /\ UNCHANGED <<vpcs, vnets>>
  BY StartEffects DEF ReadForCreate
<1>2. /\ nreq'[p].copy.cidr = b /\ nreq'[p].copy.tag = Least(FreeTags)
      /\ nreq'[p].copy.status = "absent"
  BY TypeParts DEF ReadForCreate, Begin, Free, NoRow
<1>3. /\ ~Exists(v) /\ vnets[v] = 0 /\ CidrFree(b)
      /\ \A q \in NetProcs : nreq[q].op # "create"
  BY DEF ReadForCreate, MayCreate, CreatesApart
<1>4. \A w \in Vpcs : vnets[w] # Least(FreeTags)
  BY FreeTagFits DEF ReadForCreate, FreeTags
<1>5. OneCreate'
  BY <1>1, <1>3 DEF OneCreate, Begins, Others
<1>6. RowsApart'
  BY <1>1 DEF ApartInv, RowsApart, Exists
<1>7. CreateFits'
  BY <1>1, <1>2, <1>3, <1>4 DEF CreateFits, CidrFree, Begins, Others, Exists
<1>. QED
  BY <1>5, <1>6, <1>7 DEF ApartInv

LEMMA ApartGoesOn ==
  ASSUME TypeInv, ApartInv, NEW p \in NetProcs, FlushCreate(p) \/ BuildVnet(p) \/ CommitCreate(p)
  PROVE  ApartInv'
<1>. DEFINE r == nreq[p]
<1>1. /\ r.op = "create" /\ r.vpc \in Vpcs /\ r.copy \in Vpc /\ r.copy.tag # 0
      /\ r.copy.status = "absent" <=> r.step # "done"
  BY RequestFields DEF FlushCreate, BuildVnet, CommitCreate, At, KnowsItself
<1>2. \A q \in NetProcs : nreq[q].op = "create" => q = p
  BY <1>1 DEF ApartInv, OneCreate
<1>3. /\ ~Exists(r.vpc)
      /\ \A v \in Vpcs : /\ vpcs[v].cidr # r.copy.cidr
                         /\ v # r.vpc => vnets[v] # r.copy.tag
      /\ vnets[r.vpc] = IF r.copy.status = "active" THEN r.copy.tag ELSE 0
  BY <1>1 DEF ApartInv, CreateFits
<1>4. CASE Ends(p) /\ UNCHANGED <<vpcs, vnets>>
  BY <1>4, NullsTyped, ApartStays DEF Ends, Others, Exists
<1>5. CASE Moves(p, "flushed") /\ UNCHANGED <<vpcs, vnets>>
  BY <1>1, <1>2, <1>3, <1>5 DEF Moves, Others, ApartInv, OneCreate, RowsApart, CreateFits, Exists
<1>6. CASE BuildVnet(p)
  <2>1. PICK made \in {<<"active", "active">>, <<"active", "error">>, <<"error", "error">>} :
          /\ vnets' = IF made[1] = "active" THEN [vnets EXCEPT ![nreq[p].vpc] = nreq[p].copy.tag]
                      ELSE vnets
          /\ nreq' = [nreq EXCEPT ![p].step = "done", ![p].copy.status = made[1],
                                  ![p].copy.subnet = made[2]]
    BY <1>6 DEF BuildVnet
  <2>2. /\ Others(p) /\ nreq'[p].op = "create" /\ nreq'[p].vpc = r.vpc
        /\ nreq'[p].copy.cidr = r.copy.cidr /\ nreq'[p].copy.tag = r.copy.tag
        /\ nreq'[p].copy.status = made[1]
    BY <1>1, <2>1, TypeParts DEF Others, NetRequest, Vpc
  <2>3. UNCHANGED vpcs /\ made[1] \in {"active", "error"} /\ r.copy.status = "absent"
    BY <1>1, <1>6 DEF BuildVnet, At
  <2>4. \A w \in Vpcs : vnets'[w] = IF w = r.vpc /\ made[1] = "active" THEN r.copy.tag ELSE vnets[w]
    BY <1>1, <2>1, TypeParts DEF TablesTyped
  <2>5. OneCreate' /\ CreateFits'
    BY <1>1, <1>2, <1>3, <2>2, <2>3, <2>4 DEF Others, OneCreate, CreateFits, Exists
  <2>6. RowsApart'
    BY <1>1, <1>3, <2>3, <2>4 DEF ApartInv, RowsApart, Exists
  <2>. QED
    BY <2>5, <2>6 DEF ApartInv
<1>7. CASE CommitCreate(p) /\ vpcs' # vpcs
  <2>. DEFINE row == [r.copy EXCEPT !.grouped = r.copy.mode = "published"]
  <2>1. Ends(p) /\ UNCHANGED vnets /\ vpcs' = [vpcs EXCEPT ![r.vpc] = row]
    BY <1>7, Continues DEF CommitCreate
  <2>2. row.cidr = r.copy.cidr /\ row.status = r.copy.status /\ row.status # "absent"
    BY <1>1, <1>7 DEF CommitCreate, At, Vpc
  <2>3. \A w \in Vpcs : vpcs'[w] = IF w = r.vpc THEN row ELSE vpcs[w]
    BY <2>1, TypeParts DEF TablesTyped
  <2>4. RowsApart'
    BY <1>1, <1>3, <2>1, <2>2, <2>3 DEF ApartInv, RowsApart, Exists
  <2>5. OneCreate' /\ CreateFits'
    BY <1>2, <2>1, NullsTyped DEF Ends, Others, OneCreate, CreateFits
  <2>. QED
    BY <2>4, <2>5 DEF ApartInv
<1>. QED
  BY <1>4, <1>5, <1>6, <1>7, Continues DEF FlushCreate, CommitCreate

\* The handlers that change rows or VNets of their own
LEMMA ApartAlters ==
  ASSUME TypeInv, ApartInv, NEW p \in NetProcs, Others(p), nreq'[p].op # "create", NEW v \in Vpcs, Exists(v),
         \A w \in Vpcs : w # v => vpcs'[w] = vpcs[w] /\ vnets'[w] = vnets[w],
         vnets'[v] \in {0, vnets[v]},
         \/ vpcs'[v].status = vpcs[v].status /\ vpcs'[v].cidr = vpcs[v].cidr
         \/ vpcs'[v] = NoRow
  PROVE  ApartInv'
<1>1. OneCreate'
  BY DEF Others, ApartInv, OneCreate
<1>2. \A q \in NetProcs : nreq'[q].op = "create" =>
        q # p /\ nreq'[q] = nreq[q] /\ nreq[q].vpc \in Vpcs /\ nreq[q].vpc # v
        /\ nreq[q].copy.tag # 0
  BY RequestFields DEF Others, ApartInv, CreateFits, KnowsItself
<1>3. NoRow.cidr = 0 /\ NoRow.status = "absent"
  BY NullsTyped
<1>4. RowsApart'
  BY <1>3 DEF ApartInv, RowsApart, Exists
<1>5. CreateFits'
  <2>. SUFFICES ASSUME NEW q \in NetProcs, nreq'[q].op = "create"
                PROVE  LET r == nreq[q] IN
                       /\ vpcs'[r.vpc].status = "absent"
                       /\ \A w \in Vpcs : /\ vpcs'[w].cidr # r.copy.cidr
                                          /\ w # r.vpc => vnets'[w] # r.copy.tag
                       /\ vnets'[r.vpc] = IF r.copy.status = "active" THEN r.copy.tag ELSE 0
    BY <1>2 DEF CreateFits, Exists
  <2>1. nreq[q].op = "create" /\ nreq[q].vpc \in Vpcs /\ nreq[q].vpc # v /\ nreq[q].copy.tag # 0
    BY <1>2
  <2>2. /\ vpcs[nreq[q].vpc].status = "absent"
        /\ \A w \in Vpcs : /\ vpcs[w].cidr # nreq[q].copy.cidr
                           /\ w # nreq[q].vpc => vnets[w] # nreq[q].copy.tag
        /\ vnets[nreq[q].vpc] = IF nreq[q].copy.status = "active" THEN nreq[q].copy.tag ELSE 0
    BY <2>1 DEF ApartInv, CreateFits, Exists
  <2>3. nreq[q].copy.cidr # 0
    BY <2>1, <2>2 DEF ApartInv, RowsApart, Exists
  <2>4. vpcs'[v].cidr # nreq[q].copy.cidr /\ vnets'[v] # nreq[q].copy.tag
    BY <1>3, <2>1, <2>2, <2>3
  <2>. QED
    BY <2>1, <2>2, <2>4
<1>. QED
  BY <1>1, <1>4, <1>5 DEF ApartInv

LEMMA ApartStep ==
  ASSUME TypeInv, ApartInv, CreatesApart, [NetworkNext]_netVars
  PROVE  ApartInv'
<1>1. ASSUME NEW p \in NetProcs, NEW u \in Users, NEW v \in Vpcs, DropVnet(p, u, v)
      PROVE  ApartInv'
  <2>1. PICK gone \in {0, vnets[v]} : vnets' = [vnets EXCEPT ![v] = gone]
    BY <1>1 DEF DropVnet
  <2>2. Others(p) /\ nreq'[p].op # "create" /\ Exists(v) /\ UNCHANGED vpcs
    BY <1>1, StartEffects DEF DropVnet, Begins
  <2>3. vnets'[v] = gone /\ \A w \in Vpcs : w # v => vnets'[w] = vnets[w]
    BY <2>1, TypeParts DEF TablesTyped
  <2>. QED
    BY <2>1, <2>2, <2>3, ApartAlters
<1>2. ASSUME NEW p \in NetProcs, NetStart(p)
      PROVE  ApartInv'
  <2>1. CASE \A u \in Users, v \in Vpcs : /\ ~DropVnet(p, u, v)
           /\ \A b \in Blocks, g \in Gateways, m \in Modes : ~ReadForCreate(p, u, v, b, g, m)
    BY <1>2, <2>1, StartsApart, ApartStays DEF Others, Exists
  <2>. QED
    BY <1>1, <2>1, ApartCreates
<1>3. ASSUME NEW p \in NetProcs, DropRow(p)
      PROVE  ApartInv'
  <2>1. PICK v \in Vpcs : v = nreq[p].vpc
    BY <1>3, RequestFields DEF DropRow, At, Alters
  <2>2. /\ Ends(p) /\ vpcs'[v] = NoRow /\ UNCHANGED vnets
        /\ \A w \in Vpcs : w # v => vpcs'[w] = vpcs[w]
    BY <1>3, <2>1, Continues, TypeParts DEF DropRow, TablesTyped
  <2>3. CASE Exists(v)
    BY <2>1, <2>2, <2>3, NullsTyped, ApartAlters DEF Ends
  <2>4. CASE ~Exists(v)
    <3>1. vpcs'[v].cidr = vpcs[v].cidr /\ (Exists(v)' <=> Exists(v))
      BY <2>1, <2>2, <2>4, NullsTyped DEF ApartInv, RowsApart, Exists
    <3>. QED
      BY <2>2, <3>1, NullsTyped, ApartStays DEF Ends, Others, Exists
  <2>. QED
    BY <2>3, <2>4
<1>4. ASSUME NEW p \in NetProcs, CommitMode(p)
      PROVE  ApartInv'
  <2>1. \A w \in Vpcs : vpcs'[w].cidr = vpcs[w].cidr /\ (Exists(w)' <=> Exists(w))
    BY <1>4, TypeParts DEF CommitMode, TablesTyped, Exists, Vpc
  <2>2. Ends(p) /\ UNCHANGED vnets
    BY <1>4, Continues DEF CommitMode
  <2>. QED
    BY <2>1, <2>2, NullsTyped, ApartStays DEF Ends, Others
<1>5. ASSUME NEW p \in NetProcs,
             \/ ApplyMode(p) \/ PlugLaunch(p) \/ CommitLaunch(p) \/ ApplyMigrate(p)
             \/ CommitMigrate(p) \/ PlugNic(p) \/ CommitNic(p) \/ CommitUnplug(p)
             \/ ApplyIp(p) \/ CommitIp(p) \/ LoseRequest(p)
      PROVE  ApartInv'
  <2>1. UNCHANGED <<vpcs, vnets>>
    BY <1>5 DEF ApplyMode, PlugLaunch, CommitLaunch, ApplyMigrate, CommitMigrate, PlugNic,
                CommitNic, CommitUnplug, ApplyIp, CommitIp, LoseRequest
  <2>2. Others(p) /\ nreq'[p].op # "create"
    <3>1. CASE End(p)
      BY <3>1, Continues, NullsTyped DEF Ends
    <3>2. CASE \E step : Goto(p, step) /\ nreq[p].op # "create"
      BY <3>2, Continues DEF Moves
    <3>3. CASE PlugNic(p)
      BY <1>5, <3>1, <3>3, TypeParts DEF PlugNic, At, Others, NetRequest
    <3>. QED
      BY <1>5, <3>1, <3>2, <3>3
         DEF ApplyMode, PlugLaunch, CommitLaunch, ApplyMigrate, CommitMigrate,
             CommitNic, CommitUnplug, ApplyIp, CommitIp, LoseRequest, At
  <2>. QED
    BY <2>1, <2>2, ApartStays DEF Others, Exists
<1>6. CASE UNCHANGED <<vpcs, vnets, nreq>>
  BY <1>6, ApartStays DEF Exists
<1>7. CASE \/ \E i \in Insts : LaunchDetached(i) \/ Terminate(i)
           \/ \E u \in Users, v \in Vpcs, h \in Hosts : ReserveStatic(u, v, h)
           \/ \E e \in reserved : ReleaseStatic(e)
           \/ UNCHANGED netVars
  BY <1>6, <1>7 DEF LaunchDetached, Terminate, ReserveStatic, ReleaseStatic, netVars
<1>. QED
  BY <1>2, <1>3, <1>4, <1>5, <1>7, ApartGoesOn DEF NetworkNext, NetContinue

(***************************************************************************)
(* While one VPC is created at a time, no two VNets share a VXLAN tag and  *)
(* no two rows a CIDR, whatever else overlaps or fails: create_vpc takes   *)
(* its tag from the VNets on Proxmox, which outlive rows, and its row is   *)
(* not yet there when the next check of the address plan is made.          *)
(***************************************************************************)
THEOREM NetworksStayApart ==
  ASSUME CreatesApart
  PROVE  NetworkSpec => []NetworksApart
<1>1. ApartInv => NetworksApart
  BY DEF ApartInv, RowsApart, NetworksApart
<1>2. TypeInv /\ ApartInv /\ [NetworkNext]_netVars => ApartInv'
  BY ApartStep
<1>3. NetworkInit => ApartInv
  BY ApartStarts
<1>. QED
  BY <1>1, <1>2, <1>3, TypeInvAlways, PTL DEF NetworkSpec

-----------------------------------------------------------------------------
(* Who works on what *)

\* What the overlap of requests leaves of the guards.
LEMMA OrderlyGuards ==
  ASSUME Orderly
  PROVE  /\ \A i : MayChange(i) => Settled(i)
         /\ \A v : MayUse(v) => ~Changing(v)
         /\ \A v : MayAlter(v) => \A q \in NetProcs :
              nreq[q].vpc # v /\ (nreq[q].inst # NoInst => insts[nreq[q].inst].vpc # v)
         /\ \A v : /\ \A op \in {"launch", "ip"} : MayTake(v, op) => \A o \in Takers : ~InFlight(o, v)
                   /\ \A op \in {"migrate", "reserve"} :
                        MayTake(v, op) => \A o \in {"launch", "add", "ip"} : ~InFlight(o, v)
         /\ \A p : ~LoseRequest(p)
         /\ \A u, w : OwnsOrAdmins(u, w) => u = w
         /\ \A p, u, i, k : UnplugNic(p, u, i, k) => k = LastNic(i)
BY DEF Orderly, MayChange, MayUse, MayAlter, MayTake, LoseRequest, OwnsOrAdmins, UnplugNic, Takers

\* A request goes on or ends, and leaves alone what the others work on.
LEMMA RequestsStay ==
  ASSUME TypeInv, RequestInv, NEW p \in NetProcs, Others(p),
         \/ nreq'[p] = Free
         \/ /\ nreq'[p].op = nreq[p].op /\ nreq'[p].vpc = nreq[p].vpc
            /\ nreq'[p].inst = nreq[p].inst,
         \A q \in NetProcs : q # p \/ nreq'[p] # Free =>
           /\ nreq[q].vpc \in Vpcs => vpcs'[nreq[q].vpc].status = vpcs[nreq[q].vpc].status
           /\ nreq[q].inst \in Insts => /\ insts'[nreq[q].inst].known = insts[nreq[q].inst].known
                                        /\ insts'[nreq[q].inst].vpc = insts[nreq[q].inst].vpc,
         UnknownBare'
  PROVE  RequestInv'
<1>1. \A q \in NetProcs : /\ nreq[q].op \in Takers \union Alters \union {"create"} => nreq[q].vpc \in Vpcs
                          /\ nreq[q].op \in Works => nreq[q].inst \in Insts
  BY RequestFields
<1>2. \A q \in NetProcs :
        \/ nreq'[q] = Free
        \/ /\ nreq'[q].op = nreq[q].op /\ nreq'[q].vpc = nreq[q].vpc /\ nreq'[q].inst = nreq[q].inst
           /\ nreq[q].vpc \in Vpcs => vpcs'[nreq[q].vpc].status = vpcs[nreq[q].vpc].status
           /\ nreq[q].inst \in Insts => /\ insts'[nreq[q].inst].known = insts[nreq[q].inst].known
                                        /\ insts'[nreq[q].inst].vpc = insts[nreq[q].inst].vpc
  BY DEF Others
<1>3. RequestsKnown'
  BY <1>1, <1>2, NullsTyped DEF RequestInv, RequestsKnown, Exists, Takers, Alters, Works
<1>4. OnePerVpc' /\ OnePerInst'
  BY <1>2, NullsTyped DEF RequestInv, OnePerVpc, OnePerInst
<1>5. AltersAlone'
  BY <1>1, <1>2, NullsTyped DEF RequestInv, AltersAlone, Takers, Alters, Works
<1>. QED
  BY <1>3, <1>4, <1>5 DEF RequestInv

LEMMA RequestComes ==
  ASSUME TypeInv, RequestInv, NEW p \in NetProcs, NEW op, NEW step, NEW v \in Vpcs \union {NoVpc},
         NEW i \in Insts \union {NoInst}, NEW k, NEW h, Begins(p, op, step, v, i, k, h),
         UNCHANGED vpcs, v \in Vpcs <=> op \in Takers \union Alters \union {"create"},
         i \in Insts <=> op \in Works,
         op \in Takers \union Alters => Exists(v),
         op = "create" => ~Exists(v) /\ ~InFlight("create", v),
         i \in Insts => Settled(i) /\ insts'[i].known /\ insts'[i].vpc = insts[i].vpc,
         \A j \in Insts \ {i} : insts'[j] = insts[j], UnknownBare',
         op \in Alters => \A q \in NetProcs :
            nreq[q].vpc # v /\ (nreq[q].inst # NoInst => insts[nreq[q].inst].vpc # v),
         op \in Takers => ~Changing(v) /\ (insts[i].vpc \in Vpcs => ~Changing(insts[i].vpc))
  PROVE  RequestInv'
<1>1. \A q \in NetProcs : /\ nreq[q].op \in Takers \union Alters \union {"create"} => nreq[q].vpc \in Vpcs
                          /\ nreq[q].op \in Works <=> nreq[q].inst \in Insts
                          /\ nreq[q].inst \in Insts \union {NoInst}
  BY RequestFields DEF KnowsItself, NetRequest
<1>2. /\ nreq'[p].op = op /\ nreq'[p].vpc = v /\ nreq'[p].inst = i
      /\ \A q \in NetProcs : q # p => nreq'[q] = nreq[q] /\ (nreq[q].inst \in Insts => nreq[q].inst # i)
  BY DEF Begins, Others, Settled
<1>3. RequestsKnown'
  BY <1>1, <1>2 DEF RequestInv, RequestsKnown, Exists, Takers, Alters, Works
<1>4. OnePerVpc' /\ OnePerInst'
  BY <1>1, <1>2, NullsTyped DEF RequestInv, OnePerVpc, OnePerInst, InFlight
<1>5. \A q \in NetProcs : nreq[q].op \in Alters /\ op \in Takers \union Alters \union {"create"} =>
        nreq[q].vpc # v
  BY <1>1 DEF RequestInv, RequestsKnown, Changing, InFlight, Alters
<1>6. \A q \in NetProcs : nreq[q].op \in Alters /\ op \in Takers => insts[i].vpc # nreq[q].vpc
  BY <1>1 DEF Changing, InFlight, Alters
<1>7. AltersAlone'
  <2>. SUFFICES ASSUME NEW q \in NetProcs, NEW s \in NetProcs, nreq'[q].op \in Alters, q # s
                PROVE  /\ nreq'[s].vpc # nreq'[q].vpc
                       /\ nreq'[s].op \in Takers => insts'[nreq'[s].inst].vpc # nreq'[q].vpc
    BY DEF AltersAlone
  <2>1. CASE q = p
    BY <1>1, <1>2, <2>1, NullsTyped DEF Takers, Works
  <2>2. CASE s = p
    BY <1>1, <1>2, <1>5, <1>6, <2>2, NullsTyped DEF Takers, Works, Alters
  <2>3. CASE q # p /\ s # p
    BY <1>1, <1>2, <2>3 DEF RequestInv, AltersAlone, Takers, Works
  <2>. QED
    BY <2>1, <2>2, <2>3
<1>. QED
  BY <1>3, <1>4, <1>7 DEF RequestInv

LEMMA RequestStarts ==
  ASSUME TypeInv, RequestInv, Orderly, NEW p \in NetProcs, NetStart(p)
  PROVE  RequestInv'
<1>. USE NullsTyped DEF Takers, Alters, Works
<1>0. /\ \A i \in Insts : insts[i].vpc \in Vpcs \union {NoVpc} /\ InstOwner[i] \in Users
      /\ \A v \in Vpcs : vpcs[v].owner \in Users => Exists(v)
      /\ UNCHANGED insts => UnknownBare'
  BY ReadsTyped, TypeParts DEF TablesTyped, RequestInv, UnknownBare
<1>a. ASSUME NEW op \in {"create", "drop", "mode"}, NEW step, NEW v \in Vpcs,
             Begins(p, op, step, v, NoInst, 0, 0), UNCHANGED <<vpcs, insts>>,
             op = "create" => ~Exists(v) /\ ~InFlight("create", v),
             op # "create" => Exists(v) /\ MayAlter(v)
      PROVE  RequestInv'
  BY <1>0, <1>a, OrderlyGuards, RequestComes
<1>1. ASSUME NEW u \in Users, NEW v \in Vpcs, NEW b \in Blocks, NEW g \in Gateways, NEW m \in Modes,
             ReadForCreate(p, u, v, b, g, m)
      PROVE  RequestInv'
  BY <1>1, <1>a, StartEffects DEF ReadForCreate
<1>2. ASSUME NEW u \in Users, NEW v \in Vpcs, DropVnet(p, u, v)
      PROVE  RequestInv'
  BY <1>2, <1>a, StartEffects DEF DropVnet
<1>3. ASSUME NEW u \in Users, NEW v \in Vpcs, NEW m \in Modes, ReadForMode(p, u, v, m)
      PROVE  RequestInv'
  BY <1>3, <1>a, StartEffects DEF ReadForMode
<1>4. ASSUME NEW i \in Insts, NEW v \in Vpcs, ReadForLaunch(p, i, v)
      PROVE  RequestInv'
  <2>1. Begins(p, "launch", "read", v, i, 0, NextAddress(v)) /\ UNCHANGED vpcs
    BY <1>4, StartEffects DEF ReadForLaunch
  <2>2. Settled(i) /\ ~Changing(v) /\ Exists(v)
    BY <1>4, OrderlyGuards DEF ReadForLaunch, Exists
  <2>3. insts'[i].known /\ insts'[i].vpc = insts[i].vpc /\ \A j \in Insts \ {i} : insts'[j] = insts[j]
    BY <1>4, TypeParts DEF ReadForLaunch, TablesTyped, Instance
  <2>4. insts[i].vpc = NoVpc /\ UnknownBare'
    BY <1>4, <2>3 DEF ReadForLaunch, RequestInv, UnknownBare
  <2>. QED
    BY <2>1, <2>2, <2>3, <2>4, RequestComes
<1>5. ASSUME NEW u \in Users, NEW i \in Insts, NEW v \in Vpcs, ReadForMigrate(p, u, i, v)
      PROVE  RequestInv'
  <2>1. Begins(p, "migrate", "read", v, i, 0, nreq'[p].ip) /\ UNCHANGED <<vpcs, insts>>
    BY <1>5, StartEffects DEF ReadForMigrate
  <2>2. /\ Settled(i) /\ ~Changing(v) /\ insts[i].known
        /\ insts[i].vpc \in Vpcs => ~Changing(insts[i].vpc)
    BY <1>5, OrderlyGuards DEF ReadForMigrate, MayLeave
  <2>3. vpcs[v].owner = u /\ Exists(v)
    BY <1>0, <1>5 DEF ReadForMigrate
  <2>. QED
    BY <1>0, <2>1, <2>2, <2>3, RequestComes
<1>6. ASSUME NEW u \in Users, NEW i \in Insts, NEW v \in Vpcs, ReadForAdd(p, u, i, v)
      PROVE  RequestInv'
  <2>1. Begins(p, "add", "read", v, i, LastNic(i) + 1, 0) /\ UNCHANGED <<vpcs, insts>>
    BY <1>6, StartEffects DEF ReadForAdd
  <2>2. /\ Settled(i) /\ ~Changing(v) /\ insts[i].known
        /\ insts[i].vpc \in Vpcs => ~Changing(insts[i].vpc)
    BY <1>6, OrderlyGuards DEF ReadForAdd
  <2>3. vpcs[v].owner = u /\ Exists(v)
    BY <1>0, <1>6 DEF ReadForAdd
  <2>. QED
    BY <1>0, <2>1, <2>2, <2>3, RequestComes
<1>7. ASSUME NEW u \in Users, NEW i \in Insts, NEW k \in Nics, UnplugNic(p, u, i, k)
      PROVE  RequestInv'
  <2>1. Begins(p, "remove", "done", NoVpc, i, k, 0) /\ UNCHANGED <<vpcs, insts>>
    BY <1>7, StartEffects DEF UnplugNic
  <2>2. Settled(i) /\ insts[i].known
    BY <1>7, OrderlyGuards DEF UnplugNic
  <2>. QED
    BY <1>0, <2>1, <2>2, RequestComes
<1>8. ASSUME NEW i \in Insts, NEW h \in Hosts, ReadForIp(p, i, h)
      PROVE  RequestInv'
  <2>1. insts[i].vpc \in Vpcs
    BY <1>8 DEF ReadForIp
  <2>2. Begins(p, "ip", "read", insts[i].vpc, i, 0, h) /\ UNCHANGED <<vpcs, insts>>
    BY <1>8, StartEffects DEF ReadForIp
  <2>3. Settled(i) /\ ~Changing(insts[i].vpc) /\ insts[i].known
    BY <1>8, OrderlyGuards DEF ReadForIp
  <2>4. vpcs[insts[i].vpc].owner \in Users /\ Exists(insts[i].vpc)
    BY <1>0, <1>8, <2>1 DEF ReadForIp
  <2>. QED
    BY <1>0, <2>1, <2>2, <2>3, <2>4, RequestComes
<1>9. ASSUME NEW u \in Users, NEW i \in Insts, NEW m \in Modes, ReadForInstanceMode(p, u, i, m)
      PROVE  RequestInv'
  BY <1>0, <1>3, <1>9 DEF ReadForInstanceMode
<1>. QED
  BY <1>1, <1>2, <1>3, <1>4, <1>5, <1>6, <1>7, <1>8, <1>9 DEF NetStart

\* The rows that the requests of others name stay.
LEMMA RequestGoes ==
  ASSUME TypeInv, RequestInv, NEW p \in NetProcs, NetContinue(p)
  PROVE  RequestInv'
<1>. DEFINE r == nreq[p]
<1>0. /\ UNCHANGED insts => UnknownBare'
      /\ r.op \in Takers \union Alters \union {"create"} => r.vpc \in Vpcs
      /\ r.op \in Works => r.inst \in Insts
  BY RequestFields DEF RequestInv, UnknownBare
<1>a. ASSUME UNCHANGED <<vpcs, insts>>, Ends(p) \/ \E step : Moves(p, step)
      PROVE  RequestInv'
  BY <1>0, <1>a, RequestsStay DEF Ends, Moves
<1>b. ASSUME Ends(p), NEW v \in Vpcs, r.op = "drop" \/ r.op = "create", v = r.vpc, UNCHANGED insts,
             \A w \in Vpcs : w # v => vpcs'[w] = vpcs[w]
      PROVE  RequestInv'
  <2>1. \A q \in NetProcs : q # p => nreq[q].vpc # v
    <3>1. CASE r.op = "drop"
      BY <1>b, <3>1 DEF RequestInv, AltersAlone, Alters
    <3>2. CASE r.op = "create"
      <4>1. ~Exists(v)
        BY <1>b, <3>2 DEF RequestInv, RequestsKnown
      <4>2. ASSUME NEW q \in NetProcs, q # p, nreq[q].vpc = v
            PROVE  FALSE
        <5>1. nreq[q].op \in Takers \union Alters \union {"create"}
          BY <4>2, RequestFields DEF KnowsItself
        <5>. QED
          BY <1>b, <3>2, <4>1, <4>2, <5>1 DEF RequestInv, RequestsKnown, OnePerVpc
      <4>. QED
        BY <4>2
    <3>. QED
      BY <1>b, <3>1, <3>2
  <2>. QED
    BY <1>0, <1>b, <2>1, RequestsStay DEF Ends
<1>c. ASSUME Ends(p), r.op \in Works, UNCHANGED vpcs, NEW i \in Insts, i = r.inst,
             insts'[i].known, \A j \in Insts : j # i => insts'[j] = insts[j]
      PROVE  RequestInv'
  <2>1. \A q \in NetProcs : q # p => nreq[q].inst # r.inst
    BY <1>0, <1>c, NullsTyped DEF RequestInv, OnePerInst
  <2>2. UnknownBare'
    BY <1>c DEF RequestInv, UnknownBare
  <2>. QED
    BY <1>0, <1>c, <2>1, <2>2, RequestsStay DEF Ends
<1>1. CASE FlushCreate(p)
  BY <1>1, <1>a, Continues DEF FlushCreate
<1>2. CASE BuildVnet(p)
  <2>1. /\ UNCHANGED <<vpcs, insts>> /\ Others(p)
        /\ nreq'[p].op = r.op /\ nreq'[p].vpc = r.vpc /\ nreq'[p].inst = r.inst
    BY <1>2, TypeParts DEF BuildVnet, NetRequest, Others
  <2>. QED
    BY <1>0, <2>1, RequestsStay
<1>3. CASE CommitCreate(p)
  <2>1. r.op = "create" /\ Ends(p) /\ UNCHANGED insts
    BY <1>3, Continues DEF CommitCreate, At
  <2>2. PICK v \in Vpcs : v = r.vpc
    BY <1>0, <2>1
  <2>3. \A w \in Vpcs : w # v => vpcs'[w] = vpcs[w]
    BY <1>3, <2>2, TypeParts DEF CommitCreate, TablesTyped
  <2>. QED
    BY <1>b, <2>1, <2>2, <2>3
<1>4. CASE DropRow(p)
  <2>1. r.op = "drop" /\ Ends(p) /\ UNCHANGED insts
    BY <1>4, Continues DEF DropRow, At
  <2>2. PICK v \in Vpcs : v = r.vpc
    BY <1>0, <2>1 DEF Alters
  <2>3. \A w \in Vpcs : w # v => vpcs'[w] = vpcs[w]
    BY <1>4, <2>2, TypeParts DEF DropRow, TablesTyped
  <2>. QED
    BY <1>b, <2>1, <2>2, <2>3
<1>5. CASE ApplyMode(p) \/ PlugLaunch(p) \/ ApplyMigrate(p) \/ ApplyIp(p) \/ CommitIp(p)
  BY <1>5, <1>a, Continues DEF ApplyMode, PlugLaunch, ApplyMigrate, ApplyIp, CommitIp
<1>6. CASE CommitMode(p)
  <2>1. Ends(p) /\ UNCHANGED insts
    BY <1>6, Continues DEF CommitMode
  <2>2. \A w \in Vpcs : vpcs'[w].status = vpcs[w].status
    BY <1>6, TypeParts DEF CommitMode, TablesTyped, Vpc
  <2>. QED
    BY <1>0, <2>1, <2>2, RequestsStay DEF Ends
<1>7. CASE CommitLaunch(p) \/ CommitMigrate(p) \/ CommitNic(p) \/ CommitUnplug(p)
  <2>1. r.op \in Works /\ Ends(p) /\ UNCHANGED vpcs
    BY <1>7, Continues DEF CommitLaunch, CommitMigrate, CommitNic, CommitUnplug, At, Works
  <2>2. PICK i \in Insts : i = r.inst
    BY <1>0, <2>1
  <2>3. insts[i].known /\ insts[i] \in Instance /\ insts \in [Insts -> Instance]
    BY <2>1, <2>2, TypeParts DEF RequestInv, RequestsKnown, TablesTyped
  <2>4. insts'[i].known /\ \A j \in Insts : j # i => insts'[j] = insts[j]
    BY <1>7, <2>2, <2>3 DEF CommitLaunch, CommitMigrate, CommitNic, CommitUnplug, Instance
  <2>. QED
    BY <1>c, <2>1, <2>2, <2>4
<1>8. CASE PlugNic(p)
  <2>1. /\ UNCHANGED <<vpcs, insts>> /\ Others(p)
        /\ \/ nreq'[p] = Free
           \/ nreq'[p].op = r.op /\ nreq'[p].vpc = r.vpc /\ nreq'[p].inst = r.inst
    BY <1>8, Continues, TypeParts DEF PlugNic, Ends, NetRequest, Others
  <2>. QED
    BY <1>0, <2>1, RequestsStay
<1>. QED
  BY <1>1, <1>2, <1>3, <1>4, <1>5, <1>6, <1>7, <1>8 DEF NetContinue

LEMMA RequestStep ==
  ASSUME TypeInv, RequestInv, Orderly, [NetworkNext]_netVars
  PROVE  RequestInv'
<1>1. ASSUME UNCHANGED <<vpcs, insts, nreq>>
      PROVE  RequestInv'
  BY <1>1 DEF RequestInv, RequestsKnown, OnePerVpc, OnePerInst, AltersAlone, UnknownBare, Exists
<1>2. ASSUME NEW i \in Insts, LaunchDetached(i) \/ Terminate(i)
      PROVE  RequestInv'
  <2>1. /\ UNCHANGED <<vpcs, nreq>> /\ Settled(i)
        /\ \A j \in Insts : j # i => insts'[j] = insts[j]
        /\ insts'[i].known \/ insts'[i] = Unknown
    BY <1>2, OrderlyGuards, TypeParts DEF LaunchDetached, Terminate, TablesTyped, Instance
  <2>2. \A q \in NetProcs : nreq[q].op \in Takers \union Works => nreq[q].inst \in Insts /\ nreq[q].inst # i
    BY <2>1, RequestFields DEF Settled, Takers, Works
  <2>3. RequestsKnown' /\ OnePerVpc' /\ OnePerInst'
    BY <2>1, <2>2 DEF RequestInv, RequestsKnown, OnePerVpc, OnePerInst, Exists
  <2>4. AltersAlone' /\ UnknownBare'
    BY <2>1, <2>2 DEF RequestInv, AltersAlone, UnknownBare
  <2>. QED
    BY <2>3, <2>4 DEF RequestInv
<1>3. CASE \/ \E u \in Users, v \in Vpcs, h \in Hosts : ReserveStatic(u, v, h)
           \/ \E e \in reserved : ReleaseStatic(e)
           \/ UNCHANGED netVars
  BY <1>1, <1>3 DEF ReserveStatic, ReleaseStatic, netVars
<1>. QED
  BY <1>2, <1>3, RequestStarts, RequestGoes, OrderlyGuards DEF NetworkNext

LEMMA RequestBegins == NetworkInit => RequestInv
BY NullsTyped DEF NetworkInit, RequestInv, RequestsKnown, OnePerVpc, OnePerInst, AltersAlone,
   UnknownBare, Takers, Alters, Works

-----------------------------------------------------------------------------
(* Who takes which address *)

LEMMA ZeroFree ==
  ASSUME TypeInv
  PROVE  /\ \A v : 0 \notin Taken(v)
         /\ \A v : Taken(v) \subseteq Hosts
BY TypeParts, NetworkConstants DEF TablesTyped, Taken, Reservation, Hosts

\* No address is newly taken.
LEMMA AddressesStay ==
  ASSUME TypeInv, AddressInv, NEW p \in NetProcs, Others(p), reserved' \subseteq reserved,
         \/ nreq'[p].op \notin Takers
         \/ /\ nreq'[p].op \in {"launch", "ip"} /\ nreq'[p].op = nreq[p].op
            /\ nreq'[p].vpc = nreq[p].vpc /\ nreq'[p].ip = nreq[p].ip /\ nreq'[p].inst = nreq[p].inst
  PROVE  AddressInv'
<1>1. TakersAlone'
  BY DEF Others, AddressInv, TakersAlone, At, Takers
<1>2. TakersFresh'
  <2>1. \A v : (Taken(v))' \subseteq Taken(v)
    BY DEF Taken
  <2>. QED
    BY <2>1 DEF Others, AddressInv, TakersFresh, At, Takers
<1>3. MigratesDiffer'
  BY DEF Others, AddressInv, MigratesDiffer, Holds, At, Takers
<1>4. ReservedOnce'
  BY DEF AddressInv, ReservedOnce
<1>. QED
  BY <1>1, <1>2, <1>3, <1>4 DEF AddressInv

\* A handler is going to take an address.
LEMMA AddressComes ==
  ASSUME TypeInv, AddressInv, NEW p \in NetProcs, NEW op \in Takers, NEW v \in Vpcs, NEW i, NEW k, NEW h,
         Begins(p, op, "read", v, i, k, h), UNCHANGED reserved,
         op \in {"launch", "ip"} => \A o \in Takers : ~InFlight(o, v),
         op = "migrate" => \A o \in {"launch", "add", "ip"} : ~InFlight(o, v),
         op = "launch" => h \notin Taken(v),
         op = "ip" => \A e \in reserved : e.vpc = v /\ e.ip = h => e.inst = i
  PROVE  AddressInv'
<1>1. /\ nreq'[p].op = op /\ nreq'[p].step = "read" /\ nreq'[p].vpc = v
      /\ nreq'[p].inst = i /\ nreq'[p].ip = h /\ \A q \in NetProcs : q # p => nreq'[q] = nreq[q]
  BY DEF Begins, Others
<1>2. TakersAlone'
  <2>. SUFFICES ASSUME NEW q \in NetProcs, NEW s \in NetProcs, q # s, nreq'[q].op \in Takers,
                       nreq'[s].op \in Takers, nreq'[q].vpc = nreq'[s].vpc
                PROVE  \/ nreq'[q].op = "migrate" /\ nreq'[s].op = "migrate"
                       \/ At(q, "add", "read")' \/ At(s, "add", "read")'
    BY DEF TakersAlone, Takers
  <2>1. CASE q # p /\ s # p
    BY <1>1, <2>1 DEF AddressInv, TakersAlone, At
  <2>2. CASE q = p
    BY <1>1, <2>2 DEF InFlight, At, Takers
  <2>3. CASE s = p
    BY <1>1, <2>3 DEF InFlight, At, Takers
  <2>. QED
    BY <2>1, <2>2, <2>3
<1>3. TakersFresh'
  <2>1. \A w : Taken(w)' = Taken(w)
    BY DEF Taken
  <2>. QED
    BY <1>1, <2>1 DEF AddressInv, TakersFresh, At
<1>4. MigratesDiffer'
  BY <1>1 DEF AddressInv, MigratesDiffer, Holds, At
<1>. QED
  BY <1>2, <1>3, <1>4 DEF AddressInv, ReservedOnce

\* An entry is inserted, and whoever made it ends.
LEMMA AddressTaken ==
  ASSUME TypeInv, AddressInv, \A q \in NetProcs : nreq'[q] = nreq[q] \/ nreq'[q] = Free,
         NEW v, NEW h, NEW i, NEW k, reserved' \subseteq reserved \union {Entry(v, h, i, k)},
         \A e \in reserved : e \in reserved' /\ e.vpc = v /\ e.ip = h => e = Entry(v, h, i, k),
         \A q \in NetProcs : nreq'[q] # Free /\ nreq[q].op \in Takers /\ nreq[q].vpc = v =>
           At(q, "add", "read") \/ (nreq[q].op = "migrate" /\ ~Holds(q, v, h))
  PROVE  AddressInv'
<1>1. TakersAlone'
  BY NullsTyped DEF AddressInv, TakersAlone, At, Takers
<1>2. MigratesDiffer'
  BY NullsTyped DEF AddressInv, MigratesDiffer, Holds, At
<1>3. ReservedOnce'
  BY DEF AddressInv, ReservedOnce, Entry
<1>4. \A e \in reserved' : e \in reserved \/ (e.vpc = v /\ e.ip = h)
  BY DEF Entry
<1>5. TakersFresh'
  <2>1. ASSUME NEW q \in NetProcs, nreq'[q] # Free
        PROVE  LET r == nreq[q] IN
               /\ r.op = "launch" \/ At(q, "add", "done") \/ At(q, "migrate", "done")
                    => \A e \in reserved' : ~(e.vpc = r.vpc /\ e.ip = r.ip)
               /\ r.op = "ip" => \A e \in reserved' : e.vpc = r.vpc /\ e.ip = r.ip => e.inst = r.inst
    <3>1. nreq[q].op \in Takers /\ nreq[q].vpc = v =>
            At(q, "add", "read") \/ (nreq[q].op = "migrate" /\ ~Holds(q, v, h))
      BY <2>1
    <3>2. LET r == nreq[q] IN
          /\ r.op = "launch" \/ At(q, "add", "done") \/ At(q, "migrate", "done")
               => \A e \in reserved : ~(e.vpc = r.vpc /\ e.ip = r.ip)
          /\ r.op = "ip" => \A e \in reserved : e.vpc = r.vpc /\ e.ip = r.ip => e.inst = r.inst
      BY DEF AddressInv, TakersFresh, Taken
    <3>. QED
      BY <1>4, <3>1, <3>2 DEF Holds, At, Takers
  <2>. QED
    BY <2>1, NullsTyped DEF TakersFresh, At, Taken
<1>. QED
  BY <1>1, <1>2, <1>3, <1>5 DEF AddressInv

\* Whoever commits an address finds the network there and the address free.
LEMMA InsertsSucceed ==
  ASSUME TypeInv, RequestInv, AddressInv, NEW p \in NetProcs
  PROVE  LET r == nreq[p] IN
         /\ r.op = "launch" \/ At(p, "add", "done") \/ At(p, "migrate", "done") => Insertable(r.vpc, r.ip)
         /\ r.op = "ip" => /\ Exists(r.vpc)
                           /\ \A e \in reserved : e.vpc = r.vpc /\ e.ip = r.ip => e.inst = r.inst
BY DEF RequestInv, RequestsKnown, AddressInv, TakersFresh, Insertable, At, Takers

LEMMA AddressStarts ==
  ASSUME TypeInv, RequestInv, AddressInv, Orderly, NEW p \in NetProcs, NetStart(p)
  PROVE  AddressInv'
<1>1. ASSUME NEW u \in Users, NEW v \in Vpcs, NEW b \in Blocks, NEW g \in Gateways, NEW m \in Modes,
             ReadForCreate(p, u, v, b, g, m)
      PROVE  AddressInv'
  BY <1>1, StartEffects, AddressesStay DEF ReadForCreate, Begins, Takers
<1>2. ASSUME NEW u \in Users, NEW v \in Vpcs, NEW m \in Modes, ReadForMode(p, u, v, m)
      PROVE  AddressInv'
  BY <1>2, StartEffects, AddressesStay DEF ReadForMode, Begins, Takers
<1>3. ASSUME NEW u \in Users, NEW v \in Vpcs, DropVnet(p, u, v)
      PROVE  AddressInv'
  <2>1. Begins(p, "drop", "done", v, NoInst, 0, 0) /\ UNCHANGED reserved
    BY <1>3, StartEffects DEF DropVnet
  <2>. QED
    BY <2>1, AddressesStay DEF Begins, Takers
<1>4. ASSUME NEW i \in Insts, NEW v \in Vpcs, ReadForLaunch(p, i, v)
      PROVE  AddressInv'
  <2>1. Begins(p, "launch", "read", v, i, 0, NextAddress(v)) /\ UNCHANGED reserved
    BY <1>4, StartEffects DEF ReadForLaunch
  <2>2. \A o \in Takers : ~InFlight(o, v)
    BY <1>4, OrderlyGuards DEF ReadForLaunch
  <2>3. NextAddress(v) \notin Taken(v)
    BY AddressesFree, ZeroFree
  <2>. QED
    BY <2>1, <2>2, <2>3, AddressComes DEF Takers
<1>5. ASSUME NEW u \in Users, NEW i \in Insts, NEW v \in Vpcs, ReadForMigrate(p, u, i, v)
      PROVE  AddressInv'
  <2>1. Begins(p, "migrate", "read", v, i, 0, nreq'[p].ip) /\ UNCHANGED reserved
    BY <1>5, StartEffects DEF ReadForMigrate
  <2>2. \A o \in {"launch", "add", "ip"} : ~InFlight(o, v)
    BY <1>5, OrderlyGuards DEF ReadForMigrate
  <2>. QED
    BY <2>1, <2>2, AddressComes DEF Takers
<1>6. ASSUME NEW u \in Users, NEW i \in Insts, NEW v \in Vpcs, ReadForAdd(p, u, i, v)
      PROVE  AddressInv'
  <2>1. Begins(p, "add", "read", v, i, LastNic(i) + 1, 0) /\ UNCHANGED reserved
    BY <1>6, StartEffects DEF ReadForAdd
  <2>. QED
    BY <2>1, AddressComes DEF Takers
<1>7. ASSUME NEW u \in Users, NEW i \in Insts, NEW k \in Nics, UnplugNic(p, u, i, k)
      PROVE  AddressInv'
  BY <1>7, StartEffects, AddressesStay DEF UnplugNic, Begins, Takers
<1>8. ASSUME NEW i \in Insts, NEW h \in Hosts, ReadForIp(p, i, h)
      PROVE  AddressInv'
  <2>1. insts[i].vpc \in Vpcs
    BY <1>8 DEF ReadForIp
  <2>2. Begins(p, "ip", "read", insts[i].vpc, i, 0, h) /\ UNCHANGED reserved
    BY <1>8, StartEffects DEF ReadForIp
  <2>3. /\ \A o \in Takers : ~InFlight(o, insts[i].vpc)
        /\ \A e \in reserved : e.vpc = insts[i].vpc /\ e.ip = h => e.inst = i
    BY <1>8, OrderlyGuards DEF ReadForIp
  <2>. QED
    BY <2>1, <2>2, <2>3, AddressComes DEF Takers
<1>9. ASSUME NEW u \in Users, NEW i \in Insts, NEW m \in Modes, ReadForInstanceMode(p, u, i, m)
      PROVE  AddressInv'
  BY <1>2, <1>9, ReadsTyped DEF ReadForInstanceMode
<1>. QED
  BY <1>1, <1>2, <1>3, <1>4, <1>5, <1>6, <1>7, <1>8, <1>9 DEF NetStart

\* A step of a request at which it comes to hold an address.
LEMMA AddressHeld ==
  ASSUME TypeInv, AddressInv, NEW p \in NetProcs, Others(p), UNCHANGED reserved,
         nreq[p].op \in {"add", "migrate"}, nreq'[p].op = nreq[p].op,
         nreq'[p].step = "done", nreq'[p].vpc = nreq[p].vpc, nreq'[p].ip \notin Taken(nreq[p].vpc),
         nreq[p].op = "add" => \A q \in NetProcs \ {p} :
            nreq[q].op \in Takers => nreq[q].vpc # nreq[p].vpc,
         nreq[p].op = "migrate" =>
            nreq'[p].ip = nreq[p].ip /\ ~Awaited(p, nreq[p].vpc, nreq[p].ip)
  PROVE  AddressInv'
<1>1. TakersAlone'
  BY DEF Others, AddressInv, TakersAlone, At, Takers
<1>2. \A v : Taken(v)' = Taken(v)
  BY DEF Taken
<1>3. TakersFresh'
  BY <1>2 DEF Others, AddressInv, TakersFresh, At
<1>4. MigratesDiffer'
  BY DEF Others, AddressInv, MigratesDiffer, Awaited, Holds, At
<1>. QED
  BY <1>1, <1>3, <1>4 DEF AddressInv, ReservedOnce

LEMMA AddressGoes ==
  ASSUME TypeInv, RequestInv, AddressInv, Orderly, NEW p \in NetProcs, NetContinue(p)
  PROVE  AddressInv'
<1>. DEFINE r == nreq[p]
<1>0. /\ \A q \in NetProcs : q # p /\ nreq[q].op \in Takers /\ nreq[q].vpc = r.vpc /\ r.op \in Takers =>
           \/ r.op = "migrate" /\ nreq[q].op = "migrate"
           \/ At(p, "add", "read") \/ At(q, "add", "read")
      /\ Free.op \notin Takers
  BY NullsTyped DEF AddressInv, TakersAlone, Takers
<1>1. CASE FlushCreate(p) \/ CommitCreate(p) \/ DropRow(p) \/ ApplyMode(p) \/ CommitMode(p)
           \/ PlugLaunch(p) \/ CommitUnplug(p) \/ ApplyIp(p)
  <2>1. reserved' \subseteq reserved
    BY <1>1 DEF FlushCreate, CommitCreate, DropRow, ApplyMode, CommitMode, PlugLaunch, CommitUnplug, ApplyIp
  <2>2. \/ Ends(p)
        \/ (\E step : Moves(p, step)) /\ r.op \in {"create", "mode", "launch", "ip"}
    BY <1>1, Continues
       DEF FlushCreate, CommitCreate, DropRow, ApplyMode, CommitMode, PlugLaunch, CommitUnplug, ApplyIp, At
  <2>. QED
    BY <1>0, <2>1, <2>2, AddressesStay DEF Ends, Moves, Takers
<1>2. CASE BuildVnet(p)
  <2>1. Others(p) /\ nreq'[p].op = "create" /\ UNCHANGED reserved
    BY <1>2, TypeParts DEF BuildVnet, At, NetRequest, Others
  <2>. QED
    BY <2>1, AddressesStay DEF Takers
<1>3. CASE CommitLaunch(p)
  <2>1. r.op = "launch" /\ r.op \in Takers /\ Ends(p) /\ r.ip \notin Taken(r.vpc)
    BY <1>3, Continues DEF CommitLaunch, AddressInv, TakersFresh, Takers
  <2>2. reserved' \subseteq reserved \union {Entry(r.vpc, r.ip, r.inst, 0)}
    BY <1>3 DEF CommitLaunch
  <2>3. \A e \in reserved : ~(e.vpc = r.vpc /\ e.ip = r.ip)
    BY <2>1 DEF Taken
  <2>. QED
    BY <1>0, <2>1, <2>2, <2>3, AddressTaken DEF Ends, Others, At
<1>4. CASE ApplyMigrate(p)
  <2>1. CASE Ends(p)
    BY <1>0, <1>4, <2>1, AddressesStay DEF ApplyMigrate, Ends
  <2>2. CASE Moves(p, "done") /\ Insertable(r.vpc, r.ip)
    BY <1>4, <2>2, AddressHeld DEF ApplyMigrate, At, Moves, Insertable
  <2>. QED
    BY <1>4, <2>1, <2>2, Continues DEF ApplyMigrate
<1>5. CASE CommitMigrate(p)
  <2>1. At(p, "migrate", "done") /\ Ends(p) /\ r.ip \notin Taken(r.vpc) /\ r.op \in Takers
    BY <1>5, Continues DEF CommitMigrate, AddressInv, TakersFresh, At, Takers
  <2>2. reserved' \subseteq reserved \union {Entry(r.vpc, r.ip, r.inst, 0)}
    BY <1>5 DEF CommitMigrate
  <2>3. \A e \in reserved : ~(e.vpc = r.vpc /\ e.ip = r.ip)
    BY <2>1 DEF Taken
  <2>4. \A q \in NetProcs : q # p => ~Holds(q, r.vpc, r.ip)
    BY <2>1 DEF AddressInv, MigratesDiffer
  <2>. QED
    BY <1>0, <2>1, <2>2, <2>3, <2>4, AddressTaken DEF Ends, Others, At
<1>6. CASE PlugNic(p)
  <2>1. CASE Ends(p)
    BY <1>0, <1>6, <2>1, AddressesStay DEF PlugNic, Ends
  <2>2. CASE nreq' = [nreq EXCEPT ![p].step = "done", ![p].ip = NextAddress(r.vpc)]
    <3>1. /\ Others(p) /\ nreq'[p].op = r.op /\ nreq'[p].step = "done" /\ nreq'[p].vpc = r.vpc
          /\ nreq'[p].ip = NextAddress(r.vpc)
      BY <2>2, TypeParts DEF Others, NetRequest
    <3>2. r.op = "add" /\ UNCHANGED reserved
      BY <1>6 DEF PlugNic, At
    <3>3. \A q \in NetProcs \ {p} : nreq[q].op \in Takers => nreq[q].vpc # r.vpc
      BY <1>6 DEF PlugNic, Orderly
    <3>4. NextAddress(r.vpc) \notin Taken(r.vpc)
      BY AddressesFree, ZeroFree
    <3>. QED
      BY <3>1, <3>2, <3>3, <3>4, AddressHeld
  <2>. QED
    BY <1>6, <2>1, <2>2, Continues DEF PlugNic
<1>7. CASE CommitNic(p)
  <2>1. At(p, "add", "done") /\ Ends(p) /\ r.ip \notin Taken(r.vpc) /\ r.op \in Takers
    BY <1>7, Continues DEF CommitNic, AddressInv, TakersFresh, At, Takers
  <2>2. reserved' \subseteq reserved \union {Entry(r.vpc, r.ip, r.inst, r.nic)}
    BY <1>7 DEF CommitNic
  <2>3. \A e \in reserved : ~(e.vpc = r.vpc /\ e.ip = r.ip)
    BY <2>1 DEF Taken
  <2>. QED
    BY <1>0, <2>1, <2>2, <2>3, AddressTaken DEF Ends, Others, At
<1>8. CASE CommitIp(p)
  <2>1. /\ r.op = "ip" /\ Ends(p) /\ r.op \in Takers
        /\ \A e \in reserved : e.vpc = r.vpc /\ e.ip = r.ip => e.inst = r.inst
    BY <1>8, Continues DEF CommitIp, AddressInv, TakersFresh, At, Takers
  <2>2. CASE UNCHANGED reserved
    BY <1>0, <2>1, <2>2, AddressesStay DEF Ends
  <2>3. CASE reserved' = {e \in reserved : ~(e.inst = r.inst /\ e.vpc = r.vpc)}
                           \union {Entry(r.vpc, r.ip, r.inst, 0)}
    <3>1. \A e \in reserved : e \in reserved' /\ e.vpc = r.vpc /\ e.ip = r.ip => e = Entry(r.vpc, r.ip, r.inst, 0)
      BY <2>1, <2>3
    <3>. QED
      BY <1>0, <2>1, <2>3, AddressTaken DEF Ends, Others, At
  <2>. QED
    BY <1>8, <2>2, <2>3 DEF CommitIp
<1>. QED
  BY <1>1, <1>2, <1>3, <1>4, <1>5, <1>6, <1>7, <1>8 DEF NetContinue

LEMMA AddressStep ==
  ASSUME TypeInv, RequestInv, AddressInv, Orderly, [NetworkNext]_netVars
  PROVE  AddressInv'
<1>1. ASSUME UNCHANGED nreq, reserved' \subseteq reserved
      PROVE  AddressInv'
  <2>1. \A v : Taken(v)' \subseteq Taken(v)
    BY <1>1 DEF Taken
  <2>2. TakersFresh'
    BY <1>1, <2>1 DEF AddressInv, TakersFresh, At
  <2>3. TakersAlone' /\ MigratesDiffer' /\ ReservedOnce'
    BY <1>1 DEF AddressInv, TakersAlone, MigratesDiffer, ReservedOnce, Holds, At
  <2>. QED
    BY <2>2, <2>3 DEF AddressInv
<1>2. ASSUME NEW u \in Users, NEW v \in Vpcs, NEW h \in Hosts, ReserveStatic(u, v, h)
      PROVE  AddressInv'
  <2>1. /\ UNCHANGED nreq /\ reserved' = reserved \union {Entry(v, h, NoInst, OwnNic)}
        /\ h \notin Taken(v) /\ \A q \in NetProcs : ~Holds(q, v, h)
    BY <1>2 DEF ReserveStatic, Insertable
  <2>2. \A o \in {"launch", "add", "ip"} : ~InFlight(o, v)
    BY <1>2, OrderlyGuards DEF ReserveStatic
  <2>3. \A e \in reserved : ~(e.vpc = v /\ e.ip = h)
    BY <2>1 DEF Taken
  <2>4. \A q \in NetProcs : nreq[q].op \in Takers /\ nreq[q].vpc = v =>
           nreq[q].op = "migrate" /\ ~Holds(q, v, h)
    BY <2>1, <2>2 DEF InFlight, Takers
  <2>. QED
    BY <2>1, <2>3, <2>4, AddressTaken
<1>3. CASE \/ \E i \in Insts : LaunchDetached(i) \/ Terminate(i)
           \/ \E e \in reserved : ReleaseStatic(e)
           \/ UNCHANGED netVars
  BY <1>1, <1>3 DEF LaunchDetached, Terminate, ReleaseStatic, netVars
<1>. QED
  BY <1>2, <1>3, AddressStarts, AddressGoes, OrderlyGuards DEF NetworkNext

LEMMA AddressBegins == NetworkInit => AddressInv
BY NullsTyped DEF NetworkInit, AddressInv, TakersAlone, TakersFresh, MigratesDiffer, ReservedOnce,
   At, Takers

-----------------------------------------------------------------------------
(* Which NIC is on which network *)

\* What specs says of an instance, as a typed sequence.
LEMMA SpecsTyped ==
  ASSUME TypeInv, NEW i \in Insts
  PROVE  /\ insts[i] \in Instance /\ insts[i].second \in Seq(Vpcs) /\ Len(insts[i].second) \in Nat
         /\ insts[i].vpc \in Vpcs \union {NoVpc}
         /\ \A k \in Nics : Named(i, k) \in Vpcs \union {NoVpc} /\ nics[i][k] \in Nic
         /\ \A k \in Nics \ {0} : Named(i, k) # NoVpc <=> k <= Len(insts[i].second)
         /\ 0 \in Nics /\ MaxNic \in Nat /\ Nics = 0 .. MaxNic
<1>1. insts[i] \in Instance /\ insts[i].second \in Seq(Vpcs) /\ MaxNic \in Nat /\ NoVpc \notin Vpcs
  BY TypeParts, NetworkConstants DEF TablesTyped, Instance
<1>2. Len(insts[i].second) \in Nat
      /\ \A k \in 1 .. Len(insts[i].second) : insts[i].second[k] \in Vpcs
  BY <1>1, LenProperties, ElementOfSeq
<1>3. \A k \in Nics \ {0} : k <= Len(insts[i].second) => k \in 1 .. Len(insts[i].second)
  BY <1>1, <1>2 DEF Nics
<1>. QED
  BY <1>1, <1>2, <1>3, ReadsTyped DEF Named, Instance, Nics

\* Once nobody works on an instance, the NICs are those that specs names.
LEMMA NicsSettled ==
  ASSUME TypeInv, NicInv, NEW i \in Insts, Settled(i)
  PROVE  /\ \A k \in Nics : ~Worked(i, k) /\ nics[i][k].vpc = Named(i, k)
         /\ LastNic(i) = Len(insts[i].second)
<1>1. \A k \in Nics : ~Worked(i, k)
  BY DEF Settled, Worked
<1>2. \A k \in Nics : nics[i][k].vpc = Named(i, k) /\ (nics[i][k].vpc = NoVpc => nics[i][k] = Unplugged)
  BY <1>1 DEF NicInv, NicsNamed
<1>3. \A k \in Nics \ {0} : k \in Plugged(i) <=> k <= Len(insts[i].second)
  BY <1>2, SpecsTyped, NullsTyped DEF Plugged
<1>4. Len(insts[i].second) \in Nics
  BY SpecsTyped DEF NicInv, NicsNamed, Nics
<1>. QED
  BY <1>1, <1>2, <1>3, <1>4, LastNicIsIn, SpecsTyped DEF Plugged, Nics

\* One request works on one instance, and the others are left alone.
LEMMA NicsElsewhere ==
  ASSUME TypeInv, NicInv, NEW p \in NetProcs, Others(p), NEW i \in Insts,
         \A q \in NetProcs : q # p => nreq[q].inst # i,
         nreq[p].inst \in {i, NoInst}, nreq'[p].inst \in {i, NoInst},
         \A j \in Insts : j # i => insts'[j] = insts[j] /\ nics'[j] = nics[j],
         NicsNamed(i)', NamedOnce(i)', WorkKnown(p)'
  PROVE  NicInv'
<1>1. ASSUME NEW j \in Insts, j # i
      PROVE  NicsNamed(j)' /\ NamedOnce(j)'
  <2>1. \A k : Named(j, k)' = Named(j, k)
    BY <1>1 DEF Named
  <2>2. \A k : Worked(j, k)' <=> Worked(j, k)
    BY <1>1, NullsTyped DEF Worked, Others
  <2>. QED
    BY <1>1, <2>1, <2>2 DEF NicInv, NicsNamed, NamedOnce
<1>2. ASSUME NEW q \in NetProcs, q # p
      PROVE  WorkKnown(q)'
  <2>1. nreq'[q] = nreq[q] /\ WorkKnown(q)
    BY <1>2 DEF Others, NicInv
  <2>2. CASE nreq[q].op \in Works
    <3>1. PICK j \in Insts : j = nreq[q].inst
      BY <2>2, RequestFields
    <3>2. insts'[j] = insts[j] /\ nics'[j] = nics[j]
      BY <1>2, <3>1
    <3>3. \A k : Named(j, k)' = Named(j, k)
      BY <3>2 DEF Named
    <3>. QED
      BY <2>1, <3>1, <3>2, <3>3 DEF WorkKnown
  <2>3. CASE nreq[q].op \notin Works
    BY <2>1, <2>3 DEF WorkKnown, Works, Takers
  <2>. QED
    BY <2>2, <2>3
<1>. QED
  BY <1>1, <1>2 DEF NicInv

\* A request that works on no instance.
LEMMA NicsStay ==
  ASSUME TypeInv, NicInv, NEW p \in NetProcs, Others(p), UNCHANGED <<insts, nics>>,
         nreq[p].inst = NoInst, nreq'[p].inst = NoInst, nreq'[p].op \notin Works
  PROVE  NicInv'
<1>1. \A j \in Insts, k \in Nics : Named(j, k)' = Named(j, k) /\ (Worked(j, k)' <=> Worked(j, k))
  BY NullsTyped DEF Named, Worked, Others
<1>2. \A j \in Insts : NicsNamed(j)' /\ NamedOnce(j)'
  BY <1>1 DEF NicInv, NicsNamed, NamedOnce
<1>3. ASSUME NEW q \in NetProcs
      PROVE  WorkKnown(q)'
  <2>1. CASE q = p
    BY <2>1 DEF WorkKnown, Works, Takers
  <2>2. CASE q # p
    <3>1. nreq'[q] = nreq[q] /\ WorkKnown(q)
      BY <2>2 DEF Others, NicInv
    <3>2. \A j : insts'[j] = insts[j] /\ nics'[j] = nics[j] /\ \A k : Named(j, k)' = Named(j, k)
      BY DEF Named
    <3>. QED
      BY <3>1, <3>2 DEF WorkKnown
  <2>. QED
    BY <2>1, <2>2
<1>. QED
  BY <1>2, <1>3 DEF NicInv

\* A handler that takes up an instance has only read its NICs.
LEMMA NicsTaken ==
  ASSUME TypeInv, NicInv, NEW p \in NetProcs, NEW op \in Takers, NEW v, NEW i \in Insts, NEW k, NEW h,
         Begins(p, op, "read", v, i, k, h), Settled(i), UNCHANGED nics,
         \A j \in Insts : j # i => insts'[j] = insts[j],
         insts'[i].vpc = insts[i].vpc, insts'[i].second = insts[i].second,
         WorkKnown(p)'
  PROVE  NicInv'
<1>1. nreq[p].inst = NoInst /\ nreq'[p].inst = i /\ Others(p)
      /\ \A q \in NetProcs : q # p => nreq[q].inst # i
  BY NullsTyped DEF Begins, Settled
<1>2. \A l : Named(i, l)' = Named(i, l)
  BY DEF Named
<1>3. NicsNamed(i)' /\ NamedOnce(i)'
  BY <1>2, NicsSettled DEF NicInv, NicsNamed, NamedOnce
<1>. QED
  BY <1>1, <1>3, NicsElsewhere

LEMMA NicStarts ==
  ASSUME TypeInv, RequestInv, NicInv, Orderly, NEW p \in NetProcs, NetStart(p)
  PROVE  NicInv'
<1>. USE NullsTyped
<1>a. ASSUME NEW op \in {"create", "drop", "mode"}, NEW step, NEW v,
             Begins(p, op, step, v, NoInst, 0, 0), UNCHANGED <<insts, nics>>
      PROVE  NicInv'
  BY <1>a, NicsStay DEF Begins, Works
<1>1. ASSUME NEW u \in Users, NEW v \in Vpcs, NEW b \in Blocks, NEW g \in Gateways, NEW m \in Modes,
             ReadForCreate(p, u, v, b, g, m)
      PROVE  NicInv'
  BY <1>1, <1>a, StartEffects DEF ReadForCreate
<1>2. ASSUME NEW u \in Users, NEW v \in Vpcs, DropVnet(p, u, v)
      PROVE  NicInv'
  BY <1>2, <1>a, StartEffects DEF DropVnet
<1>3. ASSUME NEW u \in Users, NEW v \in Vpcs, NEW m \in Modes, ReadForMode(p, u, v, m)
      PROVE  NicInv'
  BY <1>3, <1>a, StartEffects DEF ReadForMode
<1>4. ASSUME NEW i \in Insts, NEW v \in Vpcs, ReadForLaunch(p, i, v)
      PROVE  NicInv'
  <2>1. Begins(p, "launch", "read", v, i, 0, NextAddress(v)) /\ UNCHANGED nics
    BY <1>4, StartEffects DEF ReadForLaunch
  <2>2. Settled(i) /\ insts[i] = Unknown
    BY <1>4, OrderlyGuards DEF ReadForLaunch, RequestInv, UnknownBare
  <2>3. /\ insts'[i].vpc = NoVpc /\ insts'[i].second = <<>>
        /\ \A j \in Insts : j # i => insts'[j] = insts[j]
    BY <1>4, <2>2, TypeParts DEF ReadForLaunch, TablesTyped, Instance
  <2>4. WorkKnown(p)'
    BY <2>1, <2>3 DEF Begins, WorkKnown
  <2>. QED
    BY <2>1, <2>2, <2>3, <2>4, NicsTaken DEF Takers
<1>5. ASSUME NEW u \in Users, NEW i \in Insts, NEW v \in Vpcs, ReadForMigrate(p, u, i, v)
      PROVE  NicInv'
  <2>1. Begins(p, "migrate", "read", v, i, 0, nreq'[p].ip) /\ UNCHANGED <<insts, nics>>
    BY <1>5, StartEffects DEF ReadForMigrate
  <2>2. Settled(i) /\ \A k \in Nics \ {0} : nics[i][k].vpc # v
    BY <1>5, OrderlyGuards DEF ReadForMigrate, Orderly
  <2>3. nreq'[p].old = nics[i][0]
    BY <1>5, TypeParts DEF ReadForMigrate, Begin, Free
  <2>4. nics[i][0].vpc = insts[i].vpc /\ (nics[i][0].vpc = NoVpc => nics[i][0] = Unplugged)
    BY <2>2, NicsSettled, SpecsTyped DEF NicInv, NicsNamed, Named
  <2>5. \A k \in Nics : Named(i, k)' = nics[i][k].vpc
    BY <2>1, <2>2, NicsSettled DEF Named
  <2>6. WorkKnown(p)'
    BY <2>1, <2>2, <2>3, <2>4, <2>5 DEF Begins, WorkKnown
  <2>. QED
    BY <2>1, <2>2, <2>6, NicsTaken DEF Takers
<1>6. ASSUME NEW u \in Users, NEW i \in Insts, NEW v \in Vpcs, ReadForAdd(p, u, i, v)
      PROVE  NicInv'
  <2>1. Begins(p, "add", "read", v, i, LastNic(i) + 1, 0) /\ UNCHANGED <<insts, nics>>
    BY <1>6, StartEffects DEF ReadForAdd
  <2>2. Settled(i) /\ \A k \in Nics : nics[i][k].vpc # v
    BY <1>6, OrderlyGuards DEF ReadForAdd
  <2>3. LastNic(i) = Len(insts[i].second) /\ \A k \in Nics : Named(i, k)' = nics[i][k].vpc
    BY <2>1, <2>2, NicsSettled DEF Named
  <2>4. WorkKnown(p)'
    BY <2>1, <2>2, <2>3 DEF Begins, WorkKnown
  <2>. QED
    BY <2>1, <2>2, <2>4, NicsTaken DEF Takers
<1>7. ASSUME NEW u \in Users, NEW i \in Insts, NEW k \in Nics, UnplugNic(p, u, i, k)
      PROVE  NicInv'
  <2>1. Begins(p, "remove", "done", NoVpc, i, k, 0) /\ UNCHANGED insts
    BY <1>7, StartEffects DEF UnplugNic
  <2>2. Settled(i) /\ k = Len(insts[i].second)
    <3>1. Settled(i) /\ k = LastNic(i)
      BY <1>7, OrderlyGuards DEF UnplugNic
    <3>. QED
      BY <3>1, NicsSettled
  <2>3. /\ nics'[i][k] = Unplugged /\ \A l \in Nics : l # k => nics'[i][l] = nics[i][l]
        /\ \A j \in Insts : j # i => nics'[j] = nics[j]
    BY <1>7, TypeParts DEF UnplugNic, TablesTyped
  <2>4. WorkKnown(p)' /\ Worked(i, k)'
    BY <2>1, <2>2, <2>3 DEF Begins, WorkKnown, Worked, Takers
  <2>5. \A l : Named(i, l)' = Named(i, l)
    BY <2>1 DEF Named
  <2>6. NicsNamed(i)' /\ NamedOnce(i)'
    BY <2>1, <2>2, <2>3, <2>4, <2>5, NicsSettled DEF NicInv, NicsNamed, NamedOnce
  <2>. QED
    BY <2>1, <2>2, <2>3, <2>4, <2>6, NicsElsewhere DEF Begins, Settled
<1>8. ASSUME NEW i \in Insts, NEW h \in Hosts, ReadForIp(p, i, h)
      PROVE  NicInv'
  <2>1. Begins(p, "ip", "read", insts[i].vpc, i, 0, h) /\ UNCHANGED <<insts, nics>>
    BY <1>8, StartEffects DEF ReadForIp
  <2>2. Settled(i)
    BY <1>8, OrderlyGuards DEF ReadForIp
  <2>3. WorkKnown(p)'
    BY <2>1 DEF Begins, WorkKnown
  <2>. QED
    BY <2>1, <2>2, <2>3, NicsTaken DEF Takers
<1>9. ASSUME NEW u \in Users, NEW i \in Insts, NEW m \in Modes, ReadForInstanceMode(p, u, i, m)
      PROVE  NicInv'
  BY <1>3, <1>9, ReadsTyped DEF ReadForInstanceMode
<1>. QED
  BY <1>1, <1>2, <1>3, <1>4, <1>5, <1>6, <1>7, <1>8, <1>9 DEF NetStart

\* A request plugs or replugs the NIC it works on.
LEMMA NicPlugged ==
  ASSUME TypeInv, RequestInv, NicInv, NEW p \in NetProcs, NEW i \in Insts, i = nreq[p].inst,
         NEW k \in Nics, k = nreq[p].nic, NEW h, nreq[p].op \in Takers, UNCHANGED insts,
         nics' = [nics EXCEPT ![i][k] = [vpc |-> nreq[p].vpc, ip |-> h]],
         Others(p), nreq'[p].op = nreq[p].op, nreq'[p].step = "done", nreq'[p].vpc = nreq[p].vpc,
         nreq'[p].inst = nreq[p].inst, nreq'[p].nic = nreq[p].nic, nreq'[p].ip = h,
         nreq'[p].old = nreq[p].old
  PROVE  NicInv'
<1>1. \A q \in NetProcs : q # p => nreq[q].inst # i
  BY NullsTyped DEF RequestInv, OnePerInst
<1>2. /\ nics'[i][k] = [vpc |-> nreq[p].vpc, ip |-> h]
      /\ \A l \in Nics : l # k => nics'[i][l] = nics[i][l]
      /\ \A j \in Insts : j # i => nics'[j] = nics[j]
  BY TypeParts DEF TablesTyped
<1>3. \A l : Named(i, l)' = Named(i, l)
  BY DEF Named
<1>4. /\ Worked(i, k)' /\ nreq[p].vpc # NoVpc
      /\ \A l \in Nics : l # k => (Worked(i, l)' <=> Worked(i, l))
  BY <1>1, RequestFields, NullsTyped DEF Worked, Others
<1>5. WorkKnown(p) /\ NicsNamed(i) /\ NamedOnce(i)
  BY DEF NicInv
<1>6. WorkKnown(p)'
  BY <1>2, <1>3, <1>5 DEF WorkKnown, Takers
<1>7. NicsNamed(i)' /\ NamedOnce(i)'
  BY <1>2, <1>3, <1>4, <1>5 DEF NicsNamed, NamedOnce
<1>. QED
  BY <1>1, <1>2, <1>6, <1>7, NicsElsewhere

\* A request ends, and specs names what it has plugged.
LEMMA NicEnds ==
  ASSUME TypeInv, RequestInv, NicInv, NEW p \in NetProcs, Ends(p), NEW i \in Insts, i = nreq[p].inst,
         \A j \in Insts : j # i => insts'[j] = insts[j] /\ nics'[j] = nics[j],
         \A k \in Nics : \/ /\ nreq[p].step # "done" \/ k # nreq[p].nic
                            /\ nics'[i][k] = nics[i][k] /\ Named(i, k)' = Named(i, k)
                         \/ /\ nics'[i][k].vpc = Named(i, k)'
                            /\ nics'[i][k].vpc = NoVpc => nics'[i][k] = Unplugged,
         Len(insts'[i].second) <= MaxNic, NamedOnce(i)'
  PROVE  NicInv'
<1>1. \A q \in NetProcs : q # p => nreq[q].inst # i
  BY NullsTyped DEF RequestInv, OnePerInst
<1>2. \A k \in Nics : ~Worked(i, k)' /\ (nreq[p].step # "done" \/ k # nreq[p].nic => ~Worked(i, k))
  BY <1>1, NullsTyped DEF Worked, Ends, Others
<1>3. NicsNamed(i)'
  BY <1>2 DEF NicInv, NicsNamed
<1>4. WorkKnown(p)'
  BY NullsTyped DEF Ends, WorkKnown, Takers
<1>. QED
  BY <1>1, <1>3, <1>4, NicsElsewhere, NullsTyped DEF Ends

LEMMA NicGoes ==
  ASSUME TypeInv, RequestInv, AddressInv, NicInv, NEW p \in NetProcs, NetContinue(p)
  PROVE  NicInv'
<1>. DEFINE r == nreq[p]
<1>0. /\ r.op \in Works => r.inst \in Insts /\ r.nic \in Nics
      /\ r.op \notin Works => r.inst = NoInst
      /\ r.op \in Takers => r.vpc \in Vpcs
      /\ r.nic # 0 <=> r.op \in {"add", "remove"}
      /\ WorkKnown(p)
  BY RequestFields DEF KnowsItself, NetRequest, NicInv
<1>a. ASSUME UNCHANGED <<insts, nics>>, r.op \notin Works, Others(p),
             nreq'[p] = Free \/ (nreq'[p].op = r.op /\ nreq'[p].inst = r.inst)
      PROVE  NicInv'
  BY <1>0, <1>a, NicsStay, NullsTyped DEF Works
<1>b. ASSUME NEW i \in Insts, i = r.inst, r.step # "done", UNCHANGED <<insts, nics>>,
             Ends(p) \/ Moves(p, "unplugged")
      PROVE  NicInv'
  <2>1. \A k : Named(i, k)' = Named(i, k)
    BY <1>b DEF Named
  <2>2. Len(insts'[i].second) <= MaxNic /\ NamedOnce(i)'
    BY <1>b, <2>1 DEF NicInv, NicsNamed, NamedOnce
  <2>3. CASE Ends(p)
    BY <1>b, <2>1, <2>2, <2>3, NicEnds
  <2>4. CASE Moves(p, "unplugged")
    <3>1. \A q \in NetProcs : q # p => nreq[q].inst # i
      BY <1>b, NullsTyped DEF RequestInv, OnePerInst
    <3>2. \A k : ~Worked(i, k)' <=> ~Worked(i, k)
      BY <1>b, <2>4, <3>1 DEF Worked, Moves, Others
    <3>3. NicsNamed(i)'
      BY <1>b, <2>1, <3>2 DEF NicInv, NicsNamed
    <3>4. WorkKnown(p)'
      BY <1>0, <1>b, <2>1, <2>4 DEF WorkKnown, Moves
    <3>. QED
      BY <1>b, <2>2, <2>4, <3>1, <3>3, <3>4, NicsElsewhere DEF Moves
  <2>. QED
    BY <1>b, <2>3, <2>4
<1>1. CASE FlushCreate(p) \/ CommitCreate(p) \/ DropRow(p) \/ ApplyMode(p) \/ CommitMode(p)
  <2>1. UNCHANGED <<insts, nics>> /\ r.op \notin Works
    BY <1>1 DEF FlushCreate, CommitCreate, DropRow, ApplyMode, CommitMode, At, Works
  <2>2. Ends(p) \/ \E step : Moves(p, step)
    BY <1>1, Continues DEF FlushCreate, CommitCreate, DropRow, ApplyMode, CommitMode
  <2>. QED
    BY <1>a, <2>1, <2>2 DEF Ends, Moves
<1>2. CASE BuildVnet(p)
  <2>1. Others(p) /\ nreq'[p].op = r.op /\ nreq'[p].inst = r.inst /\ UNCHANGED <<insts, nics>>
        /\ r.op \notin Works
    BY <1>2, TypeParts DEF BuildVnet, At, NetRequest, Others, Works
  <2>. QED
    BY <1>a, <2>1
<1>c. ASSUME r.op \in Works
      PROVE  \E i \in Insts, k \in Nics : i = r.inst /\ k = r.nic
  BY <1>0, <1>c
<1>3. CASE PlugLaunch(p) \/ ApplyMigrate(p) \/ ApplyIp(p)
  <2>1. r.op \in Takers /\ r.step = "read" /\ UNCHANGED insts /\ r.nic = 0
    BY <1>0, <1>3 DEF PlugLaunch, ApplyMigrate, ApplyIp, At, Takers
  <2>2. PICK i \in Insts, k \in Nics : i = r.inst /\ k = r.nic
    BY <1>c, <2>1 DEF Takers, Works
  <2>3. CASE nics' = [nics EXCEPT ![r.inst][0] = [vpc |-> r.vpc, ip |-> r.ip]] /\ Moves(p, "done")
    BY <2>1, <2>2, <2>3, NicPlugged DEF Moves
  <2>4. CASE UNCHANGED nics /\ (Ends(p) \/ Moves(p, "unplugged"))
    BY <1>b, <2>1, <2>2, <2>4
  <2>. QED
    BY <1>3, <2>3, <2>4, Continues DEF PlugLaunch, ApplyMigrate, ApplyIp
<1>4. CASE PlugNic(p)
  <2>1. r.op \in Takers /\ r.step = "read" /\ UNCHANGED insts
    BY <1>4 DEF PlugNic, At, Takers
  <2>2. PICK i \in Insts, k \in Nics : i = r.inst /\ k = r.nic
    BY <1>c, <2>1 DEF Takers, Works
  <2>3. CASE Ends(p) /\ UNCHANGED nics
    BY <1>b, <2>1, <2>2, <2>3
  <2>4. ASSUME NEW h, nics' = [nics EXCEPT ![r.inst][r.nic] = [vpc |-> r.vpc, ip |-> h]],
               nreq' = [nreq EXCEPT ![p].step = "done", ![p].ip = h]
        PROVE  NicInv'
    <3>1. /\ Others(p) /\ nreq'[p].op = r.op /\ nreq'[p].step = "done" /\ nreq'[p].vpc = r.vpc
          /\ nreq'[p].inst = r.inst /\ nreq'[p].nic = r.nic /\ nreq'[p].ip = h /\ nreq'[p].old = r.old
      BY <2>4, TypeParts DEF Others, NetRequest
    <3>. QED
      BY <2>1, <2>2, <2>4, <3>1, NicPlugged
  <2>. QED
    BY <1>4, <2>3, <2>4, Continues DEF PlugNic
<1>5. CASE CommitLaunch(p)
  <2>1. r.op = "launch" /\ Ends(p) /\ UNCHANGED nics /\ r.nic = 0
    BY <1>0, <1>5, Continues DEF CommitLaunch
  <2>2. PICK i \in Insts, k \in Nics : i = r.inst /\ k = r.nic
    BY <1>c, <2>1 DEF Works
  <2>3. CASE r.step # "done" /\ UNCHANGED insts
    BY <1>b, <2>1, <2>2, <2>3
  <2>4. CASE r.step = "done" /\ insts' = [insts EXCEPT ![r.inst].vpc = r.vpc]
    <3>1. /\ insts'[i].vpc = r.vpc /\ insts'[i].second = <<>>
          /\ \A j \in Insts : j # i => insts'[j] = insts[j]
      BY <1>0, <2>1, <2>2, <2>4, TypeParts DEF TablesTyped, Instance, WorkKnown
    <3>2. insts[i].second = <<>> /\ nics[i][0] = [vpc |-> r.vpc, ip |-> r.ip] /\ Len(<<>>) = 0
      BY <1>0, <2>1, <2>2, <2>4 DEF WorkKnown, Takers
    <3>3. /\ Named(i, 0)' = r.vpc /\ \A l \in Nics : l # 0 => Named(i, l)' = NoVpc /\ Named(i, l) = NoVpc
          /\ Len(insts'[i].second) <= MaxNic
      BY <3>1, <3>2, SpecsTyped DEF Named, Nics
    <3>4. NamedOnce(i)'
      BY <1>0, <2>1, <3>3 DEF NamedOnce, Takers
    <3>. QED
      BY <1>0, <2>1, <2>2, <2>4, <3>1, <3>2, <3>3, <3>4, NicEnds, NullsTyped DEF Takers
  <2>. QED
    BY <1>5, <2>1, <2>3, <2>4, InsertsSucceed DEF CommitLaunch
<1>6. CASE CommitMigrate(p)
  <2>1. At(p, "migrate", "done") /\ Ends(p) /\ r.nic = 0 /\ r.op \in Takers /\ r.op \in Works
    BY <1>0, <1>6, Continues DEF CommitMigrate, At, Takers, Works
  <2>2. PICK i \in Insts, k \in Nics : i = r.inst /\ k = r.nic
    BY <1>c, <2>1
  <2>3. CASE UNCHANGED nics /\ insts' = [insts EXCEPT ![r.inst].vpc = r.vpc]
    <3>1. /\ insts'[i].vpc = r.vpc /\ insts'[i].second = insts[i].second
          /\ \A j \in Insts : j # i => insts'[j] = insts[j]
      BY <2>2, <2>3, TypeParts DEF TablesTyped, Instance
    <3>2. nics[i][0] = [vpc |-> r.vpc, ip |-> r.ip] /\ \A l \in Nics \ {0} : Named(i, l) # r.vpc
      BY <1>0, <2>1, <2>2 DEF WorkKnown, At
    <3>3. Named(i, 0)' = r.vpc /\ \A l \in Nics : l # 0 => Named(i, l)' = Named(i, l)
      BY <3>1 DEF Named
    <3>4. NamedOnce(i)' /\ Len(insts'[i].second) <= MaxNic
      BY <3>1, <3>2, <3>3 DEF NicInv, NicsNamed, NamedOnce
    <3>. QED
      BY <1>0, <2>1, <2>2, <2>3, <3>1, <3>2, <3>3, <3>4, NicEnds, NullsTyped
  <2>4. CASE UNCHANGED insts /\ nics' = [nics EXCEPT ![r.inst][0] = r.old]
    <3>1. /\ nics'[i][0] = r.old /\ \A l \in Nics : l # 0 => nics'[i][l] = nics[i][l]
          /\ \A j \in Insts : j # i => nics'[j] = nics[j]
      BY <2>2, <2>4, TypeParts, ReadsTyped DEF TablesTyped
    <3>2. r.old.vpc = insts[i].vpc /\ (r.old.vpc = NoVpc => r.old = Unplugged)
      BY <1>0, <2>1, <2>2 DEF WorkKnown, At
    <3>3. \A l : Named(i, l)' = Named(i, l)
      BY <2>4 DEF Named
    <3>4. NamedOnce(i)' /\ Len(insts'[i].second) <= MaxNic /\ Named(i, 0) = insts[i].vpc
      BY <2>4, <3>3 DEF NicInv, NicsNamed, NamedOnce, Named
    <3>. QED
      BY <2>1, <2>2, <2>4, <3>1, <3>2, <3>3, <3>4, NicEnds
  <2>. QED
    BY <1>6, <2>3, <2>4 DEF CommitMigrate
<1>7. CASE CommitNic(p)
  <2>1. At(p, "add", "done") /\ Ends(p) /\ r.op \in Takers /\ r.op \in Works /\ UNCHANGED nics
    BY <1>7, Continues DEF CommitNic, At, Takers, Works
  <2>2. PICK i \in Insts, k \in Nics : i = r.inst /\ k = r.nic
    BY <1>c, <2>1
  <2>3. insts' = [insts EXCEPT ![r.inst].second = Append(@, r.vpc)]
    BY <1>7, <2>1, InsertsSucceed DEF CommitNic
  <2>4. /\ insts'[i].vpc = insts[i].vpc /\ insts'[i].second = Append(insts[i].second, r.vpc)
        /\ \A j \in Insts : j # i => insts'[j] = insts[j]
    BY <2>2, <2>3, TypeParts DEF TablesTyped, Instance
  <2>5. /\ nics[i][k] = [vpc |-> r.vpc, ip |-> r.ip] /\ k = Len(insts[i].second) + 1
        /\ \A l \in Nics : Named(i, l) # r.vpc
    BY <1>0, <2>1, <2>2 DEF WorkKnown, At
  <2>6. \A l \in Nics : Named(i, l)' = IF l = k THEN r.vpc ELSE Named(i, l)
    BY <1>0, <2>1, <2>4, <2>5, SpecsTyped, LastAdded DEF Named
  <2>7. NamedOnce(i)' /\ Len(insts'[i].second) <= MaxNic
    BY <1>0, <2>1, <2>4, <2>5, <2>6, SpecsTyped, LastAdded DEF NicInv, NamedOnce
  <2>8. /\ \A l \in Nics : l # k => Named(i, l)' = Named(i, l) /\ nics'[i][l] = nics[i][l]
        /\ nics'[i][k].vpc = Named(i, k)' /\ nics'[i][k].vpc # NoVpc
    BY <1>0, <2>1, <2>5, <2>6, NullsTyped
  <2>. QED
    BY <2>1, <2>2, <2>4, <2>7, <2>8, NicEnds
<1>8. CASE CommitUnplug(p)
  <2>1. At(p, "remove", "done") /\ Ends(p) /\ r.op \in Works /\ UNCHANGED nics
    BY <1>8, Continues DEF CommitUnplug, At, Works
  <2>2. PICK i \in Insts, k \in Nics : i = r.inst /\ k = r.nic
    BY <1>c, <2>1
  <2>3. k = Len(insts[i].second) /\ k # 0 /\ nics[i][k] = Unplugged
    BY <1>0, <2>1, <2>2 DEF WorkKnown, At
  <2>4. insts' = [insts EXCEPT ![r.inst].second = SubSeq(@, 1, Len(@) - 1)]
    BY <1>8, <2>2, <2>3, EmptySeq DEF CommitUnplug
  <2>5. /\ insts'[i].vpc = insts[i].vpc
        /\ insts'[i].second = SubSeq(insts[i].second, 1, Len(insts[i].second) - 1)
        /\ \A j \in Insts : j # i => insts'[j] = insts[j]
    BY <2>2, <2>4, TypeParts DEF TablesTyped, Instance
  <2>6. \A l \in Nics : Named(i, l)' = IF l = k THEN NoVpc ELSE Named(i, l)
    BY <2>3, <2>5, SpecsTyped, LastForgotten DEF Named
  <2>7. NamedOnce(i)' /\ Len(insts'[i].second) <= MaxNic
    BY <2>3, <2>5, <2>6, SpecsTyped, LastForgotten DEF NicInv, NamedOnce, NicsNamed
  <2>. QED
    BY <2>1, <2>2, <2>3, <2>5, <2>6, <2>7, NicEnds, NullsTyped
<1>9. CASE CommitIp(p)
  <2>1. At(p, "ip", "done") /\ Ends(p) /\ r.op \in Takers /\ r.op \in Works /\ UNCHANGED <<insts, nics>>
    BY <1>9, Continues DEF CommitIp, At, Takers, Works
  <2>2. PICK i \in Insts, k \in Nics : i = r.inst /\ k = r.nic
    BY <1>c, <2>1
  <2>3. nics[i][k] = [vpc |-> r.vpc, ip |-> r.ip] /\ insts[i].vpc = r.vpc /\ k = 0
    BY <1>0, <2>1, <2>2 DEF WorkKnown, At
  <2>4. \A l : Named(i, l)' = Named(i, l)
    BY <2>1 DEF Named
  <2>5. Named(i, 0) = r.vpc /\ NamedOnce(i)' /\ Len(insts'[i].second) <= MaxNic
    BY <2>1, <2>3, <2>4 DEF NicInv, NamedOnce, NicsNamed, Named
  <2>6. nics'[i][k].vpc = Named(i, k)' /\ nics'[i][k].vpc # NoVpc
    BY <1>0, <2>1, <2>3, <2>4, <2>5, NullsTyped
  <2>. QED
    BY <2>1, <2>2, <2>4, <2>5, <2>6, NicEnds
<1>. QED
  BY <1>1, <1>2, <1>3, <1>4, <1>5, <1>6, <1>7, <1>8, <1>9 DEF NetContinue

LEMMA NicStep ==
  ASSUME TypeInv, RequestInv, AddressInv, NicInv, Orderly, [NetworkNext]_netVars
  PROVE  NicInv'
<1>1. ASSUME UNCHANGED nreq, NEW i \in Insts, Settled(i),
             \A j \in Insts : j # i => insts'[j] = insts[j] /\ nics'[j] = nics[j],
             NicsNamed(i)', NamedOnce(i)'
      PROVE  NicInv'
  <2>1. ASSUME NEW j \in Insts, j # i
        PROVE  NicsNamed(j)' /\ NamedOnce(j)'
    <3>1. \A k : Named(j, k)' = Named(j, k) /\ (Worked(j, k)' <=> Worked(j, k))
      BY <1>1, <2>1 DEF Named, Worked
    <3>. QED
      BY <1>1, <2>1, <3>1 DEF NicInv, NicsNamed, NamedOnce
  <2>2. ASSUME NEW q \in NetProcs
        PROVE  WorkKnown(q)'
    <3>1. CASE nreq[q].op \in Works
      <4>1. PICK j \in Insts : j = nreq[q].inst
        BY <3>1, RequestFields
      <4>2. insts'[j] = insts[j] /\ nics'[j] = nics[j]
        BY <1>1, <4>1 DEF Settled
      <4>3. \A k : Named(j, k)' = Named(j, k)
        BY <4>2 DEF Named
      <4>. QED
        BY <1>1, <4>1, <4>2, <4>3 DEF NicInv, WorkKnown
    <3>2. CASE nreq[q].op \notin Works
      BY <1>1, <3>2 DEF WorkKnown, Works, Takers
    <3>. QED
      BY <3>1, <3>2
  <2>. QED
    BY <1>1, <2>1, <2>2 DEF NicInv
<1>2. ASSUME NEW i \in Insts, LaunchDetached(i)
      PROVE  NicInv'
  <2>1. Settled(i) /\ UNCHANGED <<nreq, nics>>
    BY <1>2, OrderlyGuards DEF LaunchDetached
  <2>2. /\ insts'[i].vpc = insts[i].vpc /\ insts'[i].second = insts[i].second
        /\ \A j \in Insts : j # i => insts'[j] = insts[j]
    BY <1>2, TypeParts DEF LaunchDetached, TablesTyped, Instance
  <2>3. \A k : Named(i, k)' = Named(i, k) /\ (Worked(i, k)' <=> Worked(i, k))
    BY <2>1, <2>2 DEF Named, Worked
  <2>4. NicsNamed(i)' /\ NamedOnce(i)'
    BY <2>1, <2>2, <2>3 DEF NicInv, NicsNamed, NamedOnce
  <2>. QED
    BY <1>1, <2>1, <2>2, <2>4
<1>3. ASSUME NEW i \in Insts, Terminate(i)
      PROVE  NicInv'
  <2>1. Settled(i) /\ UNCHANGED nreq
    BY <1>3, OrderlyGuards DEF Terminate
  <2>2. /\ insts'[i] = Unknown /\ \A k \in Nics : nics'[i][k] = Unplugged
        /\ \A j \in Insts : j # i => insts'[j] = insts[j] /\ nics'[j] = nics[j]
    BY <1>3, TypeParts DEF Terminate, TablesTyped
  <2>3. Len(insts'[i].second) = 0 /\ \A k \in Nics : Named(i, k)' = NoVpc
    BY <2>2, SpecsTyped, NullsTyped DEF Named, Nics
  <2>4. NicsNamed(i)' /\ NamedOnce(i)'
    BY <2>2, <2>3, SpecsTyped, NullsTyped DEF NicsNamed, NamedOnce
  <2>. QED
    BY <1>1, <2>1, <2>2, <2>4
<1>4. ASSUME UNCHANGED <<insts, nics, nreq>>
      PROVE  NicInv'
  <2>1. \A i, k : Named(i, k)' = Named(i, k) /\ (Worked(i, k)' <=> Worked(i, k))
    BY <1>4 DEF Named, Worked
  <2>. QED
    BY <1>4, <2>1 DEF NicInv, NicsNamed, NamedOnce, WorkKnown
<1>5. CASE \/ \E u \in Users, v \in Vpcs, h \in Hosts : ReserveStatic(u, v, h)
           \/ \E e \in reserved : ReleaseStatic(e)
           \/ UNCHANGED netVars
  BY <1>4, <1>5 DEF ReserveStatic, ReleaseStatic, netVars
<1>. QED
  BY <1>2, <1>3, <1>5, NicStarts, NicGoes, OrderlyGuards DEF NetworkNext

LEMMA NicBegins == NetworkInit => NicInv
<1>. SUFFICES ASSUME NetworkInit PROVE NicInv
  OBVIOUS
<1>1. Len(<<>>) = 0 /\ MaxNic \in Nat
  BY NetworkConstants
<1>2. \A i \in Insts, k \in Nics : insts[i].second = <<>> /\ Named(i, k) = NoVpc /\ nics[i][k] = Unplugged
  BY <1>1, NullsTyped, NetworkConstants DEF NetworkInit, Named, Nics
<1>3. \A p \in NetProcs : WorkKnown(p)
  BY NullsTyped DEF NetworkInit, WorkKnown, Takers
<1>4. ASSUME NEW i \in Insts
      PROVE  NicsNamed(i) /\ NamedOnce(i)
  <2>1. Len(insts[i].second) <= MaxNic
    BY <1>1, <1>2, NetworkConstants DEF NetworkInit, Unknown
  <2>. QED
    BY <1>2, <2>1, NullsTyped DEF NicsNamed, NamedOnce
<1>. QED
  BY <1>3, <1>4 DEF NicInv

-----------------------------------------------------------------------------
(* Whose networks are in use *)

\* Handlers that start have only read what specs says.
LEMMA NamedStarts ==
  ASSUME TypeInv, NEW p \in NetProcs, NetStart(p)
  PROVE  /\ \A i \in Insts : insts'[i].vpc = insts[i].vpc /\ insts'[i].second = insts[i].second
         /\ \A i \in Insts : \A k : Named(i, k)' = Named(i, k)
<1>1. \A i \in Insts : insts'[i].vpc = insts[i].vpc /\ insts'[i].second = insts[i].second
  <2>1. CASE UNCHANGED insts
    BY <2>1
  <2>2. CASE \E i \in Insts : insts' = [insts EXCEPT ![i].known = TRUE]
    BY <2>2, TypeParts DEF TablesTyped, Instance
  <2>3. ASSUME NEW j \in Insts, NEW v \in Vpcs, ReadForLaunch(p, j, v)
        PROVE  insts' = [insts EXCEPT ![j].known = TRUE]
    BY <2>3 DEF ReadForLaunch
  <2>4. \/ UNCHANGED insts
        \/ \E j \in Insts, v \in Vpcs : ReadForLaunch(p, j, v)
    <3>1. ASSUME NEW u, NEW v
          PROVE  /\ \A b, g, m : ReadForCreate(p, u, v, b, g, m) => UNCHANGED insts
                 /\ DropVnet(p, u, v) => UNCHANGED insts
                 /\ \A m : ReadForMode(p, u, v, m) => UNCHANGED insts
                 /\ \A i : ReadForMigrate(p, u, i, v) \/ ReadForAdd(p, u, i, v) => UNCHANGED insts
      BY DEF ReadForCreate, DropVnet, ReadForMode, ReadForMigrate, ReadForAdd
    <3>2. ASSUME NEW i
          PROVE  /\ \A u, m : ReadForInstanceMode(p, u, i, m) => UNCHANGED insts
                 /\ \A u, k : UnplugNic(p, u, i, k) => UNCHANGED insts
                 /\ \A h : ReadForIp(p, i, h) => UNCHANGED insts
      BY <3>1 DEF ReadForInstanceMode, UnplugNic, ReadForIp
    <3>. QED
      BY <3>1, <3>2 DEF NetStart
  <2>. QED
    BY <2>1, <2>2, <2>3, <2>4
<1>. QED
  BY <1>1 DEF Named

\* A request that goes on names its own network, or forgets one.
LEMMA NamedGoes ==
  ASSUME TypeInv, NicInv, NEW p \in NetProcs, NetContinue(p), NEW i \in Insts, NEW k \in Nics
  PROVE  \/ Named(i, k)' \in {Named(i, k), NoVpc}
         \/ nreq[p].op \in Takers /\ nreq[p].inst = i /\ Named(i, k)' = nreq[p].vpc
<1>. DEFINE r == nreq[p]
<1>1. CASE insts'[i] = insts[i]
  BY <1>1 DEF Named
<1>2. CASE CommitLaunch(p) \/ CommitMigrate(p)
  <2>1. /\ insts'[i].second = insts[i].second
        /\ insts'[i].vpc = insts[i].vpc \/ (r.inst = i /\ insts'[i].vpc = r.vpc)
    <3>1. insts' = insts \/ insts' = [insts EXCEPT ![r.inst].vpc = r.vpc]
      BY <1>2 DEF CommitLaunch, CommitMigrate
    <3>2. insts \in [Insts -> Instance] /\ insts[i] \in Instance
      BY TypeParts DEF TablesTyped
    <3>. QED
      BY <3>1, <3>2 DEF Instance
  <2>2. r.op \in Takers
    BY <1>2 DEF CommitLaunch, CommitMigrate, At, Takers
  <2>. QED
    BY <2>1, <2>2 DEF Named
<1>3. CASE CommitNic(p) /\ insts'[i] # insts[i]
  <2>1. At(p, "add", "done") /\ r.op \in Takers /\ r.vpc \in Vpcs
    BY <1>3, RequestFields DEF CommitNic, At, Takers
  <2>2. r.inst = i /\ insts'[i].vpc = insts[i].vpc /\ insts'[i].second = Append(insts[i].second, r.vpc)
    <3>1. insts' = [insts EXCEPT ![r.inst].second = Append(@, r.vpc)]
      BY <1>3 DEF CommitNic
    <3>2. insts \in [Insts -> Instance] /\ insts[i] \in Instance
      BY TypeParts DEF TablesTyped
    <3>. QED
      BY <1>3, <3>1, <3>2 DEF Instance
  <2>. QED
    BY <2>1, <2>2, SpecsTyped, LastAdded DEF Named
<1>4. CASE CommitUnplug(p) /\ insts'[i] # insts[i]
  <2>1. /\ insts[i].second # <<>> /\ insts'[i].vpc = insts[i].vpc
        /\ insts'[i].second = SubSeq(insts[i].second, 1, Len(insts[i].second) - 1)
    BY <1>4, TypeParts DEF CommitUnplug, TablesTyped, Instance
  <2>. QED
    BY <2>1, SpecsTyped, LastForgotten DEF Named
<1>. QED
  BY <1>1, <1>2, <1>3, <1>4
     DEF NetContinue, FlushCreate, BuildVnet, CommitCreate, DropRow, ApplyMode, CommitMode,
         PlugLaunch, ApplyMigrate, PlugNic, ApplyIp, CommitIp

\* Rows and VNets stay or come, and nothing is deleted.
LEMMA OwnersStay ==
  ASSUME TypeInv, RequestInv, OwnerInv,
         \A v \in Vpcs : \/ vpcs'[v].status = vpcs[v].status /\ vpcs'[v].owner = vpcs[v].owner
                         \/ ~Exists(v) /\ (vpcs'[v].status = "active" => vnets'[v] # 0),
         \A v \in Vpcs : vnets'[v] = vnets[v] \/ vnets'[v] # 0,
         \A i \in Insts, k \in Nics :
           \/ Named(i, k)' \in {Named(i, k), NoVpc}
           \/ Named(i, k)' \in Vpcs /\ Owned(Named(i, k)', i) /\ ~InFlight("drop", Named(i, k)'),
         \A q \in NetProcs : nreq'[q] = nreq[q] \/
           /\ nreq[q].op # "drop" /\ nreq'[q].op # "drop"
           /\ nreq'[q].op \in Takers => nreq'[q].vpc \in Vpcs /\ Owned(nreq'[q].vpc, nreq'[q].inst)
           /\ At(q, "create", "done")' /\ nreq'[q].copy.status = "active" => vnets'[nreq'[q].vpc] # 0
  PROVE  OwnerInv'
<1>1. \A v \in Vpcs : \A i : Owned(v, i) => Owned(v, i)'
  BY DEF Owned, Exists
<1>2. \A i \in Insts, k \in Nics : Named(i, k) \in Vpcs \union {NoVpc}
  BY SpecsTyped
<1>3. NamedOwned'
  BY <1>1, <1>2 DEF OwnerInv, NamedOwned
<1>4. \A q \in NetProcs : nreq[q].op \in Takers \union Alters \union {"create"} => nreq[q].vpc \in Vpcs
  BY RequestFields
<1>5. WorksOwned'
  BY <1>1, <1>4 DEF OwnerInv, WorksOwned
<1>6. DropsUnused'
  <2>1. \A q \in NetProcs : nreq'[q].op = "drop" => nreq'[q] = nreq[q] /\ nreq[q].vpc \in Vpcs
                                                  /\ nreq[q].vpc # NoVpc
    BY <1>4, NullsTyped DEF Alters
  <2>. QED
    BY <2>1 DEF OwnerInv, DropsUnused, InFlight
<1>7. VnetsThere'
  <2>1. \A v : InFlight("drop", v) => InFlight("drop", v)'
    BY DEF InFlight
  <2>2. \A q \in NetProcs : nreq[q].op = "create" => nreq[q].vpc \in Vpcs
    BY <1>4
  <2>. QED
    BY <2>1, <2>2 DEF OwnerInv, VnetsThere, At, Exists
<1>. QED
  BY <1>3, <1>5, <1>6, <1>7 DEF OwnerInv

\* delete_vpc finds nobody else's instance on the network either.
LEMMA OwnerDrops ==
  ASSUME TypeInv, RequestInv, OwnerInv, Orderly, NEW p \in NetProcs, NEW u \in Users, NEW v \in Vpcs,
         DropVnet(p, u, v)
  PROVE  OwnerInv'
<1>1. /\ Begins(p, "drop", "done", v, NoInst, 0, 0) /\ UNCHANGED <<vpcs, insts>>
      /\ \A w \in Vpcs : w # v => vnets'[w] = vnets[w]
      /\ Exists(v) /\ vpcs[v].owner = u /\ UsersOf(u, v) = {}
  BY StartEffects, OrderlyGuards, TypeParts DEF DropVnet, TablesTyped
<1>2. \A i, k : Named(i, k)' = Named(i, k)
  BY <1>1 DEF Named
<1>3. ASSUME NEW i \in Insts, NEW k \in Nics, Named(i, k) = v
      PROVE  FALSE
  <2>1. InstOwner[i] = u
    BY <1>1, <1>3, NullsTyped DEF OwnerInv, NamedOwned, Owned
  <2>2. insts[i].known
    BY <1>3, SpecsTyped, NullsTyped DEF RequestInv, UnknownBare, Named, Nics
  <2>3. SpecsName(i, v)
    <3>1. CASE k = 0
      BY <1>3, <3>1 DEF Named, SpecsName
    <3>2. CASE k # 0
      <4>1. k \in DOMAIN insts[i].second /\ insts[i].second[k] = v
        BY <1>3, <3>2, SpecsTyped, NullsTyped, LenProperties DEF Named
      <4>. QED
        BY <4>1 DEF SpecsName
    <3>. QED
      BY <3>1, <3>2
  <2>. QED
    BY <1>1, <2>1, <2>2, <2>3 DEF UsersOf
<1>4. NamedOwned' /\ WorksOwned'
  BY <1>1, <1>2 DEF Begins, Others, OwnerInv, NamedOwned, WorksOwned, Owned, Exists, Takers
<1>5. DropsUnused'
  BY <1>1, <1>2, <1>3 DEF Begins, Others, OwnerInv, DropsUnused
<1>6. VnetsThere'
  <2>1. \A w : w = v \/ InFlight("drop", w) => InFlight("drop", w)'
    BY <1>1, NullsTyped DEF InFlight, Begins, Others
  <2>2. \A q \in NetProcs : nreq[q].op = "create" => nreq[q].vpc \in Vpcs /\ nreq[q].vpc # v
    BY <1>1, RequestFields DEF RequestInv, RequestsKnown
  <2>. QED
    BY <1>1, <2>1, <2>2 DEF OwnerInv, VnetsThere, At, Begins, Others
<1>. QED
  BY <1>4, <1>5, <1>6 DEF OwnerInv

LEMMA OwnerForgets ==
  ASSUME TypeInv, RequestInv, OwnerInv, NEW p \in NetProcs, DropRow(p)
  PROVE  OwnerInv'
<1>1. nreq[p].op = "drop" /\ Ends(p) /\ UNCHANGED <<vnets, insts>>
  BY Continues DEF DropRow, At
<1>2. PICK v \in Vpcs : v = nreq[p].vpc
  BY <1>1, RequestFields DEF Alters
<1>3. vpcs'[v] = NoRow /\ \A w \in Vpcs : w # v => vpcs'[w] = vpcs[w]
  BY <1>2, TypeParts DEF DropRow, TablesTyped
<1>4. \A i, k : Named(i, k)' = Named(i, k)
  BY <1>1 DEF Named
<1>5. \A i \in Insts, k \in Nics : Named(i, k) # v
  BY <1>1, <1>2 DEF OwnerInv, DropsUnused
<1>6. NamedOwned' /\ DropsUnused'
  BY <1>1, <1>3, <1>4, <1>5, SpecsTyped, NullsTyped
     DEF Ends, Others, OwnerInv, NamedOwned, DropsUnused, Owned, Exists
<1>7. WorksOwned'
  <2>1. \A q \in NetProcs : nreq'[q].op \in Takers =>
           nreq'[q] = nreq[q] /\ nreq[q].vpc \in Vpcs /\ nreq[q].vpc # v
    BY <1>1, <1>2, RequestFields, NullsTyped DEF Ends, Others, RequestInv, AltersAlone, Takers, Alters
  <2>. QED
    BY <1>3, <2>1 DEF OwnerInv, WorksOwned, Owned, Exists
<1>8. VnetsThere'
  <2>1. \A w : w # v /\ InFlight("drop", w) => InFlight("drop", w)'
    BY <1>1, <1>2 DEF InFlight, Ends, Others
  <2>. QED
    BY <1>1, <1>3, <2>1, NullsTyped DEF OwnerInv, VnetsThere, At, Ends, Others
<1>. QED
  BY <1>6, <1>7, <1>8 DEF OwnerInv

LEMMA OwnerStarts ==
  ASSUME TypeInv, RequestInv, OwnerInv, Orderly, NEW p \in NetProcs, NetStart(p)
  PROVE  OwnerInv'
<1>1. \A i, k : i \in Insts => Named(i, k)' = Named(i, k)
  BY NamedStarts
<1>a. ASSUME NEW op, NEW step, NEW v, NEW i, NEW k, NEW h, Begins(p, op, step, v, i, k, h),
             UNCHANGED <<vpcs, vnets>>, op # "drop", step # "done" \/ op # "create",
             op \in Takers => v \in Vpcs /\ Owned(v, i)
      PROVE  OwnerInv'
  <2>1. \A q \in NetProcs : nreq'[q] = nreq[q] \/
          /\ nreq[q].op # "drop" /\ nreq'[q].op # "drop"
          /\ nreq'[q].op \in Takers => nreq'[q].vpc \in Vpcs /\ Owned(nreq'[q].vpc, nreq'[q].inst)
          /\ ~At(q, "create", "done")'
    BY <1>a, NullsTyped DEF Begins, Others, At
  <2>. QED
    BY <1>1, <1>a, <2>1, OwnersStay
<1>b. \A v \in Vpcs, u \in Users : vpcs[v].owner = u => Exists(v)
  BY TypeParts, NullsTyped DEF TablesTyped
<1>2. ASSUME NEW u \in Users, NEW v \in Vpcs, NEW b \in Blocks, NEW g \in Gateways, NEW m \in Modes,
             ReadForCreate(p, u, v, b, g, m)
      PROVE  OwnerInv'
  BY <1>2, <1>a, StartEffects DEF ReadForCreate, Takers
<1>3. ASSUME NEW u \in Users, NEW v \in Vpcs, NEW m \in Modes, ReadForMode(p, u, v, m)
      PROVE  OwnerInv'
  BY <1>3, <1>a, StartEffects DEF ReadForMode, Takers
<1>4. ASSUME NEW i \in Insts, NEW v \in Vpcs, ReadForLaunch(p, i, v)
      PROVE  OwnerInv'
  BY <1>4, <1>a, StartEffects DEF ReadForLaunch, Takers, Owned, Exists
<1>5. ASSUME NEW u \in Users, NEW i \in Insts, NEW v \in Vpcs, ReadForMigrate(p, u, i, v)
      PROVE  OwnerInv'
  <2>1. Owned(v, i) /\ UNCHANGED <<vpcs, vnets>>
    BY <1>5, <1>b, OrderlyGuards DEF ReadForMigrate, Owned
  <2>. QED
    BY <1>5, <1>a, <2>1, StartEffects DEF Takers
<1>6. ASSUME NEW u \in Users, NEW i \in Insts, NEW v \in Vpcs, ReadForAdd(p, u, i, v)
      PROVE  OwnerInv'
  <2>1. Owned(v, i) /\ UNCHANGED <<vpcs, vnets>>
    BY <1>6, <1>b, OrderlyGuards DEF ReadForAdd, Owned
  <2>. QED
    BY <1>6, <1>a, <2>1, StartEffects DEF Takers
<1>7. ASSUME NEW u \in Users, NEW i \in Insts, NEW k \in Nics, UnplugNic(p, u, i, k)
      PROVE  OwnerInv'
  BY <1>7, <1>a, StartEffects DEF UnplugNic, Takers
<1>8. ASSUME NEW i \in Insts, NEW h \in Hosts, ReadForIp(p, i, h)
      PROVE  OwnerInv'
  <2>1. insts[i].vpc \in Vpcs /\ Owned(insts[i].vpc, i) /\ UNCHANGED <<vpcs, vnets>>
    BY <1>8, <1>b, ReadsTyped DEF ReadForIp, Owned
  <2>2. Begins(p, "ip", "read", insts[i].vpc, i, 0, h)
    BY <1>8, StartEffects
  <2>. QED
    BY <1>a, <2>1, <2>2
<1>9. ASSUME NEW u \in Users, NEW i \in Insts, NEW m \in Modes, ReadForInstanceMode(p, u, i, m)
      PROVE  OwnerInv'
  BY <1>3, <1>9, ReadsTyped, NullsTyped DEF ReadForInstanceMode
<1>. QED
  BY <1>2, <1>3, <1>4, <1>5, <1>6, <1>7, <1>8, <1>9, OwnerDrops DEF NetStart

LEMMA OwnerGoes ==
  ASSUME TypeInv, RequestInv, NicInv, OwnerInv, NEW p \in NetProcs, NetContinue(p)
  PROVE  OwnerInv'
<1>. DEFINE r == nreq[p]
<1>0. /\ r.op \in Takers => r.vpc \in Vpcs /\ Owned(r.vpc, r.inst) /\ ~InFlight("drop", r.vpc)
      /\ r.op = "create" => r.vpc \in Vpcs /\ ~Exists(r.vpc) /\ r.copy.tag # 0
  BY RequestFields
     DEF OwnerInv, WorksOwned, RequestInv, RequestsKnown, AltersAlone, InFlight, KnowsItself, Takers, Alters
<1>1. \A i \in Insts, k \in Nics :
        \/ Named(i, k)' \in {Named(i, k), NoVpc}
        \/ Named(i, k)' \in Vpcs /\ Owned(Named(i, k)', i) /\ ~InFlight("drop", Named(i, k)')
  BY <1>0, NamedGoes
<1>2. CASE DropRow(p)
  BY <1>2, OwnerForgets
<1>3. CASE BuildVnet(p)
  <2>1. /\ Others(p) /\ At(p, "create", "done")' /\ nreq'[p].vpc = r.vpc /\ UNCHANGED vpcs
        /\ r.op = "create"
    BY <1>3, TypeParts DEF BuildVnet, At, NetRequest, Others
  <2>2. /\ \A v \in Vpcs : vnets'[v] = vnets[v] \/ vnets'[v] # 0
        /\ nreq'[p].copy.status = "active" => vnets'[r.vpc] # 0
    <3>1. PICK made \in {<<"active", "active">>, <<"active", "error">>, <<"error", "error">>} :
            /\ vnets' = IF made[1] = "active" THEN [vnets EXCEPT ![nreq[p].vpc] = nreq[p].copy.tag]
                        ELSE vnets
            /\ nreq' = [nreq EXCEPT ![p].step = "done", ![p].copy.status = made[1],
                                    ![p].copy.subnet = made[2]]
      BY <1>3 DEF BuildVnet
    <3>2. nreq'[p].copy.status = made[1]
      BY <3>1, TypeParts, RequestFields DEF NetRequest, Vpc
    <3>. QED
      BY <1>0, <2>1, <3>1, <3>2, TypeParts DEF TablesTyped
  <2>3. \A q \in NetProcs : nreq'[q] = nreq[q] \/
          /\ nreq[q].op # "drop" /\ nreq'[q].op # "drop" /\ nreq'[q].op \notin Takers
          /\ At(q, "create", "done")' /\ nreq'[q].copy.status = "active" => vnets'[nreq'[q].vpc] # 0
    BY <2>1, <2>2 DEF Others, At, Takers
  <2>. QED
    BY <1>1, <2>1, <2>2, <2>3, OwnersStay
<1>4. CASE CommitCreate(p)
  <2>1. Ends(p) /\ At(p, "create", "done") /\ UNCHANGED vnets
    BY <1>4, Continues DEF CommitCreate
  <2>2. \A v \in Vpcs : \/ vpcs'[v] = vpcs[v]
                        \/ ~Exists(v) /\ (vpcs'[v].status = "active" => vnets'[v] # 0)
    <3>1. CASE UNCHANGED vpcs
      BY <3>1
    <3>2. CASE vpcs' = [vpcs EXCEPT ![r.vpc] = [r.copy EXCEPT !.grouped = r.copy.mode = "published"]]
      <4>1. \A v \in Vpcs : v # r.vpc => vpcs'[v] = vpcs[v]
        BY <3>2, TypeParts DEF TablesTyped
      <4>2. vpcs'[r.vpc].status = r.copy.status
        BY <1>0, <2>1, <3>2, TypeParts, RequestFields DEF TablesTyped, Vpc, At
      <4>. QED
        BY <1>0, <2>1, <4>1, <4>2 DEF OwnerInv, VnetsThere, At
    <3>. QED
      BY <1>4, <3>1, <3>2 DEF CommitCreate
  <2>3. \A q \in NetProcs : nreq'[q] = nreq[q] \/
          /\ nreq[q].op # "drop" /\ nreq'[q].op # "drop" /\ nreq'[q].op \notin Takers
          /\ ~At(q, "create", "done")'
    BY <2>1, NullsTyped DEF Ends, Others, At, Takers
  <2>. QED
    BY <1>1, <2>1, <2>2, <2>3, OwnersStay
<1>5. CASE \/ FlushCreate(p) \/ ApplyMode(p) \/ CommitMode(p) \/ PlugLaunch(p) \/ CommitLaunch(p)
           \/ ApplyMigrate(p) \/ CommitMigrate(p) \/ PlugNic(p) \/ CommitNic(p) \/ CommitUnplug(p)
           \/ ApplyIp(p) \/ CommitIp(p)
  <2>1. UNCHANGED vnets /\ r.op # "drop"
    BY <1>5
       DEF FlushCreate, ApplyMode, CommitMode, PlugLaunch, CommitLaunch, ApplyMigrate, CommitMigrate,
           PlugNic, CommitNic, CommitUnplug, ApplyIp, CommitIp, At
  <2>2. \A v \in Vpcs : vpcs'[v].status = vpcs[v].status /\ vpcs'[v].owner = vpcs[v].owner
    <3>1. CASE UNCHANGED vpcs
      BY <3>1
    <3>2. CASE CommitMode(p)
      BY <3>2, TypeParts DEF CommitMode, TablesTyped, Vpc
    <3>. QED
      BY <1>5, <3>1, <3>2
         DEF FlushCreate, ApplyMode, PlugLaunch, CommitLaunch, ApplyMigrate, CommitMigrate,
             PlugNic, CommitNic, CommitUnplug, ApplyIp, CommitIp
  <2>3. \/ Ends(p)
        \/ /\ Others(p) /\ nreq'[p].op = r.op /\ nreq'[p].vpc = r.vpc /\ nreq'[p].inst = r.inst
           /\ r.op = "create" => nreq'[p].step = "flushed"
    <3>1. CASE PlugNic(p)
      BY <3>1, Continues, TypeParts DEF PlugNic, At, Ends, NetRequest, Others
    <3>2. CASE FlushCreate(p)
      BY <3>2, Continues DEF FlushCreate, Moves
    <3>3. CASE End(p) \/ ((\E step : Goto(p, step)) /\ r.op # "create")
      BY <3>3, Continues DEF Moves
    <3>. QED
      BY <1>5, <3>1, <3>2, <3>3
         DEF ApplyMode, CommitMode, PlugLaunch, CommitLaunch, ApplyMigrate, CommitMigrate,
             CommitNic, CommitUnplug, ApplyIp, CommitIp, At
  <2>4. \A q \in NetProcs : nreq'[q] = nreq[q] \/
          /\ nreq[q].op # "drop" /\ nreq'[q].op # "drop"
          /\ nreq'[q].op \in Takers => nreq'[q].vpc \in Vpcs /\ Owned(nreq'[q].vpc, nreq'[q].inst)
          /\ ~At(q, "create", "done")'
    BY <1>0, <2>1, <2>3, NullsTyped DEF Ends, Others, At, Takers
  <2>. QED
    BY <1>1, <2>1, <2>2, <2>4, OwnersStay
<1>. QED
  BY <1>2, <1>3, <1>4, <1>5 DEF NetContinue

LEMMA OwnerStep ==
  ASSUME TypeInv, RequestInv, NicInv, OwnerInv, Orderly, [NetworkNext]_netVars
  PROVE  OwnerInv'
<1>1. ASSUME UNCHANGED <<vpcs, vnets, nreq>>,
             \A i \in Insts, k \in Nics : Named(i, k)' \in {Named(i, k), NoVpc}
      PROVE  OwnerInv'
  BY <1>1, OwnersStay
<1>2. ASSUME NEW i \in Insts, LaunchDetached(i) \/ Terminate(i)
      PROVE  OwnerInv'
  <2>1. \A j \in Insts : \/ insts'[j].vpc = insts[j].vpc /\ insts'[j].second = insts[j].second
                         \/ insts'[j] = Unknown
    <3>1. insts' = [insts EXCEPT ![i].known = TRUE] \/ insts' = [insts EXCEPT ![i] = Unknown]
      BY <1>2 DEF LaunchDetached, Terminate
    <3>2. insts \in [Insts -> Instance]
      BY TypeParts DEF TablesTyped
    <3>. QED
      BY <3>1, <3>2 DEF Instance
  <2>2. \A j \in Insts, k \in Nics : Named(j, k)' \in {Named(j, k), NoVpc}
    BY <2>1, SpecsTyped, NullsTyped DEF Named, Nics
  <2>. QED
    BY <1>1, <1>2, <2>2 DEF LaunchDetached, Terminate
<1>3. CASE \/ \E u \in Users, v \in Vpcs, h \in Hosts : ReserveStatic(u, v, h)
           \/ \E e \in reserved : ReleaseStatic(e)
           \/ UNCHANGED netVars
  <2>1. UNCHANGED <<vpcs, vnets, insts, nreq>>
    BY <1>3 DEF ReserveStatic, ReleaseStatic, netVars
  <2>. QED
    BY <1>1, <2>1 DEF Named
<1>. QED
  BY <1>2, <1>3, OwnerStarts, OwnerGoes, OrderlyGuards DEF NetworkNext

LEMMA OwnerBegins == NetworkInit => OwnerInv
<1>. SUFFICES ASSUME NetworkInit PROVE OwnerInv
  OBVIOUS
<1>1. \A i \in Insts, k \in Nics : Named(i, k) = NoVpc
  BY NicBegins, TypeStarts, SpecsTyped, NullsTyped DEF NetworkInit, Named, Nics
<1>. QED
  BY <1>1, NullsTyped DEF NetworkInit, OwnerInv, NamedOwned, WorksOwned, DropsUnused, VnetsThere, At, Takers

\* Who is plugged into which network
LEMMA PlugsKnown ==
  ASSUME TypeInv, RequestInv, NicInv, NEW i \in Insts, NEW k \in Nics, nics[i][k].vpc # NoVpc
  PROVE  \/ ~Worked(i, k) /\ Named(i, k) = nics[i][k].vpc
         \/ \E p \in NetProcs :
              /\ nreq[p].op \in Takers /\ nreq[p].step = "done" /\ nreq[p].inst = i /\ nreq[p].nic = k
              /\ nics[i][k] = [vpc |-> nreq[p].vpc, ip |-> nreq[p].ip]
<1>1. CASE ~Worked(i, k)
  BY <1>1 DEF NicInv, NicsNamed
<1>2. ASSUME NEW p \in NetProcs, nreq[p].inst = i, nreq[p].nic = k, nreq[p].step = "done"
      PROVE  /\ nreq[p].op \in Takers
             /\ nics[i][k] = [vpc |-> nreq[p].vpc, ip |-> nreq[p].ip]
  <2>1. nreq[p].op \in Works /\ WorkKnown(p)
    BY <1>2, RequestFields DEF KnowsItself, NicInv
  <2>. QED
    BY <1>2, <2>1, NullsTyped DEF WorkKnown, Works, Takers
<1>. QED
  BY <1>1, <1>2 DEF Worked

(***************************************************************************)
(* A VPC and its VNet stay while a NIC is plugged into the network, also   *)
(* one that a request has plugged in and not yet committed: delete_vpc     *)
(* asks for the instances of the requesting user only, and whoever uses a  *)
(* VPC is its owner as long as nobody administers what others own.         *)
(***************************************************************************)
THEOREM PluggedVpcsAreKept ==
  ASSUME Orderly
  PROVE  NetworkSpec => []PluggedVpcKept
<1>. DEFINE Inv == RequestInv /\ AddressInv /\ NicInv /\ OwnerInv
<1>1. NetworkInit => Inv
  BY RequestBegins, AddressBegins, NicBegins, OwnerBegins
<1>2. TypeInv /\ Inv /\ [NetworkNext]_netVars => Inv'
  BY RequestStep, AddressStep, NicStep, OwnerStep
<1>3. ASSUME TypeInv, Inv
      PROVE  PluggedVpcKept
  <2>. SUFFICES ASSUME NEW i \in Insts, NEW k \in Nics, NEW v, v = nics[i][k].vpc, v # NoVpc
                PROVE  Exists(v) /\ (vpcs[v].status = "active" => vnets[v] # 0)
    BY DEF PluggedVpcKept
  <2>1. v \in Vpcs
    BY <1>3, SpecsTyped DEF Nic
  <2>2. Exists(v) /\ ~InFlight("drop", v)
    <3>1. CASE Named(i, k) = v
      BY <1>3, <3>1 DEF OwnerInv, NamedOwned, DropsUnused, Owned, InFlight
    <3>2. ASSUME NEW p \in NetProcs, nreq[p].op \in Takers, nics[i][k] = [vpc |-> nreq[p].vpc, ip |-> nreq[p].ip]
          PROVE  Exists(v) /\ ~InFlight("drop", v)
      BY <1>3, <3>2 DEF RequestInv, RequestsKnown, AltersAlone, InFlight, Takers, Alters
    <3>3. \/ Named(i, k) = nics[i][k].vpc
          \/ \E p \in NetProcs :
               nreq[p].op \in Takers /\ nics[i][k] = [vpc |-> nreq[p].vpc, ip |-> nreq[p].ip]
      BY <1>3, PlugsKnown
    <3>. QED
      BY <3>1, <3>2, <3>3
  <2>. QED
    BY <1>3, <2>1, <2>2 DEF OwnerInv, VnetsThere
<1>. HIDE DEF Inv
<1>. QED
  BY <1>1, <1>2, <1>3, TypeInvAlways, PTL DEF NetworkSpec

-----------------------------------------------------------------------------
(* The reservations of NICs *)

\* One request works on one instance, and the others keep what is theirs.
LEMMA KeptElsewhere ==
  ASSUME TypeInv, KeptInv, NEW p \in NetProcs, Others(p), NEW i \in Insts,
         \A q \in NetProcs : q # p => nreq[q].inst # i,
         nreq[p].inst \in {i, NoInst}, nreq'[p].inst \in {i, NoInst},
         \A j \in Insts : j # i => nics'[j] = nics[j],
         \A e \in reserved : e.inst # i => e \in reserved',
         \A k \in Nics : \/ nics'[i][k].ip = 0
                         \/ nreq'[p].inst = i /\ nreq'[p].nic = k /\ nreq'[p].step = "done"
                         \/ Entry(nics'[i][k].vpc, nics'[i][k].ip, i, k) \in reserved',
         nreq'[p].op = "migrate" =>
           /\ nreq'[p].inst = i
           /\ nreq'[p].old.ip # 0 => Entry(nreq'[p].old.vpc, nreq'[p].old.ip, i, 0) \in reserved'
  PROVE  KeptInv'
<1>1. \A j \in Insts : \A k : j # i => (Worked(j, k)' <=> Worked(j, k))
  BY NullsTyped DEF Worked, Others
<1>2. \A v, h, j, k : Entry(v, h, j, k).inst = j
  BY DEF Entry
<1>3. NicsKept'
  <2>1. ASSUME NEW j \in Insts, NEW k \in Nics, j # i, ~Worked(j, k)', nics'[j][k].ip # 0
        PROVE  Entry(nics'[j][k].vpc, nics'[j][k].ip, j, k) \in reserved'
    BY <1>1, <1>2, <2>1 DEF KeptInv, NicsKept
  <2>2. ASSUME NEW k \in Nics, ~Worked(i, k)', nics'[i][k].ip # 0
        PROVE  Entry(nics'[i][k].vpc, nics'[i][k].ip, i, k) \in reserved'
    BY <2>2 DEF Worked
  <2>. QED
    BY <2>1, <2>2 DEF NicsKept
<1>4. OldKept'
  <2>1. ASSUME NEW q \in NetProcs, q # p, nreq[q].op = "migrate", nreq[q].old.ip # 0
        PROVE  Entry(nreq[q].old.vpc, nreq[q].old.ip, nreq[q].inst, 0) \in reserved'
    BY <1>2, <2>1 DEF KeptInv, OldKept
  <2>. QED
    BY <2>1 DEF OldKept, Others
<1>. QED
  BY <1>3, <1>4 DEF KeptInv

\* Nothing that a NIC or a migration has is released.
LEMMA KeptStays ==
  ASSUME TypeInv, KeptInv,
         \A j \in Insts, k \in Nics : nics'[j][k] = nics[j][k] \/ nics'[j][k].ip = 0,
         \A q \in NetProcs : \/ nreq'[q] = nreq[q]
                             \/ nreq[q].inst = NoInst /\ nreq'[q].op # "migrate",
         \A e \in reserved : e.inst \in Insts =>
           \/ e \in reserved'
           \/ /\ \A k \in Nics : nics'[e.inst][k].ip = 0 \/ nics'[e.inst][k].vpc # e.vpc
              /\ \A q \in NetProcs : nreq[q].op = "migrate" /\ nreq[q].inst = e.inst => nreq[q].old.vpc # e.vpc
  PROVE  KeptInv'
<1>1. \A v, h, j, k : Entry(v, h, j, k).inst = j /\ Entry(v, h, j, k).vpc = v
  BY DEF Entry
<1>2. \A j \in Insts : \A k : Worked(j, k) => Worked(j, k)'
  BY NullsTyped DEF Worked
<1>3. NicsKept'
  <2>. SUFFICES ASSUME NEW j \in Insts, NEW k \in Nics, ~Worked(j, k)', nics'[j][k].ip # 0
                PROVE  Entry(nics'[j][k].vpc, nics'[j][k].ip, j, k) \in reserved'
    BY DEF NicsKept
  <2>1. nics'[j][k] = nics[j][k] /\ Entry(nics[j][k].vpc, nics[j][k].ip, j, k) \in reserved
    BY <1>2 DEF KeptInv, NicsKept
  <2>. QED
    BY <1>1, <2>1
<1>4. OldKept'
  <2>. SUFFICES ASSUME NEW q \in NetProcs, nreq'[q] = nreq[q], nreq[q].op = "migrate", nreq[q].old.ip # 0
                PROVE  Entry(nreq[q].old.vpc, nreq[q].old.ip, nreq[q].inst, 0) \in reserved'
    BY DEF OldKept
  <2>1. Entry(nreq[q].old.vpc, nreq[q].old.ip, nreq[q].inst, 0) \in reserved /\ nreq[q].inst \in Insts
    BY RequestFields DEF KeptInv, OldKept, Works
  <2>. QED
    BY <1>1, <2>1
<1>. QED
  BY <1>3, <1>4 DEF KeptInv

LEMMA KeptStarts ==
  ASSUME TypeInv, RequestInv, KeptInv, NicInv, Orderly, NEW p \in NetProcs, NetStart(p)
  PROVE  KeptInv'
<1>a. ASSUME NEW op, NEW step, NEW v, NEW k, NEW h, Begins(p, op, step, v, NoInst, k, h),
             UNCHANGED <<nics, reserved>>, op # "migrate"
      PROVE  KeptInv'
  <2>1. \A q \in NetProcs : nreq'[q] = nreq[q] \/ (nreq[q].inst = NoInst /\ nreq'[q].op # "migrate")
    BY <1>a, NullsTyped DEF Begins, Others
  <2>. QED
    BY <1>a, <2>1, KeptStays
<1>b. ASSUME NEW i \in Insts, Settled(i)
      PROVE  \A k \in Nics : nics[i][k].ip # 0 => Entry(nics[i][k].vpc, nics[i][k].ip, i, k) \in reserved
  BY <1>b DEF KeptInv, NicsKept, Settled, Worked
<1>c. ASSUME NEW op, NEW step, NEW v, NEW i \in Insts, NEW k, NEW h, Begins(p, op, step, v, i, k, h),
             Settled(i), UNCHANGED reserved,
             \A l \in Nics : nics'[i][l] = nics[i][l] \/ nics'[i][l].ip = 0,
             \A j \in Insts : j # i => nics'[j] = nics[j],
             op = "migrate" => nreq'[p].old = nics[i][0]
      PROVE  KeptInv'
  <2>1. /\ Others(p) /\ nreq[p].inst = NoInst /\ nreq'[p].inst = i /\ nreq'[p].op = op
        /\ \A q \in NetProcs : q # p => nreq[q].inst # i
    BY <1>c, NullsTyped DEF Begins, Settled
  <2>2. \A l \in Nics : nics'[i][l].ip = 0 \/ Entry(nics'[i][l].vpc, nics'[i][l].ip, i, l) \in reserved'
    BY <1>b, <1>c
  <2>3. op = "migrate" /\ nreq'[p].old.ip # 0 => Entry(nreq'[p].old.vpc, nreq'[p].old.ip, i, 0) \in reserved'
    BY <1>b, <1>c, ReadsTyped
  <2>. QED
    BY <1>c, <2>1, <2>2, <2>3, KeptElsewhere
<1>1. ASSUME NEW u \in Users, NEW v \in Vpcs, NEW b \in Blocks, NEW g \in Gateways, NEW m \in Modes,
             ReadForCreate(p, u, v, b, g, m)
      PROVE  KeptInv'
  BY <1>1, <1>a, StartEffects DEF ReadForCreate
<1>2. ASSUME NEW u \in Users, NEW v \in Vpcs, DropVnet(p, u, v)
      PROVE  KeptInv'
  BY <1>2, <1>a, StartEffects DEF DropVnet
<1>3. ASSUME NEW u \in Users, NEW v \in Vpcs, NEW m \in Modes, ReadForMode(p, u, v, m)
      PROVE  KeptInv'
  BY <1>3, <1>a, StartEffects DEF ReadForMode
<1>4. ASSUME NEW i \in Insts, NEW v \in Vpcs, ReadForLaunch(p, i, v)
      PROVE  KeptInv'
  <2>1. Settled(i) /\ UNCHANGED <<nics, reserved>>
    BY <1>4, OrderlyGuards DEF ReadForLaunch
  <2>. QED
    BY <1>4, <1>c, <2>1, StartEffects
<1>5. ASSUME NEW u \in Users, NEW i \in Insts, NEW v \in Vpcs, ReadForMigrate(p, u, i, v)
      PROVE  KeptInv'
  <2>1. Settled(i) /\ UNCHANGED <<nics, reserved>>
    BY <1>5, OrderlyGuards DEF ReadForMigrate
  <2>2. nreq'[p].old = nics[i][0]
    BY <1>5, TypeParts DEF ReadForMigrate, Begin, Free
  <2>3. Begins(p, "migrate", "read", v, i, 0, nreq'[p].ip)
    BY <1>5, StartEffects
  <2>4. PICK h : h = nreq'[p].ip
    OBVIOUS
  <2>. QED
    BY <1>c, <2>1, <2>2, <2>3, <2>4
<1>6. ASSUME NEW u \in Users, NEW i \in Insts, NEW v \in Vpcs, ReadForAdd(p, u, i, v)
      PROVE  KeptInv'
  <2>1. Settled(i) /\ UNCHANGED <<nics, reserved>>
    BY <1>6, OrderlyGuards DEF ReadForAdd
  <2>. QED
    BY <1>6, <1>c, <2>1, StartEffects
<1>7. ASSUME NEW u \in Users, NEW i \in Insts, NEW k \in Nics, UnplugNic(p, u, i, k)
      PROVE  KeptInv'
  <2>1. Settled(i) /\ UNCHANGED reserved
    BY <1>7, OrderlyGuards DEF UnplugNic
  <2>2. /\ nics'[i][k] = Unplugged /\ \A l \in Nics : l # k => nics'[i][l] = nics[i][l]
        /\ \A j \in Insts : j # i => nics'[j] = nics[j]
    BY <1>7, TypeParts DEF UnplugNic, TablesTyped
  <2>3. Begins(p, "remove", "done", NoVpc, i, k, 0)
    BY <1>7, StartEffects
  <2>. QED
    BY <1>c, <2>1, <2>2, <2>3, NullsTyped
<1>8. ASSUME NEW i \in Insts, NEW h \in Hosts, ReadForIp(p, i, h)
      PROVE  KeptInv'
  <2>1. Settled(i) /\ UNCHANGED <<nics, reserved>>
    BY <1>8, OrderlyGuards DEF ReadForIp
  <2>. QED
    BY <1>8, <1>c, <2>1, StartEffects
<1>9. ASSUME NEW u \in Users, NEW i \in Insts, NEW m \in Modes, ReadForInstanceMode(p, u, i, m)
      PROVE  KeptInv'
  BY <1>3, <1>9, ReadsTyped, NullsTyped DEF ReadForInstanceMode
<1>. QED
  BY <1>1, <1>2, <1>3, <1>4, <1>5, <1>6, <1>7, <1>8, <1>9 DEF NetStart

\* A request ends, and what it has plugged is reserved.
LEMMA KeptEnds ==
  ASSUME TypeInv, RequestInv, KeptInv, NEW p \in NetProcs, Ends(p), NEW i \in Insts, i = nreq[p].inst,
         \A j \in Insts : j # i => nics'[j] = nics[j],
         \A e \in reserved : e.inst # i => e \in reserved',
         \A k \in Nics : \/ nics'[i][k].ip = 0
                         \/ Entry(nics'[i][k].vpc, nics'[i][k].ip, i, k) \in reserved'
  PROVE  KeptInv'
<1>1. \A q \in NetProcs : q # p => nreq[q].inst # i
  BY NullsTyped DEF RequestInv, OnePerInst
<1>2. nreq'[p].inst = NoInst /\ nreq'[p].op # "migrate" /\ Others(p)
  BY NullsTyped DEF Ends
<1>. QED
  BY <1>1, <1>2, KeptElsewhere

\* A request plugs its NIC and goes on.
LEMMA KeptPlugged ==
  ASSUME TypeInv, RequestInv, KeptInv, NEW p \in NetProcs, NEW i \in Insts, i = nreq[p].inst,
         NEW k \in Nics, k = nreq[p].nic, nreq[p].step = "read", Others(p), UNCHANGED reserved,
         nreq'[p].op = nreq[p].op, nreq'[p].inst = i, nreq'[p].nic = k, nreq'[p].old = nreq[p].old,
         \A j \in Insts : j # i => nics'[j] = nics[j],
         \A l \in Nics : l # k => nics'[i][l] = nics[i][l],
         nreq'[p].step = "done" \/ nics'[i][k] = nics[i][k]
  PROVE  KeptInv'
<1>1. \A q \in NetProcs : q # p => nreq[q].inst # i
  BY NullsTyped DEF RequestInv, OnePerInst
<1>2. \A l \in Nics : ~Worked(i, l)
  BY <1>1 DEF Worked
<1>3. nreq'[p].op = "migrate" /\ nreq'[p].old.ip # 0 =>
        Entry(nreq'[p].old.vpc, nreq'[p].old.ip, i, 0) \in reserved'
  BY DEF KeptInv, OldKept
<1>4. \A l \in Nics : \/ nics'[i][l].ip = 0
                      \/ nreq'[p].inst = i /\ nreq'[p].nic = l /\ nreq'[p].step = "done"
                      \/ Entry(nics'[i][l].vpc, nics'[i][l].ip, i, l) \in reserved'
  BY <1>2 DEF KeptInv, NicsKept
<1>. QED
  BY <1>1, <1>3, <1>4, KeptElsewhere

LEMMA KeptGoes ==
  ASSUME TypeInv, RequestInv, AddressInv, NicInv, OwnerInv, KeptInv, NEW p \in NetProcs, NetContinue(p)
  PROVE  KeptInv'
<1>. DEFINE r == nreq[p]
<1>0. /\ r.op \in Works => r.inst \in Insts /\ r.nic \in Nics
      /\ r.op \notin Works => r.inst = NoInst
      /\ r.op \in Takers => r.vpc \in Vpcs
      /\ r.nic # 0 <=> r.op \in {"add", "remove"}
      /\ WorkKnown(p)
  BY RequestFields DEF KnowsItself, NetRequest, NicInv
<1>a. ASSUME UNCHANGED <<nics, reserved>>, r.op \notin Works, Others(p),
             nreq'[p] = Free \/ nreq'[p].op = r.op
      PROVE  KeptInv'
  <2>1. \A q \in NetProcs : nreq'[q] = nreq[q] \/ (nreq[q].inst = NoInst /\ nreq'[q].op # "migrate")
    BY <1>0, <1>a, NullsTyped DEF Others, Works
  <2>. QED
    BY <1>a, <2>1, KeptStays
<1>b. ASSUME r.op \in Works
      PROVE  \E i \in Insts, k \in Nics : i = r.inst /\ k = r.nic
  BY <1>0, <1>b
<1>c. ASSUME NEW i \in Insts, i = r.inst
      PROVE  \A k \in Nics : \/ r.step = "done" /\ k = r.nic
                             \/ nics[i][k].ip = 0
                             \/ Entry(nics[i][k].vpc, nics[i][k].ip, i, k) \in reserved
  <2>1. \A q \in NetProcs : q # p => nreq[q].inst # i
    BY <1>c, NullsTyped DEF RequestInv, OnePerInst
  <2>. QED
    BY <2>1 DEF KeptInv, NicsKept, Worked
<1>d. \A v, h, i, k : /\ Entry(v, h, i, k).inst = i /\ Entry(v, h, i, k).nic = k
                      /\ Entry(v, h, i, k).vpc = v
  BY DEF Entry
<1>1. CASE FlushCreate(p) \/ CommitCreate(p) \/ ApplyMode(p) \/ CommitMode(p)
  <2>1. UNCHANGED <<nics, reserved>> /\ r.op \notin Works
    BY <1>1 DEF FlushCreate, CommitCreate, ApplyMode, CommitMode, At, Works
  <2>2. Ends(p) \/ \E step : Moves(p, step)
    BY <1>1, Continues DEF FlushCreate, CommitCreate, ApplyMode, CommitMode
  <2>. QED
    BY <1>a, <2>1, <2>2 DEF Ends, Moves
<1>2. CASE BuildVnet(p)
  <2>1. Others(p) /\ nreq'[p].op = r.op /\ UNCHANGED <<nics, reserved>> /\ r.op \notin Works
    BY <1>2, TypeParts DEF BuildVnet, At, NetRequest, Others, Works
  <2>. QED
    BY <1>a, <2>1
<1>3. CASE DropRow(p)
  <2>1. Ends(p) /\ UNCHANGED nics /\ r.op = "drop" /\ r.vpc \in Vpcs
    BY <1>3, Continues, RequestFields DEF DropRow, At, Alters
  <2>2. reserved' = {e \in reserved : e.vpc # r.vpc}
    BY <1>3 DEF DropRow
  <2>3. \A i \in Insts, k \in Nics : Named(i, k) # r.vpc
    BY <2>1 DEF OwnerInv, DropsUnused
  <2>4. \A j \in Insts, k \in Nics : nics[j][k].vpc # r.vpc
    <3>1. \A q \in NetProcs : nreq[q].op \in Takers => nreq[q].vpc # r.vpc
      BY <2>1, RequestFields DEF RequestInv, AltersAlone, Takers, Alters
    <3>2. r.vpc # NoVpc
      BY <2>1, NullsTyped
    <3>. SUFFICES ASSUME NEW j \in Insts, NEW k \in Nics, nics[j][k].vpc = r.vpc
                  PROVE  FALSE
      OBVIOUS
    <3>3. \/ Named(j, k) = nics[j][k].vpc
          \/ \E q \in NetProcs :
               nreq[q].op \in Takers /\ nics[j][k] = [vpc |-> nreq[q].vpc, ip |-> nreq[q].ip]
      BY <3>2, PlugsKnown
    <3>4. ASSUME NEW q \in NetProcs, nreq[q].op \in Takers,
                 nics[j][k] = [vpc |-> nreq[q].vpc, ip |-> nreq[q].ip]
          PROVE  FALSE
      BY <3>1, <3>4
    <3>. QED
      BY <2>3, <3>3, <3>4
  <2>5. \A q \in NetProcs : nreq[q].op = "migrate" => nreq[q].old.vpc # r.vpc
    <3>1. \A q \in NetProcs : nreq[q].op = "migrate" => nreq[q].inst \in Insts /\ nreq[q].old.vpc = insts[nreq[q].inst].vpc
      BY RequestFields DEF NicInv, WorkKnown, Works
    <3>2. \A i \in Insts : insts[i].vpc # r.vpc
      BY <2>3, ReadsTyped DEF Named
    <3>. QED
      BY <3>1, <3>2
  <2>6. \A q \in NetProcs : nreq'[q] = nreq[q] \/ (nreq[q].inst = NoInst /\ nreq'[q].op # "migrate")
    BY <1>0, <2>1, NullsTyped DEF Ends, Others, Works
  <2>7. \A e \in reserved : e.inst \in Insts =>
          \/ e \in reserved'
          \/ /\ \A k \in Nics : nics'[e.inst][k].ip = 0 \/ nics'[e.inst][k].vpc # e.vpc
             /\ \A q \in NetProcs : nreq[q].op = "migrate" /\ nreq[q].inst = e.inst => nreq[q].old.vpc # e.vpc
    BY <2>1, <2>2, <2>4, <2>5
  <2>. QED
    BY <2>1, <2>6, <2>7, KeptStays
<1>4. CASE PlugLaunch(p) \/ ApplyMigrate(p) \/ ApplyIp(p)
  <2>1. r.op \in Takers /\ r.step = "read" /\ UNCHANGED reserved /\ r.nic = 0
    BY <1>0, <1>4 DEF PlugLaunch, ApplyMigrate, ApplyIp, At, Takers
  <2>2. PICK i \in Insts, k \in Nics : i = r.inst /\ k = r.nic
    BY <1>b, <2>1 DEF Takers, Works
  <2>3. CASE nics' = [nics EXCEPT ![r.inst][0] = [vpc |-> r.vpc, ip |-> r.ip]] /\ Moves(p, "done")
    <3>1. /\ \A j \in Insts : j # i => nics'[j] = nics[j]
          /\ \A l \in Nics : l # k => nics'[i][l] = nics[i][l]
      BY <2>1, <2>2, <2>3, TypeParts DEF TablesTyped
    <3>. QED
      BY <2>1, <2>2, <2>3, <3>1, KeptPlugged DEF Moves
  <2>4. CASE UNCHANGED nics /\ Moves(p, "unplugged")
    BY <2>1, <2>2, <2>4, KeptPlugged DEF Moves
  <2>5. CASE UNCHANGED nics /\ Ends(p)
    BY <1>c, <2>1, <2>2, <2>5, KeptEnds
  <2>. QED
    BY <1>4, <2>3, <2>4, <2>5, Continues DEF PlugLaunch, ApplyMigrate, ApplyIp
<1>5. CASE PlugNic(p)
  <2>1. r.op \in Takers /\ r.step = "read" /\ UNCHANGED reserved
    BY <1>5 DEF PlugNic, At, Takers
  <2>2. PICK i \in Insts, k \in Nics : i = r.inst /\ k = r.nic
    BY <1>b, <2>1 DEF Takers, Works
  <2>3. CASE Ends(p) /\ UNCHANGED nics
    BY <1>c, <2>1, <2>2, <2>3, KeptEnds
  <2>4. ASSUME NEW h, nics' = [nics EXCEPT ![r.inst][r.nic] = [vpc |-> r.vpc, ip |-> h]],
               nreq' = [nreq EXCEPT ![p].step = "done", ![p].ip = h]
        PROVE  KeptInv'
    <3>1. /\ Others(p) /\ nreq'[p].op = r.op /\ nreq'[p].step = "done"
          /\ nreq'[p].inst = r.inst /\ nreq'[p].nic = r.nic /\ nreq'[p].old = r.old
      BY <2>4, TypeParts DEF Others, NetRequest
    <3>2. /\ \A j \in Insts : j # i => nics'[j] = nics[j]
          /\ \A l \in Nics : l # k => nics'[i][l] = nics[i][l]
      BY <2>2, <2>4, TypeParts DEF TablesTyped
    <3>. QED
      BY <2>1, <2>2, <3>1, <3>2, KeptPlugged
  <2>. QED
    BY <1>5, <2>3, <2>4, Continues DEF PlugNic
<1>6. CASE CommitLaunch(p)
  <2>1. r.op = "launch" /\ r.op \in Takers /\ r.op \in Works /\ Ends(p) /\ UNCHANGED nics /\ r.nic = 0
    BY <1>0, <1>6, Continues DEF CommitLaunch, Takers, Works
  <2>2. PICK i \in Insts, k \in Nics : i = r.inst /\ k = r.nic
    BY <1>b, <2>1
  <2>3. /\ reserved \subseteq reserved'
        /\ r.ip # 0 => Entry(r.vpc, r.ip, r.inst, 0) \in reserved'
    BY <1>6, <2>1, InsertsSucceed DEF CommitLaunch
  <2>4. r.step = "done" => nics[i][0] = [vpc |-> r.vpc, ip |-> r.ip]
    BY <1>0, <2>1, <2>2 DEF WorkKnown
  <2>. QED
    BY <1>c, <2>1, <2>2, <2>3, <2>4, KeptEnds
<1>7. CASE CommitMigrate(p)
  <2>1. At(p, "migrate", "done") /\ Ends(p) /\ r.nic = 0 /\ r.op \in Takers /\ r.op \in Works
    BY <1>0, <1>7, Continues DEF CommitMigrate, At, Takers, Works
  <2>2. PICK i \in Insts, k \in Nics : i = r.inst /\ k = r.nic
    BY <1>b, <2>1
  <2>3. CASE UNCHANGED nics /\ reserved' = {e \in reserved : ~(e.inst = r.inst /\ e.nic = 0
                                                              /\ e.vpc = insts[r.inst].vpc)}
                                           \union {Entry(r.vpc, r.ip, r.inst, 0)}
    <3>1. nics[i][0] = [vpc |-> r.vpc, ip |-> r.ip]
      BY <1>0, <2>1, <2>2 DEF WorkKnown, At
    <3>2. \A l \in Nics : l # 0 =>
            nics[i][l].ip = 0 \/ Entry(nics[i][l].vpc, nics[i][l].ip, i, l) \in reserved'
      BY <1>c, <1>d, <2>1, <2>2, <2>3
    <3>. QED
      BY <2>1, <2>2, <2>3, <3>1, <3>2, KeptEnds
  <2>4. CASE UNCHANGED reserved /\ nics' = [nics EXCEPT ![r.inst][0] = r.old]
    <3>1. /\ nics'[i][0] = r.old /\ \A l \in Nics : l # 0 => nics'[i][l] = nics[i][l]
          /\ \A j \in Insts : j # i => nics'[j] = nics[j]
      BY <2>2, <2>4, TypeParts, ReadsTyped DEF TablesTyped
    <3>2. r.old.ip # 0 => Entry(r.old.vpc, r.old.ip, i, 0) \in reserved
      BY <2>1, <2>2 DEF KeptInv, OldKept, At
    <3>. QED
      BY <1>c, <2>1, <2>2, <2>4, <3>1, <3>2, KeptEnds
  <2>. QED
    BY <1>7, <2>3, <2>4 DEF CommitMigrate
<1>8. CASE CommitNic(p)
  <2>1. At(p, "add", "done") /\ Ends(p) /\ r.op \in Takers /\ r.op \in Works /\ UNCHANGED nics
    BY <1>8, Continues DEF CommitNic, At, Takers, Works
  <2>2. PICK i \in Insts, k \in Nics : i = r.inst /\ k = r.nic
    BY <1>b, <2>1
  <2>3. /\ reserved \subseteq reserved'
        /\ r.ip # 0 => Entry(r.vpc, r.ip, r.inst, r.nic) \in reserved'
    BY <1>8, <2>1, InsertsSucceed DEF CommitNic
  <2>4. nics[i][k] = [vpc |-> r.vpc, ip |-> r.ip]
    BY <1>0, <2>1, <2>2 DEF WorkKnown, At
  <2>. QED
    BY <1>c, <2>1, <2>2, <2>3, <2>4, KeptEnds
<1>9. CASE CommitUnplug(p)
  <2>1. At(p, "remove", "done") /\ Ends(p) /\ r.op \in Works /\ UNCHANGED nics
    BY <1>9, Continues DEF CommitUnplug, At, Works
  <2>2. PICK i \in Insts, k \in Nics : i = r.inst /\ k = r.nic
    BY <1>b, <2>1
  <2>3. reserved' = {e \in reserved : ~(e.inst = r.inst /\ e.nic = r.nic)}
    BY <1>9 DEF CommitUnplug
  <2>4. nics[i][k] = Unplugged
    BY <1>0, <2>1, <2>2 DEF WorkKnown, At
  <2>5. \A l \in Nics : l # k =>
          nics[i][l].ip = 0 \/ Entry(nics[i][l].vpc, nics[i][l].ip, i, l) \in reserved'
    BY <1>c, <1>d, <2>2, <2>3
  <2>. QED
    BY <2>1, <2>2, <2>3, <2>4, <2>5, KeptEnds, NullsTyped
<1>10. CASE CommitIp(p)
  <2>1. At(p, "ip", "done") /\ Ends(p) /\ r.op \in Takers /\ r.op \in Works /\ UNCHANGED nics /\ r.nic = 0
    BY <1>0, <1>10, Continues DEF CommitIp, At, Takers, Works
  <2>2. PICK i \in Insts, k \in Nics : i = r.inst /\ k = r.nic
    BY <1>b, <2>1
  <2>3. nics[i][0] = [vpc |-> r.vpc, ip |-> r.ip] /\ insts[i].vpc = r.vpc
    BY <1>0, <2>1, <2>2 DEF WorkKnown, At
  <2>4. reserved' = {e \in reserved : ~(e.inst = r.inst /\ e.vpc = r.vpc)}
                    \union {Entry(r.vpc, r.ip, r.inst, 0)}
    BY <1>10, <2>1, InsertsSucceed DEF CommitIp, At
  <2>5. \A l \in Nics : l # 0 => nics[i][l].vpc # r.vpc
    <3>1. \A q \in NetProcs : q # p => nreq[q].inst # i
      BY <2>2, NullsTyped DEF RequestInv, OnePerInst
    <3>2. \A l \in Nics : l # 0 => nics[i][l].vpc = Named(i, l)
      BY <2>1, <3>1 DEF NicInv, NicsNamed, Worked
    <3>3. Named(i, 0) = r.vpc /\ r.vpc # NoVpc /\ 0 \in Nics
      BY <1>0, <2>1, <2>3, NullsTyped, ReadsTyped DEF Named
    <3>. QED
      BY <3>2, <3>3 DEF NicInv, NamedOnce
  <2>6. \A l \in Nics : l # 0 =>
          nics[i][l].ip = 0 \/ Entry(nics[i][l].vpc, nics[i][l].ip, i, l) \in reserved'
    BY <1>c, <1>d, <2>1, <2>2, <2>4, <2>5
  <2>. QED
    BY <2>1, <2>2, <2>3, <2>4, <2>6, KeptEnds
<1>. QED
  BY <1>1, <1>2, <1>3, <1>4, <1>5, <1>6, <1>7, <1>8, <1>9, <1>10 DEF NetContinue

LEMMA KeptStep ==
  ASSUME TypeInv, RequestInv, AddressInv, NicInv, OwnerInv, KeptInv, Orderly, [NetworkNext]_netVars
  PROVE  KeptInv'
<1>1. ASSUME NEW i \in Insts, Terminate(i)
      PROVE  KeptInv'
  <2>1. Settled(i) /\ UNCHANGED nreq /\ reserved' = reserved \ EntriesOf(i)
    BY <1>1, OrderlyGuards DEF Terminate
  <2>2. /\ \A k \in Nics : nics'[i][k] = Unplugged
        /\ \A j \in Insts : j # i => nics'[j] = nics[j]
    BY <1>1, TypeParts DEF Terminate, TablesTyped
  <2>. QED
    BY <2>1, <2>2, KeptStays, NullsTyped DEF EntriesOf, Settled
<1>2. CASE \/ \E i \in Insts : LaunchDetached(i)
           \/ \E u \in Users, v \in Vpcs, h \in Hosts : ReserveStatic(u, v, h)
           \/ UNCHANGED netVars
  <2>1. UNCHANGED <<nics, nreq>> /\ reserved \subseteq reserved'
    BY <1>2 DEF LaunchDetached, ReserveStatic, netVars
  <2>. QED
    BY <2>1, KeptStays
<1>3. ASSUME NEW e \in reserved, ReleaseStatic(e)
      PROVE  KeptInv'
  <2>1. UNCHANGED <<nics, nreq>> /\ reserved' = reserved \ {e} /\ e.inst = NoInst
    BY <1>3 DEF ReleaseStatic
  <2>. QED
    BY <2>1, KeptStays, NullsTyped
<1>. QED
  BY <1>1, <1>2, <1>3, KeptStarts, KeptGoes, OrderlyGuards DEF NetworkNext

LEMMA KeptBegins == NetworkInit => KeptInv
BY NullsTyped DEF NetworkInit, KeptInv, NicsKept, OldKept

(***************************************************************************)
(* Once nobody works on an instance, each of its addresses is reserved for *)
(* that very NIC, whichever of update_vm_network, add_nic, remove_nic,     *)
(* change_instance_ip and the launch came before and however it failed.    *)
(***************************************************************************)
THEOREM NicsStayReserved ==
  ASSUME Orderly
  PROVE  NetworkSpec => []NicsReserved
<1>. DEFINE Inv == RequestInv /\ AddressInv /\ NicInv /\ OwnerInv /\ KeptInv
<1>1. NetworkInit => Inv
  BY RequestBegins, AddressBegins, NicBegins, OwnerBegins, KeptBegins
<1>2. TypeInv /\ Inv /\ [NetworkNext]_netVars => Inv'
  BY RequestStep, AddressStep, NicStep, OwnerStep, KeptStep
<1>3. Inv => NicsReserved
  BY DEF KeptInv, NicsKept, NicsReserved, Settled, Worked
<1>. HIDE DEF Inv
<1>. QED
  BY <1>1, <1>2, <1>3, TypeInvAlways, PTL DEF NetworkSpec

-----------------------------------------------------------------------------
(* The gateway's address *)

LEMMA FirstStarts ==
  ASSUME TypeInv, NoneFirst, GatewaysFirst, NEW p \in NetProcs, NetStart(p)
  PROVE  NoneFirst'
<1>. USE NullsTyped
<1>0. nreq \in [NetProcs -> NetRequest] /\ \A v : NextAddress(v) # 1
  BY TypeParts, AddressesFree
<1>a. ASSUME NotFirst(nreq'[p]), Others(p), UNCHANGED <<vpcs, nics>>
      PROVE  NoneFirst'
  BY <1>a DEF NoneFirst, Others, Exists
<1>1. ASSUME NEW u \in Users, NEW v \in Vpcs, NEW b \in Blocks, NEW g \in Gateways, NEW m \in Modes,
             ReadForCreate(p, u, v, b, g, m)
      PROVE  NoneFirst'
  <2>1. Begins(p, "create", "read", v, NoInst, 0, 0) /\ UNCHANGED <<vpcs, nics>>
    BY <1>1, StartEffects DEF ReadForCreate
  <2>2. nreq'[p].copy.gw = 1 /\ nreq'[p].old = Unplugged
    BY <1>0, <1>1 DEF ReadForCreate, Begin, Free, NoRow, GatewaysFirst
  <2>. QED
    BY <1>a, <2>1, <2>2 DEF Begins, NotFirst
<1>b. ASSUME NEW op, NEW step, NEW v, NEW i, NEW k, NEW h, op # "create", h # 1,
             Begins(p, op, step, v, i, k, h), nreq'[p].old.ip # 1, UNCHANGED <<vpcs, nics>>
      PROVE  NoneFirst'
  BY <1>a, <1>b DEF Begins, NotFirst
<1>2. ASSUME NEW u \in Users, NEW v \in Vpcs, DropVnet(p, u, v)
      PROVE  NoneFirst'
  <2>1. Begins(p, "drop", "done", v, NoInst, 0, 0) /\ UNCHANGED <<vpcs, nics>>
    BY <1>2, StartEffects DEF DropVnet
  <2>2. nreq'[p].old = Unplugged
    BY <1>0, <1>2 DEF DropVnet, Begin, Free
  <2>. QED
    BY <1>b, <2>1, <2>2
<1>3. ASSUME NEW u \in Users, NEW v \in Vpcs, NEW m \in Modes, ReadForMode(p, u, v, m)
      PROVE  NoneFirst'
  <2>1. Begins(p, "mode", "read", v, NoInst, 0, 0) /\ UNCHANGED <<vpcs, nics>>
    BY <1>3, StartEffects DEF ReadForMode
  <2>2. nreq'[p].old = Unplugged
    BY <1>0, <1>3 DEF ReadForMode, Begin, Free
  <2>. QED
    BY <1>b, <2>1, <2>2
<1>4. ASSUME NEW i \in Insts, NEW v \in Vpcs, ReadForLaunch(p, i, v)
      PROVE  NoneFirst'
  <2>1. Begins(p, "launch", "read", v, i, 0, NextAddress(v)) /\ UNCHANGED <<vpcs, nics>>
    BY <1>4, StartEffects DEF ReadForLaunch
  <2>2. nreq'[p].old = Unplugged
    BY <1>0, <1>4 DEF ReadForLaunch, Begin, Free
  <2>. QED
    BY <1>0, <1>b, <2>1, <2>2
<1>5. ASSUME NEW u \in Users, NEW i \in Insts, NEW v \in Vpcs, ReadForMigrate(p, u, i, v)
      PROVE  NoneFirst'
  <2>1. Begins(p, "migrate", "read", v, i, 0, nreq'[p].ip) /\ UNCHANGED <<vpcs, nics>>
    BY <1>5, StartEffects DEF ReadForMigrate
  <2>2. /\ nreq'[p].old = nics[i][0]
        /\ nreq'[p].ip = Least((Hosts \ {vpcs[v].gw}) \ Taken(v)) /\ nreq'[p].ip # 0
    BY <1>0, <1>5 DEF ReadForMigrate, Begin, Free
  <2>3. vpcs[v].gw = 1
    BY <1>5, TypeParts DEF ReadForMigrate, TablesTyped, NoneFirst
  <2>4. nreq'[p].ip # 1
    BY <2>2, <2>3, AddressesFree
  <2>. QED
    BY <1>a, <2>1, <2>2, <2>4, ReadsTyped DEF Begins, NotFirst, NoneFirst
<1>6. ASSUME NEW u \in Users, NEW i \in Insts, NEW v \in Vpcs, ReadForAdd(p, u, i, v)
      PROVE  NoneFirst'
  <2>1. Begins(p, "add", "read", v, i, LastNic(i) + 1, 0) /\ UNCHANGED <<vpcs, nics>>
    BY <1>6, StartEffects DEF ReadForAdd
  <2>2. nreq'[p].old = Unplugged
    BY <1>0, <1>6 DEF ReadForAdd, Begin, Free
  <2>. QED
    BY <1>b, <2>1, <2>2
<1>7. ASSUME NEW u \in Users, NEW i \in Insts, NEW k \in Nics, UnplugNic(p, u, i, k)
      PROVE  NoneFirst'
  <2>1. Begins(p, "remove", "done", NoVpc, i, k, 0) /\ UNCHANGED vpcs
    BY <1>7, StartEffects DEF UnplugNic
  <2>2. nreq'[p].old = Unplugged
    BY <1>0, <1>7 DEF UnplugNic, Begin, Free
  <2>3. \A j \in Insts, l \in Nics : nics'[j][l] \in {nics[j][l], Unplugged}
    BY <1>7, TypeParts DEF UnplugNic, TablesTyped
  <2>. QED
    BY <2>1, <2>2, <2>3 DEF NoneFirst, NotFirst, Begins, Others, Exists
<1>8. ASSUME NEW i \in Insts, NEW h \in Hosts, ReadForIp(p, i, h)
      PROVE  NoneFirst'
  <2>1. Begins(p, "ip", "read", insts[i].vpc, i, 0, h) /\ UNCHANGED <<vpcs, nics>>
    BY <1>8, StartEffects DEF ReadForIp
  <2>2. nreq'[p].old = Unplugged
    BY <1>0, <1>8 DEF ReadForIp, Begin, Free
  <2>3. insts[i].vpc \in Vpcs /\ vpcs[insts[i].vpc].owner \in Users /\ h # vpcs[insts[i].vpc].gw
    BY <1>8, ReadsTyped DEF ReadForIp
  <2>4. h # 1
    BY <2>3, TypeParts DEF TablesTyped, NoneFirst
  <2>. QED
    BY <1>b, <2>1, <2>2, <2>4
<1>9. ASSUME NEW u \in Users, NEW i \in Insts, NEW m \in Modes, ReadForInstanceMode(p, u, i, m)
      PROVE  NoneFirst'
  BY <1>3, <1>9, ReadsTyped DEF ReadForInstanceMode
<1>. QED
  BY <1>1, <1>2, <1>3, <1>4, <1>5, <1>6, <1>7, <1>8, <1>9 DEF NetStart

LEMMA FirstGoes ==
  ASSUME TypeInv, NoneFirst, NEW p \in NetProcs, NetContinue(p)
  PROVE  NoneFirst'
<1>. DEFINE r == nreq[p]
<1>a. \A v : NextAddress(v) # 1
  BY AddressesFree
<1>b. r \in NetRequest /\ r.copy \in Vpc
  BY RequestFields
<1>0. /\ NotFirst(r) /\ r \in NetRequest /\ r.copy \in Vpc
      /\ nreq \in [NetProcs -> NetRequest] /\ nics \in [Insts -> [Nics -> Nic]]
      /\ \A v : NextAddress(v) # 1
  BY <1>a, <1>b, TypeParts DEF NoneFirst, TablesTyped
<1>1. \A v \in Vpcs : vpcs'[v].status # "absent" => vpcs'[v].gw = 1
  <2>1. CASE UNCHANGED vpcs
    BY <2>1 DEF NoneFirst, Exists
  <2>2. CASE CommitCreate(p) /\ vpcs' = [vpcs EXCEPT ![r.vpc] = [r.copy EXCEPT !.grouped = r.copy.mode = "published"]]
    <3>1. r.copy.gw = 1
      BY <1>0, <2>2 DEF CommitCreate, At, NotFirst
    <3>. QED
      BY <1>0, <2>2, <3>1, TypeParts DEF TablesTyped, NoneFirst, Exists, Vpc
  <2>3. CASE DropRow(p)
    BY <2>3, NullsTyped, TypeParts DEF DropRow, TablesTyped, NoneFirst, Exists
  <2>4. CASE CommitMode(p)
    <3>1. \A v \in Vpcs : vpcs'[v].status = vpcs[v].status /\ vpcs'[v].gw = vpcs[v].gw
      BY <2>4, TypeParts DEF CommitMode, TablesTyped, Vpc
    <3>. QED
      BY <3>1 DEF NoneFirst, Exists
  <2>. QED
    BY <2>1, <2>2, <2>3, <2>4
       DEF NetContinue, FlushCreate, BuildVnet, CommitCreate, ApplyMode, PlugLaunch, CommitLaunch,
           ApplyMigrate, CommitMigrate, PlugNic, CommitNic, CommitUnplug, ApplyIp, CommitIp
<1>2. \A i \in Insts, k \in Nics : nics'[i][k].ip # 1
  <2>1. ASSUME NEW j, NEW l, NEW v, NEW h, h # 1, nics' = [nics EXCEPT ![j][l] = [vpc |-> v, ip |-> h]]
        PROVE  \A i \in Insts, k \in Nics : nics'[i][k].ip # 1
    BY <1>0, <2>1 DEF NoneFirst
  <2>2. CASE UNCHANGED nics
    BY <2>2 DEF NoneFirst
  <2>3. CASE \/ nics' = [nics EXCEPT ![r.inst][0] = [vpc |-> r.vpc, ip |-> r.ip]]
             \/ nics' = [nics EXCEPT ![r.inst][r.nic] = [vpc |-> r.vpc, ip |-> NextAddress(r.vpc)]]
    <3>1. PICK j, l, v, h : /\ nics' = [nics EXCEPT ![j][l] = [vpc |-> v, ip |-> h]]
                            /\ h = r.ip \/ h = NextAddress(r.vpc)
      BY <2>3
    <3>2. h # 1
      BY <1>0, <3>1 DEF NotFirst
    <3>. QED
      BY <2>1, <3>1, <3>2
  <2>4. CASE nics' = [nics EXCEPT ![r.inst][0] = r.old]
    BY <1>0, <2>4 DEF NoneFirst, NotFirst
  <2>. QED
    BY <2>2, <2>3, <2>4
       DEF NetContinue, FlushCreate, BuildVnet, CommitCreate, DropRow, ApplyMode, CommitMode,
           PlugLaunch, CommitLaunch, ApplyMigrate, CommitMigrate, PlugNic, CommitNic, CommitUnplug,
           ApplyIp, CommitIp
<1>3. NotFirst(nreq'[p]) /\ Others(p)
  <2>1. CASE Ends(p) \/ \E step : Moves(p, step)
    BY <1>0, <2>1, NullsTyped DEF Ends, Moves, NotFirst
  <2>2. CASE BuildVnet(p)
    <3>1. /\ Others(p) /\ nreq'[p].ip = r.ip /\ nreq'[p].old = r.old /\ nreq'[p].op = r.op
          /\ nreq'[p].copy.gw = r.copy.gw
      BY <1>0, <2>2 DEF BuildVnet, NetRequest, Vpc, Others
    <3>. QED
      BY <1>0, <3>1 DEF NotFirst
  <2>3. CASE nreq' = [nreq EXCEPT ![p].step = "done", ![p].ip = NextAddress(r.vpc)]
    <3>1. /\ Others(p) /\ nreq'[p].ip = NextAddress(r.vpc) /\ nreq'[p].old = r.old
          /\ nreq'[p].op = r.op /\ nreq'[p].copy = r.copy
      BY <1>0, <2>3 DEF NetRequest, Others
    <3>. QED
      BY <1>0, <3>1 DEF NotFirst
  <2>. QED
    BY <2>1, <2>2, <2>3, Continues
       DEF NetContinue, FlushCreate, CommitCreate, DropRow, ApplyMode, CommitMode,
           PlugLaunch, CommitLaunch, ApplyMigrate, CommitMigrate, PlugNic, CommitNic, CommitUnplug,
           ApplyIp, CommitIp
<1>. QED
  BY <1>1, <1>2, <1>3 DEF NoneFirst, Others, Exists

LEMMA FirstStep ==
  ASSUME TypeInv, NoneFirst, GatewaysFirst, [NetworkNext]_netVars
  PROVE  NoneFirst'
<1>1. ASSUME UNCHANGED <<vpcs, nreq>>,
             \A j \in Insts, l \in Nics : nics'[j][l] \in {nics[j][l], Unplugged}
      PROVE  NoneFirst'
  BY <1>1, NullsTyped DEF NoneFirst, Exists
<1>2. ASSUME NEW i \in Insts, Terminate(i)
      PROVE  NoneFirst'
  BY <1>1, <1>2, TypeParts DEF Terminate, TablesTyped
<1>3. CASE \/ \E i \in Insts : LaunchDetached(i)
           \/ \E u \in Users, v \in Vpcs, h \in Hosts : ReserveStatic(u, v, h)
           \/ \E e \in reserved : ReleaseStatic(e)
           \/ UNCHANGED netVars
  BY <1>1, <1>3 DEF LaunchDetached, ReserveStatic, ReleaseStatic, netVars
<1>4. ASSUME NEW p \in NetProcs, LoseRequest(p)
      PROVE  NoneFirst'
  BY <1>4, Continues, NullsTyped DEF LoseRequest, Ends, Others, NoneFirst, NotFirst, Exists
<1>. QED
  BY <1>2, <1>3, <1>4, FirstStarts, FirstGoes DEF NetworkNext

LEMMA FirstBegins == NetworkInit => NoneFirst
BY NullsTyped DEF NetworkInit, NoneFirst, NotFirst, Exists

(***************************************************************************)
(* No two NICs have one address on one VNet, nor has one the gateway's,    *)
(* at any step between the read of the reservations and the commit: what a *)
(* request plugs in is reserved by nobody, and whoever takes an address of *)
(* the same network meanwhile waits or is refused by uq_subnet_ip.  The    *)
(* gateways are first hosts, as create_vpc makes them when it is not asked *)
(* for others.                                                             *)
(***************************************************************************)
THEOREM NicAddressesStayDifferent ==
  ASSUME Orderly, GatewaysFirst
  PROVE  NetworkSpec => []NicAddressesDiffer
<1>. DEFINE Inv == RequestInv /\ AddressInv /\ NicInv /\ OwnerInv /\ KeptInv /\ NoneFirst
<1>1. NetworkInit => Inv
  BY RequestBegins, AddressBegins, NicBegins, OwnerBegins, KeptBegins, FirstBegins
<1>2. TypeInv /\ Inv /\ [NetworkNext]_netVars => Inv'
  BY RequestStep, AddressStep, NicStep, OwnerStep, KeptStep, FirstStep
<1>3. ASSUME TypeInv, Inv, NEW i \in Insts, NEW k \in Nics, nics[i][k].ip # 0
      PROVE  nics[i][k].ip # vpcs[nics[i][k].vpc].gw
  <2>1. nics[i][k].vpc \in Vpcs /\ nics[i][k].vpc # NoVpc
    BY <1>3, SpecsTyped, NullsTyped DEF Nic, NicInv, NicsNamed
  <2>2. \/ Named(i, k) = nics[i][k].vpc
        \/ \E p \in NetProcs :
             nreq[p].op \in Takers /\ nics[i][k] = [vpc |-> nreq[p].vpc, ip |-> nreq[p].ip]
    BY <1>3, <2>1, PlugsKnown
  <2>3. Exists(nics[i][k].vpc)
    <3>1. CASE Named(i, k) = nics[i][k].vpc
      BY <1>3, <2>1, <3>1 DEF OwnerInv, NamedOwned, Owned
    <3>2. ASSUME NEW p \in NetProcs, nreq[p].op \in Takers,
                 nics[i][k] = [vpc |-> nreq[p].vpc, ip |-> nreq[p].ip]
          PROVE  Exists(nics[i][k].vpc)
      BY <1>3, <3>2 DEF RequestInv, RequestsKnown
    <3>. QED
      BY <2>2, <3>1, <3>2
  <2>. QED
    BY <1>3, <2>1, <2>3 DEF NoneFirst
<1>4. ASSUME TypeInv, Inv, NEW i \in Insts, NEW k \in Nics, NEW j \in Insts, NEW l \in Nics,
             nics[i][k] = nics[j][l], nics[i][k].ip # 0, ~Worked(j, l)
      PROVE  i = j /\ k = l
  <2>1. Entry(nics[i][k].vpc, nics[i][k].ip, j, l) \in reserved
    BY <1>4 DEF KeptInv, NicsKept
  <2>2. CASE ~Worked(i, k)
    <3>1. Entry(nics[i][k].vpc, nics[i][k].ip, i, k) \in reserved
      BY <1>4, <2>2 DEF KeptInv, NicsKept
    <3>. QED
      BY <1>4, <2>1, <3>1 DEF AddressInv, ReservedOnce, Entry
  <2>3. ASSUME NEW p \in NetProcs, nreq[p].op \in Takers, nreq[p].step = "done", nreq[p].inst = i,
               nreq[p].nic = k, nics[i][k] = [vpc |-> nreq[p].vpc, ip |-> nreq[p].ip]
        PROVE  i = j /\ k = l
    <3>1. nreq[p].ip \in Taken(nreq[p].vpc)
      BY <2>1, <2>3 DEF Taken, Entry
    <3>2. nreq[p].op = "ip"
      BY <1>4, <2>3, <3>1 DEF AddressInv, TakersFresh, At, Takers
    <3>3. i = j
      BY <1>4, <2>1, <2>3, <3>2 DEF AddressInv, TakersFresh, Entry
    <3>4. k = 0 /\ insts[i].vpc = nreq[p].vpc /\ nreq[p].vpc \in Vpcs
      BY <1>4, <2>3, <3>2, RequestFields DEF KnowsItself, NicInv, WorkKnown, Takers
    <3>5. Named(i, l) = nreq[p].vpc
      <4>1. Named(j, l) = nics[j][l].vpc
        BY <1>4 DEF NicInv, NicsNamed
      <4>2. nics[i][k].vpc = nreq[p].vpc
        BY <2>3
      <4>. QED
        BY <1>4, <3>3, <4>1, <4>2
    <3>6. Named(i, k) = nreq[p].vpc
      BY <3>4 DEF Named
    <3>. QED
      BY <1>4, <3>3, <3>4, <3>5, <3>6, NullsTyped DEF NicInv, NamedOnce
  <2>4. nics[i][k].vpc # NoVpc
    BY <1>4, NullsTyped DEF NicInv, NicsNamed
  <2>5. \/ ~Worked(i, k)
        \/ \E p \in NetProcs :
             /\ nreq[p].op \in Takers /\ nreq[p].step = "done" /\ nreq[p].inst = i /\ nreq[p].nic = k
             /\ nics[i][k] = [vpc |-> nreq[p].vpc, ip |-> nreq[p].ip]
    BY <1>4, <2>4, PlugsKnown
  <2>. QED
    BY <2>2, <2>3, <2>5
<1>5. ASSUME TypeInv, Inv, NEW i \in Insts, NEW k \in Nics, NEW j \in Insts, NEW l \in Nics,
             nics[i][k] = nics[j][l], nics[i][k].ip # 0, Worked(i, k), Worked(j, l)
      PROVE  i = j /\ k = l
  <2>1. nics[i][k].vpc # NoVpc
    BY <1>5, NullsTyped DEF NicInv, NicsNamed
  <2>2. PICK p \in NetProcs :
          /\ nreq[p].op \in Takers /\ nreq[p].step = "done" /\ nreq[p].inst = i /\ nreq[p].nic = k
          /\ nics[i][k] = [vpc |-> nreq[p].vpc, ip |-> nreq[p].ip]
    BY <1>5, <2>1, PlugsKnown
  <2>3. PICK q \in NetProcs :
          /\ nreq[q].op \in Takers /\ nreq[q].step = "done" /\ nreq[q].inst = j /\ nreq[q].nic = l
          /\ nics[j][l] = [vpc |-> nreq[q].vpc, ip |-> nreq[q].ip]
    BY <1>5, <2>1, PlugsKnown
  <2>4. nreq[p].vpc = nreq[q].vpc /\ nreq[p].ip = nreq[q].ip
    <3>1. nics[i][k].vpc = nreq[p].vpc /\ nics[i][k].ip = nreq[p].ip
      BY <2>2
    <3>2. nics[j][l].vpc = nreq[q].vpc /\ nics[j][l].ip = nreq[q].ip
      BY <2>3
    <3>. QED
      BY <1>5, <3>1, <3>2
  <2>5. p = q
    BY <1>5, <2>2, <2>3, <2>4 DEF AddressInv, TakersAlone, MigratesDiffer, Holds, At
  <2>. QED
    BY <2>2, <2>3, <2>5
<1>6. TypeInv /\ Inv => NicAddressesDiffer
  <2>. SUFFICES ASSUME TypeInv, Inv, NEW i \in Insts, NEW k \in Nics, NEW j \in Insts, NEW l \in Nics,
                       nics[i][k].ip # 0
                PROVE  /\ nics[i][k] = nics[j][l] => i = j /\ k = l
                       /\ nics[i][k].ip # vpcs[nics[i][k].vpc].gw
    BY DEF NicAddressesDiffer
  <2>. HIDE DEF Inv
  <2>1. ASSUME nics[i][k] = nics[j][l]
        PROVE  i = j /\ k = l
    <3>1. CASE ~Worked(j, l)
      BY <1>4, <2>1, <3>1
    <3>2. CASE ~Worked(i, k)
      BY <1>4, <2>1, <3>2
    <3>3. CASE Worked(i, k) /\ Worked(j, l)
      BY <1>5, <2>1, <3>3
    <3>. QED
      BY <3>1, <3>2, <3>3
  <2>. QED
    BY <1>3, <2>1
<1>. HIDE DEF Inv
<1>. QED
  BY <1>1, <1>2, <1>6, TypeInvAlways, PTL DEF NetworkSpec

-----------------------------------------------------------------------------
(* Secondary NICs and modes *)

\* Modes stay.  An instance that plugs or unplugs is left by the requests.
LEMMA ModesStay ==
  ASSUME TypeInv, TypeInv', ModeInv, \A v \in Vpcs : vpcs'[v].mode = vpcs[v].mode,
         \A i \in Insts :
           \/ insts'[i].vpc = insts[i].vpc /\ insts'[i].second = insts[i].second
           \/ /\ NicsPrivate(i)'
              /\ \A q \in NetProcs : nreq'[q].inst # i
              /\ \A q \in NetProcs : nreq'[q].op = "mode" /\ Alone(i, nreq'[q].vpc)
                                       => Alone(i, nreq[q].vpc)',
         \A q \in NetProcs : nreq'[q] = nreq[q] \/ ModeAllowed(nreq'[q])
  PROVE  ModeInv'
<1>1. \A i \in Insts : insts'[i].vpc = insts[i].vpc /\ insts'[i].second = insts[i].second
        => \A k : Named(i, k)' = Named(i, k)
  BY DEF Named
<1>2. \A v \in Vpcs \union {NoVpc} : Private(v)' <=> Private(v)
  BY NullsTyped DEF Private
<1>3. \A i \in Insts : NicsPrivate(i)'
  BY <1>1, <1>2, SpecsTyped DEF ModeInv, NicsPrivate
<1>4. \A q \in NetProcs : ModeAllowed(nreq'[q])
  BY DEF ModeInv
<1>5. ASSUME NEW q \in NetProcs
      PROVE  ModeAllowed(nreq[q])'
  <2>1. PICK r : r = nreq'[q]
    OBVIOUS
  <2>2. ModeAllowed(r) /\ KnowsItself(r)
    BY <1>4, <2>1, TypeParts
  <2>3. /\ r.op \in {"add", "migrate", "mode"} => r.vpc \in Vpcs
        /\ r.op \in {"add", "migrate"} => r.inst \in Insts
    BY <2>2 DEF KnowsItself, Takers, Alters, Works
  <2>4. r.op \in {"add", "migrate"} =>
          /\ insts'[r.inst].vpc = insts[r.inst].vpc /\ insts'[r.inst].second = insts[r.inst].second
          /\ insts[r.inst].vpc \in Vpcs \union {NoVpc}
    BY <2>1, <2>3, ReadsTyped
  <2>5. r.op \in {"add", "migrate"} =>
          /\ r.op = "add" => Private(r.vpc)' /\ Private(insts[r.inst].vpc)'
          /\ r.op = "migrate" => Private(r.vpc)' \/ insts'[r.inst].second = <<>>
    BY <1>2, <2>2, <2>3, <2>4 DEF ModeAllowed
  <2>6. ASSUME r.op = "mode", r.mode # "private", NEW i \in Insts
        PROVE  Alone(i, nreq[q].vpc)'
    <3>1. Alone(i, r.vpc)
      BY <2>2, <2>6 DEF ModeAllowed
    <3>. QED
      BY <1>1, <2>1, <2>6, <3>1 DEF Alone
  <2>. QED
    BY <2>1, <2>5, <2>6 DEF ModeAllowed
<1>. QED
  BY <1>3, <1>5 DEF ModeInv

\* The mode of a VPC changes that no request takes and that either gets private
\* or has no instance with secondary NICs.
LEMMA ModesChange ==
  ASSUME TypeInv, ModeInv, NEW p \in NetProcs, Ends(p), UNCHANGED insts, NEW v \in Vpcs,
         \A w \in Vpcs : w # v => vpcs'[w] = vpcs[w],
         \A q \in NetProcs \ {p} :
           nreq[q].op \in Takers => nreq[q].vpc # v /\ insts[nreq[q].inst].vpc # v,
         vpcs'[v].mode = "private" \/ \A i \in Insts : Alone(i, v)
  PROVE  ModeInv'
<1>1. \A i, k : Named(i, k)' = Named(i, k)
  BY DEF Named
<1>2. \A w \in Vpcs \union {NoVpc} : w # v => (Private(w)' <=> Private(w))
  BY NullsTyped DEF Private
<1>3. ASSUME NEW i \in Insts, insts'[i].second # <<>>, NEW k \in Nics
      PROVE  Private(Named(i, k))'
  <2>1. CASE Named(i, k) # v
    <3>1. Private(Named(i, k)) /\ Named(i, k) \in Vpcs \union {NoVpc}
      BY <1>3, SpecsTyped DEF ModeInv, NicsPrivate
    <3>. QED
      BY <1>1, <1>2, <2>1, <3>1 DEF Private
  <2>2. CASE Named(i, k) = v
    <3>1. ~Alone(i, v)
      BY <1>3, <2>2 DEF Alone, Named
    <3>. QED
      BY <1>1, <2>2, <3>1 DEF Private
  <2>. QED
    BY <2>1, <2>2
<1>4. ASSUME NEW q \in NetProcs
      PROVE  ModeAllowed(nreq[q])'
  <2>1. CASE q = p
    BY <2>1, NullsTyped DEF ModeAllowed, Ends
  <2>2. CASE q # p
    <3>1. PICK r : r = nreq[q] /\ r = nreq'[q]
      BY <2>2 DEF Ends, Others
    <3>2. ModeAllowed(r)
      BY <3>1 DEF ModeInv
    <3>3. r.op \in Takers => /\ r.vpc \in Vpcs /\ insts[r.inst].vpc \in Vpcs \union {NoVpc}
                             /\ r.vpc # v /\ insts[r.inst].vpc # v
      BY <2>2, <3>1, RequestFields, ReadsTyped DEF Takers, Works
    <3>4. \A i \in Insts : Alone(i, r.vpc)' <=> Alone(i, r.vpc)
      BY <1>1 DEF Alone
    <3>5. ModeAllowed(r)'
      BY <1>2, <3>2, <3>3, <3>4 DEF ModeAllowed, Takers
    <3>. QED
      BY <3>1, <3>5 DEF ModeAllowed, Alone
  <2>. QED
    BY <2>1, <2>2
<1>. QED
  BY <1>3, <1>4 DEF ModeInv, NicsPrivate

LEMMA ModeAddReads ==
  ASSUME TypeInv, TypeInv', NicInv, OwnerInv, ModeInv, Orderly, NEW p \in NetProcs, NEW u \in Users,
         NEW i \in Insts, NEW v \in Vpcs, ReadForAdd(p, u, i, v)
  PROVE  ModeInv'
<1>1. Begins(p, "add", "read", v, i, LastNic(i) + 1, 0) /\ UNCHANGED <<vpcs, insts>>
  BY StartEffects DEF ReadForAdd
<1>2. Private(v) /\ Private(insts[i].vpc)
  <2>1. insts[i].vpc # NoVpc => insts[i].vpc \in Vpcs /\ Exists(insts[i].vpc)
    BY SpecsTyped DEF OwnerInv, NamedOwned, Owned, Named
  <2>. QED
    BY <2>1 DEF ReadForAdd, Private
<1>3. ModeAllowed(nreq'[p])
  BY <1>1, <1>2 DEF ModeAllowed, Begins
<1>. QED
  BY <1>1, <1>3, ModesStay DEF Begins, Others

LEMMA ModeReads ==
  ASSUME TypeInv, TypeInv', RequestInv, NicInv, OwnerInv, ModeInv, Orderly, NEW p \in NetProcs,
         NEW u \in Users, NEW v \in Vpcs, NEW m \in Modes, ReadForMode(p, u, v, m)
  PROVE  ModeInv'
<1>1. /\ Begins(p, "mode", "read", v, NoInst, 0, 0) /\ UNCHANGED <<vpcs, insts>>
      /\ u = vpcs[v].owner
  BY StartEffects, OrderlyGuards DEF ReadForMode
<1>2. nreq'[p].mode = m
  <2>1. nreq'[p] = [Free EXCEPT !.op = "mode", !.step = "read", !.user = u, !.vpc = v, !.mode = m,
                                !.copy = vpcs[v],
                                !.attached = {i \in UsersOf(u, v) : insts[i].vpc = v}]
    BY TypeParts DEF ReadForMode, Begin
  <2>. QED
    BY <2>1 DEF Free
<1>3. ASSUME m # "private", NEW i \in Insts
      PROVE  Alone(i, v)
  <2>1. (\E k \in Nics : Named(i, k) = v) => i \in UsersOf(u, v)
    <3>1. ASSUME NEW k \in Nics, Named(i, k) = v
          PROVE  InstOwner[i] = u /\ insts[i].known /\ SpecsName(i, v)
      <4>1. InstOwner[i] = u /\ v # NoVpc
        BY <1>1, <3>1, NullsTyped DEF OwnerInv, NamedOwned, Owned
      <4>2. SpecsName(i, v)
        <5>1. CASE k = 0
          BY <3>1, <5>1 DEF Named, SpecsName
        <5>2. CASE k # 0
          <6>1. k \in 1 .. Len(insts[i].second) /\ insts[i].second[k] = v
            BY <3>1, <4>1, <5>2, SpecsTyped DEF Named
          <6>. QED
            BY <6>1, SpecsTyped DEF SpecsName
        <5>. QED
          BY <5>1, <5>2
      <4>3. insts[i] # Unknown
        BY <4>2, NullsTyped, <4>1, EmptySeq DEF SpecsName
      <4>. QED
        BY <4>1, <4>2, <4>3 DEF RequestInv, UnknownBare
    <3>. QED
      BY <3>1 DEF UsersOf
  <2>2. i \in UsersOf(u, v) => insts[i].vpc = v /\ insts[i].second = <<>>
    BY <1>3 DEF ReadForMode
  <2>3. ASSUME NEW k \in Nics \ {0}, Named(i, k) = v
        PROVE  FALSE
    BY <2>1, <2>2, <2>3, SpecsTyped, NullsTyped DEF NicInv, NamedOnce, Named
  <2>. QED
    BY <2>1, <2>2, <2>3, SpecsTyped DEF Alone, Named
<1>4. ModeAllowed(nreq'[p])
  BY <1>1, <1>2, <1>3 DEF ModeAllowed, Begins
<1>. QED
  BY <1>1, <1>4, ModesStay DEF Begins, Others

LEMMA SpecsGo ==
  ASSUME TypeInv, NEW p \in NetProcs, NetContinue(p), NEW i \in Insts, insts'[i] # insts[i]
  PROVE  LET r == nreq[p] IN
         /\ Ends(p) /\ r.inst = i /\ UNCHANGED vpcs
         /\ \/ /\ r.op \in {"launch", "migrate"}
               /\ insts'[i].vpc = r.vpc /\ insts'[i].second = insts[i].second
            \/ r.op = "add" /\ insts'[i].vpc = insts[i].vpc
            \/ r.op = "remove" /\ insts'[i].vpc = insts[i].vpc /\ insts[i].second # <<>>
<1>. DEFINE r == nreq[p]
<1>1. insts \in [Insts -> Instance] /\ insts[i] \in Instance
  BY TypeParts DEF TablesTyped
<1>2. CASE CommitLaunch(p) \/ CommitMigrate(p)
  <2>1. insts' = [insts EXCEPT ![r.inst].vpc = r.vpc] /\ Ends(p) /\ UNCHANGED vpcs
    BY <1>2, Continues DEF CommitLaunch, CommitMigrate
  <2>2. r.op \in {"launch", "migrate"}
    BY <1>2 DEF CommitLaunch, CommitMigrate, At
  <2>. QED
    BY <1>1, <2>1, <2>2 DEF Instance
<1>3. CASE CommitNic(p)
  <2>1. insts' = [insts EXCEPT ![r.inst].second = Append(@, r.vpc)] /\ Ends(p) /\ UNCHANGED vpcs
    BY <1>3, Continues DEF CommitNic
  <2>2. r.op = "add"
    BY <1>3 DEF CommitNic, At
  <2>. QED
    BY <1>1, <2>1, <2>2 DEF Instance
<1>4. CASE CommitUnplug(p)
  <2>1. /\ insts[r.inst].second # <<>> /\ Ends(p) /\ UNCHANGED vpcs
        /\ \E s : insts' = [insts EXCEPT ![r.inst].second = s]
    BY <1>4, Continues DEF CommitUnplug
  <2>2. r.op = "remove"
    BY <1>4 DEF CommitUnplug, At
  <2>. QED
    BY <1>1, <2>1, <2>2 DEF Instance
<1>. QED
  BY <1>2, <1>3, <1>4
     DEF NetContinue, FlushCreate, BuildVnet, CommitCreate, DropRow, ApplyMode, CommitMode, PlugLaunch,
         ApplyMigrate, PlugNic, ApplyIp, CommitIp

\* A request ends that has plugged or unplugged a NIC of its instance.
LEMMA ModeWorks ==
  ASSUME TypeInv, TypeInv', RequestInv, NicInv, ModeInv, NEW p \in NetProcs, NetContinue(p),
         NEW i \in Insts, insts'[i] # insts[i]
  PROVE  /\ NicsPrivate(i)' /\ \A q \in NetProcs : nreq'[q].inst # i
         /\ \A q \in NetProcs : nreq'[q].op = "mode" /\ Alone(i, nreq'[q].vpc) => Alone(i, nreq[q].vpc)'
<1>. DEFINE r == nreq[p]
<1>1. /\ Ends(p) /\ r.inst = i /\ UNCHANGED vpcs
      /\ \/ /\ r.op \in {"launch", "migrate"}
            /\ insts'[i].vpc = r.vpc /\ insts'[i].second = insts[i].second
         \/ r.op = "add" /\ insts'[i].vpc = insts[i].vpc
         \/ r.op = "remove" /\ insts'[i].vpc = insts[i].vpc /\ insts[i].second # <<>>
  BY SpecsGo
<1>2. /\ ModeAllowed(r) /\ NicsPrivate(i) /\ WorkKnown(p)
      /\ r.op \in Takers => r.vpc \in Vpcs
  BY RequestFields DEF ModeInv, NicInv, Takers
<1>3. \A k \in Nics : \/ Named(i, k)' \in {Named(i, k), NoVpc}
                      \/ r.op \in Takers /\ Named(i, k)' = r.vpc
  BY NamedGoes
<1>4. \A q \in NetProcs : nreq'[q].inst # i
  BY <1>1, NullsTyped DEF Ends, Others, RequestInv, OnePerInst
<1>5. \A w : Private(w)' <=> Private(w)
  BY <1>1 DEF Private
<1>6. insts'[i].second # <<>> => /\ \A k \in Nics : Private(Named(i, k))
                                 /\ r.op \in Takers => Private(r.vpc)
  <2>1. CASE r.op \in {"launch", "migrate"}
    BY <1>1, <1>2, <2>1 DEF ModeAllowed, NicsPrivate, WorkKnown
  <2>2. CASE r.op = "add"
    <3>1. Private(r.vpc) /\ Private(Named(i, 0))
      BY <1>1, <1>2, <2>2 DEF ModeAllowed, Named
    <3>2. insts[i].second = <<>> => \A k \in Nics \ {0} : Private(Named(i, k))
      BY SpecsTyped DEF Private
    <3>. QED
      BY <1>2, <3>1, <3>2 DEF NicsPrivate
  <2>3. CASE r.op = "remove"
    BY <1>1, <1>2, <2>3 DEF NicsPrivate, Takers
  <2>. QED
    BY <1>1, <2>1, <2>2, <2>3
<1>7. NicsPrivate(i)'
  <2>1. ASSUME insts'[i].second # <<>>, NEW k \in Nics
        PROVE  Private(Named(i, k)')
    BY <1>3, <1>6, <2>1 DEF Private
  <2>2. ASSUME insts'[i].second # <<>>, NEW k \in Nics
        PROVE  Private(Named(i, k))'
    BY <1>1, <2>1, <2>2 DEF Private
  <2>. QED
    BY <2>2 DEF NicsPrivate
<1>8. ASSUME NEW q \in NetProcs, nreq'[q].op = "mode", Alone(i, nreq'[q].vpc)
      PROVE  Alone(i, nreq[q].vpc)'
  <2>1. q # p /\ nreq'[q] = nreq[q]
    BY <1>1, <1>8, NullsTyped DEF Ends, Others
  <2>2. PICK v \in Vpcs : v = nreq[q].vpc /\ v = nreq'[q].vpc
    BY <1>8, <2>1, RequestFields DEF Alters
  <2>3. r.op \in Takers => r.vpc # v /\ insts[i].vpc # v
    BY <1>1, <1>8, <2>1, <2>2 DEF RequestInv, AltersAlone, Alters
  <2>4. insts'[i].vpc = v => insts'[i].second = <<>>
    BY <1>1, <1>8, <2>2, <2>3 DEF Alone, Takers
  <2>5. \A k \in Nics \ {0} : Named(i, k)' # v
    BY <1>3, <1>8, <2>2, <2>3, NullsTyped DEF Alone
  <2>. QED
    BY <2>2, <2>4, <2>5 DEF Alone
<1>. QED
  BY <1>4, <1>7, <1>8

LEMMA ModeStarts ==
  ASSUME TypeInv, TypeInv', RequestInv, NicInv, OwnerInv, ModeInv, Orderly, NEW p \in NetProcs,
         NetStart(p)
  PROVE  ModeInv'
<1>1. ASSUME NEW op, NEW step, NEW v, NEW i, NEW k, NEW h, Begins(p, op, step, v, i, k, h),
             UNCHANGED vpcs, op \notin {"add", "mode"},
             op = "migrate" => Private(v) \/ insts[i].second = <<>>
      PROVE  ModeInv'
  <2>1. ModeAllowed(nreq'[p])
    BY <1>1 DEF ModeAllowed, Begins
  <2>. QED
    BY <1>1, <2>1, NamedStarts, ModesStay DEF Begins, Others
<1>2. ASSUME NEW u \in Users, NEW v \in Vpcs, NEW b \in Blocks, NEW g \in Gateways, NEW m \in Modes,
             ReadForCreate(p, u, v, b, g, m)
      PROVE  ModeInv'
  <2>1. Begins(p, "create", "read", v, NoInst, 0, 0) /\ UNCHANGED vpcs
    BY <1>2, StartEffects DEF ReadForCreate
  <2>. QED
    BY <1>1, <2>1
<1>3. ASSUME NEW u \in Users, NEW v \in Vpcs, DropVnet(p, u, v)
      PROVE  ModeInv'
  <2>1. Begins(p, "drop", "done", v, NoInst, 0, 0) /\ UNCHANGED vpcs
    BY <1>3, StartEffects DEF DropVnet
  <2>. QED
    BY <1>1, <2>1
<1>4. ASSUME NEW i \in Insts, NEW v \in Vpcs, ReadForLaunch(p, i, v)
      PROVE  ModeInv'
  <2>1. Begins(p, "launch", "read", v, i, 0, NextAddress(v)) /\ UNCHANGED vpcs
    BY <1>4, StartEffects DEF ReadForLaunch
  <2>. QED
    BY <1>1, <2>1
<1>5. ASSUME NEW u \in Users, NEW i \in Insts, NEW v \in Vpcs, ReadForMigrate(p, u, i, v)
      PROVE  ModeInv'
  <2>1. Begins(p, "migrate", "read", v, i, 0, nreq'[p].ip) /\ UNCHANGED vpcs
    BY <1>5, StartEffects DEF ReadForMigrate
  <2>2. Private(v) \/ insts[i].second = <<>>
    BY <1>5 DEF ReadForMigrate, Orderly, Private
  <2>. QED
    BY <1>1, <2>1, <2>2
<1>6. ASSUME NEW u \in Users, NEW i \in Insts, NEW k \in Nics, UnplugNic(p, u, i, k)
      PROVE  ModeInv'
  <2>1. Begins(p, "remove", "done", NoVpc, i, k, 0) /\ UNCHANGED vpcs
    BY <1>6, StartEffects DEF UnplugNic
  <2>. QED
    BY <1>1, <2>1
<1>7. ASSUME NEW i \in Insts, NEW h \in Hosts, ReadForIp(p, i, h)
      PROVE  ModeInv'
  <2>1. Begins(p, "ip", "read", insts[i].vpc, i, 0, h) /\ UNCHANGED vpcs
    BY <1>7, StartEffects DEF ReadForIp
  <2>. QED
    BY <1>1, <2>1
<1>8. ASSUME NEW u \in Users, NEW i \in Insts, NEW m \in Modes, ReadForInstanceMode(p, u, i, m)
      PROVE  ModeInv'
  BY <1>8, ModeReads, ReadsTyped, NullsTyped DEF ReadForInstanceMode
<1>. QED
  BY <1>2, <1>3, <1>4, <1>5, <1>6, <1>7, <1>8, ModeReads, ModeAddReads DEF NetStart

LEMMA ModeGoes ==
  ASSUME TypeInv, TypeInv', RequestInv, NicInv, OwnerInv, ModeInv, NEW p \in NetProcs,
         NetContinue(p)
  PROVE  ModeInv'
<1>. DEFINE r == nreq[p]
<1>1. ModeAllowed(r) /\ (r.op \in Alters \union {"create"} => r.vpc \in Vpcs)
  BY RequestFields DEF ModeInv
<1>2. CASE DropRow(p) \/ (CommitMode(p) /\ vpcs' # vpcs)
  <2>1. r.op \in Alters /\ Ends(p) /\ UNCHANGED insts
    BY <1>2, Continues DEF DropRow, CommitMode, At, Alters
  <2>2. PICK v \in Vpcs : v = r.vpc
    BY <1>1, <2>1
  <2>3. \A w \in Vpcs : w # v => vpcs'[w] = vpcs[w]
    BY <1>2, <2>2, TypeParts DEF DropRow, CommitMode, TablesTyped
  <2>4. \A q \in NetProcs \ {p} :
          nreq[q].op \in Takers => nreq[q].vpc # v /\ insts[nreq[q].inst].vpc # v
    BY <2>1, <2>2 DEF RequestInv, AltersAlone
  <2>5. vpcs'[v].mode = "private" \/ \A i \in Insts : Alone(i, v)
    <3>1. CASE DropRow(p)
      BY <2>2, <3>1, TypeParts DEF DropRow, TablesTyped, NoRow
    <3>2. CASE CommitMode(p) /\ vpcs' # vpcs
      <4>1. r.op = "mode" /\ vpcs'[v].mode = r.mode
        BY <2>2, <3>2, TypeParts DEF CommitMode, TablesTyped, Vpc, At
      <4>. QED
        BY <1>1, <2>2, <4>1 DEF ModeAllowed
    <3>. QED
      BY <1>2, <3>1, <3>2
  <2>. QED
    BY <2>1, <2>3, <2>4, <2>5, ModesChange
<1>3. CASE CommitCreate(p)
  <2>1. r.op = "create" /\ Ends(p) /\ UNCHANGED insts
    BY <1>3, Continues DEF CommitCreate, At
  <2>2. PICK v \in Vpcs : v = r.vpc
    BY <1>1, <2>1
  <2>3. ~Exists(v) /\ v # NoVpc
    BY <2>1, <2>2, NullsTyped DEF RequestInv, RequestsKnown
  <2>4. \A w \in Vpcs : w # v => vpcs'[w] = vpcs[w]
    BY <1>3, <2>2, TypeParts DEF CommitCreate, TablesTyped
  <2>5. \A i \in Insts, k \in Nics : Named(i, k) # v
    BY <2>3 DEF OwnerInv, NamedOwned, Owned
  <2>6. \A i \in Insts : Alone(i, v) /\ insts[i].vpc # v
    BY <2>5, ReadsTyped DEF Alone, Named
  <2>7. \A q \in NetProcs \ {p} :
          nreq[q].op \in Takers => nreq[q].vpc # v /\ insts[nreq[q].inst].vpc # v
    BY <2>3, <2>6, RequestFields DEF RequestInv, RequestsKnown, Takers, Works
  <2>. QED
    BY <2>1, <2>4, <2>6, <2>7, ModesChange
<1>4. CASE ~DropRow(p) /\ ~CommitCreate(p) /\ (CommitMode(p) => vpcs' = vpcs)
  <2>1. UNCHANGED vpcs
    BY <1>4
       DEF NetContinue, FlushCreate, BuildVnet, ApplyMode, PlugLaunch, CommitLaunch, ApplyMigrate,
           CommitMigrate, PlugNic, CommitNic, CommitUnplug, ApplyIp, CommitIp
  <2>2. \/ Ends(p)
        \/ /\ Others(p) /\ nreq'[p].op = r.op /\ nreq'[p].vpc = r.vpc /\ nreq'[p].inst = r.inst
           /\ nreq'[p].mode = r.mode
    <3>1. CASE PlugNic(p) \/ BuildVnet(p)
      BY <3>1, Continues, TypeParts DEF PlugNic, BuildVnet, Ends, NetRequest, Others
    <3>2. CASE End(p) \/ \E step : Goto(p, step)
      BY <3>2, Continues DEF Moves
    <3>. QED
      BY <1>4, <3>1, <3>2
         DEF NetContinue, FlushCreate, ApplyMode, CommitMode, PlugLaunch, CommitLaunch, ApplyMigrate,
             CommitMigrate, CommitNic, CommitUnplug, ApplyIp, CommitIp
  <2>3. ModeAllowed(nreq'[p]) /\ Others(p)
    BY <1>1, <2>2, NullsTyped DEF ModeAllowed, Ends
  <2>. QED
    BY <2>1, <2>3, ModeWorks, ModesStay DEF Others
<1>. QED
  BY <1>2, <1>3, <1>4

LEMMA ModeStep ==
  ASSUME TypeInv, TypeInv', RequestInv, NicInv, OwnerInv, ModeInv, Orderly, [NetworkNext]_netVars
  PROVE  ModeInv'
<1>1. ASSUME UNCHANGED <<vpcs, nreq>>,
             \A i \in Insts : \/ insts'[i].vpc = insts[i].vpc /\ insts'[i].second = insts[i].second
                              \/ insts'[i] = Unknown /\ Settled(i)
      PROVE  ModeInv'
  <2>1. ASSUME NEW i \in Insts, insts'[i] = Unknown, Settled(i)
        PROVE  /\ NicsPrivate(i)' /\ \A q \in NetProcs : nreq'[q].inst # i
               /\ \A q \in NetProcs : nreq'[q].op = "mode" /\ Alone(i, nreq'[q].vpc)
                                        => Alone(i, nreq[q].vpc)'
    <3>1. insts'[i].second = <<>> /\ Len(<<>>) = 0 /\ insts'[i].vpc = NoVpc
      BY <2>1, NullsTyped
    <3>2. \A k \in Nics \ {0} : Named(i, k)' = NoVpc
      BY <3>1, NetworkConstants DEF Named, Nics
    <3>3. \A q \in NetProcs : nreq'[q].op = "mode" => nreq[q].vpc \in Vpcs /\ nreq'[q] = nreq[q]
      BY <1>1, RequestFields DEF Alters
    <3>. QED
      BY <1>1, <2>1, <3>1, <3>2, <3>3, NullsTyped DEF NicsPrivate, Settled, Alone
  <2>. QED
    BY <1>1, <2>1, ModesStay
<1>2. CASE UNCHANGED <<vpcs, insts, nreq>>
  BY <1>1, <1>2
<1>3. ASSUME NEW i \in Insts, LaunchDetached(i) \/ Terminate(i)
      PROVE  ModeInv'
  <2>1. /\ UNCHANGED <<vpcs, nreq>> /\ Settled(i) /\ insts \in [Insts -> Instance]
        /\ insts' = [insts EXCEPT ![i].known = TRUE] \/ insts' = [insts EXCEPT ![i] = Unknown]
    BY <1>3, OrderlyGuards, TypeParts DEF LaunchDetached, Terminate, TablesTyped
  <2>2. \A j \in Insts : \/ insts'[j].vpc = insts[j].vpc /\ insts'[j].second = insts[j].second
                         \/ insts'[j] = Unknown /\ Settled(j)
    <3>1. CASE insts' = [insts EXCEPT ![i].known = TRUE]
      BY <2>1, <3>1 DEF Instance
    <3>2. CASE insts' = [insts EXCEPT ![i] = Unknown]
      BY <2>1, <3>2
    <3>. QED
      BY <2>1, <3>1, <3>2
  <2>. QED
    BY <1>1, <2>1, <2>2
<1>4. ASSUME NEW p \in NetProcs, NetStart(p) \/ NetContinue(p) \/ LoseRequest(p)
      PROVE  ModeInv'
  BY <1>4, ModeStarts, ModeGoes, OrderlyGuards
<1>5. CASE NetworkNext
  BY <1>2, <1>3, <1>4, <1>5 DEF NetworkNext, ReserveStatic, ReleaseStatic
<1>. QED
  BY <1>2, <1>5 DEF netVars

LEMMA ModeBegins == NetworkInit => ModeInv
<1>. SUFFICES ASSUME NetworkInit PROVE ModeInv
  OBVIOUS
<1>1. \A i \in Insts : insts[i].second = <<>>
  BY NullsTyped DEF NetworkInit
<1>2. \A p \in NetProcs : nreq[p].op = "none"
  BY NullsTyped DEF NetworkInit
<1>. QED
  BY <1>1, <1>2 DEF ModeInv, NicsPrivate, ModeAllowed

\* With a secondary NIC every network of the instance is private.
LEMMA SecondaryPrivate ==
  ASSUME TypeInv, RequestInv, NicInv, ModeInv, NEW i \in Insts, Plugged(i) # {}
  PROVE  /\ \A k \in Nics : Private(Named(i, k))
         /\ \A p \in NetProcs : nreq[p].inst = i /\ nreq[p].op \in Takers => Private(nreq[p].vpc)
<1>1. PICK l \in Nics \ {0} : nics[i][l].vpc # NoVpc
  BY DEF Plugged, NicInv, NicsNamed
<1>2. CASE insts[i].second # <<>>
  <2>1. \A k \in Nics : Private(Named(i, k))
    BY <1>2 DEF ModeInv, NicsPrivate
  <2>2. ASSUME NEW p \in NetProcs, nreq[p].inst = i, nreq[p].op \in Takers
        PROVE  Private(nreq[p].vpc)
    <3>1. nreq[p].op # "launch" /\ (nreq[p].op = "ip" => Named(i, 0) = nreq[p].vpc)
      BY <1>2, <2>2 DEF NicInv, WorkKnown, Named
    <3>. QED
      BY <1>2, <2>1, <2>2, <3>1, SpecsTyped DEF ModeInv, ModeAllowed, Takers
  <2>. QED
    BY <2>1, <2>2
<1>3. CASE insts[i].second = <<>>
  <2>1. \A k \in Nics \ {0} : Named(i, k) = NoVpc
    BY <1>3, NetworkConstants DEF Named, Nics
  <2>2. PICK p \in NetProcs : nreq[p].op \in Takers /\ nreq[p].inst = i /\ nreq[p].nic = l
    <3>1. l \in Nics /\ nics[i][l].vpc # NoVpc /\ Named(i, l) # nics[i][l].vpc
      BY <1>1, <2>1
    <3>2. \/ ~Worked(i, l) /\ Named(i, l) = nics[i][l].vpc
          \/ \E p \in NetProcs :
              /\ nreq[p].op \in Takers /\ nreq[p].step = "done" /\ nreq[p].inst = i /\ nreq[p].nic = l
              /\ nics[i][l] = [vpc |-> nreq[p].vpc, ip |-> nreq[p].ip]
      BY <3>1, PlugsKnown
    <3>. QED
      BY <3>1, <3>2
  <2>3. nreq[p].op = "add"
    BY <1>1, <2>2, RequestFields DEF KnowsItself, Takers
  <2>4. Private(nreq[p].vpc) /\ Private(Named(i, 0))
    BY <2>2, <2>3 DEF ModeInv, ModeAllowed, Named
  <2>5. \A q \in NetProcs : nreq[q].inst = i => q = p
    BY <2>2, NullsTyped DEF RequestInv, OnePerInst
  <2>. QED
    BY <2>1, <2>4, <2>5 DEF Private
<1>. QED
  BY <1>2, <1>3

(***************************************************************************)
(* The NIC rules of add_nic outlast every migration and change of mode.    *)
(***************************************************************************)
THEOREM NicRulesHold ==
  ASSUME Orderly
  PROVE  NetworkSpec => []NicRules
<1>. DEFINE Inv == RequestInv /\ AddressInv /\ NicInv /\ OwnerInv /\ ModeInv
<1>1. NetworkInit => Inv
  BY RequestBegins, AddressBegins, NicBegins, OwnerBegins, ModeBegins
<1>2. TypeInv /\ Inv /\ [NetworkNext]_netVars => Inv'
  BY TypeStep, RequestStep, AddressStep, NicStep, OwnerStep, ModeStep
<1>3. ASSUME TypeInv, Inv
      PROVE  NicRules
  <2>. SUFFICES ASSUME NEW i \in Insts, Plugged(i) # {}, NEW k \in Nics, nics[i][k].vpc # NoVpc
                PROVE  Private(nics[i][k].vpc)
    BY DEF NicRules, Private
  <2>1. \/ Named(i, k) = nics[i][k].vpc
        \/ \E p \in NetProcs :
             /\ nreq[p].op \in Takers /\ nreq[p].inst = i
             /\ nics[i][k] = [vpc |-> nreq[p].vpc, ip |-> nreq[p].ip]
    BY <1>3, PlugsKnown
  <2>2. ASSUME NEW p \in NetProcs, nreq[p].op \in Takers, nreq[p].inst = i,
               nics[i][k] = [vpc |-> nreq[p].vpc, ip |-> nreq[p].ip]
        PROVE  Private(nics[i][k].vpc)
    <3>1. nics[i][k].vpc = nreq[p].vpc
      BY <2>2
    <3>. QED
      BY <1>3, <2>2, <3>1, SecondaryPrivate
  <2>3. Named(i, k) = nics[i][k].vpc => Private(nics[i][k].vpc)
    BY <1>3, SecondaryPrivate
  <2>. QED
    BY <2>1, <2>2, <2>3
<1>. HIDE DEF Inv
<1>. QED
  BY <1>1, <1>2, <1>3, TypeInvAlways, PTL DEF NetworkSpec

-----------------------------------------------------------------------------
(* Subnets that were not built *)

LEMMA DryStays ==
  ASSUME TypeInv, DryInv, \A v \in Vpcs : vpcs'[v].subnet = vpcs[v].subnet,
         \A i \in Insts, k \in Nics :
           nics'[i][k] = nics[i][k] \/ Dry(nics'[i][k].vpc, nics'[i][k].ip),
         \A q \in NetProcs : nreq'[q] = nreq[q] \/ AsksDry(nreq'[q])
  PROVE  DryInv'
<1>1. \A v, h : Dry(v, h)' <=> Dry(v, h)
  BY DEF Dry
<1>2. ASSUME NEW i \in Insts, NEW k \in Nics
      PROVE  Dry(nics[i][k].vpc, nics[i][k].ip)'
  <2>1. PICK v, h : v = nics'[i][k].vpc /\ h = nics'[i][k].ip
    OBVIOUS
  <2>2. Dry(v, h)
    BY <2>1 DEF DryInv
  <2>. QED
    BY <1>1, <2>1, <2>2 DEF Dry
<1>3. ASSUME NEW q \in NetProcs
      PROVE  AsksDry(nreq[q])'
  <2>1. PICK r : r = nreq'[q]
    OBVIOUS
  <2>2. AsksDry(r)
    BY <2>1 DEF DryInv
  <2>. QED
    BY <1>1, <2>1, <2>2 DEF AsksDry, Dry
<1>. QED
  BY <1>2, <1>3 DEF DryInv

\* A VPC comes or goes that nothing is plugged into.
LEMMA DryChanges ==
  ASSUME TypeInv, DryInv, NEW p \in NetProcs, Ends(p), UNCHANGED nics, NEW v \in Vpcs,
         \A w \in Vpcs : w # v => vpcs'[w] = vpcs[w],
         \A i \in Insts, k \in Nics : nics[i][k].vpc # v,
         \A q \in NetProcs \ {p} : nreq[q].op \in Takers => nreq[q].vpc # v,
         \A q \in NetProcs \ {p} : nreq[q].op = "migrate" => nreq[q].old.vpc # v
  PROVE  DryInv'
<1>1. \A w, h : w # v => (Dry(w, h)' <=> Dry(w, h))
  BY DEF Dry
<1>2. ASSUME NEW i \in Insts, NEW k \in Nics
      PROVE  Dry(nics[i][k].vpc, nics[i][k].ip)'
  <2>1. Dry(nics[i][k].vpc, nics[i][k].ip)
    BY DEF DryInv
  <2>. QED
    BY <2>1 DEF Dry
<1>3. ASSUME NEW q \in NetProcs
      PROVE  AsksDry(nreq[q])'
  <2>1. CASE q = p
    BY <2>1, NullsTyped DEF AsksDry, Ends, Takers
  <2>2. CASE q # p
    <3>1. PICK r : r = nreq[q] /\ r = nreq'[q]
      BY <2>2 DEF Ends, Others
    <3>2. AsksDry(r) /\ (r.op \in Takers => r.vpc # v) /\ (r.op = "migrate" => r.old.vpc # v)
      BY <2>2, <3>1 DEF DryInv
    <3>3. AsksDry(r)'
      BY <1>1, <3>2 DEF AsksDry
    <3>. QED
      BY <3>1, <3>3 DEF AsksDry, Dry
  <2>. QED
    BY <2>1, <2>2
<1>. QED
  BY <1>2, <1>3 DEF DryInv

\* What no record names and no request takes has no NIC.
LEMMA UnusedUnplugged ==
  ASSUME TypeInv, RequestInv, NicInv, NEW v \in Vpcs,
         \A i \in Insts, k \in Nics : Named(i, k) # v,
         \A q \in NetProcs : nreq[q].op \in Takers => nreq[q].vpc # v
  PROVE  /\ \A i \in Insts, k \in Nics : nics[i][k].vpc # v
         /\ \A q \in NetProcs : nreq[q].op = "migrate" => nreq[q].old.vpc # v
<1>1. ASSUME NEW i \in Insts, NEW k \in Nics, nics[i][k].vpc = v
      PROVE  FALSE
  <2>1. nics[i][k].vpc # NoVpc /\ Named(i, k) # nics[i][k].vpc
    BY <1>1, NullsTyped
  <2>2. \/ ~Worked(i, k) /\ Named(i, k) = nics[i][k].vpc
        \/ \E p \in NetProcs :
             /\ nreq[p].op \in Takers /\ nreq[p].step = "done" /\ nreq[p].inst = i /\ nreq[p].nic = k
             /\ nics[i][k] = [vpc |-> nreq[p].vpc, ip |-> nreq[p].ip]
    BY <2>1, PlugsKnown
  <2>3. ASSUME NEW p \in NetProcs, nreq[p].op \in Takers,
               nics[i][k] = [vpc |-> nreq[p].vpc, ip |-> nreq[p].ip]
        PROVE  FALSE
    BY <1>1, <2>3
  <2>. QED
    BY <2>1, <2>2, <2>3
<1>2. ASSUME NEW q \in NetProcs, nreq[q].op = "migrate"
      PROVE  nreq[q].old.vpc # v
  <2>1. nreq[q].inst \in Insts /\ nreq[q].old.vpc = Named(nreq[q].inst, 0)
    BY <1>2, RequestFields DEF NicInv, WorkKnown, Works, Named
  <2>. QED
    BY <2>1, ReadsTyped
<1>. QED
  BY <1>1, <1>2

LEMMA DryStarts ==
  ASSUME TypeInv, DryInv, NEW p \in NetProcs, NetStart(p)
  PROVE  DryInv'
<1>1. ASSUME NEW op, NEW step, NEW v, NEW i, NEW k, NEW h, Begins(p, op, step, v, i, k, h),
             UNCHANGED vpcs,
             \A j \in Insts, l \in Nics : nics'[j][l] = nics[j][l] \/ nics'[j][l].ip = 0,
             op \in Takers => Dry(v, h),
             op = "migrate" => Dry(nreq'[p].old.vpc, nreq'[p].old.ip)
      PROVE  DryInv'
  <2>1. AsksDry(nreq'[p])
    BY <1>1 DEF AsksDry, Begins
  <2>2. \A j \in Insts, l \in Nics : nics'[j][l].ip = 0 => Dry(nics'[j][l].vpc, nics'[j][l].ip)
    BY DEF Dry
  <2>. QED
    BY <1>1, <2>1, <2>2, DryStays DEF Begins, Others
<1>2. ASSUME NEW u \in Users, NEW v \in Vpcs, NEW b \in Blocks, NEW g \in Gateways, NEW m \in Modes,
             ReadForCreate(p, u, v, b, g, m)
      PROVE  DryInv'
  <2>1. Begins(p, "create", "read", v, NoInst, 0, 0) /\ UNCHANGED <<vpcs, nics>>
    BY <1>2, StartEffects DEF ReadForCreate
  <2>. QED
    BY <1>1, <2>1 DEF Takers
<1>3. ASSUME NEW u \in Users, NEW v \in Vpcs, DropVnet(p, u, v)
      PROVE  DryInv'
  <2>1. Begins(p, "drop", "done", v, NoInst, 0, 0) /\ UNCHANGED <<vpcs, nics>>
    BY <1>3, StartEffects DEF DropVnet
  <2>. QED
    BY <1>1, <2>1 DEF Takers
<1>4. ASSUME NEW u \in Users, NEW v \in Vpcs, NEW m \in Modes, ReadForMode(p, u, v, m)
      PROVE  DryInv'
  <2>1. Begins(p, "mode", "read", v, NoInst, 0, 0) /\ UNCHANGED <<vpcs, nics>>
    BY <1>4, StartEffects DEF ReadForMode
  <2>. QED
    BY <1>1, <2>1 DEF Takers
<1>5. ASSUME NEW i \in Insts, NEW v \in Vpcs, ReadForLaunch(p, i, v)
      PROVE  DryInv'
  <2>1. /\ Begins(p, "launch", "read", v, i, 0, NextAddress(v)) /\ UNCHANGED <<vpcs, nics>>
        /\ Dry(v, NextAddress(v))
    BY <1>5, StartEffects, AddressesFree DEF ReadForLaunch, Dry
  <2>. QED
    BY <1>1, <2>1
<1>6. ASSUME NEW u \in Users, NEW i \in Insts, NEW v \in Vpcs, ReadForMigrate(p, u, i, v)
      PROVE  DryInv'
  <2>1. Begins(p, "migrate", "read", v, i, 0, nreq'[p].ip) /\ UNCHANGED <<vpcs, nics>>
    BY <1>6, StartEffects DEF ReadForMigrate
  <2>2. Dry(v, nreq'[p].ip)
    BY <1>6 DEF ReadForMigrate, Dry
  <2>3. nreq'[p].old = nics[i][0]
    <3>1. PICK h : nreq'[p] = [Free EXCEPT !.op = "migrate", !.step = "read", !.user = u, !.vpc = v,
                                           !.inst = i, !.ip = h, !.old = nics[i][0]]
      BY <1>6, TypeParts DEF ReadForMigrate, Begin
    <3>. QED
      BY <3>1 DEF Free
  <2>4. Dry(nreq'[p].old.vpc, nreq'[p].old.ip)
    BY <2>3, ReadsTyped DEF DryInv
  <2>. QED
    BY <1>1, <2>1, <2>2, <2>4
<1>7. ASSUME NEW u \in Users, NEW i \in Insts, NEW v \in Vpcs, ReadForAdd(p, u, i, v)
      PROVE  DryInv'
  <2>1. /\ Begins(p, "add", "read", v, i, LastNic(i) + 1, 0) /\ UNCHANGED <<vpcs, nics>>
        /\ Dry(v, 0)
    BY <1>7, StartEffects DEF ReadForAdd, Dry
  <2>. QED
    BY <1>1, <2>1
<1>8. ASSUME NEW u \in Users, NEW i \in Insts, NEW k \in Nics, UnplugNic(p, u, i, k)
      PROVE  DryInv'
  <2>1. /\ Begins(p, "remove", "done", NoVpc, i, k, 0) /\ UNCHANGED vpcs
        /\ nics' = [nics EXCEPT ![i][k] = Unplugged]
    BY <1>8, StartEffects DEF UnplugNic
  <2>2. \A j \in Insts, l \in Nics : nics'[j][l] = nics[j][l] \/ nics'[j][l] = Unplugged
    BY <2>1, TypeParts DEF TablesTyped
  <2>. QED
    BY <1>1, <2>1, <2>2, NullsTyped DEF Takers
<1>9. ASSUME NEW i \in Insts, NEW h \in Hosts, ReadForIp(p, i, h)
      PROVE  DryInv'
  <2>1. /\ Begins(p, "ip", "read", insts[i].vpc, i, 0, h) /\ UNCHANGED <<vpcs, nics>>
        /\ Dry(insts[i].vpc, h)
    BY <1>9, StartEffects DEF ReadForIp, Dry
  <2>. QED
    BY <1>1, <2>1
<1>10. ASSUME NEW u \in Users, NEW i \in Insts, NEW m \in Modes, ReadForInstanceMode(p, u, i, m)
       PROVE  DryInv'
  BY <1>4, <1>10, ReadsTyped, NullsTyped DEF ReadForInstanceMode
<1>. QED
  BY <1>2, <1>3, <1>4, <1>5, <1>6, <1>7, <1>8, <1>9, <1>10 DEF NetStart

\* Nobody uses a VPC whose row comes or goes.
LEMMA RowsUnused ==
  ASSUME TypeInv, RequestInv, NicInv, OwnerInv, NEW p \in NetProcs, CommitCreate(p) \/ DropRow(p)
  PROVE  \E v \in Vpcs :
         /\ v = nreq[p].vpc /\ nreq[p].op \in {"create", "drop"} /\ Ends(p)
         /\ UNCHANGED <<nics, insts, firewall>>
         /\ \A w \in Vpcs : w # v => vpcs'[w] = vpcs[w]
         /\ \A i \in Insts, k \in Nics : Named(i, k) # v /\ nics[i][k].vpc # v
         /\ \A i \in Insts : insts[i].vpc # v
         /\ \A q \in NetProcs : /\ nreq[q].op \in Takers => nreq[q].vpc # v
                                /\ nreq[q].op = "migrate" => nreq[q].old.vpc # v
                                /\ nreq[q].op = "mode" => nreq[q].vpc # v
<1>. DEFINE r == nreq[p]
<1>1. /\ r.op \in {"create", "drop"} /\ Ends(p) /\ UNCHANGED <<nics, insts, firewall>>
      /\ CommitCreate(p) => r.op = "create"
      /\ DropRow(p) => r.op = "drop"
  BY Continues DEF CommitCreate, DropRow, At
<1>2. PICK v \in Vpcs : v = r.vpc
  BY <1>1, RequestFields DEF Alters
<1>3. \A w \in Vpcs : w # v => vpcs'[w] = vpcs[w]
  BY <1>2, TypeParts DEF CommitCreate, DropRow, TablesTyped
<1>4. /\ \A i \in Insts, k \in Nics : Named(i, k) # v
      /\ \A q \in NetProcs : /\ nreq[q].op \in Takers => nreq[q].vpc # v
                             /\ nreq[q].op = "mode" => nreq[q].vpc # v
  <2>1. CASE r.op = "create"
    <3>1. ~Exists(v) /\ v # NoVpc
      BY <1>2, <2>1, NullsTyped DEF RequestInv, RequestsKnown
    <3>. QED
      BY <3>1 DEF OwnerInv, NamedOwned, Owned, RequestInv, RequestsKnown, Alters
  <2>2. CASE r.op = "drop"
    <3>1. \A q \in NetProcs : q # p => nreq[q].vpc # v
      BY <1>2, <2>2 DEF RequestInv, AltersAlone, Alters
    <3>. QED
      BY <1>2, <2>2, <3>1 DEF OwnerInv, DropsUnused, Takers
  <2>. QED
    BY <1>1, <2>1, <2>2
<1>5. \A i \in Insts : insts[i].vpc # v
  BY <1>4, ReadsTyped DEF Named
<1>. QED
  BY <1>1, <1>2, <1>3, <1>4, <1>5, UnusedUnplugged

LEMMA DryGoes ==
  ASSUME TypeInv, RequestInv, NicInv, OwnerInv, DryInv, NEW p \in NetProcs, NetContinue(p)
  PROVE  DryInv'
<1>. DEFINE r == nreq[p]
<1>1. AsksDry(r) /\ \A h : Dry(r.vpc, h) => Dry([vpc |-> r.vpc, ip |-> h].vpc, [vpc |-> r.vpc, ip |-> h].ip)
  BY DEF DryInv
<1>2. CASE CommitCreate(p) \/ DropRow(p)
  <2>1. PICK v \in Vpcs :
          /\ Ends(p) /\ UNCHANGED nics /\ \A w \in Vpcs : w # v => vpcs'[w] = vpcs[w]
          /\ \A i \in Insts, k \in Nics : nics[i][k].vpc # v
          /\ \A q \in NetProcs : /\ nreq[q].op \in Takers => nreq[q].vpc # v
                                 /\ nreq[q].op = "migrate" => nreq[q].old.vpc # v
    BY <1>2, RowsUnused
  <2>. QED
    BY <2>1, DryChanges
\* A NIC is set to what is known to be dry, and p ends or goes on with that.
<1>3. ASSUME \A v \in Vpcs : vpcs'[v].subnet = vpcs[v].subnet,
             NEW i, NEW k, NEW nic, Dry(nic.vpc, nic.ip),
             UNCHANGED nics \/ nics' = [nics EXCEPT ![i][k] = nic],
             Others(p),
             \/ nreq'[p].op \notin Takers
             \/ /\ nreq'[p].op = r.op /\ nreq'[p].vpc = r.vpc /\ nreq'[p].old = r.old
                /\ nreq'[p].ip = r.ip \/ (r.op # "migrate" /\ Dry(r.vpc, nreq'[p].ip))
      PROVE  DryInv'
  <2>1. \A j \in Insts, l \in Nics : nics'[j][l] = nics[j][l] \/ nics'[j][l] = nic
    BY <1>3, TypeParts DEF TablesTyped
  <2>2. AsksDry(nreq'[p])
    BY <1>1, <1>3 DEF AsksDry, Takers
  <2>. QED
    BY <1>3, <2>1, <2>2, DryStays DEF Others
<1>4. Dry(Unplugged.vpc, Unplugged.ip)
  BY NullsTyped DEF Dry
<1>5. CASE CommitMode(p)
  <2>1. Ends(p) /\ UNCHANGED nics /\ \A v \in Vpcs : vpcs'[v].subnet = vpcs[v].subnet
    BY <1>5, Continues, TypeParts DEF CommitMode, TablesTyped, Vpc
  <2>. QED
    BY <1>3, <1>4, <2>1, NullsTyped DEF Ends, Takers
<1>6. CASE FlushCreate(p) \/ BuildVnet(p) \/ ApplyMode(p)
  <2>1. /\ Others(p) /\ UNCHANGED <<vpcs, nics>>
        /\ nreq'[p] = Free \/ nreq'[p].op = r.op
    <3>1. CASE BuildVnet(p)
      BY <3>1, TypeParts DEF BuildVnet, NetRequest, Others
    <3>. QED
      BY <1>6, <3>1, Continues DEF FlushCreate, ApplyMode, Moves, Ends
  <2>2. r.op \notin Takers
    BY <1>6 DEF FlushCreate, BuildVnet, ApplyMode, At, Takers
  <2>. QED
    BY <1>3, <1>4, <2>1, <2>2, NullsTyped DEF Takers
<1>7. CASE PlugLaunch(p) \/ ApplyMigrate(p) \/ ApplyIp(p)
  <2>1. /\ UNCHANGED vpcs /\ r.op \in Takers
        /\ UNCHANGED nics \/ nics' = [nics EXCEPT ![r.inst][0] = [vpc |-> r.vpc, ip |-> r.ip]]
    BY <1>7 DEF PlugLaunch, ApplyMigrate, ApplyIp, At, Takers
  <2>2. Ends(p) \/ \E step : Moves(p, step)
    BY <1>7, Continues DEF PlugLaunch, ApplyMigrate, ApplyIp
  <2>3. PICK nic : nic = [vpc |-> r.vpc, ip |-> r.ip]
    OBVIOUS
  <2>4. Dry(nic.vpc, nic.ip)
    BY <1>1, <2>1, <2>3 DEF AsksDry
  <2>5. /\ Others(p)
        /\ \/ nreq'[p].op \notin Takers
           \/ /\ nreq'[p].op = r.op /\ nreq'[p].vpc = r.vpc /\ nreq'[p].old = r.old
              /\ nreq'[p].ip = r.ip
    BY <2>2, NullsTyped DEF Ends, Moves, Takers
  <2>6. UNCHANGED nics \/ nics' = [nics EXCEPT ![r.inst][0] = nic]
    BY <2>1, <2>3
  <2>7. \A v \in Vpcs : vpcs'[v].subnet = vpcs[v].subnet
    BY <2>1
  <2>8. CASE nreq'[p].op \notin Takers
    BY <1>3, <2>4, <2>5, <2>6, <2>7, <2>8
  <2>9. CASE nreq'[p].op \in Takers
    <3>1. nreq'[p].op = r.op /\ nreq'[p].vpc = r.vpc /\ nreq'[p].old = r.old /\ nreq'[p].ip = r.ip
      BY <2>5, <2>9
    <3>. HIDE DEF r
    <3>. QED
      BY <1>3, <2>4, <2>5, <2>6, <2>7, <3>1
  <2>. QED
    BY <2>8, <2>9
<1>8. CASE PlugNic(p)
  <2>1. Dry(r.vpc, NextAddress(r.vpc)) /\ r.op = "add" /\ UNCHANGED vpcs
    BY <1>8, AddressesFree DEF Dry, PlugNic, At
  <2>2. CASE End(p) /\ UNCHANGED nics
    BY <1>3, <1>4, <2>1, <2>2, Continues, NullsTyped DEF Ends, Takers
  <2>3. ASSUME NEW h, h = NextAddress(r.vpc),
               nics' = [nics EXCEPT ![r.inst][r.nic] = [vpc |-> r.vpc, ip |-> h]],
               nreq' = [nreq EXCEPT ![p].step = "done", ![p].ip = h]
        PROVE  DryInv'
    <3>1. PICK nic : nic = [vpc |-> r.vpc, ip |-> h]
      OBVIOUS
    <3>2. Dry(nic.vpc, nic.ip)
      BY <1>1, <2>1, <2>3, <3>1
    <3>3. Others(p) /\ nreq'[p].op = r.op /\ nreq'[p].vpc = r.vpc /\ nreq'[p].old = r.old /\ nreq'[p].ip = h
      BY <2>3, TypeParts DEF Others, NetRequest
    <3>. QED
      BY <1>3, <2>1, <2>3, <3>1, <3>2, <3>3
  <2>. QED
    BY <1>8, <2>2, <2>3 DEF PlugNic
<1>9. CASE CommitLaunch(p) \/ CommitMigrate(p) \/ CommitNic(p) \/ CommitUnplug(p) \/ CommitIp(p)
  <2>1. UNCHANGED nics \/ (r.op = "migrate" /\ nics' = [nics EXCEPT ![r.inst][0] = r.old])
    BY <1>9 DEF CommitLaunch, CommitMigrate, CommitNic, CommitUnplug, CommitIp, At
  <2>2. Ends(p) /\ UNCHANGED vpcs
    BY <1>9, Continues DEF CommitLaunch, CommitMigrate, CommitNic, CommitUnplug, CommitIp
  <2>3. CASE UNCHANGED nics
    BY <1>3, <1>4, <2>2, <2>3, NullsTyped DEF Ends, Takers
  <2>4. CASE r.op = "migrate" /\ nics' = [nics EXCEPT ![r.inst][0] = r.old]
    <3>1. Dry(r.old.vpc, r.old.ip)
      BY <1>1, <2>4 DEF AsksDry
    <3>. QED
      BY <1>3, <2>2, <2>4, <3>1, NullsTyped DEF Ends, Takers
  <2>. QED
    BY <2>1, <2>3, <2>4
<1>. QED
  BY <1>2, <1>5, <1>6, <1>7, <1>8, <1>9 DEF NetContinue

LEMMA DryStep ==
  ASSUME TypeInv, RequestInv, NicInv, OwnerInv, DryInv, Orderly, [NetworkNext]_netVars
  PROVE  DryInv'
<1>1. CASE UNCHANGED <<vpcs, nics, nreq>>
  BY <1>1, DryStays
<1>2. ASSUME NEW i \in Insts, Terminate(i)
      PROVE  DryInv'
  <2>1. \A j \in Insts, k \in Nics : nics'[j][k] = nics[j][k] \/ nics'[j][k] = Unplugged
    BY <1>2, TypeParts DEF Terminate, TablesTyped
  <2>2. Dry(Unplugged.vpc, Unplugged.ip)
    BY NullsTyped DEF Dry
  <2>. QED
    BY <1>2, <2>1, <2>2, DryStays DEF Terminate
<1>3. ASSUME NEW p \in NetProcs, NetStart(p) \/ NetContinue(p) \/ LoseRequest(p)
      PROVE  DryInv'
  BY <1>3, DryStarts, DryGoes, OrderlyGuards
<1>4. CASE NetworkNext
  BY <1>1, <1>2, <1>3, <1>4 DEF NetworkNext, ReserveStatic, ReleaseStatic, LaunchDetached
<1>. QED
  BY <1>1, <1>4 DEF netVars

LEMMA DryBegins == NetworkInit => DryInv
<1>. SUFFICES ASSUME NetworkInit PROVE DryInv
  OBVIOUS
<1>1. \A i \in Insts, k \in Nics : nics[i][k] = Unplugged
  BY DEF NetworkInit
<1>2. \A p \in NetProcs : nreq[p] = Free
  BY DEF NetworkInit
<1>. QED
  BY <1>1, <1>2, NullsTyped DEF DryInv, AsksDry, Dry, Takers

-----------------------------------------------------------------------------
(* The rules of firewalls *)

\* No change of mode goes on.  An instance whose network or rules change is
\* left by the requests.
LEMMA RulesStay ==
  ASSUME TypeInv, TypeInv', RulesInv,
         \A v \in Vpcs : vpcs'[v].mode = vpcs[v].mode /\ vpcs'[v].subnet = vpcs[v].subnet,
         \A q \in NetProcs : nreq'[q] = nreq[q] \/
           /\ ~At(q, "mode", "done") /\ ~At(q, "mode", "done")'
           /\ KnowsRules(nreq'[q]),
         \A i \in Insts :
           \/ insts'[i].vpc = insts[i].vpc /\ firewall'[i] = firewall[i]
           \/ /\ Ruled(i, insts[i].vpc)'
              /\ \A q \in NetProcs : /\ nreq'[q].inst # i
                                     /\ nreq'[q].op = "mode" => /\ insts'[i].vpc # nreq'[q].vpc
                                                                /\ insts[i].vpc # nreq'[q].vpc
  PROVE  RulesInv'
<1>1. \A q \in NetProcs : \A v : /\ Applied(q, v)' <=> Applied(q, v)
                                 /\ Applied(q, v) => nreq'[q].mode = nreq[q].mode
  BY DEF Applied, At
<1>2. \A i, v : firewall'[i] = firewall[i] => (Ruled(i, v)' <=> Ruled(i, v))
  BY <1>1 DEF Ruled
<1>3. ASSUME NEW i \in Insts
      PROVE  Ruled(i, insts[i].vpc)'
  <2>1. CASE insts'[i].vpc = insts[i].vpc /\ firewall'[i] = firewall[i]
    <3>1. Ruled(i, insts[i].vpc)
      BY DEF RulesInv
    <3>2. PICK v : v = insts[i].vpc /\ v = insts'[i].vpc
      BY <2>1
    <3>3. Ruled(i, v)'
      BY <1>2, <2>1, <3>1, <3>2
    <3>. QED
      BY <3>2, <3>3 DEF Ruled
  <2>. QED
    BY <2>1
<1>4. ASSUME NEW q \in NetProcs
      PROVE  KnowsRules(nreq[q])'
  <2>1. PICK r : r = nreq'[q]
    OBVIOUS
  <2>2. KnowsRules(r) /\ KnowsItself(r)
    BY <2>1, TypeParts DEF RulesInv
  <2>3. /\ r.op \in {"launch", "mode"} => r.vpc \in Vpcs
        /\ r.op = "migrate" => r.inst \in Insts
    BY <2>2 DEF KnowsItself, Takers, Alters, Works
  <2>4. r.op = "migrate" => Ruled(r.inst, r.vpc)'
    BY <1>2, <2>1, <2>2, <2>3 DEF KnowsRules
  <2>5. r.op = "launch" => r.copy.mode = vpcs'[r.vpc].mode /\ r.copy.subnet = vpcs'[r.vpc].subnet
    BY <2>2, <2>3 DEF KnowsRules
  <2>6. r.op = "mode" => r.attached = {i \in Insts : insts'[i].vpc = r.vpc}
    <3>1. r.op = "mode" => \A i \in Insts : insts'[i].vpc = r.vpc <=> insts[i].vpc = r.vpc
      BY <2>1
    <3>. QED
      BY <2>2, <3>1 DEF KnowsRules
  <2>7. KnowsRules(r)'
    BY <2>4, <2>5, <2>6 DEF KnowsRules
  <2>. QED
    BY <2>1, <2>7 DEF KnowsRules, Ruled
<1>. QED
  BY <1>3, <1>4 DEF RulesInv

LEMMA RulesOfRows ==
  ASSUME TypeInv, RequestInv, NicInv, OwnerInv, RulesInv, NEW p \in NetProcs,
         CommitCreate(p) \/ DropRow(p)
  PROVE  RulesInv'
<1>1. PICK v \in Vpcs :
         /\ nreq[p].op \in {"create", "drop"} /\ Ends(p)
         /\ UNCHANGED <<insts, firewall>>
         /\ \A w \in Vpcs : w # v => vpcs'[w] = vpcs[w]
         /\ \A i \in Insts : insts[i].vpc # v
         /\ \A q \in NetProcs : /\ nreq[q].op \in Takers => nreq[q].vpc # v
                                /\ nreq[q].op = "mode" => nreq[q].vpc # v
  BY RowsUnused
<1>2. \A q \in NetProcs : q # p => nreq'[q] = nreq[q]
  BY <1>1 DEF Ends, Others
<1>3. nreq'[p].op = "none"
  BY <1>1, NullsTyped DEF Ends
<1>4. \A q \in NetProcs : \A w : /\ Applied(q, w)' <=> Applied(q, w)
                                 /\ Applied(q, w) => nreq'[q].mode = nreq[q].mode
  BY <1>1, <1>2, <1>3 DEF Applied, At
<1>5. \A i, w : w # v => (Ruled(i, w)' <=> Ruled(i, w))
  BY <1>1, <1>4 DEF Ruled
<1>6. ASSUME NEW i \in Insts
      PROVE  Ruled(i, insts[i].vpc)'
  <2>1. PICK w : w = insts[i].vpc /\ w = insts'[i].vpc /\ w # v
    BY <1>1
  <2>2. Ruled(i, w)'
    BY <1>5, <2>1 DEF RulesInv
  <2>. QED
    BY <2>1, <2>2 DEF Ruled
<1>7. ASSUME NEW q \in NetProcs
      PROVE  KnowsRules(nreq[q])'
  <2>1. CASE q = p
    BY <1>3, <2>1 DEF KnowsRules
  <2>2. CASE q # p
    <3>1. PICK r : r = nreq[q] /\ r = nreq'[q]
      BY <1>2, <2>2
    <3>2. /\ KnowsRules(r) /\ (r.op \in {"migrate", "launch"} => r.vpc # v)
          /\ r.op \in {"migrate", "launch"} => r.vpc \in Vpcs
      BY <1>1, <3>1, RequestFields DEF RulesInv, Takers
    <3>3. KnowsRules(r)'
      BY <1>1, <1>5, <3>2 DEF KnowsRules
    <3>. QED
      BY <3>1, <3>3 DEF KnowsRules, Ruled
  <2>. QED
    BY <2>1, <2>2
<1>. QED
  BY <1>6, <1>7 DEF RulesInv

\* Proxmox takes the rules of the new mode for every instance of the network.
LEMMA RulesApplied ==
  ASSUME TypeInv, TypeInv', RequestInv, RulesInv, NoFirewallFaults, NEW p \in NetProcs, ApplyMode(p)
  PROVE  RulesInv'
<1>. DEFINE r == nreq[p]
<1>1. /\ r.op = "mode" /\ r.step = "read" /\ r.vpc \in Vpcs /\ UNCHANGED <<vpcs, insts>>
      /\ r.attached = {i \in Insts : insts[i].vpc = r.vpc}
  BY RequestFields DEF ApplyMode, At, RulesInv, KnowsRules, Alters
<1>2. CASE End(p) /\ UNCHANGED firewall
  <2>1. Ends(p)
    BY <1>2, Continues
  <2>2. \A q \in NetProcs : q # p => nreq'[q] = nreq[q]
    BY <2>1 DEF Ends, Others
  <2>3. nreq'[p].op = "none"
    BY <2>1, NullsTyped DEF Ends
  <2>4. ~At(p, "mode", "done") /\ ~At(p, "mode", "done")' /\ KnowsRules(nreq'[p])
    BY <1>1, <2>3 DEF At, KnowsRules
  <2>. QED
    BY <1>1, <1>2, <2>2, <2>4, RulesStay
<1>3. CASE /\ Goto(p, "done")
           /\ firewall' = [i \in Insts |-> IF i \in {j \in r.attached : insts[j].known}
                                           THEN r.mode ELSE firewall[i]]
  <2>1. PICK v \in Vpcs : v = r.vpc
    BY <1>1
  <2>2. \A i \in Insts : firewall'[i] = IF insts[i].vpc = v THEN r.mode ELSE firewall[i]
    <3>1. \A i \in Insts : insts[i].vpc = v => insts[i].known
      BY NullsTyped DEF RequestInv, UnknownBare
    <3>. QED
      BY <1>1, <1>3, <2>1, <3>1
  <2>3. /\ \A q \in NetProcs : q # p => nreq'[q] = nreq[q]
        /\ nreq'[p].op = "mode" /\ nreq'[p].step = "done" /\ nreq'[p].vpc = v
        /\ nreq'[p].mode = r.mode /\ nreq'[p].attached = r.attached
    BY <1>1, <1>3, <2>1, Continues DEF Moves, Others
  <2>4. \A q \in NetProcs : q # p => /\ nreq[q].vpc # v
                                     /\ nreq[q].op \in Takers => insts[nreq[q].inst].vpc # v
    BY <1>1, <2>1 DEF RequestInv, AltersAlone, Alters
  <2>5. \A w : w # v => \A q \in NetProcs : /\ Applied(q, w)' <=> Applied(q, w)
                                            /\ Applied(q, w) => nreq'[q].mode = nreq[q].mode
    BY <2>1, <2>3 DEF Applied, At
  <2>6. \A i \in Insts : \A w : w # v /\ insts[i].vpc # v => (Ruled(i, w)' <=> Ruled(i, w))
    BY <1>1, <2>2, <2>5 DEF Ruled
  <2>7. ASSUME NEW i \in Insts
        PROVE  Ruled(i, insts[i].vpc)'
    <3>1. CASE insts[i].vpc = v
      <4>1. \A q \in NetProcs : Applied(q, v)' => q = p
        BY <2>3, <2>4 DEF Applied
      <4>2. Applied(p, v)' /\ firewall'[i] = nreq'[p].mode
        BY <2>2, <2>3, <3>1 DEF Applied, At
      <4>3. Ruled(i, v)'
        BY <4>1, <4>2 DEF Ruled
      <4>. QED
        BY <1>1, <3>1, <4>3 DEF Ruled
    <3>2. CASE insts[i].vpc # v
      <4>1. PICK w : w = insts[i].vpc /\ w = insts'[i].vpc
        BY <1>1
      <4>2. Ruled(i, w)'
        BY <2>6, <3>2, <4>1 DEF RulesInv
      <4>. QED
        BY <4>1, <4>2 DEF Ruled
    <3>. QED
      BY <3>1, <3>2
  <2>8. ASSUME NEW q \in NetProcs
        PROVE  KnowsRules(nreq[q])'
    <3>1. CASE q = p
      BY <1>1, <2>1, <2>3, <3>1 DEF KnowsRules
    <3>2. CASE q # p
      <4>1. PICK s : s = nreq[q] /\ s = nreq'[q]
        BY <2>3, <3>2
      <4>2. /\ KnowsRules(s) /\ s.vpc # v
            /\ s.op = "migrate" => s.inst \in Insts /\ insts[s.inst].vpc # v
        BY <2>4, <3>2, <4>1, RequestFields DEF RulesInv, Takers, Works
      <4>3. KnowsRules(s)'
        BY <1>1, <2>6, <4>2 DEF KnowsRules
      <4>. QED
        BY <4>1, <4>3 DEF KnowsRules, Ruled
    <3>. QED
      BY <3>1, <3>2
  <2>. QED
    BY <2>7, <2>8 DEF RulesInv
<1>. QED
  BY <1>2, <1>3 DEF ApplyMode, NoFirewallFaults

\* The row gets the mode whose rules the guests have.
LEMMA RulesCommitted ==
  ASSUME TypeInv, RequestInv, RulesInv, NEW p \in NetProcs, CommitMode(p)
  PROVE  RulesInv'
<1>. DEFINE r == nreq[p]
<1>1. /\ At(p, "mode", "done") /\ r.op = "mode" /\ r.vpc \in Vpcs /\ UNCHANGED <<insts, firewall>>
      /\ Exists(r.vpc) /\ Ends(p)
  BY RequestFields, Continues DEF CommitMode, At, RequestInv, RequestsKnown, Alters
<1>2. PICK v \in Vpcs : v = r.vpc
  BY <1>1
<1>3. /\ \A w \in Vpcs : w # v => vpcs'[w] = vpcs[w]
      /\ vpcs'[v].mode = r.mode /\ vpcs'[v].subnet = vpcs[v].subnet
  BY <1>1, <1>2, TypeParts DEF CommitMode, TablesTyped, Vpc
<1>4. (\A q \in NetProcs : q # p => nreq'[q] = nreq[q]) /\ nreq'[p].op = "none"
  BY <1>1, NullsTyped DEF Ends, Others
<1>5. \A q \in NetProcs : q # p => nreq[q].vpc # v
  BY <1>1, <1>2 DEF RequestInv, AltersAlone, Alters
<1>6. \A w : w # v => \A q \in NetProcs : /\ Applied(q, w)' <=> Applied(q, w)
                                          /\ Applied(q, w) => nreq'[q].mode = nreq[q].mode
  BY <1>2, <1>4 DEF Applied, At
<1>7. \A i \in Insts : \A w : w # v => (Ruled(i, w)' <=> Ruled(i, w))
  BY <1>1, <1>3, <1>6 DEF Ruled
<1>8. ASSUME NEW i \in Insts
      PROVE  Ruled(i, insts[i].vpc)'
  <2>1. PICK w : w = insts[i].vpc /\ w = insts'[i].vpc
    BY <1>1
  <2>2. Ruled(i, w)
    BY <2>1 DEF RulesInv
  <2>3. CASE w = v
    <3>1. \A q \in NetProcs : ~Applied(q, v)'
      BY <1>4, <1>5 DEF Applied, At
    <3>2. Applied(p, v)
      BY <1>1, <1>2 DEF Applied
    <3>3. vpcs'[v].subnet = "active" => firewall'[i] = vpcs'[v].mode
      BY <1>1, <1>2, <1>3, <2>2, <2>3, <3>2 DEF Ruled
    <3>4. Ruled(i, v)'
      BY <3>1, <3>3 DEF Ruled
    <3>. QED
      BY <2>1, <2>3, <3>4 DEF Ruled
  <2>4. CASE w # v
    <3>1. Ruled(i, w)'
      BY <1>7, <2>2, <2>4
    <3>. QED
      BY <2>1, <3>1 DEF Ruled
  <2>. QED
    BY <2>3, <2>4
<1>9. ASSUME NEW q \in NetProcs
      PROVE  KnowsRules(nreq[q])'
  <2>1. CASE q = p
    BY <1>4, <2>1 DEF KnowsRules
  <2>2. CASE q # p
    <3>1. PICK s : s = nreq[q] /\ s = nreq'[q]
      BY <1>4, <2>2
    <3>2. /\ KnowsRules(s) /\ s.vpc # v
          /\ s.op = "migrate" => s.inst \in Insts
          /\ s.op = "launch" => s.vpc \in Vpcs
      BY <1>5, <2>2, <3>1, RequestFields DEF RulesInv, Takers, Works
    <3>3. KnowsRules(s)'
      BY <1>1, <1>3, <1>7, <3>2 DEF KnowsRules
    <3>. QED
      BY <3>1, <3>3 DEF KnowsRules, Ruled
  <2>. QED
    BY <2>1, <2>2
<1>. QED
  BY <1>8, <1>9 DEF RulesInv

\* Every instance of the network is the user's, so that all are attached.
LEMMA RulesRead ==
  ASSUME TypeInv, TypeInv', RequestInv, NicInv, OwnerInv, RulesInv, Orderly, NEW p \in NetProcs,
         NEW u \in Users, NEW v \in Vpcs, NEW m \in Modes, ReadForMode(p, u, v, m)
  PROVE  RulesInv'
<1>1. /\ Begins(p, "mode", "read", v, NoInst, 0, 0) /\ UNCHANGED <<vpcs, insts, firewall>>
      /\ u = vpcs[v].owner
  BY StartEffects, OrderlyGuards DEF ReadForMode
<1>2. nreq'[p].attached = {i \in UsersOf(u, v) : insts[i].vpc = v}
  <2>1. nreq'[p] = [Free EXCEPT !.op = "mode", !.step = "read", !.user = u, !.vpc = v, !.mode = m,
                                !.copy = vpcs[v],
                                !.attached = {i \in UsersOf(u, v) : insts[i].vpc = v}]
    BY TypeParts DEF ReadForMode, Begin
  <2>. QED
    BY <2>1 DEF Free
<1>3. ASSUME NEW i \in Insts, insts[i].vpc = v
      PROVE  i \in UsersOf(u, v)
  <2>1. Named(i, 0) = v /\ v # NoVpc
    BY <1>3, NullsTyped DEF Named
  <2>2. InstOwner[i] = u
    BY <1>1, <2>1, ReadsTyped DEF OwnerInv, NamedOwned, Owned
  <2>3. insts[i].known
    BY <1>3, NullsTyped DEF RequestInv, UnknownBare
  <2>. QED
    BY <1>3, <2>2, <2>3 DEF UsersOf, SpecsName
<1>4. nreq'[p].attached = {i \in Insts : insts[i].vpc = v}
  BY <1>2, <1>3 DEF UsersOf
<1>5. ~At(p, "mode", "done") /\ ~At(p, "mode", "done")' /\ KnowsRules(nreq'[p])
  BY <1>1, <1>4, NullsTyped DEF Begins, At, KnowsRules
<1>. QED
  BY <1>1, <1>5, RulesStay DEF Begins, Others

LEMMA RulesStarts ==
  ASSUME TypeInv, TypeInv', RequestInv, NicInv, OwnerInv, RulesInv, Orderly, NEW p \in NetProcs,
         NetStart(p)
  PROVE  RulesInv'
<1>1. ASSUME NEW op, NEW step, NEW v, NEW i, NEW k, NEW h, Begins(p, op, step, v, i, k, h),
             UNCHANGED <<vpcs, firewall>>, op # "mode",
             op = "migrate" => Ruled(i, v),
             op = "launch" => nreq'[p].copy = vpcs[v]
      PROVE  RulesInv'
  <2>1. ~At(p, "mode", "done") /\ ~At(p, "mode", "done")' /\ KnowsRules(nreq'[p])
    BY <1>1, NullsTyped DEF KnowsRules, Begins, At
  <2>. QED
    BY <1>1, <2>1, NamedStarts, RulesStay DEF Begins, Others
<1>2. ASSUME NEW u \in Users, NEW v \in Vpcs, NEW b \in Blocks, NEW g \in Gateways, NEW m \in Modes,
             ReadForCreate(p, u, v, b, g, m)
      PROVE  RulesInv'
  <2>1. Begins(p, "create", "read", v, NoInst, 0, 0) /\ UNCHANGED <<vpcs, firewall>>
    BY <1>2, StartEffects DEF ReadForCreate
  <2>. QED
    BY <1>1, <2>1
<1>3. ASSUME NEW u \in Users, NEW v \in Vpcs, DropVnet(p, u, v)
      PROVE  RulesInv'
  <2>1. Begins(p, "drop", "done", v, NoInst, 0, 0) /\ UNCHANGED <<vpcs, firewall>>
    BY <1>3, StartEffects DEF DropVnet
  <2>. QED
    BY <1>1, <2>1
<1>4. ASSUME NEW i \in Insts, NEW v \in Vpcs, ReadForLaunch(p, i, v)
      PROVE  RulesInv'
  <2>1. Begins(p, "launch", "read", v, i, 0, NextAddress(v)) /\ UNCHANGED <<vpcs, firewall>>
    BY <1>4, StartEffects DEF ReadForLaunch
  <2>2. nreq'[p].copy = vpcs[v]
    <3>1. nreq'[p] = [Free EXCEPT !.op = "launch", !.step = "read", !.user = InstOwner[i],
                                  !.vpc = v, !.inst = i, !.ip = NextAddress(v), !.copy = vpcs[v]]
      BY <1>4, TypeParts DEF ReadForLaunch, Begin
    <3>. QED
      BY <3>1 DEF Free
  <2>. QED
    BY <1>1, <2>1, <2>2
<1>5. ASSUME NEW u \in Users, NEW i \in Insts, NEW v \in Vpcs, ReadForMigrate(p, u, i, v)
      PROVE  RulesInv'
  <2>1. Begins(p, "migrate", "read", v, i, 0, nreq'[p].ip) /\ UNCHANGED <<vpcs, firewall>>
    BY <1>5, StartEffects DEF ReadForMigrate
  <2>2. firewall[i] = vpcs[v].mode /\ ~Changing(v)
    BY <1>5, OrderlyGuards DEF ReadForMigrate, Orderly
  <2>3. Ruled(i, v)
    BY <2>2 DEF Ruled, Changing, InFlight, Applied, At
  <2>. QED
    BY <1>1, <2>1, <2>3
<1>6. ASSUME NEW u \in Users, NEW i \in Insts, NEW v \in Vpcs, ReadForAdd(p, u, i, v)
      PROVE  RulesInv'
  <2>1. Begins(p, "add", "read", v, i, LastNic(i) + 1, 0) /\ UNCHANGED <<vpcs, firewall>>
    BY <1>6, StartEffects DEF ReadForAdd
  <2>. QED
    BY <1>1, <2>1
<1>7. ASSUME NEW u \in Users, NEW i \in Insts, NEW k \in Nics, UnplugNic(p, u, i, k)
      PROVE  RulesInv'
  <2>1. Begins(p, "remove", "done", NoVpc, i, k, 0) /\ UNCHANGED <<vpcs, firewall>>
    BY <1>7, StartEffects DEF UnplugNic
  <2>. QED
    BY <1>1, <2>1
<1>8. ASSUME NEW i \in Insts, NEW h \in Hosts, ReadForIp(p, i, h)
      PROVE  RulesInv'
  <2>1. Begins(p, "ip", "read", insts[i].vpc, i, 0, h) /\ UNCHANGED <<vpcs, firewall>>
    BY <1>8, StartEffects DEF ReadForIp
  <2>. QED
    BY <1>1, <2>1
<1>9. ASSUME NEW u \in Users, NEW i \in Insts, NEW m \in Modes, ReadForInstanceMode(p, u, i, m)
      PROVE  RulesInv'
  BY <1>9, RulesRead, ReadsTyped, NullsTyped DEF ReadForInstanceMode
<1>. QED
  BY <1>2, <1>3, <1>4, <1>5, <1>6, <1>7, <1>8, <1>9, RulesRead DEF NetStart

\* A request ends that has put its instance into another network.
LEMMA RulesMove ==
  ASSUME TypeInv, TypeInv', RequestInv, RulesInv, NEW p \in NetProcs, nreq[p].op \in Takers, Ends(p),
         NEW i \in Insts, i = nreq[p].inst, UNCHANGED vpcs,
         \A j \in Insts \ {i} : insts'[j].vpc = insts[j].vpc /\ firewall'[j] = firewall[j],
         insts'[i].vpc = nreq[p].vpc,
         vpcs[nreq[p].vpc].subnet = "active" => firewall'[i] = vpcs[nreq[p].vpc].mode
  PROVE  RulesInv'
<1>1. PICK v \in Vpcs : v = nreq[p].vpc
  BY RequestFields
<1>2. nreq'[p].op = "none" /\ \A q \in NetProcs : q # p => nreq'[q] = nreq[q]
  BY NullsTyped DEF Ends, Others
<1>3. \A q \in NetProcs : nreq[q].op = "mode" => nreq[q].vpc # v /\ insts[i].vpc # nreq[q].vpc
  BY <1>1 DEF RequestInv, AltersAlone, Alters, Takers
<1>4. \A q \in NetProcs : nreq'[q].inst # i
  BY <1>2, NullsTyped DEF RequestInv, OnePerInst, Ends
<1>5. Ruled(i, insts[i].vpc)'
  <2>1. \A q \in NetProcs : ~Applied(q, v)'
    BY <1>2, <1>3 DEF Applied, At
  <2>2. Ruled(i, v)'
    BY <1>1, <2>1 DEF Ruled
  <2>. QED
    BY <1>1, <2>2 DEF Ruled
<1>6. \A q \in NetProcs : nreq'[q].op = "mode" =>
        insts'[i].vpc # nreq'[q].vpc /\ insts[i].vpc # nreq'[q].vpc
  BY <1>1, <1>2, <1>3
<1>7. ~At(p, "mode", "done") /\ ~At(p, "mode", "done")' /\ KnowsRules(nreq'[p])
  BY <1>2 DEF At, KnowsRules, Takers
<1>. QED
  BY <1>2, <1>4, <1>5, <1>6, <1>7, RulesStay

LEMMA RulesGoes ==
  ASSUME TypeInv, TypeInv', RequestInv, AddressInv, NicInv, OwnerInv, RulesInv, NoFirewallFaults,
         NEW p \in NetProcs, NetContinue(p)
  PROVE  RulesInv'
<1>. DEFINE r == nreq[p]
<1>1. KnowsRules(r)
  BY DEF RulesInv
\* Neither network nor rules of an instance change.
<1>2. ASSUME UNCHANGED <<vpcs, firewall>>, \A i \in Insts : insts'[i].vpc = insts[i].vpc, Others(p),
             r.op # "mode",
             \/ nreq'[p] = Free
             \/ /\ nreq'[p].op = r.op /\ nreq'[p].vpc = r.vpc /\ nreq'[p].inst = r.inst
                /\ nreq'[p].copy = r.copy \/ r.op # "launch"
      PROVE  RulesInv'
  <2>1. ~At(p, "mode", "done") /\ ~At(p, "mode", "done")' /\ KnowsRules(nreq'[p])
    BY <1>1, <1>2, NullsTyped DEF At, KnowsRules
  <2>. QED
    BY <1>2, <2>1, RulesStay DEF Others
<1>3. CASE CommitCreate(p) \/ DropRow(p)
  BY <1>3, RulesOfRows
<1>4. CASE ApplyMode(p) \/ CommitMode(p)
  BY <1>4, RulesApplied, RulesCommitted
<1>5. CASE FlushCreate(p) \/ PlugLaunch(p) \/ ApplyMigrate(p) \/ ApplyIp(p) \/ CommitIp(p)
  <2>1. UNCHANGED <<vpcs, firewall, insts>> /\ r.op # "mode"
    BY <1>5 DEF FlushCreate, PlugLaunch, ApplyMigrate, ApplyIp, CommitIp, At
  <2>2. Ends(p) \/ \E step : Moves(p, step)
    BY <1>5, Continues DEF FlushCreate, PlugLaunch, ApplyMigrate, ApplyIp, CommitIp
  <2>. QED
    BY <1>2, <2>1, <2>2 DEF Ends, Moves
<1>6. CASE BuildVnet(p) \/ PlugNic(p)
  <2>1. UNCHANGED <<vpcs, firewall, insts>> /\ r.op \in {"create", "add"}
    BY <1>6 DEF BuildVnet, PlugNic, At
  <2>2. \/ Ends(p)
        \/ /\ Others(p) /\ nreq'[p].op = r.op /\ nreq'[p].vpc = r.vpc /\ nreq'[p].inst = r.inst
    BY <1>6, Continues, TypeParts DEF BuildVnet, PlugNic, NetRequest, Others
  <2>. QED
    BY <1>2, <2>1, <2>2 DEF Ends
<1>7. CASE CommitNic(p) \/ CommitUnplug(p)
  <2>1. UNCHANGED <<vpcs, firewall>> /\ r.op \in {"add", "remove"} /\ Ends(p)
    BY <1>7, Continues DEF CommitNic, CommitUnplug, At
  <2>2. \A i \in Insts : insts'[i].vpc = insts[i].vpc
    BY <2>1, SpecsGo
  <2>. QED
    BY <1>2, <2>1, <2>2 DEF Ends
<1>8. CASE CommitLaunch(p)
  <2>1. r.op = "launch" /\ Ends(p) /\ UNCHANGED vpcs /\ r.op \in Takers
    BY <1>8, Continues DEF CommitLaunch, Takers
  <2>2. PICK i \in Insts : i = r.inst
    BY <2>1, RequestFields DEF Works
  <2>3. CASE r.step # "done"
    <3>1. UNCHANGED <<insts, firewall>>
      BY <1>8, <2>3 DEF CommitLaunch
    <3>. QED
      BY <1>2, <2>1, <3>1 DEF Ends
  <2>4. CASE r.step = "done"
    <3>1. insts' = [insts EXCEPT ![i].vpc = r.vpc]
      BY <1>8, <2>1, <2>2, <2>4, InsertsSucceed DEF CommitLaunch
    <3>2. firewall' = IF r.copy.subnet = "active" THEN [firewall EXCEPT ![i] = r.copy.mode]
                      ELSE firewall
      BY <1>8, <2>2, <2>4 DEF CommitLaunch, NoFirewallFaults
    <3>3. r.copy.mode = vpcs[r.vpc].mode /\ r.copy.subnet = vpcs[r.vpc].subnet
      BY <1>1, <2>1 DEF KnowsRules
    <3>4. /\ insts'[i].vpc = r.vpc
          /\ \A j \in Insts \ {i} : insts'[j].vpc = insts[j].vpc /\ firewall'[j] = firewall[j]
      BY <3>1, <3>2, TypeParts DEF TablesTyped, Instance
    <3>5. vpcs[r.vpc].subnet = "active" => firewall'[i] = vpcs[r.vpc].mode
      BY <3>2, <3>3, TypeParts DEF TablesTyped
    <3>. QED
      BY <2>1, <2>2, <3>4, <3>5, RulesMove
  <2>. QED
    BY <2>3, <2>4
<1>9. CASE CommitMigrate(p)
  <2>1. r.op = "migrate" /\ Ends(p) /\ UNCHANGED <<vpcs, firewall>> /\ r.op \in Takers
    BY <1>9, Continues DEF CommitMigrate, At, Takers
  <2>2. PICK i \in Insts : i = r.inst
    BY <2>1, RequestFields DEF Works
  <2>3. CASE UNCHANGED insts
    BY <1>2, <2>1, <2>3 DEF Ends
  <2>4. CASE insts' = [insts EXCEPT ![r.inst].vpc = r.vpc]
    <3>1. /\ insts'[i].vpc = r.vpc
          /\ \A j \in Insts \ {i} : insts'[j].vpc = insts[j].vpc
      BY <2>2, <2>4, TypeParts DEF TablesTyped, Instance
    <3>2. \A q \in NetProcs : ~Applied(q, r.vpc)
      BY <2>1 DEF Applied, At, RequestInv, AltersAlone, Alters, Takers
    <3>3. vpcs[r.vpc].subnet = "active" => firewall[i] = vpcs[r.vpc].mode
      BY <1>1, <2>1, <2>2, <3>2, RequestFields DEF KnowsRules, Ruled
    <3>. QED
      BY <2>1, <2>2, <3>1, <3>3, RulesMove
  <2>. QED
    BY <1>9, <2>3, <2>4 DEF CommitMigrate
<1>. QED
  BY <1>3, <1>4, <1>5, <1>6, <1>7, <1>8, <1>9 DEF NetContinue

LEMMA RulesStep ==
  ASSUME TypeInv, TypeInv', RequestInv, AddressInv, NicInv, OwnerInv, RulesInv, Orderly,
         NoFirewallFaults, [NetworkNext]_netVars
  PROVE  RulesInv'
<1>1. ASSUME UNCHANGED <<vpcs, firewall, nreq>>, \A i \in Insts : insts'[i].vpc = insts[i].vpc
      PROVE  RulesInv'
  BY <1>1, RulesStay
<1>2. ASSUME NEW i \in Insts, LaunchDetached(i)
      PROVE  RulesInv'
  BY <1>1, <1>2, TypeParts DEF LaunchDetached, TablesTyped, Instance
<1>3. ASSUME NEW i \in Insts, Terminate(i)
      PROVE  RulesInv'
  <2>1. /\ UNCHANGED <<vpcs, nreq>> /\ Settled(i)
        /\ insts[i].vpc \in Vpcs => ~Changing(insts[i].vpc)
    BY <1>3, OrderlyGuards DEF Terminate, MayLeave
  <2>2. /\ insts'[i] = Unknown
        /\ \A j \in Insts : j # i => insts'[j] = insts[j] /\ firewall'[j] = firewall[j]
    BY <1>3, TypeParts DEF Terminate, TablesTyped
  <2>3. Ruled(i, insts[i].vpc)'
    BY <2>2, NullsTyped DEF Ruled
  <2>4. \A q \in NetProcs : /\ nreq'[q].inst # i
                            /\ nreq'[q].op = "mode" => /\ insts'[i].vpc # nreq'[q].vpc
                                                       /\ insts[i].vpc # nreq'[q].vpc
    BY <2>1, <2>2, RequestFields, NullsTyped DEF Settled, Changing, InFlight, Alters
  <2>. QED
    BY <2>1, <2>2, <2>3, <2>4, RulesStay
<1>4. ASSUME NEW p \in NetProcs, NetStart(p) \/ NetContinue(p) \/ LoseRequest(p)
      PROVE  RulesInv'
  BY <1>4, RulesStarts, RulesGoes, OrderlyGuards
<1>5. CASE NetworkNext
  BY <1>1, <1>2, <1>3, <1>4, <1>5 DEF NetworkNext, ReserveStatic, ReleaseStatic
<1>. QED
  BY <1>1, <1>5 DEF netVars

LEMMA RulesBegin == NetworkInit => RulesInv
<1>. SUFFICES ASSUME NetworkInit PROVE RulesInv
  OBVIOUS
<1>1. \A i \in Insts : insts[i].vpc = NoVpc
  BY NullsTyped DEF NetworkInit
<1>2. \A p \in NetProcs : nreq[p].op = "none"
  BY NullsTyped DEF NetworkInit
<1>. QED
  BY <1>1, <1>2, NullsTyped DEF RulesInv, Ruled, KnowsRules

(***************************************************************************)
(* When Proxmox takes every firewall call, a guest with an address has the *)
(* rules of the mode of its network whenever nobody changes either.        *)
(***************************************************************************)
THEOREM FirewallsFollowModes ==
  ASSUME Orderly, NoFirewallFaults
  PROVE  NetworkSpec => []FirewallFollowsMode
<1>. DEFINE Inv == RequestInv /\ AddressInv /\ NicInv /\ OwnerInv /\ DryInv /\ RulesInv
<1>1. NetworkInit => Inv
  BY RequestBegins, AddressBegins, NicBegins, OwnerBegins, DryBegins, RulesBegin
<1>2. TypeInv /\ Inv /\ [NetworkNext]_netVars => Inv'
  BY TypeStep, RequestStep, AddressStep, NicStep, OwnerStep, DryStep, RulesStep
<1>3. ASSUME TypeInv, Inv
      PROVE  FirewallFollowsMode
  <2>. SUFFICES ASSUME NEW i \in Insts, NEW v, v = nics[i][0].vpc, Settled(i), nics[i][0].ip # 0,
                       ~Changing(v)
                PROVE  firewall[i] = vpcs[v].mode
    BY DEF FirewallFollowsMode
  <2>1. insts[i].vpc = v
    BY <1>3, NicsSettled, ReadsTyped DEF Named
  <2>2. v \in Vpcs
    BY <1>3, ReadsTyped, NullsTyped DEF NicInv, NicsNamed, Nic
  <2>3. vpcs[v].subnet = "active"
    BY <1>3, <2>2, ReadsTyped DEF DryInv, Dry
  <2>4. \A q \in NetProcs : ~Applied(q, v)
    BY DEF Changing, InFlight, Applied, At
  <2>. QED
    BY <1>3, <2>1, <2>2, <2>3, <2>4 DEF RulesInv, Ruled
<1>. HIDE DEF Inv
<1>. QED
  BY <1>1, <1>2, <1>3, TypeInvAlways, PTL DEF NetworkSpec
=============================================================================
