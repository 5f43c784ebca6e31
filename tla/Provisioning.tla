---------------------------- MODULE Provisioning ----------------------------
(***************************************************************************)
(* How PAWS hands out Proxmox VMIDs and keeps three stores in step: the    *)
(* vmid_pool table, the resources table and the Proxmox cluster itself.    *)
(*                                                                         *)
(* The API is one asyncio process.  A handler runs without interruption    *)
(* between two awaits (a synchronous Proxmox call blocks the event loop),  *)
(* so each action below is one such segment, and the effect of a commit    *)
(* that a segment awaits is the first thing of the action it ends in.      *)
(* Handlers of different requests interleave at every await.               *)
(*                                                                         *)
(* Requests: POST /vms and POST /containers (Creates), the deletions       *)
(* DELETE /vms, DELETE /containers, the terminate action and the admin's   *)
(* remove-resource (Deletes), and the admin's import (Imports).  A create  *)
(* or import request names the resource row it inserts, and a create       *)
(* request names the Proxmox instance it clones.                           *)
(***************************************************************************)
EXTENDS Integers, FiniteSets

CONSTANTS
    Vmids,        \* vmid_range_start .. vmid_range_end
    Users,
    Creates,      \* create requests
    Imports,      \* admin import requests
    Deletes,      \* deletion requests
    Owner,        \* the user a created or imported resource belongs to
    Endpoint,     \* "vm" (POST /vms) or "lxc" (POST /containers)
    Quota,        \* Quota["vm"] is max_vms, Quota["lxc"] max_containers
    Protectable,  \* the resources whose termination protection is ever used
    Faults,       \* what may go wrong in this instance, see FaultKinds
    Foreign,      \* an instance on the cluster that PAWS did not create
    NoInstance, NoRow, NoVmid,
    Free,         \* no vmid_pool row for this VMID
    Unlinked      \* a vmid_pool row whose resource_id is NULL

ResIds    == Creates \union Imports
Instances == Creates \union {Foreign}
Types     == {"vm", "lxc"}

(***************************************************************************)
(* listing_error: the cluster listing fails and reads as an empty set.     *)
(* clone_error: Proxmox refuses a clone for a reason of its own.           *)
(* clone_timeout: Proxmox accepts a clone and its answer is lost.          *)
(* clone_abort: the background clone task fails after it was accepted.     *)
(* destroy_error: Proxmox refuses a destroy; the code swallows the error.  *)
(* late_failure: the tail of create_container raises after the row is in.  *)
(* overlapping_deletes: a resource is deleted by two requests at once.     *)
(* api_crash: the API process dies and is restarted.                       *)
(* worker_crash: so does a Celery worker (module Lifecycle).               *)
(***************************************************************************)
FaultKinds == {"listing_error", "clone_error", "clone_timeout", "clone_abort",
               "destroy_error", "late_failure", "overlapping_deletes", "api_crash",
               "worker_crash"}

ASSUME VmidsAreNumbers == Vmids \subseteq Nat
ASSUME RequestsAreDistinct ==
    /\ Creates \intersect Imports = {}
    /\ Foreign \notin Creates
ASSUME NullsAreDistinct ==
    /\ {Free, Unlinked} \intersect ResIds = {}
    /\ Free # Unlinked
    /\ NoInstance \notin Instances
    /\ NoVmid \notin Vmids
ASSUME EnvironmentTyped ==
    /\ Owner \in [ResIds -> Users]
    /\ Endpoint \in [Creates -> Types]
    /\ Quota \in [Types -> Nat]
    /\ Protectable \subseteq ResIds
    /\ Faults \subseteq FaultKinds

VARIABLES
    pool,     \* vmid_pool: Free, Unlinked or the linked resource, per VMID
    rows,     \* resources: the row of each resource, or NoRow
    pve,      \* the instance that lives under each VMID on the cluster
    create,   \* progress of each create request
    del,      \* progress of each deletion, with the row it has fetched
    imp       \* progress of each import request

vars == <<pool, rows, pve, create, del, imp>>

(***************************************************************************)
(* inst is an auxiliary column: the instance the row was inserted for.  No *)
(* guard reads it.  It lets the properties say whose instance is whose.    *)
(***************************************************************************)
Row == [vmid : Vmids, type : Types, status : {"provisioning", "running", "stopped", "destroyed"},
        protected : BOOLEAN, inst : Instances]

CreateSteps == {"idle", "admitted", "pool_seen", "rows_seen", "picked",
                "reserved", "cloned", "releasing", "recorded",
                "done", "failed", "conflict", "lost"}
CreateState == [step : CreateSteps, used : SUBSET Vmids, vmid : Vmids \union {NoVmid}]

DeleteSteps == {"idle", "fetched", "purged", "done", "lost"}
DeleteState == [step : DeleteSteps, kind : {"terminate", "unlink"},
                res : ResIds \union {NoRow}, vmid : Vmids \union {NoVmid},
                inst : Instances \union {NoInstance}]

ImportSteps == {"idle", "checked", "done", "failed", "lost"}
ImportState == [step : ImportSteps, vmid : Vmids \union {NoVmid}]

ASSUME NoRowIsNull == NoRow \notin Row /\ NoRow \notin ResIds

TypeOK ==
    /\ pool \in [Vmids -> ResIds \union {Free, Unlinked}]
    /\ rows \in [ResIds -> Row \union {NoRow}]
    /\ pve \in [Vmids -> Instances \union {NoInstance}]
    /\ create \in [Creates -> CreateState]
    /\ del \in [Deletes -> DeleteState]
    /\ imp \in [Imports -> ImportState]

NoDeletion(step) == [step |-> step, kind |-> "terminate", res |-> NoRow,
                     vmid |-> NoVmid, inst |-> NoInstance]

\* PAWS starts empty, beside whatever instances the cluster already runs.
Init ==
    /\ pool = [v \in Vmids |-> Free]
    /\ rows = [x \in ResIds |-> NoRow]
    /\ pve \in [Vmids -> {NoInstance, Foreign}]
    /\ create = [r \in Creates |-> [step |-> "idle", used |-> {}, vmid |-> NoVmid]]
    /\ del = [d \in Deletes |-> NoDeletion("idle")]
    /\ imp = [i \in Imports |-> [step |-> "idle", vmid |-> NoVmid]]

RowExists(x)  == rows[x] # NoRow
RowsAt(v)     == {x \in ResIds : RowExists(x) /\ rows[x].vmid = v}
OnCluster     == {v \in Vmids : pve[v] # NoInstance}

-----------------------------------------------------------------------------
(* POST /vms and POST /containers *)

\* _count_resources: what a user owns of one type, destroyed rows left out
Counted(u, type) ==
    {x \in ResIds : /\ RowExists(x)
                    /\ Owner[x] = u
                    /\ rows[x].type = type
                    /\ rows[x].status # "destroyed"}

\* The quota check; a request it refuses has no effect and is left out.
Admit(r) ==
    /\ create[r].step = "idle"
    /\ Cardinality(Counted(Owner[r], Endpoint[r])) < Quota[Endpoint[r]]
    /\ create' = [create EXCEPT ![r].step = "admitted"]
    /\ UNCHANGED <<pool, rows, pve, del, imp>>

SeePool(r) ==
    /\ create[r].step = "admitted"
    /\ create' = [create EXCEPT ![r].step = "pool_seen",
                                ![r].used = {v \in Vmids : pool[v] # Free}]
    /\ UNCHANGED <<pool, rows, pve, del, imp>>

SeeRows(r) ==
    /\ create[r].step = "pool_seen"
    /\ create' = [create EXCEPT ![r].step = "rows_seen",
                                ![r].used = @ \union {v \in Vmids : RowsAt(v) # {}}]
    /\ UNCHANGED <<pool, rows, pve, del, imp>>

\* get_proxmox_vmids: an error of the cluster listing reads as "no VMIDs".
ClusterListing ==
    {OnCluster} \union (IF "listing_error" \in Faults THEN {{}} ELSE {})

\* get_next_vmid: the lowest VMID of the range that nobody seems to use
Pick(r) ==
    /\ create[r].step = "rows_seen"
    /\ \E listed \in ClusterListing :
         LET candidates == Vmids \ (create[r].used \union listed) IN
         \/ \E v \in candidates :
              /\ \A w \in candidates : v <= w
              /\ create' = [create EXCEPT ![r] = [step |-> "picked", used |-> {}, vmid |-> v]]
         \/ /\ candidates = {}
            /\ create' = [create EXCEPT ![r].step = "failed", ![r].used = {}]
    /\ UNCHANGED <<pool, rows, pve, del, imp>>

\* Mutant: the reservation overwrites a pool row that is there already.
ReserveNoKey(r) ==
    /\ create[r].step = "picked"
    /\ pool' = [pool EXCEPT ![create[r].vmid] = Unlinked]
    /\ create' = [create EXCEPT ![r].step = "reserved"]
    /\ UNCHANGED <<rows, pve, del, imp>>

\* Mutant: a refused reservation takes the release branch as well.
ReserveRefusedReleases(r) ==
    LET v == create[r].vmid IN
    /\ create[r].step = "picked"
    /\ \/ /\ pool[v] = Free
          /\ pool' = [pool EXCEPT ![v] = Unlinked]
          /\ create' = [create EXCEPT ![r].step = "reserved"]
       \/ /\ pool[v] # Free
          /\ create' = [create EXCEPT ![r].step = "failed"]
          /\ pool' = [pool EXCEPT ![v] = Free]
    /\ UNCHANGED <<rows, pve, del, imp>>

\* The commit of VMIDPool(vmid, NULL); its primary key refuses a second row.
Reserve(r) ==
    LET v == create[r].vmid IN
    /\ create[r].step = "picked"
    /\ \/ /\ pool[v] = Free
          /\ pool' = [pool EXCEPT ![v] = Unlinked]
          /\ create' = [create EXCEPT ![r].step = "reserved"]
       \/ /\ pool[v] # Free
          /\ create' = [create EXCEPT ![r].step = "failed"]
          /\ UNCHANGED pool
    /\ UNCHANGED <<rows, pve, del, imp>>

\* Proxmox refuses to clone onto a VMID that is taken.  The handler takes any
\* exception of the call for a refusal, also when the clone was accepted.
Clone(r) ==
    LET v == create[r].vmid IN
    /\ create[r].step = "reserved"
    /\ \/ /\ pve[v] = NoInstance
          /\ pve' = [pve EXCEPT ![v] = r]
          /\ create' = [create EXCEPT ![r].step = "cloned"]
       \/ /\ pve[v] # NoInstance \/ "clone_error" \in Faults
          /\ create' = [create EXCEPT ![r].step = "releasing"]
          /\ UNCHANGED pve
       \/ /\ pve[v] = NoInstance
          /\ "clone_timeout" \in Faults
          /\ pve' = [pve EXCEPT ![v] = r]
          /\ create' = [create EXCEPT ![r].step = "releasing"]
    /\ UNCHANGED <<pool, rows, del, imp>>

\* Mutant: the except branch forgets the pool row.
ReleaseKeepsPool(r) ==
    /\ create[r].step = "releasing"
    /\ create' = [create EXCEPT ![r].step = "failed"]
    /\ UNCHANGED <<pool, rows, pve, del, imp>>

\* The except branch deletes whatever pool row the VMID has by now.
Release(r) ==
    /\ create[r].step = "releasing"
    /\ pool' = [pool EXCEPT ![create[r].vmid] = Free]
    /\ create' = [create EXCEPT ![r].step = "failed"]
    /\ UNCHANGED <<rows, pve, del, imp>>

\* Mutant: the row gets a status that nothing else knows.
NewRowsCreating(r) ==
    [vmid : {create[r].vmid}, type : {Endpoint[r]}, status : {"creating"},
     protected : {FALSE}, inst : {r}]

\* The rows a create endpoint may insert: a container template makes POST /vms
\* record a container, and only POST /vms sets the protection.
NewRows(r) ==
    [vmid : {create[r].vmid},
     type : IF Endpoint[r] = "lxc" THEN {"lxc"} ELSE Types,
     status : {"provisioning"},
     protected : IF Endpoint[r] = "vm" /\ r \in Protectable THEN BOOLEAN ELSE {FALSE},
     inst : {r}]

\* Mutant: the pool row is not linked.
RecordUnlinked(r) ==
    /\ create[r].step = "cloned"
    /\ RowsAt(create[r].vmid) = {}
    /\ \E row \in NewRows(r) : rows' = [rows EXCEPT ![r] = row]
    /\ create' = [create EXCEPT ![r].step = "recorded"]
    /\ UNCHANGED <<pool, pve, del, imp>>

\* The commit that inserts the row and links the pool row, if there still is one
Record(r) ==
    LET v == create[r].vmid IN
    /\ create[r].step = "cloned"
    /\ RowsAt(v) = {}
    /\ \E row \in NewRows(r) : rows' = [rows EXCEPT ![r] = row]
    /\ pool' = IF pool[v] = Free THEN pool ELSE [pool EXCEPT ![v] = r]
    /\ create' = [create EXCEPT ![r].step = "recorded"]
    /\ UNCHANGED <<pve, del, imp>>

\* uq_resource_cluster_vmid refuses a second row for the VMID: the handler
\* ends in a 500 and undoes nothing.
RecordRefused(r) ==
    /\ create[r].step = "cloned"
    /\ RowsAt(create[r].vmid) # {}
    /\ create' = [create EXCEPT ![r].step = "conflict"]
    /\ UNCHANGED <<pool, rows, pve, del, imp>>

\* Mutant: a failure of create_vm's tail releases the VMID, as FailLate does.
FinishReleases(r) ==
    /\ create[r].step = "recorded"
    /\ pool' = [pool EXCEPT ![create[r].vmid] = Free]
    /\ create' = [create EXCEPT ![r].step = "done"]
    /\ UNCHANGED <<rows, pve, del, imp>>

\* The tail: Proxmox pool, migration, configuration, network.  None of it
\* writes the three stores; a failure of it in create_vm changes nothing.
Finish(r) ==
    /\ create[r].step = "recorded"
    /\ create' = [create EXCEPT ![r].step = "done"]
    /\ UNCHANGED <<pool, rows, pve, del, imp>>

\* create_container wraps its tail in the same try: an error there deletes the
\* pool row although the resource row and the instance stay.
FailLate(r) ==
    /\ "late_failure" \in Faults
    /\ Endpoint[r] = "lxc"
    /\ create[r].step = "recorded"
    /\ pool' = [pool EXCEPT ![create[r].vmid] = Free]
    /\ create' = [create EXCEPT ![r].step = "failed"]
    /\ UNCHANGED <<rows, pve, del, imp>>

\* Proxmox's own clone task fails and takes the half-made instance away.
\* PAWS only logs that.
CloneAborts(r) ==
    /\ "clone_abort" \in Faults
    /\ \E v \in Vmids : pve[v] = r /\ pve' = [pve EXCEPT ![v] = NoInstance]
    /\ UNCHANGED <<pool, rows, create, del, imp>>

-----------------------------------------------------------------------------
(* Deletions *)

Deleting(d) == del[d].step \in {"fetched", "purged"}

\* A second deletion of a row that one deletion has fetched already
MayFetch(x) ==
    "overlapping_deletes" \in Faults \/ \A e \in Deletes : Deleting(e) => del[e].res # x

\* _get_user_resource and the guards of the endpoints; the handler goes on
\* with the row as it is now.
Fetch(d, x, kind) ==
    /\ del[d].step = "idle"
    /\ RowExists(x)
    /\ MayFetch(x)
    /\ kind = "terminate" => rows[x].status # "destroyed"
    /\ (kind = "terminate" /\ rows[x].type = "vm") => ~rows[x].protected
    /\ del' = [del EXCEPT ![d] = [step |-> "fetched", kind |-> kind, res |-> x,
                                  vmid |-> rows[x].vmid, inst |-> rows[x].inst]]
    /\ UNCHANGED <<pool, rows, pve, create, imp>>

\* stop, then destroy: both by VMID, both with their errors swallowed
Purge(d) ==
    /\ del[d].step = "fetched"
    /\ del[d].kind = "terminate"
    /\ \/ pve' = [pve EXCEPT ![del[d].vmid] = NoInstance]
       \/ "destroy_error" \in Faults /\ UNCHANGED pve
    /\ del' = [del EXCEPT ![d].step = "purged"]
    /\ UNCHANGED <<pool, rows, create, imp>>

\* Mutant: the admin's removal leaves the pool row.
DropKeepsPool(d) ==
    /\ del[d].step = IF del[d].kind = "terminate" THEN "purged" ELSE "fetched"
    /\ pool' = IF del[d].kind = "terminate" THEN [pool EXCEPT ![del[d].vmid] = Free] ELSE pool
    /\ rows' = [rows EXCEPT ![del[d].res] = NoRow]
    /\ del' = [del EXCEPT ![d] = NoDeletion("done")]
    /\ UNCHANGED <<pve, create, imp>>

\* The final commit: the pool row of the VMID, whoever's it is, and the row
Drop(d) ==
    /\ del[d].step = IF del[d].kind = "terminate" THEN "purged" ELSE "fetched"
    /\ pool' = [pool EXCEPT ![del[d].vmid] = Free]
    /\ rows' = [rows EXCEPT ![del[d].res] = NoRow]
    /\ del' = [del EXCEPT ![d] = NoDeletion("done")]
    /\ UNCHANGED <<pve, create, imp>>

SetProtection(x, enabled) ==
    /\ x \in Protectable
    /\ RowExists(x)
    /\ rows[x].status # "destroyed"
    /\ rows[x].protected # enabled
    /\ rows' = [rows EXCEPT ![x].protected = enabled]
    /\ UNCHANGED <<pool, pve, create, del, imp>>

-----------------------------------------------------------------------------
(* POST /admin/resources/import *)

CheckImport(i, v) ==
    /\ imp[i].step = "idle"
    /\ RowsAt(v) = {}
    /\ imp' = [imp EXCEPT ![i] = [step |-> "checked", vmid |-> v]]
    /\ UNCHANGED <<pool, rows, pve, create, del>>

\* The instance is looked up on the cluster, then row and reservation are
\* committed together.  The reservation is built before the row has its id,
\* so its resource_id is NULL.
CommitImport(i) ==
    LET v == imp[i].vmid IN
    /\ imp[i].step = "checked"
    /\ pve[v] # NoInstance
    /\ pool[v] = Free
    /\ RowsAt(v) = {}
    /\ \E row \in [vmid : {v}, type : Types, status : {"running"},
                   protected : {FALSE}, inst : {pve[v]}] :
         rows' = [rows EXCEPT ![i] = row]
    /\ pool' = [pool EXCEPT ![v] = Unlinked]
    /\ imp' = [imp EXCEPT ![i].step = "done"]
    /\ UNCHANGED <<pve, create, del>>

\* Nothing under that VMID, or either unique key refuses the whole commit
ImportRefused(i) ==
    LET v == imp[i].vmid IN
    /\ imp[i].step = "checked"
    /\ pve[v] = NoInstance \/ pool[v] # Free \/ RowsAt(v) # {}
    /\ imp' = [imp EXCEPT ![i].step = "failed"]
    /\ UNCHANGED <<pool, rows, pve, create, del>>

-----------------------------------------------------------------------------
(* The API process dies: every request in it is lost, every commit stays.  *)

Creating(r) == create[r].step \in {"admitted", "pool_seen", "rows_seen", "picked",
                                   "reserved", "cloned", "releasing", "recorded"}

ApiCrash ==
    /\ "api_crash" \in Faults
    /\ \/ \E r \in Creates : Creating(r)
       \/ \E d \in Deletes : Deleting(d)
       \/ \E i \in Imports : imp[i].step = "checked"
    /\ create' = [r \in Creates |->
                    IF Creating(r) THEN [create[r] EXCEPT !.step = "lost"] ELSE create[r]]
    /\ del' = [d \in Deletes |->
                    IF Deleting(d) THEN NoDeletion("lost") ELSE del[d]]
    /\ imp' = [i \in Imports |->
                    IF imp[i].step = "checked" THEN [imp[i] EXCEPT !.step = "lost"] ELSE imp[i]]
    /\ UNCHANGED <<pool, rows, pve>>

-----------------------------------------------------------------------------
CreateStep(r) ==
    \/ Admit(r) \/ SeePool(r) \/ SeeRows(r) \/ Pick(r) \/ Reserve(r) \/ Clone(r)
    \/ Release(r) \/ Record(r) \/ RecordRefused(r) \/ Finish(r) \/ FailLate(r) \/ CloneAborts(r)

DeleteStep(d) ==
    \/ \E x \in ResIds, kind \in {"terminate", "unlink"} : Fetch(d, x, kind)
    \/ Purge(d) \/ Drop(d)

ImportStep(i) == (\E v \in Vmids : CheckImport(i, v)) \/ CommitImport(i) \/ ImportRefused(i)

Next ==
    \/ \E r \in Creates : CreateStep(r)
    \/ \E d \in Deletes : DeleteStep(d)
    \/ \E i \in Imports : ImportStep(i)
    \/ \E x \in ResIds, enabled \in BOOLEAN : SetProtection(x, enabled)
    \/ ApiCrash

Spec == Init /\ [][Next]_vars

-----------------------------------------------------------------------------
(* Properties *)

\* A request that holds a reservation: from its commit to the row or the release
InFlight(r) == create[r].step \in {"reserved", "cloned", "releasing"}

(***************************************************************************)
(* A reservation protects its VMID for as long as the request that took it *)
(* is under way (compute.py, create_vm between its first commit and the    *)
(* row or the release): the pool row stays, no other request works on the  *)
(* VMID, no resource row claims it, and what the request has cloned is the *)
(* only thing that can live there.                                         *)
(***************************************************************************)
ReservationHeld ==
    \A r \in Creates : InFlight(r) =>
        /\ pool[create[r].vmid] = Unlinked
        /\ RowsAt(create[r].vmid) = {}
        /\ \A q \in Creates \ {r} : InFlight(q) => create[q].vmid # create[r].vmid
        /\ create[r].step = "cloned" => pve[create[r].vmid] \in {r, NoInstance}

(***************************************************************************)
(* The instance a resource row leads to, by its VMID, is the one the row   *)
(* was inserted for, or has gone: an owner never reaches, and never stops  *)
(* or destroys, an instance of someone else through a reused VMID.         *)
(***************************************************************************)
OwnInstance ==
    \A x \in ResIds : RowExists(x) => pve[rows[x].vmid] \in {rows[x].inst, NoInstance}

(***************************************************************************)
(* The same for the copy of the row a deletion holds across its awaits,    *)
(* between _get_user_resource and the call that destroys by VMID.          *)
(***************************************************************************)
PurgeTargetsOwn ==
    \A d \in Deletes : del[d].step = "fetched" => pve[del[d].vmid] \in {del[d].inst, NoInstance}

(***************************************************************************)
(* vmid_pool "tracks allocated VMIDs to prevent collisions": every VMID a  *)
(* resource row holds has its pool row, linked to that resource (an import *)
(* leaves the link NULL), and no two resources hold one VMID.              *)
(***************************************************************************)
PoolCoversRows ==
    \A x \in ResIds : RowExists(x) =>
        /\ pool[rows[x].vmid] = IF x \in Creates THEN x ELSE Unlinked
        /\ RowsAt(rows[x].vmid) = {x}

(***************************************************************************)
(* A pool row that is linked is linked to a row that exists and holds the  *)
(* VMID: no path, of any failure or overlap, deletes a resource and leaves *)
(* a reference to it, which the foreign key would refuse.                  *)
(***************************************************************************)
LinkedRows ==
    \A v \in Vmids : pool[v] \in ResIds => RowExists(pool[v]) /\ rows[pool[v]].vmid = v

(***************************************************************************)
(* VMIDs do not leak: an unlinked pool row belongs to a request that will  *)
(* still link or release it or to an imported resource, or it is left by a *)
(* crash of the process or by a create whose row was refused.              *)
(***************************************************************************)
ReservationAccounted ==
    \A v \in Vmids : pool[v] = Unlinked =>
        \/ \E r \in Creates : /\ create[r].vmid = v
                              /\ InFlight(r) \/ create[r].step \in {"lost", "conflict"}
        \/ \E i \in Imports : RowExists(i) /\ rows[i].vmid = v

(***************************************************************************)
(* "Default quota is 5 VMs; create 5, then fail on 6th": what a user owns  *)
(* of a type through the create endpoints never exceeds the quota.         *)
(***************************************************************************)
QuotaRespected ==
    \A u \in Users, type \in Types : Cardinality(Counted(u, type)) <= Quota[type]

(***************************************************************************)
(* Provisioning implements VmidLease: a VMID is leased from the commit of  *)
(* its reservation to the release or to the deletion of the row, with no   *)
(* gap and no second holder in between, and a VMID that a crash orphaned   *)
(* is retired for good.                                                    *)
(***************************************************************************)
Leased == [v \in Vmids |->
             {r \in Creates : InFlight(r) /\ create[r].vmid = v} \union RowsAt(v)]
Retired == {v \in Vmids : pool[v] = Unlinked /\ Leased[v] = {}}

Lease == INSTANCE VmidLease WITH Holders <- ResIds, lease <- Leased, retired <- Retired

ImplementsLease == Lease!Spec
=============================================================================
