------------------------------ MODULE Volumes ------------------------------
(***************************************************************************)
(* Extra disks of VMs (routers/volumes.py) and what the deletion of a VM   *)
(* does to them (_terminate_vm of routers/compute.py).                     *)
(*                                                                         *)
(* Every request first reads its rows, then changes Proxmox without        *)
(* awaiting anything, then commits.  Other requests run before the Proxmox *)
(* calls and before the commit.  The commit writes only the columns that   *)
(* differ from what the request read.                                      *)
(*                                                                         *)
(* A VM is its resource row and its guest on Proxmox; its VMID is not used *)
(* again here.  A volume stands for its row and for the image its volid    *)
(* names, whose owner for Proxmox is the VM it was created on.             *)
(***************************************************************************)
EXTENDS Integers

CONSTANTS
    Vols, Vms, Procs,
    MaxSlot,      \* scsi1 .. scsi13
    MaxSize,      \* bound of the model: largest size a request asks for
    NewSizes,     \* bound of the model: sizes a create asks for
    NoVm, NoVol,
    Faults

Slots == 1 .. MaxSlot
NoSlot == 0

(***************************************************************************)
(* same_volume: two requests for one volume are under way together.        *)
(* plug_during_terminate: a disk is plugged into a VM whose deletion is    *)
(* under way.                                                              *)
(* frees: the storage frees an image that some VM still has plugged in.    *)
(* lost: the API dies, or the answer of Proxmox or the commit is lost.     *)
(***************************************************************************)
FaultKinds == {"same_volume", "plug_during_terminate", "frees", "lost"}

ASSUME VolumeConstants ==
    /\ MaxSlot \in Nat /\ MaxSize \in Nat /\ NewSizes \subseteq 1 .. MaxSize
    /\ NoVm \notin Vms /\ NoVol \notin Vols
    /\ Faults \subseteq FaultKinds

VARIABLES
    row,        \* the volumes table
    resources,  \* the VMs that have a row
    guests,     \* the VMs that exist on Proxmox
    plugged,    \* their scsi slots
    unused,     \* their unusedN entries
    image,      \* the images on the storage
    req         \* the request each process serves

cluster == <<guests, plugged, unused, image>>
vars == <<row, resources, guests, plugged, unused, image, req>>

\* proxmox_node is NULL exactly when proxmox_owner_vmid is
Row == [status : {"absent", "available", "attached"}, vm : Vms \union {NoVm},
        slot : Slots \union {NoSlot}, owner : Vms \union {NoVm}, size : 0 .. MaxSize]
Absent == [status |-> "absent", vm |-> NoVm, slot |-> NoSlot, owner |-> NoVm, size |-> 0]

Image == [origin : Vms \union {NoVm}, size : Nat]
NoImage == [origin |-> NoVm, size |-> 0]

\* copy: the row as it was read.  new: the row the request wants.  orphans:
\* the rows a deletion of a VM found parked there, later those it clears.
Request == [op : {"none", "create", "detach", "attach", "delete", "resize", "terminate"},
            step : {"idle", "read", "checked", "selected", "done"},
            vol : Vols \union {NoVol}, vm : Vms \union {NoVm},
            copy : Row, new : Row, orphans : SUBSET Vols]
Idle == [op |-> "none", step |-> "idle", vol |-> NoVol, vm |-> NoVm,
         copy |-> Absent, new |-> Absent, orphans |-> {}]

\* A row is attached exactly when it names a VM and a slot.
VolumesTypeOK ==
    /\ row \in [Vols -> Row]
    /\ \A d \in Vols : /\ row[d].status = "attached" <=> row[d].vm # NoVm
                       /\ row[d].status = "attached" <=> row[d].slot # NoSlot
    /\ resources \subseteq Vms /\ guests \subseteq Vms
    /\ plugged \in [Vms -> [Slots -> Vols \union {NoVol}]]
    /\ unused \in [Vms -> SUBSET Vols]
    /\ image \in [Vols -> Image]
    /\ req \in [Procs -> Request]

Init ==
    /\ row = [d \in Vols |-> Absent]
    /\ resources = Vms /\ guests = Vms
    /\ plugged = [v \in Vms |-> [s \in Slots |-> NoVol]]
    /\ unused = [v \in Vms |-> {}]
    /\ image = [d \in Vols |-> NoImage]
    /\ req = [p \in Procs |-> Idle]

-----------------------------------------------------------------------------
(* The rows a request reads *)

InFlight(d) == \E p \in Procs : req[p].step # "idle" /\ req[p].vol = d
MayServe(d) == "same_volume" \in Faults \/ ~InFlight(d)

\* Some request works on the VM.
Terminating(v) == \E p \in Procs : req[p].op = "terminate" /\ req[p].vm = v
Plugging(v) == \E p \in Procs : req[p].op \in {"create", "attach"} /\ req[p].vm = v

MayPlugInto(v) ==
    /\ v \in resources
    /\ "plug_during_terminate" \in Faults \/ ~Terminating(v)

PluggedIn(d) == {v \in Vms : \E s \in Slots : plugged[v][s] = d}

\* A name that neither the table nor the cluster knows any more
Fresh(d) ==
    /\ row[d] = Absent /\ image[d] = NoImage
    /\ PluggedIn(d) = {} /\ \A v \in Vms : d \notin unused[v]
    /\ ~InFlight(d)

Start(p, r) ==
    /\ req[p] = Idle
    /\ req' = [req EXCEPT ![p] = r]
    /\ UNCHANGED <<row, resources, cluster>>

\* new.size is the size asked for
ReadForCreate(p, d, v, size) ==
    /\ Fresh(d) /\ MayPlugInto(v)
    /\ Start(p, [Idle EXCEPT !.op = "create", !.step = "read", !.vol = d, !.vm = v,
                             !.new = [Absent EXCEPT !.size = size]])

ReadForDetach(p, d) ==
    /\ MayServe(d)
    /\ row[d].status = "attached"
    /\ Start(p, [Idle EXCEPT !.op = "detach", !.step = "read", !.vol = d, !.vm = row[d].vm,
                             !.copy = row[d], !.new = row[d]])

\* Mutant: the status of the volume is not looked at.
ReadForAttachAnyStatus(p, d, v) ==
    /\ MayServe(d)
    /\ row[d].owner # NoVm
    /\ MayPlugInto(v)
    /\ Start(p, [Idle EXCEPT !.op = "attach", !.step = "read", !.vol = d, !.vm = v,
                             !.copy = row[d], !.new = row[d]])

ReadForAttach(p, d, v) ==
    /\ MayServe(d)
    /\ row[d].status = "available" /\ row[d].owner # NoVm
    /\ MayPlugInto(v)
    /\ Start(p, [Idle EXCEPT !.op = "attach", !.step = "read", !.vol = d, !.vm = v,
                             !.copy = row[d], !.new = row[d]])

ReadForDelete(p, d) ==
    /\ MayServe(d)
    /\ row[d].status = "available"
    /\ Start(p, [Idle EXCEPT !.op = "delete", !.step = "read", !.vol = d, !.copy = row[d]])

ReadForResize(p, d, size) ==
    /\ MayServe(d)
    /\ row[d].status = "attached" /\ size > row[d].size
    /\ Start(p, [Idle EXCEPT !.op = "resize", !.step = "read", !.vol = d, !.vm = row[d].vm,
                             !.copy = row[d], !.new = [row[d] EXCEPT !.size = size]])

-----------------------------------------------------------------------------
(* The Proxmox calls *)

Ready(p, op) == req[p].op = op /\ req[p].step = "read"

\* Mutant: the slots in use are not looked at.
AnySlot(v) == Slots

FreeSlots(v) == {s \in Slots : plugged[v][s] = NoVol}
NextSlot(v) == CHOOSE s \in FreeSlots(v) : \A t \in FreeSlots(v) : s <= t

HasFreeSlot(v) == v \in guests /\ FreeSlots(v) # {}

Plug(d, v) == plugged' = [plugged EXCEPT ![v][NextSlot(v)] = d]

\* Mutant: the reference to the VM is forgotten.
AttachedRowNoVm(r, v) ==
    [r EXCEPT !.status = "attached", !.slot = NextSlot(v), !.owner = v]

AttachedRow(r, v) ==
    [r EXCEPT !.status = "attached", !.vm = v, !.slot = NextSlot(v), !.owner = v]

CreateDisk(p) ==
    LET d == req[p].vol  v == req[p].vm IN
    /\ Ready(p, "create")
    /\ HasFreeSlot(v)
    /\ Plug(d, v)
    /\ image' = [image EXCEPT ![d] = [origin |-> v, size |-> req[p].new.size]]
    /\ req' = [req EXCEPT ![p].step = "done", ![p].new = AttachedRow(req[p].new, v)]
    /\ UNCHANGED <<row, resources, guests, unused>>

\* Proxmox parks the disk as unused only with the VM that owns the image, and
\* does not mind an empty slot.
Unplug(p) ==
    LET v == req[p].vm
        d == plugged[v][req[p].copy.slot]
        parked == IF d # NoVol /\ image[d].origin = v THEN {d} ELSE {}
    IN
    /\ Ready(p, "detach")
    /\ v \in guests
    /\ plugged' = [plugged EXCEPT ![v][req[p].copy.slot] = NoVol]
    /\ unused' = [unused EXCEPT ![v] = @ \union parked]
    /\ req' = [req EXCEPT ![p].step = "done",
                          ![p].new = [req[p].copy EXCEPT !.status = "available", !.vm = NoVm,
                                                         !.slot = NoSlot]]
    /\ UNCHANGED <<row, resources, guests, image>>

\* To delete an unused entry of the owner of the image is to free the image;
\* the entry stays when the storage refuses, as it should while the disk is
\* plugged in elsewhere.
DropUnused(d, v) ==
    LET entry == v \in guests /\ d \in unused[v] IN
    \E freed \in IF entry /\ "frees" \in Faults THEN BOOLEAN ELSE {FALSE} :
        /\ unused' = IF freed THEN [unused EXCEPT ![v] = @ \ {d}] ELSE unused
        /\ image' = IF freed THEN [image EXCEPT ![d] = NoImage] ELSE image

\* Back into the VM the disk is parked with, or into another one
PlugAgain(p) ==
    LET d == req[p].vol  v == req[p].vm  source == req[p].copy.owner IN
    /\ Ready(p, "attach")
    /\ HasFreeSlot(v)
    /\ image[d] # NoImage
    /\ Plug(d, v)
    /\ \/ /\ v = source
          /\ unused' = [unused EXCEPT ![v] = @ \ {d}]
          /\ UNCHANGED image
       \/ v # source /\ DropUnused(d, source)
    /\ req' = [req EXCEPT ![p].step = "done", ![p].new = AttachedRow(req[p].copy, v)]
    /\ UNCHANGED <<row, resources, guests>>

\* Every call is best effort, and none is made without an owner.
EraseDisk(p) ==
    LET d == req[p].vol  v == req[p].copy.owner IN
    /\ Ready(p, "delete")
    /\ \/ /\ v # NoVm /\ image[d] # NoImage
          /\ "frees" \in Faults \/ PluggedIn(d) = {}
          /\ image' = [image EXCEPT ![d] = NoImage]
          /\ unused' = IF v \in guests THEN [unused EXCEPT ![v] = @ \ {d}] ELSE unused
       \/ UNCHANGED <<image, unused>>
    /\ req' = [req EXCEPT ![p].step = "done"]
    /\ UNCHANGED <<row, resources, guests, plugged>>

\* Mutant: an error of the resize call is swallowed.
GrowDiskSwallows(p) ==
    LET d == plugged[req[p].vm][req[p].copy.slot]
        growBy == req[p].new.size - req[p].copy.size
    IN
    /\ Ready(p, "resize")
    /\ \/ req[p].vm \in guests /\ d # NoVol /\ image' = [image EXCEPT ![d].size = @ + growBy]
       \/ UNCHANGED image
    /\ req' = [req EXCEPT ![p].step = "done"]
    /\ UNCHANGED <<row, resources, guests, plugged, unused>>

\* Whatever disk is in the slot grows by the difference.
GrowDisk(p) ==
    LET d == plugged[req[p].vm][req[p].copy.slot]
        growBy == req[p].new.size - req[p].copy.size
    IN
    /\ Ready(p, "resize")
    /\ req[p].vm \in guests /\ d # NoVol
    /\ image' = [image EXCEPT ![d].size = @ + growBy]
    /\ req' = [req EXCEPT ![p].step = "done"]
    /\ UNCHANGED <<row, resources, guests, plugged, unused>>

\* A call raises: no guest, no free slot, or Proxmox refuses.  When a request
\* ends later than that, what Proxmox did stays done.
EndsEarly(p) ==
    /\ \/ req[p].step = "read" /\ req[p].op # "delete"
       \/ "lost" \in Faults /\ req[p].step # "idle"
    /\ req' = [req EXCEPT ![p] = Idle]
    /\ UNCHANGED <<row, resources, cluster>>

-----------------------------------------------------------------------------
(* _terminate_vm *)

\* Mutant: attached volumes do not stop the deletion.
CheckAttachedNever(p, v) ==
    /\ v \in resources
    /\ "plug_during_terminate" \in Faults \/ ~Plugging(v)
    /\ Start(p, [Idle EXCEPT !.op = "terminate", !.step = "checked", !.vm = v])

CheckAttached(p, v) ==
    /\ v \in resources
    /\ \A d \in Vols : ~(row[d].status = "attached" /\ row[d].vm = v)
    /\ "plug_during_terminate" \in Faults \/ ~Plugging(v)
    /\ Start(p, [Idle EXCEPT !.op = "terminate", !.step = "checked", !.vm = v])

SelectOrphans(p) ==
    LET parked == {d \in Vols : row[d].status = "available" /\ row[d].owner = req[p].vm} IN
    /\ req[p].step = "checked"
    /\ req' = [req EXCEPT ![p].step = "selected", ![p].orphans = parked]
    /\ UNCHANGED <<row, resources, cluster>>

\* Rows of which an UPDATE has been sent
Locked(d) == \E p \in Procs : req[p].op = "terminate" /\ req[p].step = "done" /\ d \in req[p].orphans

\* The guest's own images go with it, parked ones as well.
FreedWith(v) ==
    {d \in Vols : /\ image[d].origin = v
                  /\ v \in PluggedIn(d) \/ d \in unused[v]
                  /\ "frees" \in Faults \/ PluggedIn(d) \subseteq {v}}

\* The owner references are cleared unless the configuration cannot be read.
\* An error of the destroy call is swallowed.
DestroyGuest(p) ==
    LET v == req[p].vm IN
    /\ req[p].step = "selected"
    /\ \E cleared \in {{}, IF v \in guests THEN req[p].orphans ELSE {}} :
         /\ \A d \in cleared : row[d] # Absent /\ ~Locked(d)
         /\ req' = [req EXCEPT ![p].step = "done", ![p].orphans = cleared]
    /\ \/ /\ v \in guests
          /\ guests' = guests \ {v}
          /\ image' = [d \in Vols |-> IF d \in FreedWith(v) THEN NoImage ELSE image[d]]
          /\ plugged' = [plugged EXCEPT ![v] = [s \in Slots |-> NoVol]]
          /\ unused' = [unused EXCEPT ![v] = {}]
       \/ UNCHANGED cluster
    /\ UNCHANGED <<row, resources>>

\* The flush of the cleared references finds a row gone.
FlushFails(p) ==
    /\ req[p].step = "selected"
    /\ \E d \in req[p].orphans : row[d] = Absent
    /\ req' = [req EXCEPT ![p] = Idle]
    /\ UNCHANGED <<row, resources, cluster>>

\* A volume that refers to the resource keeps it from being deleted.
CommitTerminate(p) ==
    LET v == req[p].vm  referred == \E d \in Vols : row[d].vm = v IN
    /\ req[p].op = "terminate" /\ req[p].step = "done"
    /\ \/ /\ ~referred
          /\ resources' = resources \ {v}
          /\ row' = [d \in Vols |-> IF d \in req[p].orphans
                                    THEN [row[d] EXCEPT !.owner = NoVm] ELSE row[d]]
       \/ referred /\ UNCHANGED <<row, resources>>
    /\ req' = [req EXCEPT ![p] = Idle]
    /\ UNCHANGED <<cluster>>

-----------------------------------------------------------------------------
(* The commit of the other requests *)

\* UPDATE with the columns that the request changed
Merged(old, copy, new) == [f \in DOMAIN old |-> IF new[f] # copy[f] THEN new[f] ELSE old[f]]

Result(r) ==
    IF r.op = "delete" THEN Absent ELSE Merged(row[r.vol], r.copy, r.new)

\* An UPDATE needs its row, a reference its resource.
Lands(r) ==
    /\ r.op \in {"create", "delete"} \/ row[r.vol] # Absent
    /\ Result(r).vm \in resources \union {NoVm}

Commit(p) ==
    LET r == req[p] IN
    /\ r.step = "done" /\ r.op # "terminate"
    /\ ~Locked(r.vol)
    /\ row' = IF Lands(r) THEN [row EXCEPT ![r.vol] = Result(r)] ELSE row
    /\ req' = [req EXCEPT ![p] = Idle]
    /\ UNCHANGED <<resources, cluster>>

Reads(p) ==
    \E d \in Vols :
      \/ ReadForDetach(p, d) \/ ReadForDelete(p, d)
      \/ \E v \in Vms : ReadForAttach(p, d, v)
      \/ \E size \in 1 .. MaxSize : ReadForResize(p, d, size)
      \/ \E v \in Vms, size \in NewSizes : ReadForCreate(p, d, v, size)

Terminates(p) ==
    \/ \E v \in Vms : CheckAttached(p, v)
    \/ SelectOrphans(p) \/ DestroyGuest(p) \/ FlushFails(p) \/ CommitTerminate(p)

Next ==
    \E p \in Procs :
      \/ Reads(p)
      \/ CreateDisk(p) \/ Unplug(p) \/ PlugAgain(p) \/ EraseDisk(p) \/ GrowDisk(p)
      \/ EndsEarly(p)
      \/ Terminates(p)
      \/ Commit(p)

Spec == Init /\ [][Next]_vars

-----------------------------------------------------------------------------
(* Properties *)

\* No request for the volume is between its Proxmox calls and its commit.
Settled(d) == \A p \in Procs : ~(req[p].vol = d /\ req[p].step = "done")

(***************************************************************************)
(* What detach and resize rely on when they go by the slot of the row: the *)
(* slot of an attached volume holds this volume's disk, although other     *)
(* requests take and release slots of the same VM between the Proxmox      *)
(* calls and the commit.                                                   *)
(***************************************************************************)
AttachedIsPlugged ==
    \A d \in Vols : row[d].status = "attached" /\ Settled(d) =>
        row[d].vm \in guests /\ plugged[row[d].vm][row[d].slot] = d

(***************************************************************************)
(* Two VMs never write to one disk: a disk is in at most one slot of one   *)
(* VM, however the attach and detach requests of several volumes and the   *)
(* deletions of VMs interleave.                                            *)
(***************************************************************************)
OneSlotPerDisk ==
    \A d \in Vols, u, v \in Vms, s, t \in Slots :
        plugged[u][s] = d /\ plugged[v][t] = d => u = v /\ s = t

(***************************************************************************)
(* A user gets the size the table shows: the image of an attached volume   *)
(* is at least as large as its row says, although resize grows whatever is *)
(* in the slot by a difference.                                            *)
(***************************************************************************)
SizeCovered ==
    \A d \in Vols : row[d].status = "attached" /\ Settled(d) =>
        image[d].size >= row[d].size

(***************************************************************************)
(* "Safe to delete unused because the disk is now actively referenced by   *)
(* the target VM", and _terminate_vm refuses a VM with attached volumes:   *)
(* the image of an attached volume exists, also after the VM it was        *)
(* created on has been deleted.                                            *)
(***************************************************************************)
AttachedImageExists ==
    \A d \in Vols : row[d].status = "attached" /\ Settled(d) => image[d] # NoImage

(***************************************************************************)
(* "If removal fails, block deletion to protect user data": the image of a *)
(* volume that is listed as available exists.                              *)
(***************************************************************************)
DetachedImageExists ==
    \A d \in Vols : row[d].status = "available" /\ Settled(d) => image[d] # NoImage
=============================================================================
