--------------------------- MODULE VolumesProofs ---------------------------
(***************************************************************************)
(* Disks, rows and requests, for any volumes, VMs, slots, sizes and        *)
(* processes.                                                              *)
(***************************************************************************)
EXTENDS Volumes, WellFoundedInduction, TLAPS

\* No two requests for one volume, no disk plugged into a VM under deletion,
\* no request lost half way.
Orderly == Faults \subseteq {"frees"}

-----------------------------------------------------------------------------
(* The inductive invariant *)

Plugs == {"create", "attach"}
Serves == Plugs \union {"detach", "delete", "resize"}

\* What a request knows of itself.
RequestsKnown == \A p \in Procs :
    /\ req[p].op = "none" => req[p].step = "idle" /\ req[p].vol = NoVol
    /\ req[p].op \in Serves => req[p].step \in {"read", "done"} /\ req[p].vol \in Vols
    /\ req[p].op \in Plugs => req[p].vm \in Vms
    /\ req[p].op = "terminate" => /\ req[p].step \in {"checked", "selected", "done"}
                                  /\ req[p].vol = NoVol /\ req[p].vm \in Vms

OnePerVolume == \A p, q \in Procs :
    req[p].vol = req[q].vol /\ req[p].vol \in Vols => p = q

\* All but the owner, which the deletion of a VM may clear at any time
SameVolume(r, s) ==
    r.status = s.status /\ r.vm = s.vm /\ r.slot = s.slot /\ r.size = s.size

\* Nobody else has changed the row that a request has read.
CopiesHold == \A p \in Procs :
    /\ req[p].op \in Serves => SameVolume(row[req[p].vol], req[p].copy)
    /\ req[p].op = "create" => req[p].copy = Absent
    /\ req[p].op \in {"attach", "delete"} => req[p].copy.status = "available"
    /\ req[p].op \in {"detach", "resize"} =>
         req[p].copy.status = "attached" /\ req[p].vm = req[p].copy.vm

\* The row a request is about to commit.
NewsHold == \A p \in Procs :
    /\ req[p].op \in Plugs /\ req[p].step = "done" =>
         /\ req[p].new.status = "attached" /\ req[p].new.vm = req[p].vm
         /\ req[p].new.slot \in Slots
    /\ req[p].op = "detach" /\ req[p].step = "done" =>
         req[p].new.status = "available" /\ req[p].new.vm = NoVm /\ req[p].new.slot = NoSlot
    /\ req[p].op = "resize" =>
         /\ req[p].new.status = "attached" /\ req[p].new.vm = req[p].vm
         /\ req[p].new.slot = req[p].copy.slot /\ req[p].new.size > req[p].copy.size
    /\ req[p].op \in {"attach", "detach"} => req[p].new.size = req[p].copy.size

\* A VM whose deletion is under way has no volume and gets none.
DeletionsClean == \A p \in Procs : req[p].op = "terminate" =>
    /\ \A d \in Vols : row[d].vm # req[p].vm
    /\ \A q \in Procs : req[q].op \in Plugs => req[q].vm # req[p].vm

\* Nothing refers to a resource that is gone.
ResourcesThere ==
    /\ \A d \in Vols : row[d].vm \in resources \union {NoVm}
    /\ \A p \in Procs : req[p].op \in Plugs => req[p].vm \in resources

\* A disk is where its row or the request that has just plugged it in says.
PluggingAt(d, v, s) == \E p \in Procs :
    /\ req[p].op \in Plugs /\ req[p].step = "done" /\ req[p].vol = d
    /\ req[p].new.vm = v /\ req[p].new.slot = s
Unplugged(d) == \E p \in Procs : req[p].op = "detach" /\ req[p].step = "done" /\ req[p].vol = d
RowAt(d, v, s) ==
    row[d].status = "attached" /\ row[d].vm = v /\ row[d].slot = s /\ ~Unplugged(d)

Placed == \A d \in Vols, v \in Vms, s \in Slots :
    plugged[v][s] = d <=> PluggingAt(d, v, s) \/ RowAt(d, v, s)

Hosted == \A v \in Vms, s \in Slots : plugged[v][s] # NoVol => v \in guests

PlaceInv ==
    /\ VolumesTypeOK /\ RequestsKnown /\ OnePerVolume /\ CopiesHold /\ NewsHold
    /\ DeletionsClean /\ ResourcesThere /\ Placed /\ Hosted

\* What a disk in a slot has, and what rows and requests say of its size.
PluggedKept == \A d \in Vols, v \in Vms, s \in Slots : plugged[v][s] = d => image[d] # NoImage
OriginsKnown == \A d \in Vols : image[d] # NoImage => image[d].origin # NoVm
SizesKept ==
    /\ \A d \in Vols : image[d] # NoImage => image[d].size >= row[d].size
    /\ \A p \in Procs : req[p].op \in {"create", "resize"} /\ req[p].step = "done" =>
                          image[req[p].vol].size >= req[p].new.size

Images == PluggedKept /\ OriginsKnown /\ SizesKept
-----------------------------------------------------------------------------
(* Slots, rows and requests *)

LEMMA LeastSlot ==
  ASSUME NEW S \in SUBSET Slots, S # {}
  PROVE  \E s \in S : \A t \in S : s <= t
<1>. DEFINE below == {p \in Nat \X Nat : p[1] < p[2]}
<1>1. S \subseteq Nat
  BY VolumeConstants DEF Slots
<1>2. IsWellFoundedOn(below, Nat)
  BY NatLessThanWellFounded DEF OpToRel
<1>3. PICK s \in S : \A t \in S : ~(<<t, s>> \in below)
  <2>. HIDE DEF below
  <2>. QED
    BY <1>1, <1>2, WFMin
<1>4. \A t \in S : t \in Nat /\ s \in Nat /\ ~(t < s)
  BY <1>1, <1>3
<1>. QED
  BY <1>4

LEMMA NextSlotIsFree ==
  ASSUME NEW v, HasFreeSlot(v)
  PROVE  NextSlot(v) \in Slots /\ plugged[v][NextSlot(v)] = NoVol
BY LeastSlot DEF HasFreeSlot, NextSlot, FreeSlots

LEMMA NullsTyped ==
  /\ Absent \in Row /\ Idle \in Request
  /\ Absent.status = "absent" /\ Absent.vm = NoVm /\ Absent.slot = NoSlot /\ Absent.size = 0
  /\ Idle.op = "none" /\ Idle.step = "idle" /\ Idle.vol = NoVol
  /\ NoSlot \notin Slots /\ NoVm \notin Vms /\ NoVol \notin Vols
BY VolumeConstants DEF Absent, Row, Idle, Request, NoSlot, Slots

\* The UPDATE of a commit
LEMMA MergedFields ==
  ASSUME NEW old \in Row, NEW copy \in Row, NEW new \in Row
  PROVE  LET merged == Merged(old, copy, new) IN
         /\ merged \in Row
         /\ merged.status = IF new.status # copy.status THEN new.status ELSE old.status
         /\ merged.vm = IF new.vm # copy.vm THEN new.vm ELSE old.vm
         /\ merged.slot = IF new.slot # copy.slot THEN new.slot ELSE old.slot
         /\ merged.size = IF new.size # copy.size THEN new.size ELSE old.size
BY DEF Merged, Row

\* The Proxmox calls of a request leave it as it is but for two fields.
LEMMA CallFields ==
  ASSUME req \in [Procs -> Request], NEW p \in Procs, NEW new \in Row,
         NEW step \in {"read", "selected", "done"},
         \/ req' = [req EXCEPT ![p].step = step, ![p].new = new]
         \/ req' = [req EXCEPT ![p].step = step] /\ new = req[p].new
  PROVE  /\ req' \in [Procs -> Request]
         /\ \A q \in Procs : /\ req'[q].op = req[q].op /\ req'[q].vol = req[q].vol
                             /\ req'[q].vm = req[q].vm /\ req'[q].copy = req[q].copy
                             /\ q # p => req'[q] = req[q]
         /\ req'[p].step = step /\ req'[p].new = new
BY DEF Request

\* The part of the invariant that speaks of requests and rows only.
Table ==
    /\ row \in [Vols -> Row]
    /\ \A d \in Vols : /\ row[d].status = "attached" <=> row[d].vm # NoVm
                       /\ row[d].status = "attached" <=> row[d].slot # NoSlot
    /\ resources \subseteq Vms
Requests ==
    /\ req \in [Procs -> Request]
    /\ RequestsKnown /\ OnePerVolume /\ CopiesHold /\ NewsHold
Disks ==
    /\ guests \subseteq Vms
    /\ plugged \in [Vms -> [Slots -> Vols \union {NoVol}]]
    /\ unused \in [Vms -> SUBSET Vols]
    /\ image \in [Vols -> Image]

LEMMA Parts ==
  /\ PlaceInv <=> /\ Table /\ Requests /\ Disks
                  /\ DeletionsClean /\ ResourcesThere /\ Placed /\ Hosted
  /\ PlaceInv' <=> /\ Table' /\ Requests' /\ Disks'
                   /\ DeletionsClean' /\ ResourcesThere' /\ Placed' /\ Hosted'
BY DEF PlaceInv, VolumesTypeOK, Table, Requests, Disks

LEMMA PlaceStarts == Init => PlaceInv
<1>. SUFFICES ASSUME Init PROVE PlaceInv
  OBVIOUS
<1>1. Table /\ Disks
  BY NullsTyped, VolumeConstants DEF Init, Table, Disks, Image, NoImage
<1>2. \A p \in Procs : req[p] = Idle
  BY DEF Init
<1>3. Requests
  BY <1>2, NullsTyped DEF Init, Requests, RequestsKnown, OnePerVolume, CopiesHold, NewsHold, Serves,
                          Plugs
<1>4. DeletionsClean /\ ResourcesThere
  BY <1>2, NullsTyped DEF Init, DeletionsClean, ResourcesThere, Plugs
<1>5. Placed /\ Hosted
  BY <1>2, NullsTyped DEF Init, Placed, Hosted, PluggingAt, RowAt, Plugs
<1>. QED
  BY <1>1, <1>3, <1>4, <1>5, Parts

-----------------------------------------------------------------------------
(* Reading the rows *)

\* Disks stay where they are when no request comes to, or leaves, its commit.
LEMMA PlacesStay ==
  ASSUME Placed, UNCHANGED <<row, plugged>>, NEW p \in Procs,
         \A q \in Procs : q # p => req'[q] = req[q],
         req[p].op \in {"create", "attach", "detach"} => req[p].step # "done",
         req'[p].op \in {"create", "attach", "detach"} => req'[p].step # "done"
  PROVE  Placed'
<1>1. \A d, v, s : PluggingAt(d, v, s)' <=> PluggingAt(d, v, s)
  BY DEF PluggingAt, Plugs
<1>2. \A d : Unplugged(d)' <=> Unplugged(d)
  BY DEF Unplugged
<1>3. \A d, v, s : RowAt(d, v, s)' <=> RowAt(d, v, s)
  BY <1>2 DEF RowAt
<1>. QED
  BY <1>1, <1>3 DEF Placed

\* What the handlers check before they begin.
Begins(r) ==
    /\ r \in Request
    /\ \/ /\ r.op \in Serves /\ r.step = "read" /\ r.vol \in Vols /\ ~InFlight(r.vol)
          /\ SameVolume(row[r.vol], r.copy)
       \/ /\ r.op = "terminate" /\ r.step = "checked" /\ r.vol = NoVol /\ r.vm \in Vms
          /\ ~Plugging(r.vm) /\ \A d \in Vols : row[d].vm # r.vm
    /\ r.op \in Plugs => r.vm \in Vms /\ r.vm \in resources /\ ~Terminating(r.vm)
    /\ r.op = "create" => r.copy = Absent
    /\ r.op \in {"attach", "delete"} => r.copy.status = "available"
    /\ r.op \in {"detach", "resize"} => r.copy.status = "attached" /\ r.vm = r.copy.vm
    /\ r.op = "resize" => /\ r.new.status = "attached" /\ r.new.vm = r.vm
                          /\ r.new.slot = r.copy.slot /\ r.new.size > r.copy.size
    /\ r.op \in {"attach", "detach"} => r.new.size = r.copy.size

LEMMA StartKeeps ==
  ASSUME PlaceInv, NEW p \in Procs, NEW r, Start(p, r), Begins(r)
  PROVE  PlaceInv'
<1>t. Table /\ Requests /\ Disks /\ DeletionsClean /\ ResourcesThere /\ Placed /\ Hosted
  BY Parts
<1>0. SUFFICES /\ Table' /\ Requests' /\ Disks'
               /\ DeletionsClean' /\ ResourcesThere' /\ Placed' /\ Hosted'
  BY Parts
<1>1. /\ req[p] = Idle /\ req'[p] = r /\ req' \in [Procs -> Request]
      /\ \A q \in Procs : q # p => req'[q] = req[q]
      /\ UNCHANGED <<row, resources, guests, plugged, unused, image>>
  BY <1>t DEF Start, Begins, Requests, cluster
<1>2. Table' /\ Disks' /\ Hosted'
  BY <1>t, <1>1 DEF Table, Disks, Hosted
<1>3. RequestsKnown'
  BY <1>t, <1>1 DEF Begins, Requests, RequestsKnown, Serves, Plugs
<1>4. OnePerVolume'
  <2>1. ASSUME NEW q \in Procs, q # p, req[q].vol = r.vol, r.vol \in Vols
        PROVE  FALSE
    <3>1. req[q].op \in Serves
      BY <1>t, <2>1, NullsTyped DEF Requests, RequestsKnown, Request, Serves, Plugs
    <3>2. req[q].step # "idle"
      BY <1>t, <3>1 DEF Requests, RequestsKnown
    <3>. QED
      BY <2>1, <3>2, NullsTyped DEF Begins, InFlight
  <2>. QED
    BY <1>t, <1>1, <2>1 DEF Requests, OnePerVolume
<1>5. CopiesHold' /\ NewsHold'
  <2>1. r.op \in Serves \union {"terminate"} /\ r.step # "done"
    BY DEF Begins
  <2>2. CopiesHold'
    BY <1>t, <1>1, <2>1 DEF Begins, Requests, CopiesHold, Serves, Plugs
  <2>3. NewsHold'
    BY <1>t, <1>1, <2>1 DEF Begins, Requests, NewsHold, Plugs
  <2>. QED
    BY <2>2, <2>3
<1>6. DeletionsClean'
  BY <1>t, <1>1 DEF Begins, DeletionsClean, Terminating, Plugging, Plugs, Serves
<1>7. ResourcesThere'
  BY <1>t, <1>1 DEF Begins, ResourcesThere, Plugs
<1>8. Placed'
  <2>1. r.step # "done" /\ req[p].op = "none"
    BY <1>1, NullsTyped DEF Begins
  <2>. QED
    BY <1>t, <1>1, <2>1, PlacesStay
<1>. QED
  BY <1>1, <1>2, <1>3, <1>4, <1>5, <1>6, <1>7, <1>8 DEF Requests

\* Every read of the rows begins a request this way.
LEMMA ReadsBegin ==
  ASSUME Orderly, PlaceInv, NEW p \in Procs, Reads(p)
  PROVE  \E r : Start(p, r) /\ Begins(r)
<1>t. Table /\ Requests
  BY Parts
<1>f. "same_volume" \notin Faults /\ "plug_during_terminate" \notin Faults
  BY DEF Orderly
<1>. USE DEF MayServe, MayPlugInto, SameVolume, Serves, Plugs
<1>1. ASSUME NEW d \in Vols, NEW v \in Vms, NEW size \in NewSizes, ReadForCreate(p, d, v, size)
      PROVE  \E r : Start(p, r) /\ Begins(r)
  <2>. DEFINE r == [Idle EXCEPT !.op = "create", !.step = "read", !.vol = d, !.vm = v,
                                !.new = [Absent EXCEPT !.size = size]]
  <2>1. [Absent EXCEPT !.size = size] \in Row
    BY VolumeConstants DEF Absent, Row, NoSlot
  <2>2. r \in Request /\ r.op = "create" /\ r.step = "read" /\ r.vol = d /\ r.vm = v
        /\ r.copy = Absent
    BY <2>1, NullsTyped DEF Idle, Request
  <2>3. Start(p, r) /\ row[d] = Absent /\ ~InFlight(d) /\ v \in resources /\ ~Terminating(v)
    BY <1>1, <1>f DEF ReadForCreate, Fresh
  <2>. HIDE DEF r
  <2>. QED
    BY <2>2, <2>3 DEF Begins
<1>2. ASSUME NEW d \in Vols, ReadForDetach(p, d)
      PROVE  \E r : Start(p, r) /\ Begins(r)
  <2>. DEFINE r == [Idle EXCEPT !.op = "detach", !.step = "read", !.vol = d, !.vm = row[d].vm,
                                !.copy = row[d], !.new = row[d]]
  <2>1. row[d] \in Row /\ row[d].vm \in Vms \union {NoVm}
    BY <1>t DEF Table, Row
  <2>2. r \in Request /\ r.op = "detach" /\ r.step = "read" /\ r.vol = d /\ r.vm = row[d].vm
        /\ r.copy = row[d] /\ r.new = row[d]
    BY <2>1, NullsTyped DEF Idle, Request
  <2>3. Start(p, r) /\ ~InFlight(d) /\ row[d].status = "attached"
    BY <1>2, <1>f DEF ReadForDetach
  <2>. HIDE DEF r
  <2>. QED
    BY <2>2, <2>3 DEF Begins
<1>3. ASSUME NEW d \in Vols, NEW v \in Vms, ReadForAttach(p, d, v)
      PROVE  \E r : Start(p, r) /\ Begins(r)
  <2>. DEFINE r == [Idle EXCEPT !.op = "attach", !.step = "read", !.vol = d, !.vm = v,
                                !.copy = row[d], !.new = row[d]]
  <2>1. row[d] \in Row
    BY <1>t DEF Table
  <2>2. r \in Request /\ r.op = "attach" /\ r.step = "read" /\ r.vol = d /\ r.vm = v
        /\ r.copy = row[d] /\ r.new = row[d]
    BY <2>1, NullsTyped DEF Idle, Request
  <2>3. /\ Start(p, r) /\ ~InFlight(d) /\ row[d].status = "available"
        /\ v \in resources /\ ~Terminating(v)
    BY <1>3, <1>f DEF ReadForAttach
  <2>. HIDE DEF r
  <2>. QED
    BY <2>2, <2>3 DEF Begins
<1>4. ASSUME NEW d \in Vols, ReadForDelete(p, d)
      PROVE  \E r : Start(p, r) /\ Begins(r)
  <2>. DEFINE r == [Idle EXCEPT !.op = "delete", !.step = "read", !.vol = d, !.copy = row[d]]
  <2>1. row[d] \in Row
    BY <1>t DEF Table
  <2>2. r \in Request /\ r.op = "delete" /\ r.step = "read" /\ r.vol = d /\ r.copy = row[d]
    BY <2>1, NullsTyped DEF Idle, Request
  <2>3. Start(p, r) /\ ~InFlight(d) /\ row[d].status = "available"
    BY <1>4, <1>f DEF ReadForDelete
  <2>. HIDE DEF r
  <2>. QED
    BY <2>2, <2>3 DEF Begins
<1>5. ASSUME NEW d \in Vols, NEW size \in 1 .. MaxSize, ReadForResize(p, d, size)
      PROVE  \E r : Start(p, r) /\ Begins(r)
  <2>. DEFINE new == [row[d] EXCEPT !.size = size]
              r == [Idle EXCEPT !.op = "resize", !.step = "read", !.vol = d, !.vm = row[d].vm,
                                !.copy = row[d], !.new = new]
  <2>1. row[d] \in Row /\ row[d].vm \in Vms \union {NoVm}
    BY <1>t DEF Table, Row
  <2>2. /\ new \in Row /\ new.status = row[d].status /\ new.vm = row[d].vm
        /\ new.slot = row[d].slot /\ new.size = size
    BY <2>1, VolumeConstants DEF Row
  <2>. HIDE DEF new
  <2>3. r \in Request /\ r.op = "resize" /\ r.step = "read" /\ r.vol = d /\ r.vm = row[d].vm
        /\ r.copy = row[d] /\ r.new = new
    BY <2>1, <2>2, NullsTyped DEF Idle, Request
  <2>4. Start(p, r) /\ ~InFlight(d) /\ row[d].status = "attached" /\ size > row[d].size
    BY <1>5, <1>f DEF ReadForResize, new
  <2>. HIDE DEF r
  <2>. QED
    BY <2>2, <2>3, <2>4 DEF Begins
<1>. QED
  BY <1>1, <1>2, <1>3, <1>4, <1>5 DEF Reads

LEMMA CheckAttachedBegins ==
  ASSUME Orderly, PlaceInv, NEW p \in Procs, NEW v \in Vms, CheckAttached(p, v)
  PROVE  \E r : Start(p, r) /\ Begins(r)
<1>. DEFINE r == [Idle EXCEPT !.op = "terminate", !.step = "checked", !.vm = v]
<1>1. r \in Request /\ r.op = "terminate" /\ r.step = "checked" /\ r.vol = NoVol /\ r.vm = v
  BY NullsTyped DEF Idle, Request
<1>2. Start(p, r) /\ ~Plugging(v)
  BY DEF CheckAttached, Orderly
<1>3. \A d \in Vols : row[d].vm # v
  BY Parts, NullsTyped DEF CheckAttached, Table
<1>. HIDE DEF r
<1>4. Begins(r)
  BY <1>1, <1>2, <1>3 DEF Begins, Plugs
<1>. QED
  BY <1>2, <1>4

\* A request that gives up before it has changed anything.
LEMMA GivingUpKeeps ==
  ASSUME PlaceInv, NEW p \in Procs, req[p].step # "done", req' = [req EXCEPT ![p] = Idle],
         UNCHANGED <<row, resources, guests, plugged, unused, image>>
  PROVE  PlaceInv'
<1>t. Table /\ Requests /\ Disks /\ DeletionsClean /\ ResourcesThere /\ Placed /\ Hosted
  BY Parts
<1>0. SUFFICES /\ Table' /\ Requests' /\ Disks'
               /\ DeletionsClean' /\ ResourcesThere' /\ Placed' /\ Hosted'
  BY Parts
<1>1. /\ req'[p] = Idle /\ req' \in [Procs -> Request]
      /\ \A q \in Procs : q # p => req'[q] = req[q]
  BY <1>t, NullsTyped DEF Requests
<1>2. Table' /\ Disks' /\ Hosted'
  BY <1>t DEF Table, Disks, Hosted
<1>3. Requests'
  BY <1>t, <1>1, NullsTyped DEF Requests, RequestsKnown, OnePerVolume, CopiesHold, NewsHold, Serves,
                                Plugs
<1>4. DeletionsClean' /\ ResourcesThere'
  BY <1>t, <1>1, NullsTyped DEF DeletionsClean, ResourcesThere, Plugs
<1>5. Placed'
  BY <1>t, <1>1, NullsTyped, PlacesStay
<1>. QED
  BY <1>2, <1>3, <1>4, <1>5

-----------------------------------------------------------------------------
(* The Proxmox calls *)

\* What a call makes of its request; the rows are as before.
Calls(p, new) ==
    /\ new \in Row
    /\ \/ req' = [req EXCEPT ![p].step = "done", ![p].new = new]
       \/ req' = [req EXCEPT ![p].step = "done"] /\ new = req[p].new
    /\ UNCHANGED <<row, resources>>

LEMMA CallsFields ==
  ASSUME Requests, NEW p \in Procs, NEW new, Calls(p, new)
  PROVE  /\ req' \in [Procs -> Request]
         /\ \A q \in Procs : /\ req'[q].op = req[q].op /\ req'[q].vol = req[q].vol
                             /\ req'[q].vm = req[q].vm /\ req'[q].copy = req[q].copy
                             /\ q # p => req'[q] = req[q]
         /\ req'[p].step = "done" /\ req'[p].new = new
BY CallFields DEF Calls, Requests

LEMMA CallKeepsTable ==
  ASSUME PlaceInv, NEW p \in Procs, NEW new, Calls(p, new), req[p].op \in Serves,
         req[p].op \in Plugs =>
           new.status = "attached" /\ new.vm = req[p].vm /\ new.slot \in Slots,
         req[p].op = "detach" =>
           new.status = "available" /\ new.vm = NoVm /\ new.slot = NoSlot,
         req[p].op = "resize" => new = req[p].new,
         req[p].op \in {"attach", "detach"} => new.size = req[p].copy.size
  PROVE  Table' /\ Requests' /\ DeletionsClean' /\ ResourcesThere'
<1>t. Table /\ Requests /\ DeletionsClean /\ ResourcesThere
  BY Parts
<1>1. /\ req' \in [Procs -> Request]
      /\ \A q \in Procs : /\ req'[q].op = req[q].op /\ req'[q].vol = req[q].vol
                          /\ req'[q].vm = req[q].vm /\ req'[q].copy = req[q].copy
                          /\ q # p => req'[q] = req[q]
      /\ req'[p].step = "done" /\ req'[p].new = new
  BY <1>t, CallsFields
<1>2. UNCHANGED <<row, resources>>
  BY DEF Calls
<1>3. Table' /\ DeletionsClean' /\ ResourcesThere'
  BY <1>t, <1>1, <1>2 DEF Table, DeletionsClean, ResourcesThere
<1>4. RequestsKnown' /\ OnePerVolume'
  BY <1>t, <1>1 DEF Requests, RequestsKnown, OnePerVolume, Serves, Plugs
<1>5. CopiesHold'
  BY <1>t, <1>1, <1>2 DEF Requests, CopiesHold
<1>6. NewsHold'
  BY <1>t, <1>1 DEF Requests, NewsHold, Plugs
<1>. QED
  BY <1>1, <1>3, <1>4, <1>5, <1>6 DEF Requests

\* A disk that no row claims, in a free slot, by the request that now claims it.
LEMMA PlugKeeps ==
  ASSUME PlaceInv, NEW p \in Procs, NEW new, Calls(p, new),
         req[p].op \in Plugs, req[p].step = "read",
         new.status = "attached", new.vm = req[p].vm, new.slot = NextSlot(req[p].vm),
         HasFreeSlot(req[p].vm), Plug(req[p].vol, req[p].vm), UNCHANGED guests
  PROVE  Placed' /\ Hosted'
<1>. DEFINE d == req[p].vol
            v == req[p].vm
            n == NextSlot(v)
<1>t. Table /\ Requests /\ Disks /\ Placed /\ Hosted
  BY Parts
<1>1. d \in Vols /\ v \in Vms /\ n \in Slots /\ plugged[v][n] = NoVol /\ v \in guests
  BY <1>t, NextSlotIsFree DEF Requests, RequestsKnown, Serves, HasFreeSlot
<1>2. /\ \A q \in Procs : q # p => req'[q] = req[q]
      /\ req'[p].op = req[p].op /\ req'[p].vol = d /\ req'[p].step = "done" /\ req'[p].new = new
  BY <1>t, CallsFields
<1>3. \A u \in Vms, s \in Slots : plugged'[u][s] = IF u = v /\ s = n THEN d ELSE plugged[u][s]
  BY <1>t, <1>1 DEF Plug, Disks
<1>4. UNCHANGED row
  BY DEF Calls
<1>5. row[d].status # "attached"
  BY <1>t, NullsTyped DEF Requests, CopiesHold, SameVolume, Plugs, Serves
<1>6. \A q \in Procs : req[q].vol = d => q = p
  BY <1>t, <1>1 DEF Requests, OnePerVolume
<1>7. \A e \in Vols : Unplugged(e)' <=> Unplugged(e)
  BY <1>2 DEF Unplugged, Plugs
<1>8. \A e \in Vols : e = d => \A u \in Vms, s \in Slots :
        /\ PluggingAt(e, u, s)' <=> u = v /\ s = n
        /\ ~RowAt(e, u, s)' /\ ~RowAt(e, u, s) /\ ~PluggingAt(e, u, s)
  BY <1>2, <1>4, <1>5, <1>6 DEF PluggingAt, RowAt
<1>9. \A e \in Vols : e # d => \A u \in Vms, s \in Slots :
        (PluggingAt(e, u, s)' <=> PluggingAt(e, u, s)) /\ (RowAt(e, u, s)' <=> RowAt(e, u, s))
  BY <1>2, <1>4, <1>7 DEF PluggingAt, RowAt
<1>10. Placed'
  <2>1. ASSUME NEW e \in Vols, NEW u \in Vms, NEW s \in Slots
        PROVE  plugged'[u][s] = e <=> PluggingAt(e, u, s)' \/ RowAt(e, u, s)'
    <3>1. plugged[u][s] = e <=> PluggingAt(e, u, s) \/ RowAt(e, u, s)
      BY <1>t DEF Placed
    <3>2. CASE e = d
      BY <3>1, <3>2, <1>3, <1>8
    <3>3. CASE e # d
      BY <3>1, <3>3, <1>1, <1>3, <1>9, NullsTyped
    <3>. QED
      BY <3>2, <3>3
  <2>. QED
    BY <2>1 DEF Placed
<1>11. Hosted'
  BY <1>t, <1>1, <1>3 DEF Hosted
<1>. QED
  BY <1>10, <1>11

LEMMA AttachedRowFields ==
  ASSUME NEW r \in Row, NEW v \in Vms, HasFreeSlot(v)
  PROVE  LET new == AttachedRow(r, v) IN
         /\ new \in Row /\ new.status = "attached" /\ new.vm = v /\ new.slot = NextSlot(v)
         /\ new.slot \in Slots /\ new.size = r.size
<1>1. NextSlot(v) \in Slots
  BY NextSlotIsFree
<1>. QED
  BY <1>1 DEF AttachedRow, Row

LEMMA CreateDiskKeeps ==
  ASSUME PlaceInv, NEW p \in Procs, CreateDisk(p)
  PROVE  PlaceInv'
<1>. DEFINE new == AttachedRow(req[p].new, req[p].vm)
<1>t. Table /\ Requests /\ Disks
  BY Parts
<1>1. /\ req[p].op = "create" /\ req[p].step = "read" /\ HasFreeSlot(req[p].vm)
      /\ Plug(req[p].vol, req[p].vm) /\ UNCHANGED <<guests, unused>>
  BY DEF CreateDisk, Ready
<1>2. req[p] \in Request /\ req[p].vm \in Vms /\ req[p].vol \in Vols /\ req[p].new \in Row
  BY <1>t, <1>1 DEF Requests, RequestsKnown, Plugs, Serves, Request
<1>3. /\ new \in Row /\ new.status = "attached" /\ new.vm = req[p].vm
      /\ new.slot = NextSlot(req[p].vm) /\ new.slot \in Slots
  BY <1>1, <1>2, AttachedRowFields
<1>4. Calls(p, new)
  BY <1>3 DEF CreateDisk, Calls
<1>. HIDE DEF new
<1>5. Table' /\ Requests' /\ DeletionsClean' /\ ResourcesThere'
  BY <1>1, <1>3, <1>4, CallKeepsTable DEF Plugs, Serves
<1>6. Placed' /\ Hosted'
  BY <1>1, <1>3, <1>4, PlugKeeps DEF Plugs
<1>7. Disks'
  <2>1. plugged' \in [Vms -> [Slots -> Vols \union {NoVol}]]
    BY <1>t, <1>1, <1>2 DEF Disks, Plug
  <2>2. [origin |-> req[p].vm, size |-> req[p].new.size] \in Image
    BY <1>2, VolumeConstants DEF Row, Image
  <2>3. image' \in [Vols -> Image]
    BY <1>t, <2>2 DEF Disks, CreateDisk
  <2>. QED
    BY <1>t, <1>1, <2>1, <2>3 DEF Disks
<1>. QED
  BY <1>5, <1>6, <1>7, Parts

LEMMA PlugAgainKeeps ==
  ASSUME PlaceInv, NEW p \in Procs, PlugAgain(p)
  PROVE  PlaceInv'
<1>. DEFINE new == AttachedRow(req[p].copy, req[p].vm)
<1>t. Table /\ Requests /\ Disks
  BY Parts
<1>1. /\ req[p].op = "attach" /\ req[p].step = "read" /\ HasFreeSlot(req[p].vm)
      /\ Plug(req[p].vol, req[p].vm) /\ UNCHANGED guests
  BY DEF PlugAgain, Ready
<1>2. req[p] \in Request /\ req[p].vm \in Vms /\ req[p].vol \in Vols /\ req[p].copy \in Row
  BY <1>t, <1>1 DEF Requests, RequestsKnown, Plugs, Serves, Request
<1>3. /\ new \in Row /\ new.status = "attached" /\ new.vm = req[p].vm
      /\ new.slot = NextSlot(req[p].vm) /\ new.slot \in Slots /\ new.size = req[p].copy.size
  BY <1>1, <1>2, AttachedRowFields
<1>4. Calls(p, new)
  BY <1>3 DEF PlugAgain, Calls
<1>. HIDE DEF new
<1>5. Table' /\ Requests' /\ DeletionsClean' /\ ResourcesThere'
  BY <1>1, <1>3, <1>4, CallKeepsTable DEF Plugs, Serves
<1>6. Placed' /\ Hosted'
  BY <1>1, <1>3, <1>4, PlugKeeps DEF Plugs
<1>7. Disks'
  <2>1. plugged' \in [Vms -> [Slots -> Vols \union {NoVol}]]
    BY <1>t, <1>1, <1>2 DEF Disks, Plug
  <2>2. NoImage \in Image
    BY DEF NoImage, Image
  <2>3. unused' \in [Vms -> SUBSET Vols] /\ image' \in [Vols -> Image]
    <3>1. CASE /\ unused' = [unused EXCEPT ![req[p].vm] = @ \ {req[p].vol}]
               /\ UNCHANGED image
      BY <1>t, <3>1 DEF Disks
    <3>2. CASE DropUnused(req[p].vol, req[p].copy.owner)
      <4>1. unused' = unused \/ unused' = [unused EXCEPT ![req[p].copy.owner] = @ \ {req[p].vol}]
        BY <3>2 DEF DropUnused
      <4>2. image' = image \/ image' = [image EXCEPT ![req[p].vol] = NoImage]
        BY <3>2 DEF DropUnused
      <4>. QED
        BY <1>t, <2>2, <4>1, <4>2 DEF Disks
    <3>. QED
      BY <3>1, <3>2 DEF PlugAgain
  <2>. QED
    BY <1>t, <1>1, <2>1, <2>3 DEF Disks
<1>. QED
  BY <1>5, <1>6, <1>7, Parts

\* The slot of the row, read before, still holds the disk.
LEMMA SlotHoldsDisk ==
  ASSUME PlaceInv, NEW p \in Procs, req[p].op \in {"detach", "resize"}, req[p].step = "read"
  PROVE  /\ req[p].vol \in Vols /\ req[p].vm \in Vms /\ req[p].copy.slot \in Slots
         /\ req[p].copy \in Row /\ req[p].copy.vm = req[p].vm
         /\ row[req[p].vol].status = "attached"
         /\ plugged[req[p].vm][req[p].copy.slot] = req[p].vol
<1>t. Table /\ Requests /\ Placed
  BY Parts
<1>1. /\ req[p].vol \in Vols /\ req[p].copy \in Row /\ req[p].copy.vm = req[p].vm
      /\ req[p].copy.status = "attached" /\ SameVolume(row[req[p].vol], req[p].copy)
  BY <1>t DEF Requests, RequestsKnown, CopiesHold, Serves, Request
<1>2. req[p].copy.vm \in Vms /\ req[p].copy.slot \in Slots
  BY <1>t, <1>1 DEF Table, SameVolume, Row
<1>3. ~Unplugged(req[p].vol)
  BY <1>t, <1>1 DEF Unplugged, Requests, OnePerVolume
<1>4. RowAt(req[p].vol, req[p].vm, req[p].copy.slot)
  BY <1>1, <1>3 DEF RowAt, SameVolume
<1>. QED
  BY <1>t, <1>1, <1>2, <1>4 DEF Placed, SameVolume

LEMMA UnplugKeeps ==
  ASSUME PlaceInv, NEW p \in Procs, Unplug(p)
  PROVE  PlaceInv'
<1>. DEFINE new == [req[p].copy EXCEPT !.status = "available", !.vm = NoVm, !.slot = NoSlot]
            d == req[p].vol
            v == req[p].vm
            n == req[p].copy.slot
<1>t. Table /\ Requests /\ Disks /\ Placed /\ Hosted
  BY Parts
<1>1. /\ req[p].op = "detach" /\ req[p].step = "read" /\ UNCHANGED <<guests, image>>
      /\ plugged' = [plugged EXCEPT ![v][n] = NoVol]
  BY DEF Unplug, Ready
<1>2. d \in Vols /\ v \in Vms /\ n \in Slots /\ req[p].copy \in Row /\ plugged[v][n] = d
  BY <1>1, SlotHoldsDisk
<1>3. /\ new \in Row /\ new.status = "available" /\ new.vm = NoVm /\ new.slot = NoSlot
      /\ new.size = req[p].copy.size
  BY <1>2 DEF Row
<1>4. Calls(p, new)
  BY <1>3 DEF Unplug, Calls
<1>. HIDE DEF new
<1>5. Table' /\ Requests' /\ DeletionsClean' /\ ResourcesThere'
  BY <1>1, <1>3, <1>4, CallKeepsTable DEF Plugs, Serves
<1>6. Disks'
  <2>1. plugged' \in [Vms -> [Slots -> Vols \union {NoVol}]]
    BY <1>t, <1>1, <1>2 DEF Disks
  <2>2. unused' = [unused EXCEPT ![v] = @ \union (IF d # NoVol /\ image[d].origin = v THEN {d} ELSE {})]
    BY <1>2 DEF Unplug
  <2>3. unused' \in [Vms -> SUBSET Vols]
    BY <1>t, <1>2, <2>2 DEF Disks
  <2>. QED
    BY <1>t, <1>1, <2>1, <2>3 DEF Disks
<1>7. \A u \in Vms, s \in Slots : plugged'[u][s] = IF u = v /\ s = n THEN NoVol ELSE plugged[u][s]
  BY <1>t, <1>1, <1>2 DEF Disks
<1>8. Hosted'
  BY <1>t, <1>1, <1>7 DEF Hosted
<1>9. /\ \A q \in Procs : q # p => req'[q] = req[q]
      /\ req'[p].op = "detach" /\ req'[p].vol = d /\ req'[p].step = "done"
  BY <1>t, <1>1, <1>4, CallsFields
<1>10. UNCHANGED row
  BY <1>4 DEF Calls
<1>11. \A q \in Procs : req[q].vol = d => q = p
  BY <1>t, <1>2 DEF Requests, OnePerVolume
<1>12. \A e \in Vols : e = d => \A u \in Vms, s \in Slots :
         ~PluggingAt(e, u, s)' /\ ~RowAt(e, u, s)'
  BY <1>9, <1>11 DEF PluggingAt, RowAt, Unplugged, Plugs
<1>13. \A e \in Vols : e # d => \A u \in Vms, s \in Slots :
         (PluggingAt(e, u, s)' <=> PluggingAt(e, u, s)) /\ (RowAt(e, u, s)' <=> RowAt(e, u, s))
  BY <1>1, <1>9, <1>10 DEF PluggingAt, RowAt, Unplugged, Plugs
<1>14. \A e \in Vols, u \in Vms, s \in Slots : e = d /\ plugged[u][s] = e => u = v /\ s = n
  BY <1>t, <1>1, <1>2, <1>11 DEF Placed, PluggingAt, RowAt, Plugs
<1>15. Placed'
  <2>1. ASSUME NEW e \in Vols, NEW u \in Vms, NEW s \in Slots
        PROVE  plugged'[u][s] = e <=> PluggingAt(e, u, s)' \/ RowAt(e, u, s)'
    <3>1. plugged[u][s] = e <=> PluggingAt(e, u, s) \/ RowAt(e, u, s)
      BY <1>t DEF Placed
    <3>2. CASE e = d
      BY <3>2, <1>7, <1>12, <1>14, NullsTyped
    <3>3. CASE e # d
      BY <3>1, <3>3, <1>2, <1>7, <1>13, NullsTyped
    <3>. QED
      BY <3>2, <3>3
  <2>. QED
    BY <2>1 DEF Placed
<1>. QED
  BY <1>5, <1>6, <1>8, <1>15, Parts

LEMMA EraseDiskKeeps ==
  ASSUME PlaceInv, NEW p \in Procs, EraseDisk(p)
  PROVE  PlaceInv'
<1>t. Table /\ Requests /\ Disks /\ Placed /\ Hosted
  BY Parts
<1>1. /\ req[p].op = "delete" /\ req[p].step = "read" /\ UNCHANGED <<row, guests, plugged>>
      /\ Calls(p, req[p].new)
  BY <1>t DEF EraseDisk, Ready, Calls, Requests, Request
<1>2. Table' /\ Requests' /\ DeletionsClean' /\ ResourcesThere'
  BY <1>1, CallKeepsTable DEF Plugs, Serves
<1>3. Disks'
  <2>1. NoImage \in Image
    BY DEF NoImage, Image
  <2>2. image' = image \/ image' = [image EXCEPT ![req[p].vol] = NoImage]
    BY DEF EraseDisk
  <2>3. unused' = unused \/ unused' = [unused EXCEPT ![req[p].copy.owner] = @ \ {req[p].vol}]
    BY DEF EraseDisk
  <2>. QED
    BY <1>t, <1>1, <2>1, <2>2, <2>3 DEF Disks
<1>4. Placed' /\ Hosted'
  <2>1. /\ \A q \in Procs : q # p => req'[q] = req[q]
        /\ req'[p].op = "delete"
    BY <1>t, <1>1, CallsFields
  <2>2. Placed'
    BY <1>t, <1>1, <2>1, PlacesStay
  <2>. QED
    BY <1>t, <1>1, <2>2 DEF Hosted
<1>. QED
  BY <1>2, <1>3, <1>4, Parts

LEMMA GrowDiskKeeps ==
  ASSUME PlaceInv, NEW p \in Procs, GrowDisk(p)
  PROVE  PlaceInv'
<1>. DEFINE d == req[p].vol
            growBy == req[p].new.size - req[p].copy.size
<1>t. Table /\ Requests /\ Disks /\ Placed /\ Hosted
  BY Parts
<1>1. /\ req[p].op = "resize" /\ req[p].step = "read" /\ UNCHANGED <<row, guests, plugged, unused>>
      /\ Calls(p, req[p].new)
  BY <1>t DEF GrowDisk, Ready, Calls, Requests, Request
<1>2. Table' /\ Requests' /\ DeletionsClean' /\ ResourcesThere'
  <2>1. /\ req[p].op \in Serves /\ req[p].op \notin Plugs
        /\ req[p].op # "detach" /\ req[p].op # "attach"
    BY <1>1 DEF Plugs, Serves
  <2>. QED
    BY <1>1, <2>1, CallKeepsTable
<1>3. Disks'
  <2>1. image' = [image EXCEPT ![d].size = @ + growBy] /\ d \in Vols
    BY <1>1, SlotHoldsDisk DEF GrowDisk
  <2>2. growBy \in Nat
    BY <1>t, <1>1, VolumeConstants DEF Requests, NewsHold, Request, Row
  <2>. HIDE DEF growBy
  <2>3. image' \in [Vols -> Image]
    BY <1>t, <2>1, <2>2 DEF Disks, Image
  <2>. QED
    BY <1>t, <1>1, <2>3 DEF Disks
<1>4. Placed' /\ Hosted'
  <2>1. /\ \A q \in Procs : q # p => req'[q] = req[q]
        /\ req'[p].op = "resize"
    BY <1>t, <1>1, CallsFields
  <2>2. Placed'
    BY <1>t, <1>1, <2>1, PlacesStay
  <2>. QED
    BY <1>t, <1>1, <2>2 DEF Hosted
<1>. QED
  BY <1>2, <1>3, <1>4, Parts

-----------------------------------------------------------------------------
(* _terminate_vm *)

\* A step of a deletion before its commit: the rows and the places stay.
LEMMA DeletionGoesOn ==
  ASSUME PlaceInv, NEW p \in Procs, NEW step \in {"selected", "done"}, NEW orphans \in SUBSET Vols,
         req[p].op = "terminate", UNCHANGED <<row, resources>>,
         req' = [req EXCEPT ![p].step = step, ![p].orphans = orphans]
  PROVE  /\ Table' /\ Requests' /\ DeletionsClean' /\ ResourcesThere'
         /\ UNCHANGED plugged => Placed'
<1>t. Table /\ Requests /\ DeletionsClean /\ ResourcesThere /\ Placed
  BY Parts
<1>1. /\ req' \in [Procs -> Request]
      /\ \A q \in Procs : /\ req'[q].op = req[q].op /\ req'[q].vol = req[q].vol
                          /\ req'[q].vm = req[q].vm /\ req'[q].copy = req[q].copy
                          /\ req'[q].new = req[q].new
                          /\ q # p => req'[q] = req[q]
      /\ req'[p].step = step
  BY <1>t DEF Requests, Request
<1>2. Table' /\ DeletionsClean' /\ ResourcesThere'
  BY <1>t, <1>1 DEF Table, DeletionsClean, ResourcesThere
<1>3. RequestsKnown' /\ OnePerVolume'
  BY <1>t, <1>1 DEF Requests, RequestsKnown, OnePerVolume, Serves, Plugs
<1>4. CopiesHold' /\ NewsHold'
  BY <1>t, <1>1 DEF Requests, CopiesHold, NewsHold, Serves, Plugs
<1>5. UNCHANGED plugged => Placed'
  BY <1>t, <1>1, PlacesStay
<1>. QED
  BY <1>1, <1>2, <1>3, <1>4, <1>5 DEF Requests

LEMMA StepsOfDeletion ==
  ASSUME PlaceInv, NEW p \in Procs, req[p].step \in {"checked", "selected"}
  PROVE  req[p].op = "terminate" /\ req[p].vm \in Vms
BY Parts DEF Requests, RequestsKnown, Request, Serves, Plugs

LEMMA SelectOrphansKeeps ==
  ASSUME PlaceInv, NEW p \in Procs, SelectOrphans(p)
  PROVE  PlaceInv'
<1>. DEFINE parked == {d \in Vols : row[d].status = "available" /\ row[d].owner = req[p].vm}
<1>1. /\ req[p].step = "checked" /\ parked \in SUBSET Vols
      /\ req' = [req EXCEPT ![p].step = "selected", ![p].orphans = parked]
      /\ UNCHANGED <<row, resources, guests, plugged, unused, image>>
  BY DEF SelectOrphans, cluster
<1>. HIDE DEF parked
<1>2. Table' /\ Requests' /\ DeletionsClean' /\ ResourcesThere' /\ Placed'
  BY <1>1, StepsOfDeletion, DeletionGoesOn
<1>3. Disks' /\ Hosted'
  BY <1>1, Parts DEF Disks, Hosted
<1>. QED
  BY <1>2, <1>3, Parts

\* Nothing is plugged into a VM whose deletion is under way.
LEMMA NothingPlugged ==
  ASSUME PlaceInv, NEW p \in Procs, req[p].op = "terminate", NEW s \in Slots
  PROVE  plugged[req[p].vm][s] = NoVol
<1>t. Table /\ Requests /\ Disks /\ DeletionsClean /\ Placed
  BY Parts
<1>1. req[p].vm \in Vms
  BY <1>t DEF Requests, RequestsKnown
<1>2. plugged[req[p].vm][s] \in Vols \union {NoVol}
  BY <1>t, <1>1 DEF Disks
<1>3. ASSUME NEW d \in Vols
      PROVE  ~PluggingAt(d, req[p].vm, s) /\ ~RowAt(d, req[p].vm, s)
  BY <1>t DEF DeletionsClean, PluggingAt, RowAt, Requests, NewsHold
<1>. QED
  BY <1>t, <1>1, <1>2, <1>3 DEF Placed

LEMMA DestroyGuestKeeps ==
  ASSUME PlaceInv, NEW p \in Procs, DestroyGuest(p)
  PROVE  PlaceInv'
<1>. DEFINE v == req[p].vm
<1>t. Table /\ Requests /\ Disks /\ Placed /\ Hosted
  BY Parts
<1>1. req[p].step = "selected" /\ UNCHANGED <<row, resources>>
  BY DEF DestroyGuest
<1>2. req[p].op = "terminate" /\ v \in Vms
  BY <1>1, StepsOfDeletion
<1>3. PICK cleared \in {{}, IF v \in guests THEN req[p].orphans ELSE {}} :
        req' = [req EXCEPT ![p].step = "done", ![p].orphans = cleared]
  BY DEF DestroyGuest
<1>4. cleared \in SUBSET Vols
  BY <1>t DEF Requests, Request
<1>5. UNCHANGED plugged
  <2>1. CASE plugged' = [plugged EXCEPT ![v] = [s \in Slots |-> NoVol]]
    <3>1. plugged[v] = [s \in Slots |-> NoVol]
      BY <1>t, <1>2, NothingPlugged DEF Disks
    <3>. QED
      BY <1>t, <1>2, <2>1, <3>1 DEF Disks
  <2>2. CASE UNCHANGED cluster
    BY <2>2 DEF cluster
  <2>. QED
    BY <2>1, <2>2 DEF DestroyGuest
<1>6. Table' /\ Requests' /\ DeletionsClean' /\ ResourcesThere' /\ Placed'
  BY <1>1, <1>2, <1>3, <1>4, <1>5, DeletionGoesOn
<1>7. Disks' /\ Hosted'
  <2>1. CASE /\ guests' = guests \ {v}
             /\ image' = [d \in Vols |-> IF d \in FreedWith(v) THEN NoImage ELSE image[d]]
             /\ unused' = [unused EXCEPT ![v] = {}]
    <3>1. NoImage \in Image
      BY DEF NoImage, Image
    <3>2. Disks'
      BY <1>t, <1>5, <2>1, <3>1 DEF Disks
    <3>3. Hosted'
      BY <1>t, <1>2, <1>5, <2>1, NothingPlugged DEF Hosted
    <3>. QED
      BY <3>2, <3>3
  <2>2. CASE UNCHANGED cluster
    BY <1>t, <2>2 DEF cluster, Disks, Hosted
  <2>. QED
    BY <2>1, <2>2 DEF DestroyGuest
<1>. QED
  BY <1>6, <1>7, Parts

LEMMA CommitTerminateKeeps ==
  ASSUME PlaceInv, NEW p \in Procs, CommitTerminate(p)
  PROVE  PlaceInv'
<1>. DEFINE v == req[p].vm
<1>t. Table /\ Requests /\ Disks /\ DeletionsClean /\ ResourcesThere /\ Placed /\ Hosted
  BY Parts
<1>1. /\ req[p].op = "terminate" /\ v \in Vms /\ req'[p] = Idle /\ req' \in [Procs -> Request]
      /\ \A q \in Procs : q # p => req'[q] = req[q]
      /\ UNCHANGED <<guests, plugged, unused, image>>
  BY <1>t, NullsTyped DEF CommitTerminate, Requests, RequestsKnown, cluster
<1>2. /\ row' \in [Vols -> Row]
      /\ \A d \in Vols : SameVolume(row'[d], row[d])
  <2>1. CASE row' = [d \in Vols |-> IF d \in req[p].orphans
                                    THEN [row[d] EXCEPT !.owner = NoVm] ELSE row[d]]
    <3>1. \A d \in Vols : /\ [row[d] EXCEPT !.owner = NoVm] \in Row
                          /\ SameVolume([row[d] EXCEPT !.owner = NoVm], row[d])
      BY <1>t DEF Table, Row, SameVolume
    <3>. QED
      BY <1>t, <2>1, <3>1 DEF Table, SameVolume
  <2>2. CASE UNCHANGED row
    BY <1>t, <2>2 DEF Table, SameVolume
  <2>. QED
    BY <2>1, <2>2 DEF CommitTerminate
<1>3. resources' = resources \ {v} \/ UNCHANGED resources
  BY DEF CommitTerminate
<1>4. Table' /\ Disks' /\ Hosted'
  BY <1>t, <1>1, <1>2, <1>3 DEF Table, Disks, Hosted, SameVolume
<1>5. RequestsKnown' /\ OnePerVolume'
  BY <1>t, <1>1, NullsTyped DEF Requests, RequestsKnown, OnePerVolume, Serves, Plugs
<1>6. CopiesHold'
  <2>1. ASSUME NEW q \in Procs, req'[q].op \in Serves
        PROVE  SameVolume(row'[req'[q].vol], req'[q].copy)
    <3>1. q # p /\ req'[q] = req[q]
      BY <1>1, <2>1, NullsTyped DEF Serves, Plugs
    <3>2. req[q].vol \in Vols /\ SameVolume(row[req[q].vol], req[q].copy)
      BY <1>t, <2>1, <3>1 DEF Requests, RequestsKnown, CopiesHold
    <3>. QED
      BY <1>2, <3>1, <3>2 DEF SameVolume
  <2>. QED
    BY <1>t, <1>1, <2>1, NullsTyped DEF Requests, CopiesHold
<1>7. NewsHold'
  BY <1>t, <1>1, NullsTyped DEF Requests, NewsHold, Plugs
<1>8. DeletionsClean' /\ ResourcesThere'
  <2>1. \A d \in Vols : row'[d].vm = row[d].vm
    BY <1>2 DEF SameVolume
  <2>. QED
    BY <1>t, <1>1, <1>3, <2>1, NullsTyped DEF DeletionsClean, ResourcesThere, Plugs
<1>9. Placed'
  <2>1. \A d \in Vols : /\ row'[d].status = row[d].status /\ row'[d].vm = row[d].vm
                        /\ row'[d].slot = row[d].slot
    BY <1>2 DEF SameVolume
  <2>2. \A d \in Vols, u \in Vms, s \in Slots :
          (PluggingAt(d, u, s)' <=> PluggingAt(d, u, s)) /\ (RowAt(d, u, s)' <=> RowAt(d, u, s))
    BY <1>1, <2>1, NullsTyped DEF PluggingAt, RowAt, Unplugged, Plugs
  <2>. QED
    BY <1>t, <1>1, <2>2 DEF Placed
<1>. QED
  BY <1>1, <1>4, <1>5, <1>6, <1>7, <1>8, <1>9, Parts DEF Requests

-----------------------------------------------------------------------------
(* The commits of the other requests *)

\* What the commit makes of the row of a request
LEMMA ResultFields ==
  ASSUME PlaceInv, NEW p \in Procs, req[p].op \in Serves, req[p].step = "done"
  PROVE  LET r == req[p] IN
         /\ Result(r) \in Row
         /\ Result(r).status = "attached" <=> Result(r).vm # NoVm
         /\ Result(r).status = "attached" <=> Result(r).slot # NoSlot
         /\ r.op \in Plugs => /\ Result(r).status = "attached" /\ Result(r).vm = r.vm
                              /\ Result(r).slot = r.new.slot
         /\ r.op \in {"detach", "delete"} => Result(r).status # "attached"
         /\ r.op = "resize" => /\ Result(r).status = "attached" /\ Result(r).vm = row[r.vol].vm
                               /\ Result(r).slot = row[r.vol].slot
         /\ r.op \in {"create", "resize"} => Result(r).size = r.new.size
         /\ r.op \in {"attach", "detach"} => Result(r).size = row[r.vol].size
         /\ r.op # "delete" => row[r.vol].status # "absent" \/ r.op = "create"
         /\ Result(r).vm \in resources \union {NoVm}
<1>. DEFINE r == req[p]
            old == row[r.vol]
<1>t. Table /\ Requests /\ ResourcesThere
  BY Parts
<1>1. r \in Request /\ r.copy \in Row /\ r.new \in Row /\ r.vol \in Vols /\ old \in Row
  BY <1>t DEF Requests, RequestsKnown, Request, Table
<1>2. SameVolume(old, r.copy)
  BY <1>t DEF Requests, CopiesHold
<1>3. /\ old.status = "attached" <=> old.vm # NoVm
      /\ old.status = "attached" <=> old.slot # NoSlot
      /\ old.vm \in resources \union {NoVm}
  BY <1>t, <1>1 DEF Table, ResourcesThere
<1>4. r.op # "delete" =>
        /\ Result(r) \in Row
        /\ Result(r).status = IF r.new.status # r.copy.status THEN r.new.status ELSE old.status
        /\ Result(r).vm = IF r.new.vm # r.copy.vm THEN r.new.vm ELSE old.vm
        /\ Result(r).slot = IF r.new.slot # r.copy.slot THEN r.new.slot ELSE old.slot
        /\ Result(r).size = IF r.new.size # r.copy.size THEN r.new.size ELSE old.size
  BY <1>1, MergedFields DEF Result
<1>5. CASE r.op = "delete"
  BY <1>5, NullsTyped DEF Result, Plugs
<1>6. CASE r.op \in Plugs
  <2>1. /\ r.new.status = "attached" /\ r.new.vm = r.vm /\ r.new.slot \in Slots
        /\ r.vm \in resources /\ r.vm \in Vms
        /\ r.op = "attach" => r.new.size = r.copy.size /\ r.copy.status = "available"
        /\ r.op = "create" => r.copy = Absent
    BY <1>t, <1>6 DEF Requests, NewsHold, CopiesHold, RequestsKnown, ResourcesThere
  <2>. QED
    BY <1>2, <1>3, <1>4, <1>6, <2>1, NullsTyped DEF SameVolume, Plugs
<1>7. CASE r.op = "detach"
  <2>1. /\ r.new.status = "available" /\ r.new.vm = NoVm /\ r.new.slot = NoSlot
        /\ r.new.size = r.copy.size /\ r.copy.status = "attached"
    BY <1>t, <1>7 DEF Requests, NewsHold, CopiesHold
  <2>. QED
    BY <1>2, <1>3, <1>4, <1>7, <2>1 DEF SameVolume, Plugs
<1>8. CASE r.op = "resize"
  <2>1. /\ r.new.status = "attached" /\ r.new.vm = r.copy.vm /\ r.new.slot = r.copy.slot
        /\ r.copy.status = "attached"
    BY <1>t, <1>8 DEF Requests, NewsHold, CopiesHold
  <2>. QED
    BY <1>2, <1>3, <1>4, <1>8, <2>1 DEF SameVolume, Plugs
<1>. QED
  BY <1>5, <1>6, <1>7, <1>8 DEF Serves, Plugs

LEMMA CommitFacts ==
  ASSUME PlaceInv, NEW p \in Procs, Commit(p)
  PROVE  /\ req[p].op \in Serves /\ req[p].step = "done" /\ req[p].vol \in Vols
         /\ req'[p] = Idle /\ req' \in [Procs -> Request]
         /\ \A q \in Procs : q # p => req'[q] = req[q]
         /\ \A q \in Procs : q # p => req[q].vol # req[p].vol
         /\ row' = [row EXCEPT ![req[p].vol] = Result(req[p])]
         /\ UNCHANGED <<resources, guests, plugged, unused, image>>
<1>t. Table /\ Requests
  BY Parts
<1>1. req[p].op \in Serves /\ req[p].step = "done"
  BY <1>t DEF Commit, Requests, RequestsKnown, Request, Serves, Plugs
<1>2. req[p].vol \in Vols
  BY <1>t, <1>1 DEF Requests, RequestsKnown
<1>3. Lands(req[p])
  BY <1>1, ResultFields, NullsTyped DEF Lands, Serves, Plugs
<1>4. \A q \in Procs : q # p => req[q].vol # req[p].vol
  BY <1>t, <1>2 DEF Requests, OnePerVolume
<1>. QED
  BY <1>t, <1>1, <1>2, <1>3, <1>4, NullsTyped DEF Commit, Requests, cluster

LEMMA CommitKeeps ==
  ASSUME PlaceInv, NEW p \in Procs, Commit(p)
  PROVE  PlaceInv'
<1>. DEFINE d == req[p].vol
            r == req[p]
            result == Result(req[p])
<1>t. Table /\ Requests /\ Disks /\ DeletionsClean /\ ResourcesThere /\ Placed /\ Hosted
  BY Parts
<1>1. /\ r.op \in Serves /\ r.step = "done" /\ d \in Vols
      /\ req'[p] = Idle /\ req' \in [Procs -> Request]
      /\ \A q \in Procs : q # p => req'[q] = req[q]
      /\ \A q \in Procs : q # p => req[q].vol # d
      /\ UNCHANGED <<resources, guests, plugged, unused, image>>
  BY CommitFacts
<1>2. /\ result \in Row
      /\ result.status = "attached" <=> result.vm # NoVm
      /\ result.status = "attached" <=> result.slot # NoSlot
      /\ r.op \in Plugs => /\ result.status = "attached" /\ result.vm = r.vm
                           /\ result.slot = r.new.slot
      /\ r.op \in {"detach", "delete"} => result.status # "attached"
      /\ r.op = "resize" => /\ result.status = "attached" /\ result.vm = row[d].vm
                            /\ result.slot = row[d].slot
      /\ result.vm \in resources \union {NoVm}
  BY <1>1, ResultFields
<1>. HIDE DEF result
<1>3. \A e \in Vols : row'[e] = IF e = d THEN result ELSE row[e]
  BY <1>t, CommitFacts DEF Table, result
<1>4. row' \in [Vols -> Row]
  BY <1>t, <1>2, CommitFacts DEF Table, result
<1>5. Table' /\ Disks' /\ Hosted'
  BY <1>t, <1>1, <1>2, <1>3, <1>4 DEF Table, Disks, Hosted
<1>6. RequestsKnown' /\ OnePerVolume'
  BY <1>t, <1>1, NullsTyped DEF Requests, RequestsKnown, OnePerVolume, Serves, Plugs
<1>7. CopiesHold' /\ NewsHold'
  <2>1. CopiesHold'
    BY <1>t, <1>1, <1>3, NullsTyped DEF Requests, RequestsKnown, CopiesHold, Serves, Plugs
  <2>2. NewsHold'
    BY <1>t, <1>1, NullsTyped DEF Requests, NewsHold, Plugs
  <2>. QED
    BY <2>1, <2>2
<1>8. DeletionsClean'
  <2>1. ASSUME NEW q \in Procs, req'[q].op = "terminate"
        PROVE  /\ \A e \in Vols : row'[e].vm # req'[q].vm
               /\ \A s \in Procs : req'[s].op \in Plugs => req'[s].vm # req'[q].vm
    <3>1. q # p /\ req'[q] = req[q] /\ req[q].vm \in Vms
      BY <1>t, <1>1, <2>1, NullsTyped DEF Requests, RequestsKnown
    <3>2. /\ \A e \in Vols : row[e].vm # req[q].vm
          /\ \A s \in Procs : req[s].op \in Plugs => req[s].vm # req[q].vm
      BY <1>t, <2>1, <3>1 DEF DeletionsClean
    <3>3. result.vm # req[q].vm
      BY <1>1, <1>2, <3>1, <3>2, NullsTyped DEF Serves, Plugs
    <3>. QED
      BY <1>1, <1>3, <3>1, <3>2, <3>3, NullsTyped DEF Plugs
  <2>. QED
    BY <2>1 DEF DeletionsClean
<1>9. ResourcesThere'
  BY <1>t, <1>1, <1>2, <1>3, NullsTyped DEF ResourcesThere, Plugs
<1>10. Placed'
  <2>1. \A e \in Vols : e # d => \A u \in Vms, s \in Slots :
          (PluggingAt(e, u, s)' <=> PluggingAt(e, u, s)) /\ (RowAt(e, u, s)' <=> RowAt(e, u, s))
    BY <1>1, <1>3, NullsTyped DEF PluggingAt, RowAt, Unplugged, Plugs
  <2>2. \A e \in Vols : e = d => ~Unplugged(e)' /\ \A u, s : ~PluggingAt(e, u, s)'
    BY <1>1, NullsTyped DEF Unplugged, PluggingAt, Plugs
  <2>3. \A e \in Vols : e = d => \A u \in Vms, s \in Slots :
          RowAt(e, u, s)' <=> PluggingAt(e, u, s) \/ RowAt(e, u, s)
    <3>1. CASE r.op \in Plugs
      <4>1. r.new.vm = r.vm /\ row[d].status # "attached"
        BY <1>t, <1>1, <3>1, NullsTyped DEF Requests, NewsHold, CopiesHold, SameVolume, Plugs, Serves
      <4>2. \A u, s : PluggingAt(d, u, s) <=> r.new.vm = u /\ r.new.slot = s
        BY <1>1, <3>1 DEF PluggingAt
      <4>3. \A e \in Vols : e = d => \A u, s :
              RowAt(e, u, s)' <=> result.status = "attached" /\ result.vm = u /\ result.slot = s
        BY <1>3, <2>2 DEF RowAt
      <4>. QED
        BY <1>2, <3>1, <4>1, <4>2, <4>3 DEF RowAt
    <3>2. CASE r.op \in {"detach", "delete"}
      <4>1. \A u, s : ~PluggingAt(d, u, s) /\ ~RowAt(d, u, s)
        <5>1. \A u, s : ~PluggingAt(d, u, s)
          BY <1>1, <3>2 DEF PluggingAt, Plugs
        <5>2. CASE r.op = "detach"
          BY <1>1, <5>1, <5>2 DEF RowAt, Unplugged
        <5>3. CASE r.op = "delete"
          BY <1>t, <1>1, <5>1, <5>3 DEF RowAt, Requests, CopiesHold, SameVolume
        <5>. QED
          BY <3>2, <5>2, <5>3
      <4>2. \A e \in Vols : e = d => \A u, s : ~RowAt(e, u, s)'
        BY <1>2, <1>3, <3>2 DEF RowAt
      <4>. QED
        BY <4>1, <4>2
    <3>3. CASE r.op = "resize"
      <4>1. ~Unplugged(d) /\ \A u, s : ~PluggingAt(d, u, s)
        BY <1>1, <3>3 DEF Unplugged, PluggingAt, Plugs
      <4>2. row[d].status = "attached"
        BY <1>t, <1>1, <3>3 DEF Requests, CopiesHold, SameVolume
      <4>. QED
        BY <1>2, <1>3, <2>2, <3>3, <4>1, <4>2 DEF RowAt
    <3>. QED
      BY <1>1, <3>1, <3>2, <3>3 DEF Serves, Plugs
  <2>4. ASSUME NEW e \in Vols, NEW u \in Vms, NEW s \in Slots
        PROVE  plugged'[u][s] = e <=> PluggingAt(e, u, s)' \/ RowAt(e, u, s)'
    <3>1. plugged'[u][s] = e <=> PluggingAt(e, u, s) \/ RowAt(e, u, s)
      BY <1>t, <1>1 DEF Placed
    <3>. QED
      BY <2>1, <2>2, <2>3, <3>1
  <2>. QED
    BY <2>4 DEF Placed
<1>. QED
  BY <1>1, <1>5, <1>6, <1>7, <1>8, <1>9, <1>10, Parts DEF Requests

LEMMA PlaceStep ==
  ASSUME Orderly, PlaceInv, [Next]_vars
  PROVE  PlaceInv'
<1>1. ASSUME NEW p \in Procs, EndsEarly(p)
      PROVE  PlaceInv'
  <2>1. req[p].step = "read" /\ req' = [req EXCEPT ![p] = Idle]
        /\ UNCHANGED <<row, resources, guests, plugged, unused, image>>
    BY <1>1 DEF EndsEarly, Orderly, cluster
  <2>. QED
    BY <2>1, GivingUpKeeps
<1>2. ASSUME NEW p \in Procs, FlushFails(p)
      PROVE  PlaceInv'
  <2>1. req[p].step = "selected" /\ req' = [req EXCEPT ![p] = Idle]
        /\ UNCHANGED <<row, resources, guests, plugged, unused, image>>
    BY <1>2 DEF FlushFails, cluster
  <2>. QED
    BY <2>1, GivingUpKeeps
<1>3. ASSUME NEW p \in Procs, Terminates(p)
      PROVE  PlaceInv'
  BY <1>2, <1>3, CheckAttachedBegins, StartKeeps, SelectOrphansKeeps, DestroyGuestKeeps,
     CommitTerminateKeeps DEF Terminates
<1>4. CASE UNCHANGED vars
  BY <1>4 DEF vars, PlaceInv, VolumesTypeOK, RequestsKnown, OnePerVolume, CopiesHold, NewsHold,
              DeletionsClean, ResourcesThere, Placed, Hosted, PluggingAt, RowAt, Unplugged
<1>. QED
  BY <1>1, <1>3, <1>4, ReadsBegin, StartKeeps, CreateDiskKeeps, UnplugKeeps, PlugAgainKeeps, EraseDiskKeeps,
     GrowDiskKeeps, CommitKeeps DEF Next

-----------------------------------------------------------------------------
(* Theorems about places *)

(***************************************************************************)
(* Rows, requests and disks are well typed, and a row is attached exactly  *)
(* when it names a VM and a slot, as long as requests for one volume do    *)
(* not overlap and none is lost half way.                                  *)
(***************************************************************************)
THEOREM VolumesTyped ==
  ASSUME Faults \subseteq {"frees"}
  PROVE  Spec => []VolumesTypeOK
<1>1. PlaceInv /\ [Next]_vars => PlaceInv'
  BY PlaceStep DEF Orderly
<1>2. PlaceInv => VolumesTypeOK
  BY DEF PlaceInv
<1>. QED
  BY PlaceStarts, <1>1, <1>2, PTL DEF Spec

LEMMA PlacesFollow ==
  ASSUME PlaceInv
  PROVE  AttachedIsPlugged /\ OneSlotPerDisk
<1>t. Table /\ Requests /\ Placed /\ Hosted
  BY Parts
<1>1. ASSUME NEW d \in Vols, row[d].status = "attached", Settled(d)
      PROVE  row[d].vm \in guests /\ plugged[row[d].vm][row[d].slot] = d
  <2>1. row[d].vm \in Vms /\ row[d].slot \in Slots
    BY <1>t, <1>1 DEF Table, Row
  <2>2. RowAt(d, row[d].vm, row[d].slot)
    BY <1>1 DEF RowAt, Unplugged, Settled
  <2>3. plugged[row[d].vm][row[d].slot] = d
    BY <1>t, <2>1, <2>2 DEF Placed
  <2>. QED
    BY <1>t, <2>1, <2>3, NullsTyped DEF Hosted
<1>2. ASSUME NEW d \in Vols, NEW u \in Vms, NEW v \in Vms, NEW s \in Slots, NEW t \in Slots,
             plugged[u][s] = d, plugged[v][t] = d
      PROVE  u = v /\ s = t
  <2>1. /\ PluggingAt(d, u, s) \/ RowAt(d, u, s)
        /\ PluggingAt(d, v, t) \/ RowAt(d, v, t)
    BY <1>t, <1>2 DEF Placed
  <2>2. \A p, q \in Procs : req[p].vol = d /\ req[q].vol = d => p = q
    BY <1>t DEF Requests, OnePerVolume
  <2>3. ASSUME NEW p \in Procs, req[p].op \in Plugs, req[p].vol = d
        PROVE  row[d].status # "attached"
    BY <1>t, <2>3, NullsTyped DEF Requests, CopiesHold, SameVolume, Plugs, Serves
  <2>. QED
    BY <2>1, <2>2, <2>3 DEF PluggingAt, RowAt
<1>. QED
  BY <1>1, <1>2 DEF AttachedIsPlugged, OneSlotPerDisk

(***************************************************************************)
(* The slot of an attached volume holds its disk, for any number of        *)
(* volumes, VMs, slots and requests, under the same assumption.            *)
(***************************************************************************)
THEOREM AttachedArePlugged ==
  ASSUME Faults \subseteq {"frees"}
  PROVE  Spec => []AttachedIsPlugged
<1>1. PlaceInv /\ [Next]_vars => PlaceInv'
  BY PlaceStep DEF Orderly
<1>2. PlaceInv => AttachedIsPlugged
  BY PlacesFollow
<1>. QED
  BY PlaceStarts, <1>1, <1>2, PTL DEF Spec

(***************************************************************************)
(* Two VMs never have one disk, under the same assumption.                 *)
(***************************************************************************)
THEOREM DisksInOneSlot ==
  ASSUME Faults \subseteq {"frees"}
  PROVE  Spec => []OneSlotPerDisk
<1>1. PlaceInv /\ [Next]_vars => PlaceInv'
  BY PlaceStep DEF Orderly
<1>2. PlaceInv => OneSlotPerDisk
  BY PlacesFollow
<1>. QED
  BY PlaceStarts, <1>1, <1>2, PTL DEF Spec

-----------------------------------------------------------------------------
(* Images *)

\* Nobody touches an image, and no request has just made or grown one.
LEMMA ImagesStay ==
  ASSUME Images, NEW p \in Procs, UNCHANGED <<plugged, image>>,
         \A d \in Vols : row'[d].size = row[d].size,
         \A q \in Procs : q # p => req'[q] = req[q],
         req'[p].op \in {"create", "resize"} => req'[p].step # "done"
  PROVE  Images'
BY DEF Images, PluggedKept, OriginsKnown, SizesKept

LEMMA ImagesStart == Init => Images
<1>. SUFFICES ASSUME Init PROVE Images
  OBVIOUS
<1>1. \A d \in Vols, v \in Vms, s \in Slots : plugged[v][s] # d
  BY NullsTyped DEF Init
<1>2. \A d \in Vols : image[d] = NoImage
  BY DEF Init
<1>3. \A p \in Procs : req[p].op = "none"
  BY NullsTyped DEF Init
<1>. QED
  BY <1>1, <1>2, <1>3 DEF Images, PluggedKept, OriginsKnown, SizesKept

\* The disk of a request that has made or grown one is plugged in.
LEMMA DonePlugged ==
  ASSUME PlaceInv, NEW p \in Procs, req[p].op \in {"create", "resize"}, req[p].step = "done"
  PROVE  /\ req[p].vol \in Vols
         /\ \E v \in Vms, s \in Slots : plugged[v][s] = req[p].vol
<1>t. Table /\ Requests /\ Placed
  BY Parts
<1>1. req[p].vol \in Vols
  BY <1>t DEF Requests, RequestsKnown, Serves, Plugs
<1>2. CASE req[p].op = "create"
  <2>1. req[p].new.vm \in Vms /\ req[p].new.slot \in Slots
    BY <1>t, <1>2 DEF Requests, RequestsKnown, NewsHold, Plugs
  <2>2. PluggingAt(req[p].vol, req[p].new.vm, req[p].new.slot)
    BY <1>2 DEF PluggingAt, Plugs
  <2>. QED
    BY <1>t, <1>1, <2>1, <2>2 DEF Placed
<1>3. CASE req[p].op = "resize"
  <2>. DEFINE old == row[req[p].vol]
  <2>1. old.status = "attached"
    BY <1>t, <1>3 DEF Requests, CopiesHold, SameVolume, Serves
  <2>2. old.vm \in Vms /\ old.slot \in Slots
    BY <1>t, <1>1, <2>1 DEF Table, Row
  <2>3. ~Unplugged(req[p].vol)
    BY <1>t, <1>1, <1>3 DEF Unplugged, Requests, OnePerVolume
  <2>4. RowAt(req[p].vol, old.vm, old.slot)
    BY <2>1, <2>3 DEF RowAt
  <2>. QED
    BY <1>t, <1>1, <2>2, <2>4 DEF Placed
<1>. QED
  BY <1>2, <1>3

LEMMA CreateDiskImages ==
  ASSUME PlaceInv, Images, NEW p \in Procs, CreateDisk(p)
  PROVE  Images'
<1>. DEFINE new == AttachedRow(req[p].new, req[p].vm)
            d == req[p].vol
            made == [origin |-> req[p].vm, size |-> req[p].new.size]
<1>t. Table /\ Requests /\ Disks
  BY Parts
<1>1. /\ req[p].op = "create" /\ HasFreeSlot(req[p].vm) /\ Plug(d, req[p].vm)
      /\ image' = [image EXCEPT ![d] = made] /\ UNCHANGED row
  BY DEF CreateDisk, Ready
<1>2. req[p] \in Request /\ req[p].vm \in Vms /\ d \in Vols /\ req[p].new \in Row
  BY <1>t, <1>1 DEF Requests, RequestsKnown, Plugs, Serves, Request
<1>3. new \in Row /\ new.size = req[p].new.size
  BY <1>1, <1>2, AttachedRowFields
<1>4. Calls(p, new)
  BY <1>3 DEF CreateDisk, Calls
<1>5. /\ \A q \in Procs : q # p => req'[q] = req[q]
      /\ req'[p].vol = d /\ req'[p].new = new
  BY <1>t, <1>4, CallsFields
<1>. HIDE DEF new
<1>6. /\ made.origin # NoVm /\ made.size = req[p].new.size /\ made.size \in Nat
      /\ made # NoImage
  BY <1>2, VolumeConstants DEF Row, NoImage
<1>. HIDE DEF made
<1>7. \A e \in Vols : image'[e] = IF e = d THEN made ELSE image[e]
  BY <1>t, <1>1, <1>2 DEF Disks
<1>8. row[d].size = 0
  BY <1>t, <1>1, NullsTyped DEF Requests, CopiesHold, SameVolume, Serves, Plugs
<1>9. PluggedKept'
  <2>1. \A u \in Vms, s \in Slots : plugged'[u][s] = d \/ plugged'[u][s] = plugged[u][s]
    BY <1>t, <1>1, <1>2 DEF Disks, Plug
  <2>. QED
    BY <1>6, <1>7, <2>1 DEF Images, PluggedKept
<1>10. OriginsKnown'
  BY <1>6, <1>7 DEF Images, OriginsKnown
<1>11. SizesKept'
  <2>1. \A e \in Vols : image'[e] # NoImage => image'[e].size >= row'[e].size
    BY <1>1, <1>6, <1>7, <1>8 DEF Images, SizesKept
  <2>2. ASSUME NEW q \in Procs, req'[q].op \in {"create", "resize"}, req'[q].step = "done"
        PROVE  image'[req'[q].vol].size >= req'[q].new.size
    <3>1. CASE q = p
      BY <3>1, <1>2, <1>3, <1>5, <1>6, <1>7, VolumeConstants DEF Row
    <3>2. CASE q # p
      <4>1. req[q].vol \in Vols /\ req[q].vol # d
        BY <2>2, <3>2, <1>t, <1>2, <1>5 DEF Requests, RequestsKnown, OnePerVolume, Serves, Plugs
      <4>. QED
        BY <2>2, <3>2, <4>1, <1>5, <1>7 DEF Images, SizesKept
    <3>. QED
      BY <3>1, <3>2
  <2>. QED
    BY <2>1, <2>2 DEF SizesKept
<1>. QED
  BY <1>9, <1>10, <1>11 DEF Images

LEMMA PlugAgainImages ==
  ASSUME "frees" \notin Faults, PlaceInv, Images, NEW p \in Procs, PlugAgain(p)
  PROVE  Images'
<1>. DEFINE d == req[p].vol
<1>t. Table /\ Requests /\ Disks
  BY Parts
<1>1. /\ req[p].op = "attach" /\ HasFreeSlot(req[p].vm) /\ Plug(d, req[p].vm)
      /\ image[d] # NoImage /\ UNCHANGED row
  BY DEF PlugAgain, Ready
<1>2. req[p].vm \in Vms /\ d \in Vols
  BY <1>t, <1>1 DEF Requests, RequestsKnown, Plugs, Serves
<1>3. UNCHANGED image
  BY DEF PlugAgain, DropUnused
<1>4. \A q \in Procs : q # p => req'[q] = req[q]
  BY <1>t DEF PlugAgain, Requests
<1>5. req'[p].op = "attach"
  BY <1>t, <1>1 DEF PlugAgain, Requests, Request
<1>6. \A u \in Vms, s \in Slots : plugged'[u][s] = d \/ plugged'[u][s] = plugged[u][s]
  BY <1>t, <1>1, <1>2 DEF Disks, Plug
<1>. QED
  BY <1>1, <1>2, <1>3, <1>4, <1>5, <1>6 DEF Images, PluggedKept, OriginsKnown, SizesKept

LEMMA EraseDiskImages ==
  ASSUME "frees" \notin Faults, PlaceInv, Images, NEW p \in Procs, EraseDisk(p)
  PROVE  Images'
<1>. DEFINE d == req[p].vol
<1>t. Table /\ Requests /\ Disks
  BY Parts
<1>1. /\ req[p].op = "delete" /\ d \in Vols /\ UNCHANGED <<row, plugged>>
      /\ \A q \in Procs : q # p => req'[q] = req[q]
      /\ req'[p].op = "delete"
  BY <1>t DEF EraseDisk, Ready, Requests, RequestsKnown, Serves, Request
<1>2. CASE UNCHANGED image
  BY <1>1, <1>2, ImagesStay
<1>3. CASE PluggedIn(d) = {} /\ image' = [image EXCEPT ![d] = NoImage]
  <2>1. \A e \in Vols : image'[e] = IF e = d THEN NoImage ELSE image[e]
    BY <1>t, <1>3 DEF Disks
  <2>2. \A u \in Vms, s \in Slots : plugged[u][s] # d
    BY <1>3 DEF PluggedIn
  <2>3. \A q \in Procs : req[q].op \in {"create", "resize"} /\ req[q].step = "done" =>
          req[q].vol \in Vols /\ req[q].vol # d
    BY <2>2, DonePlugged
  <2>. QED
    BY <1>1, <2>1, <2>2, <2>3 DEF Images, PluggedKept, OriginsKnown, SizesKept
<1>. QED
  BY <1>2, <1>3 DEF EraseDisk

LEMMA GrowDiskImages ==
  ASSUME PlaceInv, Images, NEW p \in Procs, GrowDisk(p)
  PROVE  Images'
<1>. DEFINE d == req[p].vol
            growBy == req[p].new.size - req[p].copy.size
<1>t. Table /\ Requests /\ Disks
  BY Parts
<1>1. /\ req[p].op = "resize" /\ req[p].step = "read" /\ UNCHANGED <<row, plugged>>
      /\ \A q \in Procs : q # p => req'[q] = req[q]
      /\ req'[p].vol = d /\ req'[p].new = req[p].new
  BY <1>t DEF GrowDisk, Ready, Requests, Request
<1>2. /\ d \in Vols /\ req[p].vm \in Vms /\ req[p].copy.slot \in Slots
      /\ plugged[req[p].vm][req[p].copy.slot] = d
  BY <1>1, SlotHoldsDisk
<1>3. image' = [image EXCEPT ![d].size = @ + growBy]
  BY <1>2 DEF GrowDisk
<1>4. image[d] # NoImage /\ image[d].origin # NoVm /\ image[d].size >= row[d].size
  BY <1>2 DEF Images, PluggedKept, OriginsKnown, SizesKept
<1>5. /\ row[d].size = req[p].copy.size /\ req[p].new.size > req[p].copy.size
      /\ req[p].new.size \in Nat /\ req[p].copy.size \in Nat
  BY <1>t, <1>1, VolumeConstants DEF Requests, CopiesHold, NewsHold, SameVolume, Serves, Request, Row
<1>6. image[d] \in Image /\ image[d].size \in Nat
  BY <1>t, <1>2 DEF Disks, Image
<1>7. /\ \A e \in Vols : e # d => image'[e] = image[e]
      /\ image'[d].origin = image[d].origin /\ image'[d].size = image[d].size + growBy
  BY <1>t, <1>2, <1>3, <1>6 DEF Disks, Image
<1>8. image'[d] # NoImage /\ image'[d].size >= req[p].new.size /\ image'[d].size >= row[d].size
  BY <1>4, <1>5, <1>6, <1>7 DEF NoImage
<1>9. \A q \in Procs : q # p /\ req[q].op \in {"create", "resize"} /\ req[q].step = "done" =>
        req[q].vol \in Vols /\ req[q].vol # d
  BY <1>t, <1>2, DonePlugged DEF Requests, OnePerVolume
<1>10. PluggedKept'
  BY <1>1, <1>7, <1>8 DEF Images, PluggedKept
<1>11. OriginsKnown'
  BY <1>4, <1>7 DEF Images, OriginsKnown
<1>12. SizesKept'
  <2>1. \A e \in Vols : image'[e] # NoImage => image'[e].size >= row'[e].size
    BY <1>1, <1>7, <1>8 DEF Images, SizesKept
  <2>2. ASSUME NEW q \in Procs, req'[q].op \in {"create", "resize"}, req'[q].step = "done"
        PROVE  image'[req'[q].vol].size >= req'[q].new.size
    BY <2>2, <1>1, <1>7, <1>8, <1>9 DEF Images, SizesKept
  <2>. QED
    BY <2>1, <2>2 DEF SizesKept
<1>. QED
  BY <1>10, <1>11, <1>12 DEF Images

LEMMA DestroyGuestImages ==
  ASSUME "frees" \notin Faults, PlaceInv, Images, NEW p \in Procs, DestroyGuest(p)
  PROVE  Images'
<1>. DEFINE v == req[p].vm
<1>t. Table /\ Requests /\ Disks
  BY Parts
<1>1. req[p].step = "selected" /\ UNCHANGED row
  BY DEF DestroyGuest
<1>2. req[p].op = "terminate" /\ v \in Vms
  BY <1>1, StepsOfDeletion
<1>3. /\ \A q \in Procs : q # p => req'[q] = req[q]
      /\ req'[p].op = "terminate"
  BY <1>t, <1>2 DEF DestroyGuest, Requests, Request
<1>4. CASE UNCHANGED cluster
  BY <1>1, <1>3, <1>4, ImagesStay DEF cluster
<1>5. CASE /\ image' = [d \in Vols |-> IF d \in FreedWith(v) THEN NoImage ELSE image[d]]
           /\ plugged' = [plugged EXCEPT ![v] = [s \in Slots |-> NoVol]]
  <2>1. \A d \in Vols, u \in Vms, s \in Slots : plugged[u][s] = d => d \notin FreedWith(v)
    <3>1. ASSUME NEW d \in Vols, NEW u \in Vms, NEW s \in Slots, plugged[u][s] = d,
                 PluggedIn(d) \subseteq {v}
          PROVE  FALSE
      BY <3>1, <1>2, NothingPlugged, NullsTyped DEF PluggedIn
    <3>. QED
      BY <3>1 DEF FreedWith
  <2>2. \A d \in Vols : image'[d] = IF d \in FreedWith(v) THEN NoImage ELSE image[d]
    BY <1>5
  <2>3. \A d \in Vols, u \in Vms, s \in Slots : plugged'[u][s] = d => plugged[u][s] = d
    BY <1>t, <1>2, <1>5, NullsTyped DEF Disks
  <2>4. PluggedKept' /\ OriginsKnown'
    BY <2>1, <2>2, <2>3 DEF Images, PluggedKept, OriginsKnown
  <2>5. \A q \in Procs : req[q].op \in {"create", "resize"} /\ req[q].step = "done" =>
          req[q].vol \in Vols /\ image'[req[q].vol] = image[req[q].vol]
    BY <2>1, <2>2, DonePlugged
  <2>6. SizesKept'
    BY <1>1, <1>3, <2>2, <2>5 DEF Images, SizesKept
  <2>. QED
    BY <2>4, <2>6 DEF Images
<1>. QED
  BY <1>4, <1>5 DEF DestroyGuest

LEMMA CommitTerminateImages ==
  ASSUME PlaceInv, Images, NEW p \in Procs, CommitTerminate(p)
  PROVE  Images'
<1>t. Table /\ Requests
  BY Parts
<1>1. /\ req'[p] = Idle /\ \A q \in Procs : q # p => req'[q] = req[q]
      /\ UNCHANGED <<plugged, image>>
  BY <1>t, NullsTyped DEF CommitTerminate, Requests, cluster
<1>2. \A d \in Vols : row'[d].size = row[d].size
  <2>1. \A d \in Vols : [row[d] EXCEPT !.owner = NoVm].size = row[d].size
    BY <1>t DEF Table, Row
  <2>. QED
    BY <1>t, <2>1 DEF CommitTerminate, Table
<1>. QED
  BY <1>1, <1>2, NullsTyped, ImagesStay

LEMMA CommitImages ==
  ASSUME PlaceInv, Images, NEW p \in Procs, Commit(p)
  PROVE  Images'
<1>. DEFINE r == req[p]
            d == req[p].vol
            result == Result(req[p])
<1>t. Table /\ Requests /\ Disks
  BY Parts
<1>1. /\ r.op \in Serves /\ r.step = "done" /\ d \in Vols /\ req'[p] = Idle
      /\ \A q \in Procs : q # p => req'[q] = req[q]
      /\ UNCHANGED <<plugged, image>>
      /\ row' = [row EXCEPT ![d] = result]
  BY CommitFacts
<1>2. /\ r.op \in {"create", "resize"} => result.size = r.new.size
      /\ r.op \in {"attach", "detach"} => result.size = row[d].size
  BY <1>1, ResultFields
<1>3. r.op = "delete" => result.size = 0
  BY NullsTyped DEF Result
<1>. HIDE DEF result
<1>4. \A e \in Vols : row'[e] = IF e = d THEN result ELSE row[e]
  BY <1>t, <1>1 DEF Table
<1>5. image[d] # NoImage => image[d].size >= result.size
  <2>1. CASE r.op \in {"create", "resize"}
    BY <1>1, <1>2, <2>1 DEF Images, SizesKept
  <2>2. CASE r.op \in {"attach", "detach"}
    BY <1>1, <1>2, <2>2 DEF Images, SizesKept
  <2>3. CASE r.op = "delete"
    BY <1>t, <1>1, <1>3, <2>3 DEF Disks, Image
  <2>. QED
    BY <1>1, <2>1, <2>2, <2>3 DEF Serves, Plugs
<1>6. SizesKept'
  BY <1>1, <1>4, <1>5, NullsTyped DEF Images, SizesKept
<1>. QED
  BY <1>1, <1>6 DEF Images, PluggedKept, OriginsKnown

LEMMA ImageStep ==
  ASSUME Faults = {}, PlaceInv, Images, [Next]_vars
  PROVE  Images'
<1>t. Requests
  BY Parts
<1>o. Orderly
  BY DEF Orderly
<1>1. ASSUME NEW p \in Procs, NEW r, Start(p, r), Begins(r)
      PROVE  Images'
  <2>1. /\ req'[p].step # "done" /\ \A q \in Procs : q # p => req'[q] = req[q]
        /\ UNCHANGED <<row, plugged, image>>
    BY <1>t, <1>1 DEF Start, Begins, cluster, Requests
  <2>. QED
    BY <2>1, ImagesStay
<1>2. ASSUME NEW p \in Procs, Reads(p)
      PROVE  Images'
  BY <1>o, <1>1, <1>2, ReadsBegin
<1>3. ASSUME NEW p \in Procs, NEW v \in Vms, CheckAttached(p, v)
      PROVE  Images'
  BY <1>o, <1>1, <1>3, CheckAttachedBegins
<1>4. ASSUME NEW p \in Procs, EndsEarly(p) \/ FlushFails(p)
      PROVE  Images'
  <2>1. req'[p] = Idle /\ (\A q \in Procs : q # p => req'[q] = req[q])
        /\ UNCHANGED <<row, plugged, image>>
    BY <1>t, <1>4 DEF EndsEarly, FlushFails, cluster, Requests
  <2>. QED
    BY <2>1, NullsTyped, ImagesStay
<1>5. ASSUME NEW p \in Procs, SelectOrphans(p)
      PROVE  Images'
  <2>1. /\ req'[p].step = "selected" /\ \A q \in Procs : q # p => req'[q] = req[q]
        /\ UNCHANGED <<row, plugged, image>>
    BY <1>t, <1>5 DEF SelectOrphans, cluster, Requests, Request
  <2>. QED
    BY <2>1, ImagesStay
<1>6. ASSUME NEW p \in Procs, Unplug(p)
      PROVE  Images'
  <2>1. req[p].op = "detach" /\ req[p].step = "read"
    BY <1>6 DEF Unplug, Ready
  <2>2. req[p].vm \in Vms /\ req[p].copy.slot \in Slots
    BY <2>1, SlotHoldsDisk
  <2>3. /\ req'[p].op = "detach" /\ \A q \in Procs : q # p => req'[q] = req[q]
        /\ UNCHANGED <<row, image>>
    BY <1>t, <1>6, <2>1 DEF Unplug, Requests, Request
  <2>4. \A d \in Vols, u \in Vms, s \in Slots : plugged'[u][s] = d => plugged[u][s] = d
    <3>1. plugged' = [plugged EXCEPT ![req[p].vm][req[p].copy.slot] = NoVol]
      BY <1>6 DEF Unplug
    <3>. QED
      BY <2>2, <3>1, Parts, NullsTyped DEF Disks
  <2>. QED
    BY <2>3, <2>4 DEF Images, PluggedKept, OriginsKnown, SizesKept
<1>7. ASSUME NEW p \in Procs, Terminates(p)
      PROVE  Images'
  BY <1>3, <1>4, <1>5, <1>7, DestroyGuestImages, CommitTerminateImages DEF Terminates
<1>8. CASE UNCHANGED vars
  BY <1>8 DEF vars, Images, PluggedKept, OriginsKnown, SizesKept
<1>. QED
  BY <1>2, <1>4, <1>6, <1>7, <1>8, CreateDiskImages, PlugAgainImages, EraseDiskImages,
     GrowDiskImages, CommitImages DEF Next

LEMMA ImagesFollow ==
  ASSUME PlaceInv, Images
  PROVE  AttachedImageExists /\ SizeCovered
<1>1. ASSUME NEW d \in Vols, row[d].status = "attached", Settled(d)
      PROVE  image[d] # NoImage
  <2>1. row[d].vm \in Vms /\ row[d].slot \in Slots
    BY <1>1, Parts DEF Table, Row
  <2>2. plugged[row[d].vm][row[d].slot] = d
    BY <1>1, PlacesFollow DEF AttachedIsPlugged
  <2>. QED
    BY <2>1, <2>2 DEF Images, PluggedKept
<1>. QED
  BY <1>1 DEF AttachedImageExists, SizeCovered, Images, SizesKept

-----------------------------------------------------------------------------
(* Theorems about images *)

(***************************************************************************)
(* The image of an attached volume exists, also after the VM it was made   *)
(* on is gone, when in addition the storage frees no image in use.         *)
(***************************************************************************)
THEOREM AttachedImagesExist ==
  ASSUME Faults = {}
  PROVE  Spec => []AttachedImageExists
<1>1. PlaceInv /\ Images /\ [Next]_vars => PlaceInv' /\ Images'
  BY PlaceStep, ImageStep DEF Orderly
<1>2. PlaceInv /\ Images => AttachedImageExists
  BY ImagesFollow
<1>. QED
  BY PlaceStarts, ImagesStart, <1>1, <1>2, PTL DEF Spec

(***************************************************************************)
(* It is at least as large as the row says, under the same assumption.     *)
(***************************************************************************)
THEOREM SizesCovered ==
  ASSUME Faults = {}
  PROVE  Spec => []SizeCovered
<1>1. PlaceInv /\ Images /\ [Next]_vars => PlaceInv' /\ Images'
  BY PlaceStep, ImageStep DEF Orderly
<1>2. PlaceInv /\ Images => SizeCovered
  BY ImagesFollow
<1>. QED
  BY PlaceStarts, ImagesStart, <1>1, <1>2, PTL DEF Spec
=============================================================================
