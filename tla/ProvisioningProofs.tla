------------------------- MODULE ProvisioningProofs -------------------------
(***************************************************************************)
(* Theorems about Provisioning, for every set of VMIDs, users, requests    *)
(* and faults.                                                             *)
(***************************************************************************)
EXTENDS Provisioning, TLAPS

\* A request that works on a VMID has one: what TypeOK needs to be inductive.
CreateHasVmid ==
    \A r \in Creates :
        create[r].step \in {"picked", "reserved", "cloned", "releasing", "recorded"}
            => create[r].vmid \in Vmids

ImportHasVmid ==
    \A i \in Imports : imp[i].step = "checked" => imp[i].vmid \in Vmids

TypeInv == TypeOK /\ CreateHasVmid /\ ImportHasVmid

LEMMA NoDeletionType ==
  ASSUME NEW step \in DeleteSteps
  PROVE  NoDeletion(step) \in DeleteState
  BY DEF NoDeletion, DeleteState

\* Moving a create request to another step keeps its state well formed.
LEMMA CreateStepType ==
  ASSUME NEW c \in [Creates -> CreateState], NEW r \in Creates, NEW step \in CreateSteps
  PROVE  [c EXCEPT ![r].step = step] \in [Creates -> CreateState]
  BY DEF CreateState

LEMMA CreateUsedType ==
  ASSUME NEW c \in [Creates -> CreateState], NEW r \in Creates, NEW step \in CreateSteps,
         NEW used \in SUBSET Vmids
  PROVE  [c EXCEPT ![r].step = step, ![r].used = used] \in [Creates -> CreateState]
  BY DEF CreateState

LEMMA InitTyped == Init => TypeOK
  BY NoDeletionType DEF Init, TypeOK, DeleteSteps, CreateSteps, CreateState, ImportState, ImportSteps, Instances

\* The steps of a create request keep the types.
LEMMA CreateTyped ==
  ASSUME TypeOK, CreateHasVmid, NEW r \in Creates, CreateStep(r)
  PROVE  TypeOK'
<1> USE CreateStepType DEF TypeOK
<1>0. {"admitted", "pool_seen", "rows_seen", "done", "failed", "recorded", "reserved", "cloned", "releasing", "conflict"} \subseteq CreateSteps
  BY DEF CreateSteps
<1>1. CASE Admit(r)
  BY <1>0, <1>1 DEF Admit
<1>2. CASE SeePool(r)
  BY <1>0, <1>2, CreateUsedType DEF SeePool
<1>3. CASE SeeRows(r)
  <2> DEFINE seen == create[r].used \union {v \in Vmids : RowsAt(v) # {}}
  <2>1. seen \in SUBSET Vmids
    BY DEF CreateState
  <2>2. create' = [create EXCEPT ![r].step = "rows_seen", ![r].used = seen]
    BY <1>3 DEF SeeRows
  <2>3. create' \in [Creates -> CreateState]
    BY <1>0, <2>1, <2>2, CreateUsedType
  <2> QED
    BY <1>3, <2>3 DEF SeeRows
<1>4. CASE Pick(r)
  <2>1. ASSUME NEW v \in Vmids,
               create' = [create EXCEPT ![r] = [step |-> "picked", used |-> {}, vmid |-> v]]
        PROVE  create' \in [Creates -> CreateState]
    <3>1. [step |-> "picked", used |-> {}, vmid |-> v] \in CreateState
      BY DEF CreateState, CreateSteps
    <3> QED
      BY <2>1, <3>1
  <2>2. ASSUME create' = [create EXCEPT ![r].step = "failed", ![r].used = {}]
        PROVE  create' \in [Creates -> CreateState]
    BY <1>0, <2>2, CreateUsedType
  <2> QED
    BY <1>4, <2>1, <2>2 DEF Pick
<1>5. CASE Reserve(r)
  BY <1>0, <1>5 DEF Reserve
<1>6. CASE Clone(r)
  BY <1>0, <1>6 DEF Clone, Instances
<1>7. CASE Release(r)
  BY <1>0, <1>7 DEF Release
<1>8. CASE Record(r)
  <2>1. create' \in [Creates -> CreateState]
    BY <1>0, <1>8 DEF Record
  <2>2. pool' \in [Vmids -> ResIds \union {Free, Unlinked}]
    BY <1>8 DEF Record, ResIds
  <2>3. create[r].vmid \in Vmids
    BY <1>8 DEF Record, CreateHasVmid
  <2>4. NewRows(r) \subseteq Row
    BY <2>3 DEF NewRows, Row, Instances, Types
  <2>5. rows' \in [ResIds -> Row \union {NoRow}]
    BY <1>8, <2>4 DEF Record
  <2> QED
    BY <1>8, <2>1, <2>2, <2>5 DEF Record
<1>9. CASE Finish(r)
  BY <1>0, <1>9 DEF Finish
<1>10. CASE FailLate(r)
  BY <1>0, <1>10 DEF FailLate
<1>11. CASE CloneAborts(r)
  BY <1>11 DEF CloneAborts
<1>12. CASE RecordRefused(r)
  BY <1>0, <1>12 DEF RecordRefused
<1> QED
  BY <1>1, <1>2, <1>3, <1>4, <1>5, <1>6, <1>7, <1>8, <1>9, <1>10, <1>11, <1>12
  DEF CreateStep

LEMMA DeleteTyped ==
  ASSUME TypeOK, NEW d \in Deletes, DeleteStep(d)
  PROVE  TypeOK'
<1> USE DEF TypeOK
<1>1. ASSUME NEW x \in ResIds, NEW kind \in {"terminate", "unlink"}, Fetch(d, x, kind)
      PROVE  TypeOK'
  <2>1. rows[x] \in Row
    BY <1>1 DEF Fetch, RowExists
  <2>2. [step |-> "fetched", kind |-> kind, res |-> x,
         vmid |-> rows[x].vmid, inst |-> rows[x].inst] \in DeleteState
    BY <2>1 DEF Row, DeleteState, DeleteSteps
  <2> QED
    BY <1>1, <2>2 DEF Fetch
<1>2. CASE Purge(d)
  <2>1. del' \in [Deletes -> DeleteState]
    BY <1>2 DEF Purge, DeleteState, DeleteSteps
  <2> QED
    BY <1>2, <2>1 DEF Purge
<1>3. CASE Drop(d)
  <2>1. NoDeletion("done") \in DeleteState
    BY NoDeletionType DEF DeleteSteps
  <2>2. del' \in [Deletes -> DeleteState]
    BY <1>3, <2>1 DEF Drop
  <2> QED
    BY <1>3, <2>2 DEF Drop
<1> QED
  BY <1>1, <1>2, <1>3 DEF DeleteStep

LEMMA ImportTyped ==
  ASSUME TypeOK, ImportHasVmid, NEW i \in Imports, ImportStep(i)
  PROVE  TypeOK'
<1> USE DEF TypeOK
<1>1. ASSUME NEW v \in Vmids, CheckImport(i, v)
      PROVE  TypeOK'
  <2>1. imp' \in [Imports -> ImportState]
    BY <1>1 DEF CheckImport, ImportState, ImportSteps
  <2> QED
    BY <1>1, <2>1 DEF CheckImport
<1>2. CASE CommitImport(i)
  <2> DEFINE v == imp[i].vmid
  <2>1. imp' \in [Imports -> ImportState]
    BY <1>2 DEF CommitImport, ImportState, ImportSteps
  <2>2. v \in Vmids
    BY <1>2 DEF CommitImport, ImportHasVmid
  <2>3. [vmid : {v}, type : Types, status : {"running"},
         protected : {FALSE}, inst : {pve[v]}] \subseteq Row
    BY <1>2, <2>2 DEF Row, CommitImport
  <2>4. rows' \in [ResIds -> Row \union {NoRow}]
    BY <1>2, <2>3 DEF CommitImport
  <2>5. pool' \in [Vmids -> ResIds \union {Free, Unlinked}]
    BY <1>2 DEF CommitImport
  <2> QED
    BY <1>2, <2>1, <2>4, <2>5 DEF CommitImport
<1>3. CASE ImportRefused(i)
  <2>1. imp' \in [Imports -> ImportState]
    BY <1>3 DEF ImportRefused, ImportState, ImportSteps
  <2> QED
    BY <1>3, <2>1 DEF ImportRefused
<1> QED
  BY <1>1, <1>2, <1>3 DEF ImportStep

LEMMA OtherTyped ==
  ASSUME TypeOK
  PROVE  /\ \A x \in ResIds, enabled \in BOOLEAN : SetProtection(x, enabled) => TypeOK'
         /\ ApiCrash => TypeOK'
<1> USE DEF TypeOK
<1>1. ASSUME NEW x \in ResIds, NEW enabled \in BOOLEAN, SetProtection(x, enabled)
      PROVE  TypeOK'
  <2>1. rows[x] \in Row
    BY <1>1 DEF SetProtection, RowExists
  <2>2. [rows[x] EXCEPT !.protected = enabled] \in Row
    BY <2>1 DEF Row
  <2>3. rows' = [rows EXCEPT ![x] = [rows[x] EXCEPT !.protected = enabled]]
    BY <1>1 DEF SetProtection
  <2>4. rows' \in [ResIds -> Row \union {NoRow}]
    BY <2>2, <2>3
  <2> QED
    BY <1>1, <2>4 DEF SetProtection
<1>2. ASSUME ApiCrash
      PROVE  TypeOK'
  <2>1. \A r \in Creates : [create[r] EXCEPT !.step = "lost"] \in CreateState
    BY DEF CreateState, CreateSteps
  <2>2. \A i \in Imports : [imp[i] EXCEPT !.step = "lost"] \in ImportState
    BY DEF ImportState, ImportSteps
  <2>3. NoDeletion("lost") \in DeleteState
    BY NoDeletionType DEF DeleteSteps
  <2>4. create' \in [Creates -> CreateState]
    BY <1>2, <2>1 DEF ApiCrash
  <2>5. imp' \in [Imports -> ImportState]
    BY <1>2, <2>2 DEF ApiCrash
  <2>6. del' \in [Deletes -> DeleteState]
    BY <1>2, <2>3 DEF ApiCrash
  <2> QED
    BY <1>2, <2>4, <2>5, <2>6 DEF ApiCrash
<1> QED
  BY <1>1, <1>2

(***************************************************************************)
(* Moves(r, s): of all create requests only r changes, it goes to step s   *)
(* and its VMID stays.                                                     *)
(***************************************************************************)
Moves(r, s) ==
    /\ create'[r].step = s
    /\ create'[r].vmid = create[r].vmid
    /\ \A q \in Creates \ {r} : create'[q] = create[q]

LEMMA AssignMoves ==
  ASSUME TypeOK, NEW r \in Creates, NEW s,
         \/ create' = [create EXCEPT ![r].step = s]
         \/ \E used : create' = [create EXCEPT ![r].step = s, ![r].used = used]
  PROVE  Moves(r, s)
<1>1. create \in [Creates -> CreateState]
  BY DEF TypeOK
<1>2. CASE create' = [create EXCEPT ![r].step = s]
  BY <1>1, <1>2 DEF Moves, CreateState
<1>3. CASE \E used : create' = [create EXCEPT ![r].step = s, ![r].used = used]
  BY <1>1, <1>3 DEF Moves, CreateState
<1> QED
  BY <1>2, <1>3

LEMMA PickEffect ==
  ASSUME TypeOK, NEW r \in Creates, Pick(r)
  PROVE  \/ Moves(r, "failed")
         \/ /\ create'[r].step = "picked" /\ create'[r].vmid \in Vmids
            /\ \A q \in Creates \ {r} : create'[q] = create[q]
<1>1. create \in [Creates -> CreateState]
  BY DEF TypeOK
<1>2. ASSUME create' = [create EXCEPT ![r].step = "failed", ![r].used = {}]
      PROVE  Moves(r, "failed")
  BY <1>2, AssignMoves
<1>3. ASSUME NEW v \in Vmids,
             create' = [create EXCEPT ![r] = [step |-> "picked", used |-> {}, vmid |-> v]]
      PROVE  /\ create'[r].step = "picked" /\ create'[r].vmid \in Vmids
             /\ \A q \in Creates \ {r} : create'[q] = create[q]
  BY <1>1, <1>3
<1> QED
  BY <1>2, <1>3 DEF Pick

\* Every step but Pick and the abort of the clone is a move.
LEMMA CreateEffect ==
  ASSUME TypeOK, NEW r \in Creates
  PROVE  /\ Admit(r) => Moves(r, "admitted")
         /\ SeePool(r) => Moves(r, "pool_seen")
         /\ SeeRows(r) => Moves(r, "rows_seen")
         /\ Reserve(r) => Moves(r, "reserved") \/ Moves(r, "failed")
         /\ Clone(r) => Moves(r, "cloned") \/ Moves(r, "releasing")
         /\ Release(r) => Moves(r, "failed")
         /\ Record(r) => Moves(r, "recorded")
         /\ RecordRefused(r) => Moves(r, "conflict")
         /\ Finish(r) => Moves(r, "done")
         /\ FailLate(r) => Moves(r, "failed")
<1>1. Admit(r) => Moves(r, "admitted")
  BY AssignMoves DEF Admit
<1>2. SeePool(r) => Moves(r, "pool_seen")
  BY AssignMoves DEF SeePool
<1>3. SeeRows(r) => Moves(r, "rows_seen")
  BY AssignMoves DEF SeeRows
<1>4. Reserve(r) => Moves(r, "reserved") \/ Moves(r, "failed")
  BY AssignMoves DEF Reserve
<1>5. Clone(r) => Moves(r, "cloned") \/ Moves(r, "releasing")
  BY AssignMoves DEF Clone
<1>6. Release(r) \/ FailLate(r) => Moves(r, "failed")
  BY AssignMoves DEF Release, FailLate
<1>7. Record(r) => Moves(r, "recorded")
  BY AssignMoves DEF Record
<1>8. RecordRefused(r) => Moves(r, "conflict")
  BY AssignMoves DEF RecordRefused
<1>9. Finish(r) => Moves(r, "done")
  BY AssignMoves DEF Finish
<1> QED
  BY <1>1, <1>2, <1>3, <1>4, <1>5, <1>6, <1>7, <1>8, <1>9

\* What the steps of a deletion do to the copy of the row it holds
LEMMA DeleteEffect ==
  ASSUME TypeOK, NEW d \in Deletes
  PROVE  /\ \A e \in Deletes \ {d} : DeleteStep(d) => del'[e] = del[e]
         /\ \A x \in ResIds, kind \in {"terminate", "unlink"} : Fetch(d, x, kind) =>
                /\ del'[d].step = "fetched" /\ del'[d].res = x
                /\ del'[d].vmid = rows[x].vmid /\ del'[d].inst = rows[x].inst
         /\ Purge(d) => /\ del'[d].step = "purged" /\ del'[d].res = del[d].res
                        /\ del'[d].vmid = del[d].vmid /\ del'[d].inst = del[d].inst
         /\ Drop(d) => del'[d].step = "done"
<1>1. del \in [Deletes -> DeleteState]
  BY DEF TypeOK
<1>2. \A e \in Deletes \ {d} : DeleteStep(d) => del'[e] = del[e]
  BY <1>1 DEF DeleteStep, Fetch, Purge, Drop
<1>3. ASSUME NEW x \in ResIds, NEW kind \in {"terminate", "unlink"}, Fetch(d, x, kind)
      PROVE  /\ del'[d].step = "fetched" /\ del'[d].res = x
             /\ del'[d].vmid = rows[x].vmid /\ del'[d].inst = rows[x].inst
  BY <1>1, <1>3 DEF Fetch
<1>4. Purge(d) => /\ del'[d].step = "purged" /\ del'[d].res = del[d].res
                  /\ del'[d].vmid = del[d].vmid /\ del'[d].inst = del[d].inst
  BY <1>1 DEF Purge, DeleteState
<1>5. Drop(d) => del'[d].step = "done"
  BY <1>1 DEF Drop, NoDeletion
<1> QED
  BY <1>2, <1>3, <1>4, <1>5

LEMMA ImportEffect ==
  ASSUME TypeOK, NEW i \in Imports
  PROVE  /\ \A j \in Imports \ {i} : ImportStep(i) => imp'[j] = imp[j]
         /\ \A v \in Vmids : CheckImport(i, v) => imp'[i].step = "checked" /\ imp'[i].vmid = v
         /\ CommitImport(i) => imp'[i].step = "done"
         /\ ImportRefused(i) => imp'[i].step = "failed"
<1>1. imp \in [Imports -> ImportState]
  BY DEF TypeOK
<1>2. \A j \in Imports \ {i} : ImportStep(i) => imp'[j] = imp[j]
  BY <1>1 DEF ImportStep, CheckImport, CommitImport, ImportRefused
<1>3. ASSUME NEW v \in Vmids, CheckImport(i, v)
      PROVE  imp'[i].step = "checked" /\ imp'[i].vmid = v
  BY <1>1, <1>3 DEF CheckImport
<1>4. CommitImport(i) => imp'[i].step = "done"
  BY <1>1 DEF CommitImport, ImportState
<1>5. ImportRefused(i) => imp'[i].step = "failed"
  BY <1>1 DEF ImportRefused, ImportState
<1> QED
  BY <1>2, <1>3, <1>4, <1>5

\* A crash ends what is under way and touches nothing else.
LEMMA CrashCreates ==
  ASSUME TypeOK, ApiCrash, NEW r \in Creates
  PROVE  /\ create'[r].vmid = create[r].vmid
         /\ Creating(r) => create'[r].step = "lost"
         /\ ~Creating(r) => create'[r].step = create[r].step
  BY DEF TypeOK, ApiCrash, CreateState

LEMMA CrashDeletes ==
  ASSUME TypeOK, ApiCrash, NEW d \in Deletes
  PROVE  del'[d].step \notin {"fetched", "purged"}
  BY DEF TypeOK, ApiCrash, Deleting, NoDeletion

LEMMA CrashImports ==
  ASSUME TypeOK, ApiCrash, NEW i \in Imports
  PROVE  /\ imp'[i].step # "checked"
         /\ imp[i].step # "checked" => imp'[i].step = imp[i].step
  BY DEF TypeOK, ApiCrash, ImportState

-----------------------------------------------------------------------------
(* Type correctness *)

LEMMA VmidPreserved ==
  ASSUME TypeInv, Next
  PROVE  CreateHasVmid' /\ ImportHasVmid'
<1> USE DEF TypeInv, CreateHasVmid, ImportHasVmid
<1>1. ASSUME NEW r \in Creates, CreateStep(r)
      PROVE  CreateHasVmid'
  <2>1. CASE Pick(r)
    BY <2>1, PickEffect DEF Moves
  <2>2. CASE CloneAborts(r)
    BY <2>2 DEF CloneAborts
  <2>3. CASE ~Pick(r) /\ ~CloneAborts(r)
    <3> USE CreateEffect DEF Moves
    <3>1. CASE Admit(r) \/ SeePool(r) \/ SeeRows(r)
      BY <3>1
    <3>2. CASE Reserve(r)
      BY <3>2 DEF Reserve
    <3>3. CASE Clone(r)
      BY <3>3 DEF Clone
    <3>4. CASE Release(r) \/ FailLate(r) \/ Finish(r) \/ RecordRefused(r)
      BY <3>4
    <3>5. CASE Record(r)
      BY <3>5 DEF Record
    <3> QED
      BY <1>1, <2>3, <3>1, <3>2, <3>3, <3>4, <3>5 DEF CreateStep
  <2> QED
    BY <2>1, <2>2, <2>3
<1>2. ASSUME NEW i \in Imports, ImportStep(i)
      PROVE  ImportHasVmid'
  BY <1>2, ImportEffect DEF ImportStep
<1>3. ASSUME UNCHANGED create
      PROVE  CreateHasVmid'
  BY <1>3
<1>4. ASSUME UNCHANGED imp
      PROVE  ImportHasVmid'
  BY <1>4
<1>5. CASE ApiCrash
  BY <1>5, CrashCreates, CrashImports DEF Creating
<1>6. ASSUME NEW r \in Creates, CreateStep(r)
      PROVE  UNCHANGED imp
  BY <1>6 DEF CreateStep, Admit, SeePool, SeeRows, Pick, Reserve, Clone, Release, Record,
              RecordRefused, Finish, FailLate, CloneAborts
<1>7. ASSUME NEW d \in Deletes, DeleteStep(d)
      PROVE  UNCHANGED <<create, imp>>
  BY <1>7 DEF DeleteStep, Fetch, Purge, Drop
<1>8. ASSUME NEW i \in Imports, ImportStep(i)
      PROVE  UNCHANGED create
  BY <1>8 DEF ImportStep, CheckImport, CommitImport, ImportRefused
<1>9. ASSUME NEW x \in ResIds, NEW enabled \in BOOLEAN, SetProtection(x, enabled)
      PROVE  UNCHANGED <<create, imp>>
  BY <1>9 DEF SetProtection
<1> QED
  BY <1>1, <1>2, <1>3, <1>4, <1>5, <1>6, <1>7, <1>8, <1>9 DEF Next

LEMMA TypeInvInit == Init => TypeInv
  BY InitTyped DEF Init, TypeInv, CreateHasVmid, ImportHasVmid

LEMMA TypeInvStep == TypeInv /\ [Next]_vars => TypeInv'
<1> SUFFICES ASSUME TypeInv, [Next]_vars
             PROVE  TypeInv'
  OBVIOUS
<1>1. CASE Next
  <2>1. TypeOK'
    BY <1>1, CreateTyped, DeleteTyped, ImportTyped, OtherTyped DEF Next, TypeInv
  <2> QED
    BY <1>1, <2>1, VmidPreserved DEF TypeInv
<1>2. CASE UNCHANGED vars
  BY <1>2 DEF vars, TypeInv, TypeOK, CreateHasVmid, ImportHasVmid
<1> QED
  BY <1>1, <1>2

(***************************************************************************)
(* Every value stays in its type in every behaviour, with any faults.      *)
(***************************************************************************)
THEOREM TypeCorrect == Spec => []TypeOK
<1>1. Init => TypeInv
  BY TypeInvInit
<1>2. TypeInv /\ [Next]_vars => TypeInv'
  BY TypeInvStep
<1>3. TypeInv => TypeOK
  BY DEF TypeInv
<1> QED
  BY <1>1, <1>2, <1>3, PTL DEF Spec

-----------------------------------------------------------------------------
(***************************************************************************)
(* The references between the tables, whatever goes wrong.  A row appears  *)
(* once, when its request records it, and a deletion holds the VMID of a   *)
(* row that has appeared.                                                  *)
(***************************************************************************)
Born(x) ==
    /\ x \in Creates => create[x].step \in {"recorded", "done", "failed", "lost"}
    /\ x \in Imports => imp[x].step = "done"

RowsBorn == \A x \in ResIds : RowExists(x) => Born(x)

HandlesKnown ==
    \A d \in Deletes : Deleting(d) =>
        /\ del[d].res \in ResIds
        /\ Born(del[d].res)
        /\ RowExists(del[d].res) => rows[del[d].res].vmid = del[d].vmid

TableInv == RowsBorn /\ HandlesKnown /\ LinkedRows /\ ReservationAccounted

LEMMA TableInvInit == Init => TableInv
  BY NoRowIsNull, NullsAreDistinct
  DEF Init, TableInv, RowsBorn, HandlesKnown, LinkedRows, ReservationAccounted, RowExists,
      Deleting, NoDeletion

\* Steps that move a create request and leave both tables alone
LEMMA TableInvMove ==
  ASSUME TypeInv, TableInv, NEW r \in Creates, UNCHANGED <<pool, rows, del, imp>>,
         \/ Admit(r) \/ SeePool(r) \/ SeeRows(r) \/ Pick(r) \/ Clone(r)
         \/ RecordRefused(r) \/ Finish(r)
  PROVE  TableInv'
<1>1. \A q \in Creates \ {r} : create'[q] = create[q]
  BY CreateEffect, PickEffect DEF TypeInv, Moves
<1>2. \A x \in ResIds : Born(x) => Born(x)'
  BY <1>1, CreateEffect DEF TypeInv, Moves, Born, Admit, SeePool, SeeRows, Pick, Clone,
     RecordRefused, Finish
<1>3. RowsBorn'
  BY <1>2 DEF TableInv, RowsBorn, RowExists
<1>4. HandlesKnown'
  BY <1>2 DEF TableInv, HandlesKnown, RowExists, Deleting
<1>5. LinkedRows'
  BY DEF TableInv, LinkedRows, RowExists
<1>6. \A v \in Vmids :
        /\ create[r].vmid = v
        /\ InFlight(r) \/ create[r].step \in {"lost", "conflict"}
        => /\ create'[r].vmid = v
           /\ InFlight(r)' \/ create'[r].step \in {"lost", "conflict"}
  BY CreateEffect DEF TypeInv, Moves, InFlight, Admit, SeePool, SeeRows, Pick, Clone,
     RecordRefused, Finish
<1>7. ReservationAccounted'
  BY <1>1, <1>6 DEF TableInv, ReservationAccounted, RowExists, InFlight
<1> QED
  BY <1>3, <1>4, <1>5, <1>7 DEF TableInv

LEMMA TableInvReserve ==
  ASSUME TypeInv, TableInv, NEW r \in Creates, Reserve(r)
  PROVE  TableInv'
<1> DEFINE v == create[r].vmid
<1>1. \A q \in Creates \ {r} : create'[q] = create[q]
  BY CreateEffect DEF TypeInv, Moves
<1>2. v \in Vmids /\ create'[r].vmid = v
  BY CreateEffect DEF TypeInv, Moves, CreateHasVmid, Reserve
<1>3. \A x \in ResIds : Born(x) => Born(x)'
  BY <1>1 DEF Born, Reserve
<1>4. RowsBorn'
  BY <1>3 DEF TableInv, RowsBorn, RowExists, Reserve
<1>5. HandlesKnown'
  BY <1>3 DEF TableInv, HandlesKnown, RowExists, Deleting, Reserve
<1>6. CASE pool' = [pool EXCEPT ![v] = Unlinked] /\ create'[r].step = "reserved"
  <2>1. \A w \in Vmids : pool'[w] = IF w = v THEN Unlinked ELSE pool[w]
    BY <1>6 DEF TypeInv, TypeOK
  <2>2. LinkedRows'
    BY <2>1, NullsAreDistinct DEF TableInv, LinkedRows, RowExists, Reserve
  <2>3. ReservationAccounted'
    BY <1>1, <1>2, <1>6, <2>1
    DEF TableInv, ReservationAccounted, RowExists, InFlight, Reserve
  <2> QED
    BY <1>4, <1>5, <2>2, <2>3 DEF TableInv
<1>7. CASE UNCHANGED pool
  <2>1. LinkedRows'
    BY <1>7 DEF TableInv, LinkedRows, RowExists, Reserve
  <2>2. ReservationAccounted'
    BY <1>1, <1>7 DEF TableInv, ReservationAccounted, RowExists, InFlight, Reserve
  <2> QED
    BY <1>4, <1>5, <2>1, <2>2 DEF TableInv
<1> QED
  BY <1>6, <1>7, CreateEffect DEF Reserve, TypeInv, TypeOK, CreateState

\* Giving the pool row back, before the row exists or after it
LEMMA TableInvRelease ==
  ASSUME TypeInv, TableInv, NEW r \in Creates, Release(r) \/ FailLate(r)
  PROVE  TableInv'
<1> DEFINE v == create[r].vmid
<1>1. Moves(r, "failed")
  BY CreateEffect DEF TypeInv
<1>2. \A w \in Vmids : pool'[w] = IF w = v THEN Free ELSE pool[w]
  BY DEF Release, FailLate, TypeInv, TypeOK
<1>3. \A x \in ResIds : Born(x) => Born(x)'
  BY <1>1 DEF Born, Moves, Release, FailLate
<1>4. RowsBorn'
  BY <1>3 DEF TableInv, RowsBorn, RowExists, Release, FailLate
<1>5. HandlesKnown'
  BY <1>3 DEF TableInv, HandlesKnown, RowExists, Deleting, Release, FailLate
<1>6. LinkedRows'
  BY <1>2, NullsAreDistinct DEF TableInv, LinkedRows, RowExists, Release, FailLate
<1>7. ReservationAccounted'
  BY <1>1, <1>2, NullsAreDistinct
  DEF TableInv, ReservationAccounted, RowExists, InFlight, Moves, Release, FailLate
<1> QED
  BY <1>4, <1>5, <1>6, <1>7 DEF TableInv

LEMMA TableInvRecord ==
  ASSUME TypeInv, TableInv, NEW r \in Creates, Record(r)
  PROVE  TableInv'
<1> DEFINE v == create[r].vmid
<1>1. Moves(r, "recorded")
  BY CreateEffect DEF TypeInv
<1>2. v \in Vmids
  BY DEF TypeInv, CreateHasVmid, Record
<1>3. \A w \in Vmids : pool'[w] = IF w = v /\ pool[v] # Free THEN r ELSE pool[w]
  BY DEF Record, TypeInv, TypeOK
<1>4. ~RowExists(r)
  BY DEF TableInv, RowsBorn, Born, Record, ResIds
<1>5. PICK row \in NewRows(r) : rows' = [rows EXCEPT ![r] = row]
  BY DEF Record
<1>6. row \in Row /\ row.vmid = v
  BY <1>2 DEF NewRows, Row, Instances, Types
<1>7. RowExists(r)' /\ rows'[r].vmid = v
  BY <1>5, <1>6, NoRowIsNull DEF RowExists, ResIds, TypeInv, TypeOK
<1>8. \A x \in ResIds \ {r} : rows'[x] = rows[x]
  BY <1>5 DEF TypeInv, TypeOK
<1>9. \A x \in ResIds : Born(x) => Born(x)'
  BY <1>1 DEF Born, Moves, Record
<1>10. RowsBorn'
  BY <1>1, <1>8, <1>9, RequestsAreDistinct DEF TableInv, RowsBorn, RowExists, Born, Moves
<1>11. HandlesKnown'
  BY <1>8, <1>9 DEF TableInv, HandlesKnown, RowExists, Deleting, Record, Born
<1>12. LinkedRows'
  BY <1>3, <1>4, <1>7, <1>8, NullsAreDistinct DEF TableInv, LinkedRows, RowExists
<1>13. ReservationAccounted'
  BY <1>1, <1>2, <1>3, <1>8, NullsAreDistinct, RequestsAreDistinct
  DEF TableInv, ReservationAccounted, RowExists, InFlight, Moves, ResIds, Record
<1> QED
  BY <1>10, <1>11, <1>12, <1>13 DEF TableInv

LEMMA TableInvCluster ==
  ASSUME TypeInv, TableInv, UNCHANGED <<pool, rows, create, imp>>,
         UNCHANGED del \/ \E d \in Deletes : Purge(d)
  PROVE  TableInv'
<1>1. RowsBorn'
  BY DEF TableInv, RowsBorn, Born, RowExists
<1>2. HandlesKnown'
  BY DeleteEffect DEF TypeInv, TableInv, HandlesKnown, Born, RowExists, Deleting, DeleteStep,
     Purge
<1>3. LinkedRows'
  BY DEF TableInv, LinkedRows, RowExists
<1>4. ReservationAccounted'
  BY DEF TableInv, ReservationAccounted, RowExists, InFlight
<1> QED
  BY <1>1, <1>2, <1>3, <1>4 DEF TableInv

LEMMA TableInvFetch ==
  ASSUME TypeInv, TableInv, NEW d \in Deletes, NEW x \in ResIds,
         NEW kind \in {"terminate", "unlink"}, Fetch(d, x, kind)
  PROVE  TableInv'
<1>1. RowsBorn' /\ LinkedRows' /\ ReservationAccounted'
  BY DEF Fetch, TableInv, RowsBorn, Born, LinkedRows, ReservationAccounted, RowExists, InFlight
<1>2. del'[d].res = x /\ del'[d].vmid = rows[x].vmid
  BY DeleteEffect DEF TypeInv
<1>3. \A e \in Deletes \ {d} : del'[e] = del[e]
  BY DeleteEffect DEF TypeInv, DeleteStep
<1>4. HandlesKnown'
  BY <1>2, <1>3 DEF TableInv, HandlesKnown, RowsBorn, Born, RowExists, Deleting, Fetch
<1> QED
  BY <1>1, <1>4 DEF TableInv

LEMMA TableInvDrop ==
  ASSUME TypeInv, TableInv, NEW d \in Deletes, Drop(d)
  PROVE  TableInv'
<1> DEFINE v == del[d].vmid
           x == del[d].res
<1>1. Deleting(d)
  BY DEF Drop, Deleting
<1>2. x \in ResIds /\ (RowExists(x) => rows[x].vmid = v)
  BY <1>1 DEF TableInv, HandlesKnown
<1>3. \A w \in Vmids : pool'[w] = IF w = v THEN Free ELSE pool[w]
  BY DEF Drop, TypeInv, TypeOK
<1>4. \A y \in ResIds : rows'[y] = IF y = x THEN NoRow ELSE rows[y]
  BY DEF Drop, TypeInv, TypeOK
<1>5. del'[d].step = "done" /\ \A e \in Deletes \ {d} : del'[e] = del[e]
  BY DeleteEffect DEF TypeInv, DeleteStep
<1>6. RowsBorn'
  BY <1>4 DEF TableInv, RowsBorn, Born, RowExists, Drop
<1>7. HandlesKnown'
  BY <1>4, <1>5 DEF TableInv, HandlesKnown, Born, RowExists, Deleting, Drop
<1>8. LinkedRows'
  BY <1>2, <1>3, <1>4, NullsAreDistinct DEF TableInv, LinkedRows, RowExists
<1>9. ReservationAccounted'
  BY <1>2, <1>3, <1>4, NullsAreDistinct
  DEF TableInv, ReservationAccounted, RowExists, InFlight, Drop, ResIds
<1> QED
  BY <1>6, <1>7, <1>8, <1>9 DEF TableInv

LEMMA TableInvProtection ==
  ASSUME TypeInv, TableInv, NEW x \in ResIds, NEW enabled \in BOOLEAN,
         SetProtection(x, enabled)
  PROVE  TableInv'
<1>1. \A y \in ResIds : RowExists(y)' <=> RowExists(y)
  <2>1. [rows[x] EXCEPT !.protected = enabled] \in Row
    BY DEF SetProtection, RowExists, TypeInv, TypeOK, Row
  <2> QED
    BY <2>1, NoRowIsNull DEF SetProtection, RowExists, TypeInv, TypeOK
<1>2. \A y \in ResIds : RowExists(y) => rows'[y].vmid = rows[y].vmid
  BY DEF SetProtection, RowExists, TypeInv, TypeOK, Row
<1>3. RowsBorn'
  BY <1>1 DEF TableInv, RowsBorn, Born, SetProtection
<1>4. HandlesKnown'
  BY <1>1, <1>2 DEF TableInv, HandlesKnown, Born, Deleting, SetProtection
<1>5. LinkedRows'
  BY <1>1, <1>2 DEF TableInv, LinkedRows, SetProtection
<1>6. ReservationAccounted'
  BY <1>1, <1>2 DEF TableInv, ReservationAccounted, InFlight, SetProtection, ResIds
<1> QED
  BY <1>3, <1>4, <1>5, <1>6 DEF TableInv

\* Imports that have not committed yet, checked or refused
LEMMA TableInvImportMove ==
  ASSUME TypeInv, TableInv, NEW i \in Imports,
         (\E v \in Vmids : CheckImport(i, v)) \/ ImportRefused(i)
  PROVE  TableInv'
<1>1. UNCHANGED <<pool, rows, create, del>>
  BY DEF CheckImport, ImportRefused
<1>2. \A x \in ResIds : Born(x) => Born(x)'
  BY <1>1, ImportEffect DEF TypeInv, Born, ImportStep, CheckImport, ImportRefused
<1>3. RowsBorn'
  BY <1>1, <1>2 DEF TableInv, RowsBorn, RowExists
<1>4. HandlesKnown'
  BY <1>1, <1>2 DEF TableInv, HandlesKnown, RowExists, Deleting
<1>5. LinkedRows'
  BY <1>1 DEF TableInv, LinkedRows, RowExists
<1>6. ReservationAccounted'
  BY <1>1 DEF TableInv, ReservationAccounted, RowExists, InFlight
<1> QED
  BY <1>3, <1>4, <1>5, <1>6 DEF TableInv

LEMMA TableInvImport ==
  ASSUME TypeInv, TableInv, NEW i \in Imports, CommitImport(i)
  PROVE  TableInv'
<1> DEFINE v == imp[i].vmid
<1>1. v \in Vmids /\ i \in ResIds /\ pool[v] = Free
  BY DEF TypeInv, ImportHasVmid, CommitImport, ResIds
<1>2. imp'[i].step = "done" /\ \A j \in Imports \ {i} : imp'[j] = imp[j]
  BY ImportEffect DEF TypeInv, ImportStep
<1>3. \A w \in Vmids : pool'[w] = IF w = v THEN Unlinked ELSE pool[w]
  BY DEF CommitImport, TypeInv, TypeOK
<1>4. ~RowExists(i)
  BY <1>1 DEF TableInv, RowsBorn, Born, CommitImport
<1>5. PICK row \in [vmid : {v}, type : Types, status : {"running"},
                    protected : {FALSE}, inst : {pve[v]}] : rows' = [rows EXCEPT ![i] = row]
  BY DEF CommitImport
<1>6. row \in Row /\ row.vmid = v
  BY <1>1 DEF Row, CommitImport, TypeInv, TypeOK
<1>7. RowExists(i)' /\ rows'[i].vmid = v
  BY <1>1, <1>5, <1>6, NoRowIsNull DEF RowExists, TypeInv, TypeOK
<1>8. \A x \in ResIds \ {i} : rows'[x] = rows[x]
  BY <1>5 DEF TypeInv, TypeOK
<1>9. \A x \in ResIds : Born(x) => Born(x)'
  BY <1>2 DEF Born, CommitImport
<1>10. RowsBorn'
  BY <1>2, <1>8, <1>9, RequestsAreDistinct DEF TableInv, RowsBorn, RowExists, Born
<1>11. HandlesKnown'
  BY <1>1, <1>8, <1>9 DEF TableInv, HandlesKnown, RowExists, Deleting, CommitImport, Born
<1>12. LinkedRows'
  BY <1>1, <1>3, <1>4, <1>8, NullsAreDistinct DEF TableInv, LinkedRows, RowExists
<1>13. ReservationAccounted'
  BY <1>3, <1>4, <1>7, <1>8, NullsAreDistinct
  DEF TableInv, ReservationAccounted, RowExists, InFlight, ResIds, CommitImport
<1> QED
  BY <1>10, <1>11, <1>12, <1>13 DEF TableInv

\* A crash turns what was in flight into "lost", which still accounts for it.
LEMMA TableInvCrash ==
  ASSUME TypeInv, TableInv, ApiCrash
  PROVE  TableInv'
<1>1. UNCHANGED <<pool, rows>>
  BY DEF ApiCrash
<1>2. \A x \in ResIds : Born(x) => Born(x)'
  BY CrashCreates, CrashImports DEF TypeInv, Born, Creating
<1>3. RowsBorn'
  BY <1>1, <1>2 DEF TableInv, RowsBorn, RowExists
<1>4. HandlesKnown'
  BY CrashDeletes DEF TypeInv, HandlesKnown, Deleting
<1>5. LinkedRows'
  BY <1>1 DEF TableInv, LinkedRows, RowExists
<1>6. \A r \in Creates :
        InFlight(r) \/ create[r].step \in {"lost", "conflict"}
        => create'[r].step \in {"lost", "conflict"}
  BY CrashCreates DEF TypeInv, InFlight, Creating
<1>7. ReservationAccounted'
  BY <1>1, <1>6, CrashCreates DEF TypeInv, TableInv, ReservationAccounted, RowExists
<1> QED
  BY <1>3, <1>4, <1>5, <1>7 DEF TableInv

LEMMA TableInvStep == TypeInv /\ TableInv /\ [Next]_vars => TableInv'
<1> SUFFICES ASSUME TypeInv, TableInv, [Next]_vars
             PROVE  TableInv'
  OBVIOUS
<1>1. ASSUME NEW r \in Creates, CreateStep(r)
      PROVE  TableInv'
  <2>1. CASE Reserve(r)
    BY <2>1, TableInvReserve
  <2>2. CASE Release(r) \/ FailLate(r)
    BY <2>2, TableInvRelease
  <2>3. CASE Record(r)
    BY <2>3, TableInvRecord
  <2>4. CASE CloneAborts(r)
    BY <2>4, TableInvCluster DEF CloneAborts
  <2>5. CASE \/ Admit(r) \/ SeePool(r) \/ SeeRows(r) \/ Pick(r) \/ Clone(r)
             \/ RecordRefused(r) \/ Finish(r)
    <3>1. UNCHANGED <<pool, rows, del, imp>>
      BY <2>5 DEF Admit, SeePool, SeeRows, Pick, Clone, RecordRefused, Finish
    <3> QED
      BY <2>5, <3>1, TableInvMove
  <2> QED
    BY <1>1, <2>1, <2>2, <2>3, <2>4, <2>5 DEF CreateStep
<1>2. ASSUME NEW d \in Deletes, DeleteStep(d)
      PROVE  TableInv'
  <2>1. CASE Purge(d)
    BY <2>1, TableInvCluster DEF Purge
  <2> QED
    BY <1>2, <2>1, TableInvFetch, TableInvDrop DEF DeleteStep
<1>3. ASSUME NEW i \in Imports, ImportStep(i)
      PROVE  TableInv'
  BY <1>3, TableInvImportMove, TableInvImport DEF ImportStep
<1>4. CASE UNCHANGED vars
  BY <1>4, TableInvCluster DEF vars
<1> QED
  BY <1>1, <1>2, <1>3, <1>4, TableInvProtection, TableInvCrash DEF Next

(***************************************************************************)
(* No linked pool row dangles, whatever fails and however requests overlap *)
(* (the deletions of compute.py and admin.py, create_container's handler). *)
(***************************************************************************)
THEOREM LinkedRowsHold == Spec => []LinkedRows
<1>1. Init => TypeInv /\ TableInv
  BY TypeInvInit, TableInvInit
<1>2. TypeInv /\ TableInv /\ [Next]_vars => (TypeInv /\ TableInv)'
  BY TypeInvStep, TableInvStep
<1>3. TypeInv /\ TableInv => LinkedRows
  BY DEF TableInv
<1> QED
  BY <1>1, <1>2, <1>3, PTL DEF Spec

(***************************************************************************)
(* An unlinked pool row has a request or an import that accounts for it,   *)
(* whatever fails: only a crash or a refused row leaves one behind.        *)
(***************************************************************************)
THEOREM ReservationsAccounted == Spec => []ReservationAccounted
<1>1. Init => TypeInv /\ TableInv
  BY TypeInvInit, TableInvInit
<1>2. TypeInv /\ TableInv /\ [Next]_vars => (TypeInv /\ TableInv)'
  BY TypeInvStep, TableInvStep
<1>3. TypeInv /\ TableInv => ReservationAccounted
  BY DEF TableInv
<1> QED
  BY <1>1, <1>2, <1>3, PTL DEF Spec

-----------------------------------------------------------------------------
(***************************************************************************)
(* Whose instance is whose.  This needs deletions of one resource that do  *)
(* not overlap and a create_container whose tail does not raise; every     *)
(* other fault is allowed.  A deletion then holds an exact copy of a row   *)
(* that stays until the deletion drops it.                                 *)
(***************************************************************************)
Serial == Faults \intersect {"late_failure", "overlapping_deletes"} = {}

HandlesOwnRow ==
    \A d \in Deletes : Deleting(d) =>
        /\ del[d].res \in ResIds
        /\ RowExists(del[d].res)
        /\ rows[del[d].res].vmid = del[d].vmid
        /\ rows[del[d].res].inst = del[d].inst
        /\ \A e \in Deletes \ {d} : Deleting(e) => del[e].res # del[d].res

OwnerInv == ReservationHeld /\ PoolCoversRows /\ OwnInstance /\ HandlesOwnRow

LEMMA OwnerInvInit == Init => OwnerInv
  BY NoRowIsNull
  DEF Init, OwnerInv, ReservationHeld, PoolCoversRows, OwnInstance, HandlesOwnRow, RowExists,
      InFlight, Deleting, NoDeletion

\* The stores and the deletions stay, and no request comes into flight.
LEMMA OwnerInvIdle ==
  ASSUME OwnerInv, UNCHANGED <<pool, rows, pve, del>>,
         \A q \in Creates :
            InFlight(q)' => create'[q].step = create[q].step /\ create'[q].vmid = create[q].vmid
  PROVE  OwnerInv'
<1>1. \A q \in Creates : InFlight(q)' => InFlight(q)
  BY DEF InFlight
<1>2. ReservationHeld'
  BY <1>1 DEF OwnerInv, ReservationHeld, RowsAt, RowExists
<1>3. PoolCoversRows'
  BY DEF OwnerInv, PoolCoversRows, RowsAt, RowExists
<1>4. OwnInstance'
  BY DEF OwnerInv, OwnInstance, RowExists
<1>5. HandlesOwnRow'
  BY DEF OwnerInv, HandlesOwnRow, RowExists, Deleting
<1> QED
  BY <1>2, <1>3, <1>4, <1>5 DEF OwnerInv

LEMMA OwnerInvMove ==
  ASSUME TypeInv, OwnerInv, NEW r \in Creates,
         \/ Admit(r) \/ SeePool(r) \/ SeeRows(r) \/ Pick(r) \/ RecordRefused(r) \/ Finish(r)
  PROVE  OwnerInv'
<1>1. UNCHANGED <<pool, rows, pve, del>>
  BY DEF Admit, SeePool, SeeRows, Pick, RecordRefused, Finish
<1>2. \A q \in Creates \ {r} : create'[q] = create[q]
  BY CreateEffect, PickEffect DEF TypeInv, Moves
<1>3. ~InFlight(r)'
  BY CreateEffect, PickEffect DEF TypeInv, Moves, InFlight
<1> QED
  BY <1>1, <1>2, <1>3, OwnerInvIdle

\* A free pool row means that no request and no resource is at the VMID.
LEMMA OwnerInvReserve ==
  ASSUME TypeInv, OwnerInv, NEW r \in Creates, Reserve(r)
  PROVE  OwnerInv'
<1> DEFINE v == create[r].vmid
<1>1. \A q \in Creates \ {r} : create'[q] = create[q]
  BY CreateEffect DEF TypeInv, Moves
<1>2. v \in Vmids /\ create'[r].vmid = v
  BY CreateEffect DEF TypeInv, Moves, CreateHasVmid, Reserve
<1>3. UNCHANGED <<rows, pve, del>>
  BY DEF Reserve
<1>4. CASE pool[v] = Free /\ pool' = [pool EXCEPT ![v] = Unlinked] /\ create'[r].step = "reserved"
  <2>1. \A w \in Vmids : pool'[w] = IF w = v THEN Unlinked ELSE pool[w]
    BY <1>4 DEF TypeInv, TypeOK
  <2>2. RowsAt(v) = {}
    BY <1>4, NullsAreDistinct DEF OwnerInv, PoolCoversRows, RowsAt, ResIds
  <2>3. \A q \in Creates : InFlight(q) => create[q].vmid # v
    BY <1>4, NullsAreDistinct DEF OwnerInv, ReservationHeld
  <2>4. \A q \in Creates \ {r} : InFlight(q)' <=> InFlight(q)
    BY <1>1 DEF InFlight
  <2>5. \A q \in Creates : InFlight(q) => create[q].vmid \in Vmids
    BY DEF InFlight, TypeInv, CreateHasVmid
  <2>6. ReservationHeld'
    BY <1>1, <1>2, <1>3, <1>4, <2>1, <2>2, <2>3, <2>4, <2>5
    DEF OwnerInv, ReservationHeld, RowsAt, RowExists
  <2>7. PoolCoversRows'
    BY <1>3, <2>1, <2>2 DEF OwnerInv, PoolCoversRows, RowsAt, RowExists, TypeInv, TypeOK, Row
  <2>8. OwnInstance' /\ HandlesOwnRow'
    BY <1>3 DEF OwnerInv, OwnInstance, HandlesOwnRow, RowExists, Deleting
  <2> QED
    BY <2>6, <2>7, <2>8 DEF OwnerInv
<1>5. CASE UNCHANGED pool /\ create'[r].step = "failed"
  <2>1. ~InFlight(r)'
    BY <1>5 DEF InFlight
  <2> QED
    BY <1>1, <1>3, <1>5, <2>1, OwnerInvIdle
<1> QED
  BY <1>4, <1>5 DEF Reserve, TypeInv, TypeOK, CreateState

LEMMA OwnerInvClone ==
  ASSUME TypeInv, OwnerInv, NEW r \in Creates, Clone(r)
  PROVE  OwnerInv'
<1> DEFINE v == create[r].vmid
<1>1. /\ create'[r].vmid = v /\ v \in Vmids
      /\ create'[r].step \in {"cloned", "releasing"}
      /\ \A q \in Creates \ {r} : create'[q] = create[q]
  BY CreateEffect DEF TypeInv, Moves, CreateHasVmid, Clone
<1>2. UNCHANGED <<pool, rows, del>>
  BY DEF Clone
<1>3. InFlight(r) /\ InFlight(r)' /\ \A q \in Creates \ {r} : InFlight(q)' <=> InFlight(q)
  BY <1>1 DEF InFlight, Clone
<1>4. /\ \A w \in Vmids \ {v} : pve'[w] = pve[w]
      /\ create'[r].step = "cloned" => pve'[v] = r
  BY <1>1 DEF Clone, TypeInv, TypeOK, CreateState
<1>5. ReservationHeld'
  <2>1. \A q \in Creates \ {r} : InFlight(q) => create[q].vmid \in Vmids \ {v}
    BY <1>3 DEF OwnerInv, ReservationHeld, InFlight, TypeInv, CreateHasVmid
  <2> QED
    BY <1>1, <1>2, <1>3, <1>4, <2>1 DEF OwnerInv, ReservationHeld, RowsAt, RowExists
<1>6. PoolCoversRows'
  BY <1>2 DEF OwnerInv, PoolCoversRows, RowsAt, RowExists
<1>7. OwnInstance'
  <2>1. \A x \in ResIds : RowExists(x) => rows[x].vmid \in Vmids \ {v}
    BY <1>3 DEF OwnerInv, ReservationHeld, RowsAt, RowExists, TypeInv, TypeOK, Row
  <2> QED
    BY <1>2, <1>4, <2>1 DEF OwnerInv, OwnInstance, RowExists
<1>8. HandlesOwnRow'
  BY <1>2 DEF OwnerInv, HandlesOwnRow, RowExists, Deleting
<1> QED
  BY <1>5, <1>6, <1>7, <1>8 DEF OwnerInv

\* The pool row that a failed clone gives back is the request's own.
LEMMA OwnerInvRelease ==
  ASSUME TypeInv, OwnerInv, NEW r \in Creates, Release(r)
  PROVE  OwnerInv'
<1> DEFINE v == create[r].vmid
<1>1. Moves(r, "failed") /\ InFlight(r) /\ v \in Vmids
  BY CreateEffect DEF TypeInv, CreateHasVmid, InFlight, Release
<1>2. UNCHANGED <<rows, pve, del>>
  BY DEF Release
<1>3. \A w \in Vmids : pool'[w] = IF w = v THEN Free ELSE pool[w]
  BY DEF Release, TypeInv, TypeOK
<1>4. \A q \in Creates : InFlight(q)' => q # r /\ InFlight(q)
  BY <1>1 DEF InFlight, Moves
<1>5. ReservationHeld'
  <2>1. \A q \in Creates \ {r} : InFlight(q) => create[q].vmid \in Vmids \ {v}
    BY <1>1 DEF OwnerInv, ReservationHeld, InFlight, TypeInv, CreateHasVmid
  <2> QED
    BY <1>1, <1>2, <1>3, <1>4, <2>1 DEF OwnerInv, ReservationHeld, RowsAt, RowExists, Moves
<1>6. PoolCoversRows'
  <2>1. \A x \in ResIds : RowExists(x) => rows[x].vmid \in Vmids \ {v}
    BY <1>1 DEF OwnerInv, ReservationHeld, RowsAt, RowExists, TypeInv, TypeOK, Row
  <2> QED
    BY <1>2, <1>3, <2>1 DEF OwnerInv, PoolCoversRows, RowsAt, RowExists
<1>7. OwnInstance' /\ HandlesOwnRow'
  BY <1>2 DEF OwnerInv, OwnInstance, HandlesOwnRow, RowExists, Deleting
<1> QED
  BY <1>5, <1>6, <1>7 DEF OwnerInv

LEMMA OwnerInvRecord ==
  ASSUME TypeInv, RowsBorn, OwnerInv, NEW r \in Creates, Record(r)
  PROVE  OwnerInv'
<1> DEFINE v == create[r].vmid
<1>1. Moves(r, "recorded") /\ InFlight(r) /\ v \in Vmids /\ r \in ResIds
  BY CreateEffect DEF TypeInv, CreateHasVmid, InFlight, Record, ResIds
<1>2. UNCHANGED <<pve, del>>
  BY DEF Record
<1>3. pool[v] = Unlinked /\ RowsAt(v) = {} /\ pve[v] \in {r, NoInstance}
  BY <1>1 DEF OwnerInv, ReservationHeld, Record
<1>4. \A w \in Vmids : pool'[w] = IF w = v THEN r ELSE pool[w]
  BY <1>3, NullsAreDistinct DEF Record, TypeInv, TypeOK
<1>5. PICK row \in NewRows(r) : rows' = [rows EXCEPT ![r] = row]
  BY DEF Record
<1>6. row \in Row /\ row.vmid = v /\ row.inst = r
  BY <1>1 DEF NewRows, Row, Instances, Types
<1>7. /\ RowExists(r)' /\ rows'[r].vmid = v /\ rows'[r].inst = r
      /\ \A x \in ResIds \ {r} : rows'[x] = rows[x]
  BY <1>1, <1>5, <1>6, NoRowIsNull DEF RowExists, TypeInv, TypeOK
<1>8. ~RowExists(r)
  BY <1>1 DEF RowsBorn, Born, Record
<1>9. ReservationHeld'
  <2>1. \A q \in Creates : InFlight(q)' => q # r /\ InFlight(q)
    BY <1>1 DEF InFlight, Moves
  <2>2. \A q \in Creates \ {r} : InFlight(q) => create[q].vmid \in Vmids \ {v}
    BY <1>1 DEF OwnerInv, ReservationHeld, InFlight, TypeInv, CreateHasVmid
  <2> QED
    BY <1>1, <1>2, <1>4, <1>7, <2>1, <2>2
    DEF OwnerInv, ReservationHeld, RowsAt, RowExists, Moves
<1>10. PoolCoversRows'
  <2>1. \A x \in ResIds \ {r} : RowExists(x)' => RowExists(x) /\ rows'[x].vmid \in Vmids \ {v}
    BY <1>3, <1>7 DEF RowsAt, RowExists, TypeInv, TypeOK, Row
  <2>2. ASSUME NEW x \in ResIds \ {r}, RowExists(x)'
        PROVE  RowsAt(rows[x].vmid)' = {x}
    BY <1>7, <1>8, <2>1, <2>2 DEF OwnerInv, PoolCoversRows, RowsAt, RowExists
  <2>3. RowsAt(rows[r].vmid)' = {r}
    <3>1. \A x \in ResIds : RowExists(x)' /\ rows'[x].vmid = v => x = r
      <4>1. ASSUME NEW x \in ResIds \ {r}, RowExists(x)'
            PROVE  rows'[x].vmid # v
        BY <2>1, <4>1
      <4> QED
        BY <4>1
    <3> QED
      BY <1>1, <1>7, <3>1 DEF RowsAt
  <2> QED
    BY <1>1, <1>4, <1>7, <2>1, <2>2, <2>3 DEF OwnerInv, PoolCoversRows, RowsAt
<1>11. OwnInstance'
  BY <1>2, <1>3, <1>7 DEF OwnerInv, OwnInstance, RowExists
<1>12. HandlesOwnRow'
  BY <1>2, <1>7, <1>8 DEF OwnerInv, HandlesOwnRow, RowExists, Deleting
<1> QED
  BY <1>9, <1>10, <1>11, <1>12 DEF OwnerInv

\* Steps that at most empty a VMID on the cluster
LEMMA OwnerInvCluster ==
  ASSUME TypeInv, OwnerInv, UNCHANGED <<pool, rows, create>>,
         UNCHANGED del \/ \E d \in Deletes : Purge(d),
         \A w \in Vmids : pve'[w] \in {pve[w], NoInstance}
  PROVE  OwnerInv'
<1>1. ReservationHeld'
  BY DEF OwnerInv, ReservationHeld, RowsAt, RowExists, InFlight, TypeInv, CreateHasVmid
<1>2. PoolCoversRows'
  BY DEF OwnerInv, PoolCoversRows, RowsAt, RowExists
<1>3. OwnInstance'
  BY DEF OwnerInv, OwnInstance, RowExists, TypeInv, TypeOK, Row
<1>4. \A d \in Deletes : /\ Deleting(d)' <=> Deleting(d)
                        /\ del'[d].res = del[d].res
                        /\ del'[d].vmid = del[d].vmid
                        /\ del'[d].inst = del[d].inst
  BY DeleteEffect DEF TypeInv, DeleteStep, Deleting, Purge
<1>5. HandlesOwnRow'
  BY <1>4 DEF OwnerInv, HandlesOwnRow, RowExists
<1> QED
  BY <1>1, <1>2, <1>3, <1>5 DEF OwnerInv

LEMMA OwnerInvFetch ==
  ASSUME Serial, TypeInv, OwnerInv, NEW d \in Deletes, NEW x \in ResIds,
         NEW kind \in {"terminate", "unlink"}, Fetch(d, x, kind)
  PROVE  OwnerInv'
<1>1. UNCHANGED <<pool, rows, pve, create>>
  BY DEF Fetch
<1>2. ReservationHeld' /\ PoolCoversRows' /\ OwnInstance'
  BY <1>1 DEF OwnerInv, ReservationHeld, PoolCoversRows, OwnInstance, RowsAt, RowExists, InFlight
<1>3. /\ del'[d].res = x /\ del'[d].vmid = rows[x].vmid /\ del'[d].inst = rows[x].inst
      /\ \A e \in Deletes \ {d} : del'[e] = del[e]
  BY DeleteEffect DEF TypeInv, DeleteStep
<1>4. \A e \in Deletes : Deleting(e) => del[e].res # x
  BY DEF Fetch, MayFetch, Serial
<1>5. HandlesOwnRow'
  BY <1>1, <1>3, <1>4 DEF OwnerInv, HandlesOwnRow, RowExists, Deleting, Fetch
<1> QED
  BY <1>2, <1>5 DEF OwnerInv

\* What the deletion drops is its own row and the pool row of that row.
LEMMA OwnerInvDrop ==
  ASSUME TypeInv, OwnerInv, NEW d \in Deletes, Drop(d)
  PROVE  OwnerInv'
<1> DEFINE v == del[d].vmid
           x == del[d].res
<1>1. Deleting(d)
  BY DEF Drop, Deleting
<1>2. /\ x \in ResIds /\ RowExists(x) /\ rows[x].vmid = v /\ v \in Vmids
      /\ RowsAt(v) = {x}
  BY <1>1 DEF OwnerInv, HandlesOwnRow, PoolCoversRows, TypeInv, TypeOK, Row, RowExists
<1>3. \A w \in Vmids : pool'[w] = IF w = v THEN Free ELSE pool[w]
  BY DEF Drop, TypeInv, TypeOK
<1>4. \A y \in ResIds : rows'[y] = IF y = x THEN NoRow ELSE rows[y]
  BY DEF Drop, TypeInv, TypeOK
<1>5. UNCHANGED <<pve, create>>
  BY DEF Drop
<1>6. del'[d].step = "done" /\ \A e \in Deletes \ {d} : del'[e] = del[e]
  BY DeleteEffect DEF TypeInv, DeleteStep
<1>7. \A y \in ResIds : RowExists(y)' =>
        y # x /\ RowExists(y) /\ rows'[y] = rows[y] /\ rows[y].vmid \in Vmids \ {v}
  BY <1>2, <1>4 DEF RowsAt, RowExists, TypeInv, TypeOK, Row
<1>8. ReservationHeld'
  <2>1. \A q \in Creates : InFlight(q) => create[q].vmid \in Vmids \ {v}
    BY <1>2 DEF OwnerInv, ReservationHeld, InFlight, TypeInv, CreateHasVmid
  <2>2. \A w \in Vmids : RowsAt(w)' \subseteq RowsAt(w)
    BY <1>7 DEF RowsAt
  <2> QED
    BY <1>3, <1>5, <2>1, <2>2 DEF OwnerInv, ReservationHeld, InFlight
<1>9. PoolCoversRows'
  <2>1. ASSUME NEW y \in ResIds, RowExists(y)'
        PROVE  RowsAt(rows[y].vmid)' = {y}
    BY <1>7, <2>1 DEF OwnerInv, PoolCoversRows, RowsAt
  <2> QED
    BY <1>3, <1>7, <2>1 DEF OwnerInv, PoolCoversRows, RowsAt
<1>10. OwnInstance'
  BY <1>5, <1>7 DEF OwnerInv, OwnInstance
<1>11. HandlesOwnRow'
  BY <1>1, <1>4, <1>6 DEF OwnerInv, HandlesOwnRow, RowExists, Deleting
<1> QED
  BY <1>8, <1>9, <1>10, <1>11 DEF OwnerInv

LEMMA OwnerInvProtection ==
  ASSUME TypeInv, OwnerInv, NEW x \in ResIds, NEW enabled \in BOOLEAN,
         SetProtection(x, enabled)
  PROVE  OwnerInv'
<1>1. UNCHANGED <<pool, pve, create, del>>
  BY DEF SetProtection
<1>2. \A y \in ResIds : RowExists(y)' <=> RowExists(y)
  <2>1. [rows[x] EXCEPT !.protected = enabled] \in Row
    BY DEF SetProtection, RowExists, TypeInv, TypeOK, Row
  <2> QED
    BY <2>1, NoRowIsNull DEF SetProtection, RowExists, TypeInv, TypeOK
<1>3. \A y \in ResIds : RowExists(y) =>
        rows'[y].vmid = rows[y].vmid /\ rows'[y].inst = rows[y].inst
  BY DEF SetProtection, RowExists, TypeInv, TypeOK, Row
<1>4. \A w : RowsAt(w)' = RowsAt(w)
  BY <1>2, <1>3 DEF RowsAt
<1>5. ReservationHeld'
  BY <1>1, <1>4 DEF OwnerInv, ReservationHeld, InFlight
<1>6. PoolCoversRows'
  BY <1>1, <1>2, <1>3, <1>4 DEF OwnerInv, PoolCoversRows
<1>7. OwnInstance' /\ HandlesOwnRow'
  BY <1>1, <1>2, <1>3 DEF OwnerInv, OwnInstance, HandlesOwnRow, Deleting
<1> QED
  BY <1>5, <1>6, <1>7 DEF OwnerInv

LEMMA OwnerInvImportMove ==
  ASSUME TypeInv, OwnerInv, NEW i \in Imports,
         (\E v \in Vmids : CheckImport(i, v)) \/ ImportRefused(i)
  PROVE  OwnerInv'
<1>1. UNCHANGED <<pool, rows, pve, create, del>>
  BY DEF CheckImport, ImportRefused
<1> QED
  BY <1>1, OwnerInvIdle

LEMMA OwnerInvImport ==
  ASSUME TypeInv, RowsBorn, OwnerInv, NEW i \in Imports, CommitImport(i)
  PROVE  OwnerInv'
<1> DEFINE v == imp[i].vmid
<1>1. v \in Vmids /\ i \in ResIds /\ pool[v] = Free /\ RowsAt(v) = {}
  BY DEF TypeInv, ImportHasVmid, CommitImport, ResIds
<1>2. UNCHANGED <<pve, create, del>>
  BY DEF CommitImport
<1>3. \A w \in Vmids : pool'[w] = IF w = v THEN Unlinked ELSE pool[w]
  BY DEF CommitImport, TypeInv, TypeOK
<1>4. ~RowExists(i)
  BY <1>1 DEF RowsBorn, Born, CommitImport
<1>5. PICK row \in [vmid : {v}, type : Types, status : {"running"},
                    protected : {FALSE}, inst : {pve[v]}] : rows' = [rows EXCEPT ![i] = row]
  BY DEF CommitImport
<1>6. row \in Row /\ row.vmid = v /\ row.inst = pve[v]
  BY <1>1 DEF Row, CommitImport, TypeInv, TypeOK
<1>7. /\ RowExists(i)' /\ rows'[i].vmid = v /\ rows'[i].inst = pve[v]
      /\ \A x \in ResIds \ {i} : rows'[x] = rows[x]
  BY <1>1, <1>5, <1>6, NoRowIsNull DEF RowExists, TypeInv, TypeOK
<1>8. ReservationHeld'
  <2>1. \A q \in Creates : InFlight(q) => create[q].vmid \in Vmids \ {v}
    BY <1>1, NullsAreDistinct DEF OwnerInv, ReservationHeld, InFlight, TypeInv, CreateHasVmid
  <2> QED
    BY <1>2, <1>3, <1>7, <2>1 DEF OwnerInv, ReservationHeld, RowsAt, RowExists, InFlight
<1>9. PoolCoversRows'
  <2>1. \A x \in ResIds \ {i} : RowExists(x)' => RowExists(x) /\ rows'[x].vmid \in Vmids \ {v}
    BY <1>1, <1>7 DEF RowsAt, RowExists, TypeInv, TypeOK, Row
  <2>2. ASSUME NEW x \in ResIds \ {i}, RowExists(x)'
        PROVE  RowsAt(rows[x].vmid)' = {x}
    BY <1>7, <1>4, <2>1, <2>2 DEF OwnerInv, PoolCoversRows, RowsAt, RowExists
  <2>3. RowsAt(rows[i].vmid)' = {i}
    <3>1. \A x \in ResIds : RowExists(x)' /\ rows'[x].vmid = v => x = i
      <4>1. ASSUME NEW x \in ResIds \ {i}, RowExists(x)'
            PROVE  rows'[x].vmid # v
        BY <2>1, <4>1
      <4> QED
        BY <4>1
    <3> QED
      BY <1>1, <1>7, <3>1 DEF RowsAt
  <2>4. i \notin Creates
    BY RequestsAreDistinct
  <2> QED
    BY <1>1, <1>3, <1>7, <2>1, <2>2, <2>3, <2>4 DEF OwnerInv, PoolCoversRows, RowsAt
<1>10. OwnInstance'
  BY <1>2, <1>7 DEF OwnerInv, OwnInstance, RowExists
<1>11. HandlesOwnRow'
  BY <1>2, <1>4, <1>7 DEF OwnerInv, HandlesOwnRow, RowExists, Deleting
<1> QED
  BY <1>8, <1>9, <1>10, <1>11 DEF OwnerInv

LEMMA OwnerInvCrash ==
  ASSUME TypeInv, OwnerInv, ApiCrash
  PROVE  OwnerInv'
<1>1. UNCHANGED <<pool, rows, pve>>
  BY DEF ApiCrash
<1>2. \A r \in Creates : ~InFlight(r)'
  BY CrashCreates DEF TypeInv, InFlight, Creating
<1>3. ReservationHeld'
  BY <1>2 DEF ReservationHeld
<1>4. PoolCoversRows' /\ OwnInstance'
  BY <1>1 DEF OwnerInv, PoolCoversRows, OwnInstance, RowsAt, RowExists
<1>5. HandlesOwnRow'
  BY CrashDeletes DEF TypeInv, HandlesOwnRow, Deleting
<1> QED
  BY <1>3, <1>4, <1>5 DEF OwnerInv

LEMMA OwnerInvStep ==
  ASSUME Serial
  PROVE  TypeInv /\ TableInv /\ OwnerInv /\ [Next]_vars => OwnerInv'
<1> SUFFICES ASSUME TypeInv, TableInv, OwnerInv, [Next]_vars
             PROVE  OwnerInv'
  OBVIOUS
<1>0. RowsBorn
  BY DEF TableInv
<1>1. ASSUME NEW r \in Creates, CreateStep(r)
      PROVE  OwnerInv'
  <2>1. CASE \/ Admit(r) \/ SeePool(r) \/ SeeRows(r) \/ Pick(r) \/ RecordRefused(r) \/ Finish(r)
    BY <2>1, OwnerInvMove
  <2>2. CASE CloneAborts(r)
    BY <2>2, OwnerInvCluster DEF CloneAborts, TypeInv, TypeOK
  <2>3. ~FailLate(r)
    BY DEF FailLate, Serial
  <2> QED
    BY <1>0, <1>1, <2>1, <2>2, <2>3, OwnerInvReserve, OwnerInvClone, OwnerInvRelease,
       OwnerInvRecord DEF CreateStep
<1>2. ASSUME NEW d \in Deletes, DeleteStep(d)
      PROVE  OwnerInv'
  <2>1. CASE Purge(d)
    BY <2>1, OwnerInvCluster DEF Purge, TypeInv, TypeOK
  <2> QED
    BY <1>2, <2>1, OwnerInvFetch, OwnerInvDrop DEF DeleteStep
<1>3. ASSUME NEW i \in Imports, ImportStep(i)
      PROVE  OwnerInv'
  BY <1>0, <1>3, OwnerInvImportMove, OwnerInvImport DEF ImportStep
<1>4. CASE UNCHANGED vars
  BY <1>4, OwnerInvCluster DEF vars
<1> QED
  BY <1>1, <1>2, <1>3, <1>4, OwnerInvProtection, OwnerInvCrash DEF Next

LEMMA OwnerInvAlways ==
  ASSUME Serial
  PROVE  Spec => [](TypeInv /\ OwnerInv)
<1>1. Init => TypeInv /\ TableInv /\ OwnerInv
  BY TypeInvInit, TableInvInit, OwnerInvInit
<1>2. TypeInv /\ TableInv /\ OwnerInv /\ [Next]_vars => (TypeInv /\ TableInv /\ OwnerInv)'
  BY TypeInvStep, TableInvStep, OwnerInvStep
<1> QED
  BY <1>1, <1>2, PTL DEF Spec

(***************************************************************************)
(* While create_vm holds a reservation nobody else works on the VMID.      *)
(***************************************************************************)
THEOREM ReservationsHold ==
  ASSUME Serial
  PROVE  Spec => []ReservationHeld
<1>1. OwnerInv => ReservationHeld
  BY DEF OwnerInv
<1> QED
  BY <1>1, OwnerInvAlways, PTL

(***************************************************************************)
(* Every resource row is covered by its pool row and is alone at its VMID. *)
(***************************************************************************)
THEOREM PoolCovers ==
  ASSUME Serial
  PROVE  Spec => []PoolCoversRows
<1>1. OwnerInv => PoolCoversRows
  BY DEF OwnerInv
<1> QED
  BY <1>1, OwnerInvAlways, PTL

(***************************************************************************)
(* A resource row never leads to an instance of someone else.              *)
(***************************************************************************)
THEOREM InstancesAreOwn ==
  ASSUME Serial
  PROVE  Spec => []OwnInstance
<1>1. OwnerInv => OwnInstance
  BY DEF OwnerInv
<1> QED
  BY <1>1, OwnerInvAlways, PTL

(***************************************************************************)
(* Nor does a deletion that is about to destroy by VMID (_terminate_vm).   *)
(***************************************************************************)
THEOREM PurgesAreOwn ==
  ASSUME Serial
  PROVE  Spec => []PurgeTargetsOwn
<1>1. TypeInv /\ OwnerInv => PurgeTargetsOwn
  BY DEF OwnerInv, OwnInstance, HandlesOwnRow, PurgeTargetsOwn, Deleting
<1> QED
  BY <1>1, OwnerInvAlways, PTL

-----------------------------------------------------------------------------
(***************************************************************************)
(* Provisioning implements VmidLease, as long as Serial holds.             *)
(***************************************************************************)
Strong == TypeInv /\ TableInv /\ OwnerInv

Holding(v) == {r \in Creates : InFlight(r) /\ create[r].vmid = v}

LEMMA LeasedIs ==
  ASSUME NEW v \in Vmids
  PROVE  Leased[v] = Holding(v) \union RowsAt(v)
  BY DEF Leased, Holding

LEMMA LeasedNextIs ==
  ASSUME NEW v \in Vmids
  PROVE  Leased'[v] = Holding(v)' \union RowsAt(v)'
  BY DEF Leased, Holding

\* A VMID with a free pool row has no holder, and one with a holder is reserved or linked.
LEMMA FreeIsUnheld ==
  ASSUME Strong, NEW v \in Vmids, pool[v] = Free
  PROVE  Holding(v) = {} /\ RowsAt(v) = {}
<1>1. Holding(v) = {}
  BY NullsAreDistinct DEF Strong, OwnerInv, ReservationHeld, Holding
<1>2. RowsAt(v) = {}
  BY NullsAreDistinct DEF Strong, OwnerInv, PoolCoversRows, RowsAt, ResIds
<1> QED
  BY <1>1, <1>2

LEMMA LeaseInit == Init => Lease!Init
<1> SUFFICES ASSUME Init
             PROVE  Lease!Init
  OBVIOUS
<1>1. \A v \in Vmids : Holding(v) = {} /\ RowsAt(v) = {}
  BY DEF Init, Holding, InFlight, RowsAt, RowExists
<1>2. Leased = [v \in Vmids |-> {}]
  BY <1>1 DEF Leased, Holding
<1>3. Retired = {}
  BY NullsAreDistinct DEF Retired, Init
<1> QED
  BY <1>2, <1>3 DEF Lease!Init

\* Neither the reservations nor the rows move.
LEMMA LeaseStutter ==
  ASSUME UNCHANGED pool,
         \A v \in Vmids : Holding(v)' \union RowsAt(v)' = Holding(v) \union RowsAt(v)
  PROVE  UNCHANGED <<Leased, Retired>>
<1>1. Leased' = Leased
  BY DEF Leased, Holding
<1>2. Retired' = Retired
  BY <1>1 DEF Retired
<1> QED
  BY <1>1, <1>2

LEMMA LeaseIdle ==
  ASSUME UNCHANGED <<pool, rows>>,
         \A q \in Creates : InFlight(q)' <=> InFlight(q),
         \A q \in Creates : InFlight(q) => create'[q].vmid = create[q].vmid
  PROVE  UNCHANGED <<Leased, Retired>>
<1>1. \A v \in Vmids : Holding(v)' = Holding(v)
  BY DEF Holding
<1>2. \A v \in Vmids : RowsAt(v)' = RowsAt(v)
  BY DEF RowsAt, RowExists
<1> QED
  BY <1>1, <1>2, LeaseStutter

LEMMA LeaseMove ==
  ASSUME Strong, NEW r \in Creates,
         Admit(r) \/ SeePool(r) \/ SeeRows(r) \/ Pick(r) \/ Clone(r) \/ Finish(r)
  PROVE  UNCHANGED <<Leased, Retired>>
<1>1. UNCHANGED <<pool, rows>>
  BY DEF Admit, SeePool, SeeRows, Pick, Clone, Finish
<1>2. \A q \in Creates \ {r} : create'[q] = create[q]
  BY CreateEffect, PickEffect DEF Strong, TypeInv, Moves
<1>3. InFlight(r)' <=> InFlight(r)
  BY CreateEffect, PickEffect DEF Strong, TypeInv, Moves, InFlight, Admit, SeePool, SeeRows,
     Pick, Clone, Finish
<1>4. InFlight(r) => create'[r].vmid = create[r].vmid
  BY CreateEffect DEF Strong, TypeInv, Moves, InFlight, Admit, SeePool, SeeRows, Pick, Clone,
     Finish
<1>5. \A q \in Creates : InFlight(q)' <=> InFlight(q)
  BY <1>2, <1>3 DEF InFlight
<1> QED
  BY <1>1, <1>2, <1>4, <1>5, LeaseIdle

\* What Acquire and Return look like on the leased sets
LEMMA AcquireBy ==
  ASSUME NEW v \in Vmids, NEW x \in ResIds,
         Leased[v] = {}, v \notin Retired, \A w \in Vmids : x \notin Leased[w],
         \A w \in Vmids : Leased'[w] = IF w = v THEN {x} ELSE Leased[w],
         \A w \in Vmids : pool'[w] = IF w = v THEN Unlinked ELSE pool[w]
  PROVE  Lease!Next
<1>1. Leased' = [Leased EXCEPT ![v] = {x}]
  BY DEF Leased
<1>2. Retired' = Retired
  BY DEF Retired
<1>3. Lease!Acquire(v, x)
  BY <1>1, <1>2 DEF Lease!Acquire
<1> QED
  BY <1>3 DEF Lease!Next

LEMMA ReturnBy ==
  ASSUME NEW v \in Vmids, Leased[v] # {},
         \A w \in Vmids : Leased'[w] = IF w = v THEN {} ELSE Leased[w],
         \A w \in Vmids : pool'[w] = IF w = v THEN Free ELSE pool[w]
  PROVE  Lease!Next
<1>1. Leased' = [Leased EXCEPT ![v] = {}]
  BY DEF Leased
<1>2. Retired' = Retired
  BY NullsAreDistinct DEF Retired
<1>3. Lease!Return(v)
  BY <1>1, <1>2 DEF Lease!Return
<1> QED
  BY <1>3 DEF Lease!Next

LEMMA LeaseReserve ==
  ASSUME Strong, NEW r \in Creates, Reserve(r)
  PROVE  Lease!Next \/ UNCHANGED <<Leased, Retired>>
<1> DEFINE v == create[r].vmid
<1>1. \A q \in Creates \ {r} : create'[q] = create[q]
  BY CreateEffect DEF Strong, TypeInv, Moves
<1>2. v \in Vmids /\ create'[r].vmid = v /\ r \in ResIds /\ ~InFlight(r)
  BY CreateEffect DEF Strong, TypeInv, Moves, CreateHasVmid, Reserve, ResIds, InFlight
<1>3. \A w \in Vmids : RowsAt(w)' = RowsAt(w)
  BY DEF Reserve, RowsAt, RowExists
<1>4. CASE pool[v] = Free /\ pool' = [pool EXCEPT ![v] = Unlinked] /\ create'[r].step = "reserved"
  <2>1. Leased[v] = {} /\ v \notin Retired
    BY <1>2, <1>4, FreeIsUnheld, LeasedIs, NullsAreDistinct DEF Retired
  <2>2. \A w \in Vmids : r \notin Leased[w]
    <3>1. ~RowExists(r)
      BY <1>2 DEF Strong, TableInv, RowsBorn, Born, Reserve
    <3> QED
      BY <1>2, <3>1, LeasedIs DEF Holding, RowsAt
  <2>3. \A w \in Vmids : Holding(w)' = IF w = v THEN Holding(w) \union {r} ELSE Holding(w)
    BY <1>1, <1>2, <1>4 DEF Holding, InFlight
  <2>4. \A w \in Vmids : Leased'[w] = IF w = v THEN {r} ELSE Leased[w]
    <3>1. \A w \in Vmids : Leased'[w] = IF w = v THEN Leased[w] \union {r} ELSE Leased[w]
      BY <1>3, <2>3, LeasedIs, LeasedNextIs
    <3> QED
      BY <2>1, <3>1
  <2>5. \A w \in Vmids : pool'[w] = IF w = v THEN Unlinked ELSE pool[w]
    BY <1>4 DEF Strong, TypeInv, TypeOK
  <2> QED
    BY <1>2, <2>1, <2>2, <2>4, <2>5, AcquireBy
<1>5. CASE UNCHANGED pool /\ create'[r].step = "failed"
  <2>1. \A q \in Creates : InFlight(q)' <=> InFlight(q)
    BY <1>1, <1>2, <1>5 DEF InFlight
  <2> QED
    BY <1>1, <1>2, <1>5, <2>1, LeaseIdle DEF Reserve
<1> QED
  BY <1>4, <1>5 DEF Reserve, Strong, TypeInv, TypeOK, CreateState

LEMMA LeaseRelease ==
  ASSUME Strong, NEW r \in Creates, Release(r)
  PROVE  Lease!Next
<1> DEFINE v == create[r].vmid
<1>1. Moves(r, "failed") /\ InFlight(r) /\ v \in Vmids
  BY CreateEffect DEF Strong, TypeInv, CreateHasVmid, InFlight, Release
<1>2. RowsAt(v) = {} /\ Holding(v) = {r}
  BY <1>1 DEF Strong, OwnerInv, ReservationHeld, Holding
<1>3. \A w \in Vmids : RowsAt(w)' = RowsAt(w)
  BY DEF Release, RowsAt, RowExists
<1>4. \A w \in Vmids : Holding(w)' = IF w = v THEN {} ELSE Holding(w)
  BY <1>1, <1>2 DEF Holding, InFlight, Moves
<1>5. Leased[v] # {}
  BY <1>1, <1>2, LeasedIs
<1>6. \A w \in Vmids : Leased'[w] = IF w = v THEN {} ELSE Leased[w]
  BY <1>2, <1>3, <1>4, LeasedIs, LeasedNextIs
<1>7. \A w \in Vmids : pool'[w] = IF w = v THEN Free ELSE pool[w]
  BY DEF Release, Strong, TypeInv, TypeOK
<1> QED
  BY <1>1, <1>5, <1>6, <1>7, ReturnBy

\* Recording the row hands the lease from the request to the row it inserted.
LEMMA LeaseRecord ==
  ASSUME Strong, NEW r \in Creates, Record(r)
  PROVE  UNCHANGED <<Leased, Retired>>
<1> DEFINE v == create[r].vmid
<1>1. Moves(r, "recorded") /\ InFlight(r) /\ v \in Vmids /\ r \in ResIds
  BY CreateEffect DEF Strong, TypeInv, CreateHasVmid, InFlight, Record, ResIds
<1>2. pool[v] = Unlinked /\ RowsAt(v) = {} /\ Holding(v) = {r}
  BY <1>1 DEF Strong, OwnerInv, ReservationHeld, Holding
<1>3. \A w \in Vmids : Holding(w)' = IF w = v THEN {} ELSE Holding(w)
  BY <1>1, <1>2 DEF Holding, InFlight, Moves
<1>4. PICK row \in NewRows(r) : rows' = [rows EXCEPT ![r] = row]
  BY DEF Record
<1>5. row \in Row /\ row.vmid = v
  BY <1>1 DEF NewRows, Row, Instances, Types
<1>6. /\ RowExists(r)' /\ rows'[r].vmid = v /\ ~RowExists(r)
      /\ \A x \in ResIds \ {r} : rows'[x] = rows[x]
  BY <1>1, <1>4, <1>5, NoRowIsNull
  DEF RowExists, Strong, TypeInv, TypeOK, TableInv, RowsBorn, Born, Record
<1>7. \A w \in Vmids : RowsAt(w)' = IF w = v THEN {r} ELSE RowsAt(w)
  BY <1>1, <1>2, <1>6 DEF RowsAt, RowExists
<1>8. \A w \in Vmids : Leased'[w] = Leased[w]
  BY <1>2, <1>3, <1>7, LeasedIs, LeasedNextIs
<1>9. Leased' = Leased
  BY <1>8 DEF Leased
<1>10. \A w \in Vmids : pool'[w] = IF w = v THEN r ELSE pool[w]
  BY <1>2, NullsAreDistinct DEF Record, Strong, TypeInv, TypeOK
<1>11. Leased[v] # {}
  BY <1>1, <1>2, LeasedIs
<1>12. Retired' = Retired
  BY <1>1, <1>9, <1>10, <1>11, NullsAreDistinct DEF Retired
<1> QED
  BY <1>9, <1>12

LEMMA LeaseDrop ==
  ASSUME Strong, NEW d \in Deletes, Drop(d)
  PROVE  Lease!Next
<1> DEFINE v == del[d].vmid
           x == del[d].res
<1>1. /\ x \in ResIds /\ RowExists(x) /\ rows[x].vmid = v /\ v \in Vmids
      /\ RowsAt(v) = {x}
  BY DEF Drop, Deleting, Strong, OwnerInv, HandlesOwnRow, PoolCoversRows, TypeInv, TypeOK, Row,
     RowExists
<1>2. Holding(v) = {}
  BY <1>1 DEF Strong, OwnerInv, ReservationHeld, Holding
<1>3. \A y \in ResIds : rows'[y] = IF y = x THEN NoRow ELSE rows[y]
  BY DEF Drop, Strong, TypeInv, TypeOK
<1>4. \A w \in Vmids : RowsAt(w)' = IF w = v THEN {} ELSE RowsAt(w)
  BY <1>1, <1>3 DEF RowsAt, RowExists
<1>5. \A w \in Vmids : Holding(w)' = Holding(w)
  BY DEF Drop, Holding, InFlight
<1>6. Leased[v] # {}
  BY <1>1, LeasedIs
<1>7. \A w \in Vmids : Leased'[w] = IF w = v THEN {} ELSE Leased[w]
  BY <1>2, <1>4, <1>5, LeasedIs, LeasedNextIs
<1>8. \A w \in Vmids : pool'[w] = IF w = v THEN Free ELSE pool[w]
  BY DEF Drop, Strong, TypeInv, TypeOK
<1> QED
  BY <1>1, <1>6, <1>7, <1>8, ReturnBy

LEMMA LeaseImport ==
  ASSUME Strong, NEW i \in Imports, CommitImport(i)
  PROVE  Lease!Next
<1> DEFINE v == imp[i].vmid
<1>1. v \in Vmids /\ i \in ResIds /\ pool[v] = Free /\ ~RowExists(i) /\ i \notin Creates
  BY RequestsAreDistinct
  DEF Strong, TypeInv, ImportHasVmid, CommitImport, ResIds, TableInv, RowsBorn, Born
<1>2. Leased[v] = {} /\ RowsAt(v) = {} /\ v \notin Retired
  BY <1>1, FreeIsUnheld, LeasedIs, NullsAreDistinct DEF Retired
<1>3. \A w \in Vmids : i \notin Leased[w]
  BY <1>1, LeasedIs DEF Holding, RowsAt
<1>4. PICK row \in [vmid : {v}, type : Types, status : {"running"},
                    protected : {FALSE}, inst : {pve[v]}] : rows' = [rows EXCEPT ![i] = row]
  BY DEF CommitImport
<1>5. row \in Row /\ row.vmid = v
  BY <1>1 DEF Row, CommitImport, Strong, TypeInv, TypeOK
<1>6. /\ RowExists(i)' /\ rows'[i].vmid = v
      /\ \A x \in ResIds \ {i} : rows'[x] = rows[x]
  BY <1>1, <1>4, <1>5, NoRowIsNull DEF RowExists, Strong, TypeInv, TypeOK
<1>7. \A w \in Vmids : RowsAt(w)' = IF w = v THEN {i} ELSE RowsAt(w)
  BY <1>1, <1>2, <1>6 DEF RowsAt, RowExists
<1>8. \A w \in Vmids : Holding(w)' = Holding(w)
  BY DEF CommitImport, Holding, InFlight
<1>9. \A w \in Vmids : Leased'[w] = IF w = v THEN {i} ELSE Leased[w]
  <2>1. \A w \in Vmids : Leased'[w] = IF w = v THEN Holding(w) \union {i} ELSE Leased[w]
    BY <1>7, <1>8, LeasedIs, LeasedNextIs
  <2>2. Holding(v) = {}
    BY <1>1, FreeIsUnheld
  <2> QED
    BY <2>1, <2>2
<1>10. \A w \in Vmids : pool'[w] = IF w = v THEN Unlinked ELSE pool[w]
  BY DEF CommitImport, Strong, TypeInv, TypeOK
<1> QED
  BY <1>1, <1>2, <1>3, <1>9, <1>10, AcquireBy

\* A crash retires exactly the VMIDs whose holders were requests in flight.
LEMMA LeaseCrash ==
  ASSUME Strong, ApiCrash
  PROVE  Lease!Next
<1> DEFINE lost == {v \in Vmids : Holding(v) # {}}
<1>1. UNCHANGED <<pool, rows>>
  BY DEF ApiCrash
<1>2. \A v \in Vmids : Holding(v)' = {}
  BY CrashCreates DEF Strong, TypeInv, Holding, InFlight, Creating
<1>3. \A v \in Vmids : RowsAt(v)' = RowsAt(v)
  BY <1>1 DEF RowsAt, RowExists
<1>4. \A v \in lost : pool[v] = Unlinked /\ RowsAt(v) = {}
  BY DEF Strong, OwnerInv, ReservationHeld, Holding
<1>5. \A v \in Vmids : Leased'[v] = IF v \in lost THEN {} ELSE Leased[v]
  BY <1>2, <1>3, <1>4, LeasedIs, LeasedNextIs
<1>6. \A v \in lost : Leased[v] # {}
  BY LeasedIs
<1>7. Leased' = [v \in Vmids |-> IF v \in lost THEN {} ELSE Leased[v]]
  BY <1>5 DEF Leased
<1>8. Retired' = Retired \union lost
  BY <1>1, <1>4, <1>5 DEF Retired
<1>9. Lease!Retire(lost)
  BY <1>6, <1>7, <1>8 DEF Lease!Retire
<1> QED
  BY <1>9 DEF Lease!Next

LEMMA LeaseStep ==
  ASSUME Serial
  PROVE  Strong /\ [Next]_vars => [Lease!Next]_<<Leased, Retired>>
<1> SUFFICES ASSUME Strong, [Next]_vars
             PROVE  Lease!Next \/ UNCHANGED <<Leased, Retired>>
  OBVIOUS
<1>1. ASSUME NEW r \in Creates, CreateStep(r)
      PROVE  Lease!Next \/ UNCHANGED <<Leased, Retired>>
  <2>1. CASE CloneAborts(r)
    BY <2>1, LeaseIdle DEF CloneAborts, InFlight
  <2>2. ~FailLate(r)
    BY DEF FailLate, Serial
  <2>3. ~RecordRefused(r)
    BY DEF RecordRefused, Strong, OwnerInv, ReservationHeld, InFlight
  <2> QED
    BY <1>1, <2>1, <2>2, <2>3, LeaseMove, LeaseReserve, LeaseRelease, LeaseRecord DEF CreateStep
<1>2. ASSUME NEW d \in Deletes, DeleteStep(d)
      PROVE  Lease!Next \/ UNCHANGED <<Leased, Retired>>
  <2>1. CASE ~Drop(d)
    <3>1. UNCHANGED <<pool, rows, create>>
      BY <1>2, <2>1 DEF DeleteStep, Fetch, Purge
    <3> QED
      BY <3>1, LeaseIdle DEF InFlight
  <2> QED
    BY <2>1, LeaseDrop
<1>3. ASSUME NEW i \in Imports, ImportStep(i)
      PROVE  Lease!Next \/ UNCHANGED <<Leased, Retired>>
  <2>1. CASE ~CommitImport(i)
    <3>1. UNCHANGED <<pool, rows, create>>
      BY <1>3, <2>1 DEF ImportStep, CheckImport, ImportRefused
    <3> QED
      BY <3>1, LeaseIdle DEF InFlight
  <2> QED
    BY <2>1, LeaseImport
<1>4. ASSUME NEW x \in ResIds, NEW enabled \in BOOLEAN, SetProtection(x, enabled)
      PROVE  UNCHANGED <<Leased, Retired>>
  <2>1. [rows[x] EXCEPT !.protected = enabled] \in Row
    BY <1>4 DEF SetProtection, RowExists, Strong, TypeInv, TypeOK, Row
  <2>2. \A y \in ResIds : RowExists(y)' <=> RowExists(y)
    BY <1>4, <2>1, NoRowIsNull DEF SetProtection, RowExists, Strong, TypeInv, TypeOK
  <2>3. \A y \in ResIds : RowExists(y) => rows'[y].vmid = rows[y].vmid
    BY <1>4 DEF SetProtection, RowExists, Strong, TypeInv, TypeOK, Row
  <2>4. \A v : RowsAt(v)' = RowsAt(v)
    BY <2>2, <2>3 DEF RowsAt
  <2>5. \A v \in Vmids : Holding(v)' = Holding(v)
    BY <1>4 DEF Holding, InFlight, SetProtection
  <2> QED
    BY <1>4, <2>4, <2>5, LeaseStutter DEF SetProtection
<1>5. CASE UNCHANGED vars
  BY <1>5, LeaseIdle DEF vars, InFlight
<1> QED
  BY <1>1, <1>2, <1>3, <1>4, <1>5, LeaseCrash DEF Next

(***************************************************************************)
(* The VMID bookkeeping keeps the promise of VmidLease: between two        *)
(* holders a VMID is always given back, and an orphaned one stays retired. *)
(***************************************************************************)
THEOREM ProvisioningImplementsLease ==
  ASSUME Serial
  PROVE  Spec => ImplementsLease
<1>1. Init => Strong /\ Lease!Init
  BY TypeInvInit, TableInvInit, OwnerInvInit, LeaseInit DEF Strong
<1>2. Strong /\ [Next]_vars => Strong'
  BY TypeInvStep, TableInvStep, OwnerInvStep DEF Strong
<1>3. Strong /\ [Next]_vars => [Lease!Next]_<<Leased, Retired>>
  BY LeaseStep
<1> QED
  BY <1>1, <1>2, <1>3, PTL DEF Spec, ImplementsLease, Lease!Spec
=============================================================================
