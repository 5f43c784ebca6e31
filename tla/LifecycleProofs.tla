--------------------------- MODULE LifecycleProofs ---------------------------
(***************************************************************************)
(* Theorems about Lifecycle, for every set of VMIDs, users and requests:   *)
(* the idle task and the resource list beside the API, on top of the       *)
(* invariants of Provisioning.                                             *)
(***************************************************************************)
EXTENDS Lifecycle, ProvisioningProofs

-----------------------------------------------------------------------------
(* Types *)

AgeTyped == age \in [ResIds -> Ages]
PowerTyped == power \in [Instances -> {"running", "stopped"}]
TaskTyped == task \in TaskState
SyncTyped == sync \in SyncState

LifeTypeInv == TypeInv /\ AgeTyped /\ PowerTyped /\ TaskTyped /\ SyncTyped

LEMMA LifeTypeIs == LifeTypeInv => LifecycleTypeOK
BY DEF LifeTypeInv, TypeInv, AgeTyped, PowerTyped, TaskTyped, SyncTyped, LifecycleTypeOK

LEMMA OffTyped == TaskOff \in TaskState /\ SyncIdle \in SyncState
BY DEF TaskOff, SyncIdle, NothingWritten, TaskState, SyncState

LEMMA LifeTypeStart == LifecycleInit => LifeTypeInv
<1>1. LifecycleInit => TypeInv
  BY TypeInvInit DEF LifecycleInit
<1>2. LifecycleInit => AgeTyped /\ PowerTyped
  BY AgesAreOrdered DEF LifecycleInit, AgeTyped, PowerTyped, Ages
<1>3. LifecycleInit => TaskTyped /\ SyncTyped
  BY OffTyped DEF LifecycleInit, TaskTyped, SyncTyped
<1> QED
  BY <1>1, <1>2, <1>3 DEF LifeTypeInv

\* Every step of the API is a step of Provisioning or leaves its variables
\* alone, and none of them touches the task.
LEMMA ApiSteps == Api => [Next]_vars /\ UNCHANGED task
<1> SUFFICES ASSUME Api PROVE [Next]_vars /\ UNCHANGED task
  OBVIOUS
<1>1. ASSUME NEW r \in Creates, CreateStep(r), UNCHANGED lifecycleVars
      PROVE  Next /\ UNCHANGED task
  BY <1>1 DEF Next, lifecycleVars
<1>2. ASSUME NEW i \in Imports, ImportStep(i), UNCHANGED lifecycleVars
      PROVE  Next /\ UNCHANGED task
  BY <1>2 DEF Next, lifecycleVars
<1>3. ASSUME NEW d \in Deletes, NEW x \in ResIds, NEW kind \in {"terminate", "unlink"},
             LifecycleFetch(d, x, kind)
      PROVE  Next /\ UNCHANGED task
  BY <1>3 DEF Next, LifecycleFetch, DeleteStep
<1>4. ASSUME NEW d \in Deletes, (Purge(d) /\ UNCHANGED lifecycleVars) \/ LifecycleDrop(d)
      PROVE  Next /\ UNCHANGED task
  BY <1>4 DEF Next, LifecycleDrop, DeleteStep, lifecycleVars
<1>5. ASSUME NEW x \in ResIds, NEW enabled \in BOOLEAN, LifecycleProtect(x, enabled)
      PROVE  Next /\ UNCHANGED task
  BY <1>5 DEF Next, LifecycleProtect
<1>6. ASSUME NEW x \in ResIds, KeepAlive(x) \/ Idles(x)
      PROVE  UNCHANGED vars /\ UNCHANGED task
  BY <1>6 DEF KeepAlive, Idles
<1>7. ASSUME NEW v \in Vmids, PowerChanges(v)
      PROVE  UNCHANGED vars /\ UNCHANGED task
  BY <1>7 DEF PowerChanges
<1>8. CASE ApiCrash /\ sync' = SyncIdle /\ UNCHANGED <<age, power, task>>
  BY <1>8 DEF Next
<1> QED
  BY <1>1, <1>2, <1>3, <1>4, <1>5, <1>6, <1>7, <1>8 DEF Api

LEMMA ApiTyped == LifeTypeInv /\ Api => LifeTypeInv'
<1> SUFFICES ASSUME LifeTypeInv, Api PROVE LifeTypeInv'
  OBVIOUS
<1>1. TypeInv' /\ TaskTyped'
  BY ApiSteps, TypeInvStep DEF LifeTypeInv, TaskTyped
<1>2. 0 \in Ages
  BY AgesAreOrdered DEF Ages
<1>3. AgeTyped' /\ PowerTyped' /\ SyncTyped'
  <2> USE DEF LifeTypeInv, AgeTyped, PowerTyped, SyncTyped
  <2>1. CASE UNCHANGED <<age, power, sync>>
    BY <2>1
  <2>2. ASSUME NEW d \in Deletes, NEW x \in ResIds, NEW kind \in {"terminate", "unlink"},
               LifecycleFetch(d, x, kind)
        PROVE  AgeTyped' /\ PowerTyped' /\ SyncTyped'
    BY <1>2, <2>2 DEF LifecycleFetch
  <2>3. ASSUME NEW x \in ResIds, NEW enabled \in BOOLEAN, LifecycleProtect(x, enabled)
        PROVE  AgeTyped' /\ PowerTyped' /\ SyncTyped'
    BY <1>2, <2>3 DEF LifecycleProtect
  <2>4. ASSUME NEW x \in ResIds, KeepAlive(x)
        PROVE  AgeTyped' /\ PowerTyped' /\ SyncTyped'
    BY <1>2, <2>4 DEF KeepAlive
  <2>5. ASSUME NEW x \in ResIds, Idles(x)
        PROVE  AgeTyped' /\ PowerTyped' /\ SyncTyped'
    <3>1. age[x] + 1 \in Ages
      BY <2>5, AgesAreOrdered DEF Idles, Ages
    <3> QED
      BY <2>5, <3>1 DEF Idles
  <2>6. ASSUME NEW v \in Vmids, PowerChanges(v)
        PROVE  AgeTyped' /\ PowerTyped' /\ SyncTyped'
    BY <2>6 DEF PowerChanges, TypeInv, TypeOK
  <2>7. CASE ApiCrash /\ sync' = SyncIdle /\ UNCHANGED <<age, power, task>>
    BY <2>7, OffTyped
  <2> QED
    BY <2>1, <2>2, <2>3, <2>4, <2>5, <2>6, <2>7 DEF Api, LifecycleDrop, lifecycleVars
<1> QED
  BY <1>1, <1>3 DEF LifeTypeInv

LEMMA CandidatesTyped ==
  ASSUME LifeTypeInv, NEW status
  PROVE  CandidatesOf(status) \subseteq Candidate
<1>1. ASSUME NEW x \in ResIds, RowExists(x)
      PROVE  rows[x] \in Row /\ age[x] \in Ages
  BY <1>1 DEF RowExists, LifeTypeInv, TypeInv, TypeOK, AgeTyped
<1> QED
  BY <1>1 DEF CandidatesOf, Candidate, Row

\* The task goes through its candidates and writes down what it did to some.
LEMMA TaskGoesOn ==
  ASSUME TaskTyped, NEW c \in task.todo, NEW status \in {"stopped", "destroyed"},
         \/ task' = [task EXCEPT !.todo = @ \ {c}, !.flushed = Written]
         \/ task' = [task EXCEPT !.todo = @ \ {c}, !.flushed = Written,
                                 !.written[c.res] = status]
  PROVE  /\ TaskTyped' /\ task'.step = task.step
         /\ task'.todo \subseteq task.todo
         /\ \A x \in ResIds :
              task'.written[x] = task.written[x] \/ (x = c.res /\ task'.written[x] = status)
<1>1. c.res \in ResIds /\ Written \subseteq ResIds
  BY DEF TaskTyped, TaskState, Candidate, Written
<1>2. task \in TaskState /\ task.written \in [ResIds -> {"none", "stopped", "destroyed"}]
  BY DEF TaskTyped, TaskState
<1>3. CASE task' = [task EXCEPT !.todo = @ \ {c}, !.flushed = Written]
  BY <1>1, <1>2, <1>3 DEF TaskTyped, TaskState
<1>4. CASE task' = [task EXCEPT !.todo = @ \ {c}, !.flushed = Written, !.written[c.res] = status]
  <2>1. /\ task'.step = task.step /\ task'.todo = task.todo \ {c}
        /\ task'.flushed = Written
        /\ task'.written = [task.written EXCEPT ![c.res] = status]
    BY <1>2, <1>4 DEF TaskState
  <2>2. task'.written \in [ResIds -> {"none", "stopped", "destroyed"}]
    BY <1>1, <1>2, <2>1
  <2>3. TaskTyped'
    BY <1>1, <1>2, <1>4, <2>1, <2>2 DEF TaskTyped, TaskState
  <2> QED
    BY <1>1, <1>2, <2>1, <2>3
<1> QED
  BY <1>3, <1>4

LEMMA ShutDownEffect ==
  ASSUME LifeTypeInv, NEW c \in task.todo, ShutDownOne(c)
  PROVE  /\ TaskTyped' /\ PowerTyped' /\ task'.todo \subseteq task.todo
         /\ \A x \in ResIds :
              task'.written[x] = task.written[x] \/ (x = c.res /\ task'.written[x] = "stopped")
<1>1. TaskTyped
  BY DEF LifeTypeInv
<1>2. PowerTyped'
  BY DEF ShutDownOne, LifeTypeInv, PowerTyped
<1> QED
  BY <1>1, <1>2, TaskGoesOn DEF ShutDownOne

LEMMA DestroyEffect ==
  ASSUME LifeTypeInv, NEW c \in task.todo, DestroyOne(c)
  PROVE  /\ TaskTyped' /\ task'.todo \subseteq task.todo
         /\ \A v \in Vmids : pve'[v] \in {pve[v], NoInstance}
         /\ \A x \in ResIds :
              task'.written[x] = task.written[x] \/ (x = c.res /\ pve'[c.vmid] = NoInstance)
<1>1. TaskTyped /\ pve \in [Vmids -> Instances \union {NoInstance}]
  BY DEF LifeTypeInv, TypeInv, TypeOK
<1>2. c.vmid \in Vmids
  BY <1>1 DEF TaskTyped, TaskState, Candidate
<1>3. CASE /\ pve' = [pve EXCEPT ![c.vmid] = NoInstance]
           /\ task' = [task EXCEPT !.todo = @ \ {c}, !.flushed = Written,
                                   !.written[c.res] = "destroyed"]
  BY <1>1, <1>2, <1>3, TaskGoesOn
<1>4. CASE UNCHANGED pve /\ task' = [task EXCEPT !.todo = @ \ {c}, !.flushed = Written]
  BY <1>1, <1>4, TaskGoesOn
<1> QED
  BY <1>3, <1>4 DEF DestroyOne

(***************************************************************************)
(* What the commits of the task and of the resource list do to the table:  *)
(* Restated says that rows change in their status alone.                   *)
(***************************************************************************)
Restated ==
    /\ UNCHANGED <<pool, pve, create, del, imp>>
    /\ rows' \in [ResIds -> Row \union {NoRow}]
    /\ \A x \in ResIds :
         /\ RowExists(x)' <=> RowExists(x)
         /\ RowExists(x) => rows'[x].vmid = rows[x].vmid /\ rows'[x].inst = rows[x].inst

LEMMA RowRestated ==
  ASSUME NEW row \in Row, NEW status \in {"running", "stopped", "destroyed"}
  PROVE  /\ [row EXCEPT !.status = status] \in Row
         /\ [row EXCEPT !.status = status].status = status
         /\ [row EXCEPT !.status = status].vmid = row.vmid
         /\ [row EXCEPT !.status = status].inst = row.inst
BY DEF Row

LEMMA RowsRestated ==
  ASSUME TypeOK, NEW S \in SUBSET ResIds, NEW new \in [ResIds -> {"none", "running", "stopped", "destroyed"}],
         \A x \in S : RowExists(x) /\ new[x] # "none",
         rows' = [x \in ResIds |-> IF x \in S THEN [rows[x] EXCEPT !.status = new[x]] ELSE rows[x]],
         UNCHANGED <<pool, pve, create, del, imp>>
  PROVE  Restated /\ \A x \in ResIds : RowExists(x) /\ rows'[x].status = "destroyed" =>
                        rows[x].status = "destroyed" \/ (x \in S /\ new[x] = "destroyed")
<1>1. \A x \in ResIds \ S : rows'[x] = rows[x] /\ rows[x] \in Row \union {NoRow}
  BY DEF TypeOK
<1>2. ASSUME NEW x \in S
      PROVE  /\ rows[x] \in Row /\ rows'[x] \in Row /\ rows'[x].status = new[x]
             /\ rows'[x].vmid = rows[x].vmid /\ rows'[x].inst = rows[x].inst
  <2>1. rows[x] \in Row /\ new[x] \in {"running", "stopped", "destroyed"}
    BY DEF TypeOK, RowExists
  <2> QED
    BY <2>1, RowRestated
<1>3. rows' \in [ResIds -> Row \union {NoRow}]
  BY <1>1, <1>2
<1>4. \A x \in ResIds : RowExists(x)' <=> RowExists(x)
  BY <1>1, <1>2, NoRowIsNull DEF RowExists
<1> QED
  BY <1>1, <1>2, <1>3, <1>4 DEF Restated

LEMMA TaskCommitEffect ==
  ASSUME LifeTypeInv, TaskCommit
  PROVE  /\ Restated /\ task' = TaskOff
         /\ \A x \in ResIds : RowExists(x) /\ rows'[x].status = "destroyed" =>
               rows[x].status = "destroyed" \/ task.written[x] = "destroyed"
<1>1. TypeOK /\ task \in TaskState
  BY DEF LifeTypeInv, TypeInv, TaskTyped
<1>2. task.written \in [ResIds -> {"none", "running", "stopped", "destroyed"}]
  BY <1>1 DEF TaskState
<1>3. /\ Written \in SUBSET ResIds
      /\ \A x \in Written : RowExists(x) /\ task.written[x] # "none"
  BY DEF TaskCommit, FlushFails, Written
<1> QED
  BY <1>1, <1>2, <1>3, RowsRestated DEF TaskCommit

LEMMA SyncCommitEffect ==
  ASSUME LifeTypeInv, SyncCommit
  PROVE  /\ Restated /\ sync' = SyncIdle /\ UNCHANGED task
         /\ \A x \in ResIds : RowExists(x) /\ rows'[x].status = "destroyed" =>
               rows[x].status = "destroyed"
<1> DEFINE updated == {x \in ResIds : sync.written[x] # "none"}
<1>1. TypeOK /\ sync \in SyncState
  BY DEF LifeTypeInv, TypeInv, SyncTyped
<1>2. /\ sync.written \in [ResIds -> {"none", "running", "stopped", "destroyed"}]
      /\ \A x \in ResIds : sync.written[x] # "destroyed"
  BY <1>1 DEF SyncState
<1>3. CASE UNCHANGED rows
  <2>1. UNCHANGED <<pool, pve, create, del, imp, task>> /\ sync' = SyncIdle
    BY DEF SyncCommit
  <2> HIDE DEF updated
  <2> QED
    BY <1>1, <1>3, <2>1 DEF Restated, TypeOK, RowExists
<1>4. CASE /\ \A x \in updated : RowExists(x)
           /\ rows' = [x \in ResIds |-> IF x \in updated
                                       THEN [rows[x] EXCEPT !.status = sync.written[x]]
                                       ELSE rows[x]]
  <2>1. updated \in SUBSET ResIds /\ \A x \in updated : RowExists(x) /\ sync.written[x] # "none"
    BY <1>4
  <2>2. rows' = [x \in ResIds |-> IF x \in updated THEN [rows[x] EXCEPT !.status = sync.written[x]]
                                 ELSE rows[x]]
    BY <1>4
  <2> HIDE DEF updated
  <2> QED
    BY <1>1, <1>2, <2>1, <2>2, RowsRestated DEF SyncCommit
<1> QED
  BY <1>3, <1>4 DEF SyncCommit

LEMMA TypesRestated ==
  ASSUME LifeTypeInv, Restated
  PROVE  TypeInv'
BY DEF LifeTypeInv, TypeInv, TypeOK, CreateHasVmid, ImportHasVmid, Restated

LEMMA TaskTypedStep == LifeTypeInv /\ Task => LifeTypeInv'
<1> SUFFICES ASSUME LifeTypeInv, Task PROVE LifeTypeInv'
  OBVIOUS
<1>1. UNCHANGED vars => TypeInv'
  BY TypeInvStep DEF LifeTypeInv
<1>2. UNCHANGED <<age, power, sync>> => AgeTyped' /\ PowerTyped' /\ SyncTyped'
  BY DEF LifeTypeInv, AgeTyped, PowerTyped, SyncTyped
<1>3. CASE TaskStart \/ SelectStopped
  <2>1. TaskTyped'
    <3>1. CandidatesOf("running") \subseteq Candidate /\ CandidatesOf("stopped") \subseteq Candidate
      BY CandidatesTyped
    <3>2. Written \subseteq ResIds /\ task \in TaskState
      BY DEF Written, LifeTypeInv, TaskTyped
    <3>3. CASE TaskStart
      BY <3>1, <3>3, OffTyped DEF TaskStart, TaskState, TaskTyped
    <3>4. CASE SelectStopped
      BY <3>1, <3>2, <3>4 DEF SelectStopped, TaskState, TaskTyped
    <3> QED
      BY <1>3, <3>3, <3>4
  <2> QED
    BY <1>1, <1>2, <1>3, <2>1 DEF TaskStart, SelectStopped, LifeTypeInv
<1>4. CASE TaskCommit
  BY <1>2, <1>4, TaskCommitEffect, TypesRestated, OffTyped DEF TaskCommit, LifeTypeInv, TaskTyped
<1>5. CASE TaskFails
  BY <1>1, <1>2, <1>5, OffTyped DEF TaskFails, LifeTypeInv, TaskTyped
<1>6. ASSUME NEW c \in task.todo, ShutDownOne(c)
      PROVE  LifeTypeInv'
  <2>1. UNCHANGED <<vars, age, sync>>
    BY <1>6 DEF ShutDownOne
  <2> QED
    BY <1>1, <1>6, <2>1, ShutDownEffect DEF LifeTypeInv, AgeTyped, SyncTyped
<1>7. ASSUME NEW c \in task.todo, DestroyOne(c)
      PROVE  LifeTypeInv'
  <2>1. UNCHANGED <<pool, rows, create, del, imp, age, power, sync>>
    BY <1>7 DEF DestroyOne
  <2>2. pve' \in [Vmids -> Instances \union {NoInstance}]
    BY <1>7 DEF DestroyOne, LifeTypeInv, TypeInv, TypeOK
  <2>3. TypeInv'
    BY <2>1, <2>2 DEF LifeTypeInv, TypeInv, TypeOK, CreateHasVmid, ImportHasVmid
  <2> QED
    BY <1>2, <1>7, <2>1, <2>3, DestroyEffect DEF LifeTypeInv
<1> QED
  BY <1>3, <1>4, <1>5, <1>6, <1>7 DEF Task

LEMMA SyncTypedStep == LifeTypeInv /\ Sync => LifeTypeInv'
<1> SUFFICES ASSUME LifeTypeInv, Sync PROVE LifeTypeInv'
  OBVIOUS
<1>1. CASE SyncRead
  <2> DEFINE live(x) == power[pve[rows[x].vmid]]
             answers(x) == RowExists(x) /\ pve[rows[x].vmid] # NoInstance
  <2>1. ASSUME NEW x \in ResIds, answers(x)
        PROVE  live(x) \in {"running", "stopped"}
    <3>1. rows[x] \in Row
      BY <2>1 DEF LifeTypeInv, TypeInv, TypeOK, RowExists
    <3>2. pve[rows[x].vmid] \in Instances
      BY <2>1, <3>1 DEF LifeTypeInv, TypeInv, TypeOK, Row
    <3> QED
      BY <3>2 DEF LifeTypeInv, PowerTyped
  <2>2. sync' = [step |-> "read",
                 written |-> [x \in ResIds |-> IF answers(x) /\ live(x) # rows[x].status
                                              THEN live(x) ELSE "none"]]
    BY <1>1 DEF SyncRead
  <2>3. SyncTyped'
    <3> HIDE DEF live, answers
    <3> QED
      BY <2>1, <2>2 DEF SyncTyped, SyncState
  <2>4. UNCHANGED <<vars, age, power, task>>
    BY <1>1 DEF SyncRead
  <2> QED
    BY <2>3, <2>4, TypeInvStep DEF LifeTypeInv, AgeTyped, PowerTyped, TaskTyped
<1>2. CASE SyncCommit
  <2>1. UNCHANGED <<age, power>>
    BY <1>2 DEF SyncCommit
  <2> QED
    BY <1>2, <2>1, SyncCommitEffect, TypesRestated, OffTyped
    DEF LifeTypeInv, AgeTyped, PowerTyped, TaskTyped, SyncTyped
<1> QED
  BY <1>1, <1>2 DEF Sync

LEMMA LifeTypeStep == LifeTypeInv /\ [LifecycleNext]_allVars => LifeTypeInv'
<1>1. LifeTypeInv /\ UNCHANGED allVars => LifeTypeInv'
  BY TypeInvStep DEF allVars, lifecycleVars, LifeTypeInv, AgeTyped, PowerTyped, TaskTyped, SyncTyped
<1> QED
  BY <1>1, ApiTyped, TaskTypedStep, SyncTypedStep DEF LifecycleNext

(***************************************************************************)
(* The variables of resource_lifecycle.py's run and of the resource list   *)
(* keep their types, whatever the API does and whatever fails.             *)
(***************************************************************************)
THEOREM LifecycleTyped == LifecycleSpec => []LifecycleTypeOK
<1>1. LifeTypeInv => LifecycleTypeOK
  BY LifeTypeIs
<1> QED
  BY <1>1, LifeTypeStart, LifeTypeStep, PTL DEF LifecycleSpec

-----------------------------------------------------------------------------
(***************************************************************************)
(* What the task knows.  It works on rows it read some time ago: a row is  *)
(* inserted once, so the row of a candidate either is still there, at the  *)
(* VMID that was read, or is gone for good (TodoKnown); the same goes for  *)
(* the rows it has written (WrittenKnown).  That makes WrittenIsTrue and   *)
(* DestroyedIsGone inductive on top of OwnerInv.                           *)
(***************************************************************************)
TodoKnown ==
    \A c \in task.todo :
        Born(c.res) /\ (RowExists(c.res) => rows[c.res].vmid = c.vmid)

WrittenKnown == \A x \in ResIds : task.written[x] # "none" => Born(x)

BaseInv == LifeTypeInv /\ TableInv /\ OwnerInv
TaskInv == TodoKnown /\ WrittenKnown /\ WrittenIsTrue /\ DestroyedIsGone

LEMMA TablesRestated ==
  ASSUME TypeInv, TableInv, OwnerInv, Restated
  PROVE  TableInv' /\ OwnerInv'
<1>1. \A y \in ResIds : RowExists(y)' <=> RowExists(y)
  BY DEF Restated
<1>2. \A y \in ResIds : RowExists(y) => rows'[y].vmid = rows[y].vmid /\ rows'[y].inst = rows[y].inst
  BY DEF Restated
<1>3. UNCHANGED <<pool, pve, create, del, imp>>
  BY DEF Restated
<1>4. \A w : RowsAt(w)' = RowsAt(w)
  BY <1>1, <1>2 DEF RowsAt
<1>5. RowsBorn'
  BY <1>1, <1>3 DEF TableInv, RowsBorn, Born
<1>6. HandlesKnown'
  BY <1>1, <1>2, <1>3 DEF TableInv, HandlesKnown, Born, Deleting
<1>7. LinkedRows'
  BY <1>1, <1>2, <1>3 DEF TableInv, LinkedRows
<1>8. ReservationAccounted'
  BY <1>1, <1>2, <1>3 DEF TableInv, ReservationAccounted, InFlight, ResIds
<1>9. ReservationHeld'
  BY <1>3, <1>4 DEF OwnerInv, ReservationHeld, InFlight
<1>10. PoolCoversRows'
  BY <1>1, <1>2, <1>3, <1>4 DEF OwnerInv, PoolCoversRows
<1>11. OwnInstance' /\ HandlesOwnRow'
  BY <1>1, <1>2, <1>3 DEF OwnerInv, OwnInstance, HandlesOwnRow, Deleting
<1> QED
  BY <1>5, <1>6, <1>7, <1>8, <1>9, <1>10, <1>11 DEF TableInv, OwnerInv

(***************************************************************************)
(* What no step of the API does: forget that a row was inserted, move a    *)
(* row to another VMID or mark it destroyed, or start an instance under    *)
(* the VMID of a row.                                                      *)
(***************************************************************************)
RowKept(x) ==
    RowExists(x)' =>
        IF RowExists(x) THEN rows'[x].vmid = rows[x].vmid /\ rows'[x].status = rows[x].status
        ELSE ~Born(x) /\ rows'[x].status # "destroyed"
Kept ==
    /\ \A x \in ResIds : (Born(x) => Born(x)') /\ RowKept(x)
    /\ \A v \in Vmids : RowsAt(v) # {} => pve'[v] \in {pve[v], NoInstance}

LEMMA KeptByMove ==
  ASSUME TypeInv, UNCHANGED rows,
         \A x \in ResIds : Born(x) => Born(x)',
         \A v \in Vmids : RowsAt(v) # {} => pve'[v] \in {pve[v], NoInstance}
  PROVE  Kept
BY DEF Kept, RowKept, RowExists

LEMMA KeptByCreate ==
  ASSUME TypeInv, TableInv, OwnerInv, NEW r \in Creates, CreateStep(r)
  PROVE  Kept
<1>1. CASE Record(r)
  <2>1. Moves(r, "recorded") /\ create[r].step = "cloned"
    BY <1>1, CreateEffect DEF TypeInv, Record
  <2>2. ~RowExists(r) /\ ~Born(r)
    BY <2>1 DEF TableInv, RowsBorn, Born, ResIds
  <2>3. PICK row \in NewRows(r) : rows' = [rows EXCEPT ![r] = row]
    BY <1>1 DEF Record
  <2>4. row.status = "provisioning"
    BY <2>3 DEF NewRows
  <2>5. rows'[r] = row /\ \A x \in ResIds \ {r} : rows'[x] = rows[x]
    BY <2>3 DEF TypeInv, TypeOK, ResIds
  <2>6. \A x \in ResIds : Born(x) => Born(x)'
    BY <2>1, <1>1 DEF Born, Moves, Record
  <2>7. \A x \in ResIds : RowKept(x)
    BY <2>2, <2>4, <2>5 DEF RowKept, RowExists
  <2>8. UNCHANGED pve
    BY <1>1 DEF Record
  <2> QED
    BY <2>6, <2>7, <2>8 DEF Kept
<1>2. CASE Clone(r)
  <2>1. create[r].vmid \in Vmids /\ RowsAt(create[r].vmid) = {}
    BY <1>2 DEF TypeInv, CreateHasVmid, Clone, OwnerInv, ReservationHeld, InFlight
  <2>2. \A v \in Vmids : RowsAt(v) # {} => pve'[v] = pve[v]
    BY <1>2, <2>1 DEF Clone, TypeInv, TypeOK
  <2>3. Moves(r, "cloned") \/ Moves(r, "releasing")
    BY <1>2, CreateEffect DEF TypeInv
  <2>4. \A x \in ResIds : Born(x) => Born(x)'
    BY <1>2, <2>3 DEF Born, Moves, Clone
  <2>5. UNCHANGED rows
    BY <1>2 DEF Clone
  <2> QED
    BY <2>2, <2>4, <2>5, KeptByMove
<1>3. CASE CloneAborts(r)
  <2>1. UNCHANGED <<rows, create, imp>> /\ \A v \in Vmids : pve'[v] \in {pve[v], NoInstance}
    BY <1>3 DEF CloneAborts, TypeInv, TypeOK
  <2> QED
    BY <2>1, KeptByMove DEF Born
<1>4. CASE ~Record(r) /\ ~Clone(r) /\ ~CloneAborts(r)
  <2>1. UNCHANGED <<rows, pve, imp>>
    BY <1>4 DEF CreateStep, Admit, SeePool, SeeRows, Pick, Reserve, Release, RecordRefused, Finish,
                FailLate
  <2>2. \A q \in Creates \ {r} : create'[q] = create[q]
    BY <1>4, CreateEffect, PickEffect DEF TypeInv, CreateStep, Moves
  <2>3. \A x \in ResIds : Born(x) => Born(x)'
    BY <1>4, <2>1, <2>2, CreateEffect
    DEF TypeInv, CreateStep, Born, Moves, Admit, SeePool, SeeRows, Pick, Reserve, Release,
        RecordRefused, Finish, FailLate
  <2> QED
    BY <2>1, <2>3, KeptByMove
<1> QED
  BY <1>1, <1>2, <1>3, <1>4

LEMMA KeptByDelete ==
  ASSUME TypeInv, TableInv, NEW d \in Deletes, DeleteStep(d)
  PROVE  Kept
<1>1. UNCHANGED <<create, imp>> /\ \A v \in Vmids : pve'[v] \in {pve[v], NoInstance}
  BY DEF DeleteStep, Fetch, Purge, Drop, TypeInv, TypeOK
<1>2. \A x \in ResIds : rows'[x] \in {rows[x], NoRow}
  BY DEF DeleteStep, Fetch, Purge, Drop, TypeInv, TypeOK
<1> QED
  BY <1>1, <1>2 DEF Kept, RowKept, RowExists, Born

LEMMA KeptByImport ==
  ASSUME TypeInv, TableInv, NEW i \in Imports, ImportStep(i)
  PROVE  Kept
<1>1. UNCHANGED <<pve, create>> /\ \A j \in Imports \ {i} : imp'[j] = imp[j]
  BY ImportEffect DEF TypeInv, ImportStep, CheckImport, CommitImport, ImportRefused
<1>2. imp[i].step # "done"
  BY DEF ImportStep, CheckImport, CommitImport, ImportRefused
<1>3. \A x \in ResIds : Born(x) => Born(x)'
  BY <1>1, <1>2 DEF Born
<1>4. CASE CommitImport(i)
  <2>1. ~RowExists(i) /\ ~Born(i)
    BY <1>2, RequestsAreDistinct DEF TableInv, RowsBorn, Born, ResIds
  <2>2. PICK row : rows' = [rows EXCEPT ![i] = row] /\ row.status = "running"
    BY <1>4 DEF CommitImport
  <2>3. rows'[i] = row /\ \A x \in ResIds \ {i} : rows'[x] = rows[x]
    BY <2>2 DEF TypeInv, TypeOK, ResIds
  <2>4. \A x \in ResIds : RowKept(x)
    BY <2>1, <2>2, <2>3 DEF RowKept, RowExists
  <2> QED
    BY <1>1, <1>3, <2>4 DEF Kept
<1>5. CASE ~CommitImport(i)
  <2>1. UNCHANGED rows
    BY <1>5 DEF ImportStep, CheckImport, ImportRefused
  <2> QED
    BY <1>1, <1>3, <2>1, KeptByMove
<1> QED
  BY <1>4, <1>5

LEMMA KeptByApi ==
  ASSUME TypeInv, TableInv, OwnerInv, [Next]_vars
  PROVE  Kept
<1>1. ASSUME NEW x \in ResIds, NEW enabled \in BOOLEAN, SetProtection(x, enabled)
      PROVE  Kept
  <2>1. UNCHANGED <<pve, create, imp>>
    BY <1>1 DEF SetProtection
  <2>2. rows[x] \in Row
    BY <1>1 DEF SetProtection, RowExists, TypeInv, TypeOK
  <2>3. rows'[x].vmid = rows[x].vmid /\ rows'[x].status = rows[x].status
    BY <1>1, <2>2 DEF SetProtection, TypeInv, TypeOK, Row
  <2>4. \A y \in ResIds \ {x} : rows'[y] = rows[y]
    BY <1>1 DEF SetProtection, TypeInv, TypeOK
  <2> QED
    BY <1>1, <2>1, <2>3, <2>4 DEF Kept, RowKept, RowExists, Born, SetProtection
<1>2. CASE ApiCrash
  <2>1. UNCHANGED <<rows, pve>>
    BY <1>2 DEF ApiCrash
  <2>2. \A x \in ResIds : Born(x) => Born(x)'
    BY <1>2, CrashCreates, CrashImports DEF Born, TypeInv, Creating
  <2> QED
    BY <2>1, <2>2, KeptByMove
<1>3. CASE UNCHANGED vars
  BY <1>3, KeptByMove DEF vars, Born
<1> QED
  BY <1>1, <1>2, <1>3, KeptByCreate, KeptByDelete, KeptByImport DEF Next

-----------------------------------------------------------------------------
(* The idle task beside the API *)

LEMMA TaskInvStart == LifecycleInit => TaskInv
BY DEF LifecycleInit, Init, TaskInv, TodoKnown, WrittenKnown, WrittenIsTrue, DestroyedIsGone,
       TaskOff, NothingWritten, RowExists

\* The commit point of every step: a destroyed row has its pool row, because
\* every row has one.
LEMMA DestroyedCovered ==
  ASSUME TypeInv, OwnerInv,
         \A x \in ResIds : RowExists(x) /\ rows[x].status = "destroyed" => pve[rows[x].vmid] = NoInstance
  PROVE  DestroyedIsGone
BY NullsAreDistinct DEF OwnerInv, PoolCoversRows, DestroyedIsGone, ResIds

LEMMA TaskInvApi ==
  ASSUME BaseInv, BaseInv', TaskInv, Kept, UNCHANGED task
  PROVE  TaskInv'
<1> USE DEF BaseInv, LifeTypeInv
<1>1. TodoKnown' /\ WrittenKnown'
  <2>1. \A c \in task.todo : c.res \in ResIds
    BY DEF TaskTyped, TaskState, Candidate
  <2> QED
    BY <2>1 DEF TaskInv, TodoKnown, WrittenKnown, Kept, RowKept
<1>2. ASSUME NEW x \in ResIds, RowExists(x)', RowExists(x), pve[rows[x].vmid] = NoInstance
      PROVE  pve'[rows'[x].vmid] = NoInstance
  <2>1. rows[x].vmid \in Vmids /\ x \in RowsAt(rows[x].vmid)
    BY <1>2 DEF TypeInv, TypeOK, Row, RowExists, RowsAt
  <2> QED
    BY <1>2, <2>1 DEF Kept, RowKept
<1>3. WrittenIsTrue'
  <2>1. SUFFICES ASSUME NEW x \in ResIds, task.written[x] = "destroyed", RowExists(x)'
                 PROVE  pve'[rows'[x].vmid] = NoInstance
    BY DEF WrittenIsTrue
  <2>2. Born(x)
    BY <2>1 DEF TaskInv, WrittenKnown
  <2>3. RowExists(x)
    BY <2>1, <2>2 DEF Kept, RowKept
  <2> QED
    BY <1>2, <2>1, <2>3 DEF TaskInv, WrittenIsTrue
<1>4. \A x \in ResIds : RowExists(x)' /\ rows'[x].status = "destroyed" => pve'[rows'[x].vmid] = NoInstance
  BY <1>2 DEF TaskInv, DestroyedIsGone, Kept, RowKept
<1>5. DestroyedIsGone'
  BY <1>4, NullsAreDistinct DEF OwnerInv, PoolCoversRows, DestroyedIsGone, ResIds
<1> QED
  BY <1>1, <1>3, <1>5 DEF TaskInv

\* A step of the task's two loops: some candidates are done with, instances go.
LEMMA TaskInvLoop ==
  ASSUME BaseInv, TaskInv, UNCHANGED <<pool, rows, create, imp>>, NEW c \in task.todo,
         \A v \in Vmids : pve'[v] \in {pve[v], NoInstance},
         task'.todo \subseteq task.todo,
         \A x \in ResIds : \/ task'.written[x] = task.written[x]
                           \/ x = c.res /\ task'.written[x] = "stopped"
                           \/ x = c.res /\ pve'[c.vmid] = NoInstance
  PROVE  TaskInv'
<1>1. TodoKnown'
  BY DEF TaskInv, TodoKnown, Born, RowExists
<1>2. Born(c.res) /\ (RowExists(c.res) => rows[c.res].vmid = c.vmid)
  BY DEF TaskInv, TodoKnown
<1>3. WrittenKnown'
  BY <1>2 DEF TaskInv, WrittenKnown, Born
<1>4. \A x \in ResIds : RowExists(x) /\ pve[rows[x].vmid] = NoInstance => pve'[rows[x].vmid] = NoInstance
  BY DEF BaseInv, LifeTypeInv, TypeInv, TypeOK, Row, RowExists
<1>5. WrittenIsTrue'
  <2>1. SUFFICES ASSUME NEW x \in ResIds, task'.written[x] = "destroyed", RowExists(x)
                 PROVE  pve'[rows[x].vmid] = NoInstance
    BY DEF WrittenIsTrue, RowExists
  <2>2. CASE task'.written[x] = task.written[x]
    BY <1>4, <2>1, <2>2 DEF TaskInv, WrittenIsTrue
  <2>3. CASE x = c.res /\ pve'[c.vmid] = NoInstance
    BY <1>2, <2>1, <2>3
  <2> QED
    BY <2>1, <2>2, <2>3
<1>6. DestroyedIsGone'
  BY <1>4 DEF TaskInv, DestroyedIsGone, RowExists
<1> QED
  BY <1>1, <1>3, <1>5, <1>6 DEF TaskInv

\* A commit: what it writes as destroyed is gone.
LEMMA TaskInvCommit ==
  ASSUME BaseInv, BaseInv', TaskInv, Restated, task' \in {task, TaskOff},
         \A x \in ResIds : RowExists(x) /\ rows'[x].status = "destroyed" =>
            rows[x].status = "destroyed" \/ task.written[x] = "destroyed"
  PROVE  TaskInv'
<1>1. TodoKnown' /\ WrittenKnown'
  <2>1. \A c \in task.todo : c.res \in ResIds
    BY DEF BaseInv, LifeTypeInv, TaskTyped, TaskState, Candidate
  <2>2. CASE task' = task
    BY <2>1, <2>2 DEF TaskInv, TodoKnown, WrittenKnown, Restated, Born
  <2>3. CASE task' = TaskOff
    BY <2>3 DEF TodoKnown, WrittenKnown, TaskOff, NothingWritten
  <2> QED
    BY <2>2, <2>3
<1>2. WrittenIsTrue'
  <2>1. CASE task' = task
    BY <2>1 DEF TaskInv, WrittenIsTrue, Restated
  <2>2. CASE task' = TaskOff
    BY <2>2 DEF WrittenIsTrue, TaskOff, NothingWritten
  <2> QED
    BY <2>1, <2>2
<1>3. DestroyedIsGone'
  <2>1. \A x \in ResIds : RowExists(x)' /\ rows'[x].status = "destroyed" => pve'[rows'[x].vmid] = NoInstance
    BY DEF TaskInv, DestroyedIsGone, WrittenIsTrue, Restated
  <2> QED
    BY <2>1, NullsAreDistinct DEF BaseInv, OwnerInv, PoolCoversRows, DestroyedIsGone, ResIds
<1> QED
  BY <1>1, <1>2, <1>3 DEF TaskInv

\* The task begins, selects anew or stops; the tables stay.
LEMMA TaskInvSelect ==
  ASSUME BaseInv, TaskInv, UNCHANGED vars,
         task'.todo \subseteq CandidatesOf("running") \union CandidatesOf("stopped"),
         \A x \in ResIds : task'.written[x] \in {task.written[x], "none"}
  PROVE  TaskInv'
<1>1. TodoKnown'
  <2>1. ASSUME NEW c \in CandidatesOf("running") \union CandidatesOf("stopped")
        PROVE  c.res \in ResIds /\ RowExists(c.res) /\ rows[c.res].vmid = c.vmid
    BY <2>1 DEF CandidatesOf
  <2> QED
    BY <2>1 DEF BaseInv, TableInv, RowsBorn, TodoKnown, Born, RowExists, vars
<1>2. WrittenKnown' /\ WrittenIsTrue' /\ DestroyedIsGone'
  BY DEF TaskInv, WrittenKnown, WrittenIsTrue, DestroyedIsGone, Born, RowExists, vars
<1> QED
  BY <1>1, <1>2 DEF TaskInv

LEMMA BaseStep ==
  ASSUME Serial, BaseInv, [LifecycleNext]_allVars
  PROVE  BaseInv'
<1>0. LifeTypeInv' /\ TypeInv
  BY LifeTypeStep DEF BaseInv, LifeTypeInv
<1>1. CASE [Next]_vars
  BY <1>0, <1>1, TableInvStep, OwnerInvStep DEF BaseInv
<1>2. CASE Restated
  BY <1>0, <1>2, TablesRestated DEF BaseInv
<1>3. ASSUME NEW c \in task.todo, DestroyOne(c)
      PROVE  BaseInv'
  <2>1. UNCHANGED <<pool, rows, create, del, imp>>
    BY <1>3 DEF DestroyOne
  <2>2. \A v \in Vmids : pve'[v] \in {pve[v], NoInstance}
    BY <1>3, DestroyEffect DEF BaseInv
  <2> QED
    BY <1>0, <2>1, <2>2, TableInvCluster, OwnerInvCluster DEF BaseInv
<1>4. CASE Task /\ ~TaskCommit /\ \A c \in task.todo : ~DestroyOne(c)
  BY <1>1, <1>4 DEF Task, TaskStart, SelectStopped, TaskFails, ShutDownOne
<1>5. CASE Sync
  BY <1>1, <1>2, <1>5, SyncCommitEffect DEF Sync, SyncRead, BaseInv
<1>6. CASE UNCHANGED allVars
  BY <1>1, <1>6 DEF allVars
<1> QED
  BY <1>1, <1>2, <1>3, <1>4, <1>5, <1>6, ApiSteps, TaskCommitEffect DEF LifecycleNext, Task, BaseInv

LEMMA TaskInvStep ==
  ASSUME Serial, BaseInv, TaskInv, [LifecycleNext]_allVars
  PROVE  TaskInv'
<1>0. BaseInv' /\ LifeTypeInv /\ TypeInv /\ TaskTyped
  BY BaseStep DEF BaseInv, LifeTypeInv
<1>1. CASE [Next]_vars /\ UNCHANGED task
  BY <1>0, <1>1, KeptByApi, TaskInvApi DEF BaseInv
<1>2. CASE TaskStart \/ SelectStopped \/ TaskFails
  <2>1. CASE TaskStart
    BY <2>1, TaskInvSelect DEF TaskStart, TaskOff, NothingWritten
  <2>2. CASE SelectStopped
    <3>1. task \in TaskState
      BY <1>0 DEF TaskTyped
    <3>2. task'.todo = CandidatesOf("stopped") /\ task'.written = task.written /\ UNCHANGED vars
      BY <2>2, <3>1 DEF SelectStopped, TaskState
    <3> QED
      BY <3>2, TaskInvSelect
  <2>3. CASE TaskFails
    BY <2>3, TaskInvSelect DEF TaskFails, TaskOff, NothingWritten
  <2> QED
    BY <1>2, <2>1, <2>2, <2>3
<1>3. ASSUME NEW c \in task.todo, ShutDownOne(c)
      PROVE  TaskInv'
  <2>1. UNCHANGED <<pool, rows, create, imp, pve>>
    BY <1>3 DEF ShutDownOne, vars
  <2> QED
    BY <1>0, <1>3, <2>1, ShutDownEffect, TaskInvLoop
<1>4. ASSUME NEW c \in task.todo, DestroyOne(c)
      PROVE  TaskInv'
  <2>1. UNCHANGED <<pool, rows, create, imp>>
    BY <1>4 DEF DestroyOne
  <2> QED
    BY <1>0, <1>4, <2>1, DestroyEffect, TaskInvLoop
<1>5. CASE TaskCommit
  BY <1>0, <1>5, TaskCommitEffect, TaskInvCommit
<1>6. CASE SyncCommit
  BY <1>0, <1>6, SyncCommitEffect, TaskInvCommit
<1>7. CASE SyncRead \/ UNCHANGED allVars
  BY <1>1, <1>7 DEF SyncRead, allVars, lifecycleVars
<1> QED
  BY <1>1, <1>2, <1>3, <1>4, <1>5, <1>6, <1>7, ApiSteps DEF LifecycleNext, Task, Sync

LEMMA LifecycleInvAlways ==
  ASSUME Serial
  PROVE  LifecycleSpec => [](BaseInv /\ TaskInv)
<1>1. LifecycleInit => BaseInv /\ TaskInv
  BY LifeTypeStart, TableInvInit, OwnerInvInit, TaskInvStart DEF LifecycleInit, BaseInv
<1>2. BaseInv /\ TaskInv /\ [LifecycleNext]_allVars => (BaseInv /\ TaskInv)'
  BY BaseStep, TaskInvStep
<1> QED
  BY <1>1, <1>2, PTL DEF LifecycleSpec

(***************************************************************************)
(* A row that says destroyed tells the truth for good: its VMID is empty   *)
(* as long as the row is there, for resource_lifecycle.py beside creates,  *)
(* deletions, imports and live-status updates, and crashes of both         *)
(* processes.                                                              *)
(***************************************************************************)
THEOREM DestroyedStaysGone ==
  ASSUME Serial
  PROVE  LifecycleSpec => []DestroyedIsGone
<1>1. TaskInv => DestroyedIsGone
  BY DEF TaskInv
<1> QED
  BY <1>1, LifecycleInvAlways, PTL

(***************************************************************************)
(* What a run of resource_lifecycle.py has written in its session and will *)
(* commit at its end is true of the instance until then.                   *)
(***************************************************************************)
THEOREM WrittenStaysTrue ==
  ASSUME Serial
  PROVE  LifecycleSpec => []WrittenIsTrue
<1>1. TaskInv => WrittenIsTrue
  BY DEF TaskInv
<1> QED
  BY <1>1, LifecycleInvAlways, PTL

(***************************************************************************)
(* Beside the idle task and the live-status write-back, too, a row never   *)
(* leads to an instance of someone else.                                   *)
(***************************************************************************)
THEOREM IdleInstancesAreOwn ==
  ASSUME Serial
  PROVE  LifecycleSpec => []OwnInstance
<1>1. BaseInv => OwnInstance
  BY DEF BaseInv, OwnerInv
<1> QED
  BY <1>1, LifecycleInvAlways, PTL

-----------------------------------------------------------------------------
(* VmidLease *)

\* What the task and the resource list do is a stutter of the lease.
LEMMA LeaseRestated ==
  ASSUME Restated
  PROVE  UNCHANGED <<Leased, Retired>>
<1>1. \A v : RowsAt(v)' = RowsAt(v)
  BY DEF Restated, RowsAt
<1>2. \A v \in Vmids : Holding(v)' = Holding(v)
  BY DEF Restated, Holding, InFlight
<1> QED
  BY <1>1, <1>2, LeaseStutter DEF Restated

LEMMA LifecycleLeaseStep ==
  ASSUME Serial, BaseInv, [LifecycleNext]_allVars
  PROVE  [Lease!Next]_<<Leased, Retired>>
<1>1. Strong /\ LifeTypeInv
  BY DEF Strong, BaseInv, LifeTypeInv
<1>2. CASE [Next]_vars
  BY <1>1, <1>2, LeaseStep
<1>3. CASE Restated
  BY <1>3, LeaseRestated
<1>4. ASSUME NEW c \in task.todo, DestroyOne(c)
      PROVE  UNCHANGED <<Leased, Retired>>
  <2>1. UNCHANGED <<pool, rows, create>>
    BY <1>4 DEF DestroyOne
  <2> QED
    BY <2>1, LeaseIdle DEF InFlight
<1>5. CASE Task /\ ~TaskCommit /\ \A c \in task.todo : ~DestroyOne(c)
  BY <1>2, <1>5 DEF Task, TaskStart, SelectStopped, TaskFails, ShutDownOne
<1>6. CASE Sync
  BY <1>1, <1>2, <1>3, <1>6, SyncCommitEffect DEF Sync, SyncRead
<1>7. CASE UNCHANGED allVars
  BY <1>2, <1>7 DEF allVars
<1> QED
  BY <1>1, <1>2, <1>3, <1>4, <1>5, <1>6, <1>7, ApiSteps, TaskCommitEffect DEF LifecycleNext, Task

(***************************************************************************)
(* The lease of a VMID is also kept with the idle task and the live-status *)
(* write-back at work: a destroyed row goes on holding its VMID until a    *)
(* deletion gives it back.                                                 *)
(***************************************************************************)
THEOREM LifecycleImplementsLease ==
  ASSUME Serial
  PROVE  LifecycleSpec => ImplementsLease
<1>1. LifecycleInit => Lease!Init
  BY LeaseInit DEF LifecycleInit
<1>2. BaseInv /\ [LifecycleNext]_allVars => [Lease!Next]_<<Leased, Retired>>
  BY LifecycleLeaseStep
<1> QED
  BY <1>1, <1>2, LifecycleInvAlways, PTL DEF LifecycleSpec, ImplementsLease, Lease!Spec
=============================================================================
