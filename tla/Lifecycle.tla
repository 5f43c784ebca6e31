----------------------------- MODULE Lifecycle -----------------------------
(***************************************************************************)
(* The hourly idle-resource task (tasks/resource_lifecycle.py) running in  *)
(* a Celery worker beside the API of module Provisioning, and the admin's  *)
(* resource list, which writes the live status into the table.             *)
(*                                                                         *)
(* The task reads all candidate rows with one SELECT and then goes through *)
(* them one by one, awaiting a query per row and calling Proxmox by the    *)
(* VMID it read; it commits once, at the end.  Every query first flushes   *)
(* what the task has written so far, so PostgreSQL keeps those rows locked *)
(* until the commit; a flush that finds a row gone raises and the whole    *)
(* run is rolled back.                                                     *)
(***************************************************************************)
EXTENDS Provisioning

CONSTANTS
    ShutdownAge,   \* idle_shutdown_days, in abstract units of idle time
    DestroyAge     \* idle_destroy_days

ASSUME AgesAreOrdered == /\ ShutdownAge \in Nat /\ DestroyAge \in Nat
                         /\ 0 < ShutdownAge /\ ShutdownAge <= DestroyAge

VARIABLES
    age,      \* how long ago each resource was last accessed
    power,    \* whether each instance runs
    task,     \* the run of the lifecycle task
    sync      \* the admin's GET /admin/users/{id}/resources

lifecycleVars == <<age, power, task, sync>>
allVars == <<vars, lifecycleVars>>

Ages == 0 .. DestroyAge

\* What the task knows of a row it selected
Candidate == [res : ResIds, vmid : Vmids, inst : Instances, type : Types, age : Ages]

\* written: the status each row gets in the session.  flushed: the rows whose
\* UPDATE has been sent, and which are locked.
TaskState == [step : {"off", "shutdown", "destroy"}, todo : SUBSET Candidate,
              written : [ResIds -> {"none", "stopped", "destroyed"}], flushed : SUBSET ResIds]

SyncState == [step : {"idle", "read"}, written : [ResIds -> {"none", "running", "stopped"}]]

LifecycleTypeOK ==
    /\ TypeOK
    /\ age \in [ResIds -> Ages]
    /\ power \in [Instances -> {"running", "stopped"}]
    /\ task \in TaskState
    /\ sync \in SyncState

NothingWritten == [x \in ResIds |-> "none"]
TaskOff == [step |-> "off", todo |-> {}, written |-> NothingWritten, flushed |-> {}]
SyncIdle == [step |-> "idle", written |-> NothingWritten]

LifecycleInit ==
    /\ Init
    /\ age = [x \in ResIds |-> 0]
    /\ power = [n \in Instances |-> "stopped"]
    /\ task = TaskOff
    /\ sync = SyncIdle

Locked(x) == x \in task.flushed

\* A guest lives under the VMID and runs, or lives there and is stopped.
Runs(v)   == pve[v] # NoInstance /\ power[pve[v]] = "running"
Halted(v) == pve[v] # NoInstance /\ power[pve[v]] = "stopped"

-----------------------------------------------------------------------------
(* The API of Provisioning, kept off the rows that the task has locked *)

\* _get_user_resource commits the access time, so it waits for the lock.
\* The admin's removal only reads the row here.
LifecycleFetch(d, x, kind) ==
    /\ Fetch(d, x, kind)
    /\ kind = "terminate" => ~Locked(x)
    /\ age' = IF kind = "terminate" THEN [age EXCEPT ![x] = 0] ELSE age
    /\ UNCHANGED <<power, task, sync>>

LifecycleDrop(d) == Drop(d) /\ ~Locked(del[d].res) /\ UNCHANGED lifecycleVars

LifecycleProtect(x, enabled) ==
    /\ SetProtection(x, enabled)
    /\ ~Locked(x)
    /\ age' = [age EXCEPT ![x] = 0]
    /\ UNCHANGED <<power, task, sync>>

\* keepalive, and every other endpoint that goes through _get_user_resource
KeepAlive(x) ==
    /\ RowExists(x)
    /\ rows[x].status # "destroyed"
    /\ ~Locked(x)
    /\ age[x] > 0
    /\ age' = [age EXCEPT ![x] = 0]
    /\ UNCHANGED <<vars, power, task, sync>>

\* Days pass; a request that has just touched the row is over long before.
Idles(x) ==
    /\ RowExists(x)
    /\ \A d \in Deletes : Deleting(d) => del[d].res # x
    /\ age[x] < DestroyAge
    /\ age' = [age EXCEPT ![x] = @ + 1]
    /\ UNCHANGED <<vars, power, task, sync>>

\* A user starts or stops the guest; neither endpoint writes Resource.status.
PowerChanges(v) ==
    /\ pve[v] # NoInstance
    /\ \E p \in {"running", "stopped"} \ {power[pve[v]]} : power' = [power EXCEPT ![pve[v]] = p]
    /\ UNCHANGED <<vars, age, task, sync>>

Api ==
    \/ \E r \in Creates : CreateStep(r) /\ UNCHANGED lifecycleVars
    \/ \E i \in Imports : ImportStep(i) /\ UNCHANGED lifecycleVars
    \/ \E d \in Deletes :
         \/ \E x \in ResIds, kind \in {"terminate", "unlink"} : LifecycleFetch(d, x, kind)
         \/ Purge(d) /\ UNCHANGED lifecycleVars
         \/ LifecycleDrop(d)
    \/ \E x \in ResIds, enabled \in BOOLEAN : LifecycleProtect(x, enabled)
    \/ \E x \in ResIds : KeepAlive(x) \/ Idles(x)
    \/ \E v \in Vmids : PowerChanges(v)
    \/ ApiCrash /\ sync' = SyncIdle /\ UNCHANGED <<age, power, task>>

-----------------------------------------------------------------------------
(* The task *)

Written == {x \in ResIds : task.written[x] # "none"}

\* A flush needs every row it updates: SQLAlchemy raises StaleDataError.
FlushFails == \E x \in Written : ~RowExists(x)

\* The rows of one status that are not protected, as the session sees them
CandidatesOf(status) ==
    {[res |-> x, vmid |-> rows[x].vmid, inst |-> rows[x].inst, type |-> rows[x].type,
      age |-> age[x]] :
        x \in {y \in ResIds :
                 /\ RowExists(y)
                 /\ ~rows[y].protected
                 /\ (IF y \in Written THEN task.written[y] ELSE rows[y].status) = status}}

TaskStart ==
    /\ task.step = "off"
    /\ task' = [TaskOff EXCEPT !.step = "shutdown", !.todo = CandidatesOf("running")]
    /\ UNCHANGED <<vars, age, power, sync>>

\* One row of the shutdown loop.  Containers are stopped, VMs asked to shut
\* down.  Proxmox refuses both for a guest that does not run.
ShutDownOne(c) ==
    /\ task.step = "shutdown"
    /\ c \in task.todo
    /\ ~FlushFails
    /\ \/ /\ c.age >= ShutdownAge
          /\ Runs(c.vmid)
          /\ \/ power' = [power EXCEPT ![pve[c.vmid]] = "stopped"]
             \/ c.type = "vm" /\ UNCHANGED power
          /\ task' = [task EXCEPT !.todo = @ \ {c}, !.flushed = Written,
                                  !.written[c.res] = "stopped"]
       \/ /\ c.age < ShutdownAge \/ ~Runs(c.vmid)
          /\ task' = [task EXCEPT !.todo = @ \ {c}, !.flushed = Written]
          /\ UNCHANGED power
    /\ UNCHANGED <<vars, age, sync>>

SelectStopped ==
    /\ task.step = "shutdown"
    /\ task.todo = {}
    /\ ~FlushFails
    /\ task' = [task EXCEPT !.step = "destroy", !.todo = CandidatesOf("stopped"),
                            !.flushed = Written]
    /\ UNCHANGED <<vars, age, power, sync>>

\* Mutant: an error of the destroy call is swallowed, as _terminate_vm does.
DestroyOneSwallows(c) ==
    /\ task.step = "destroy"
    /\ c \in task.todo
    /\ ~FlushFails
    /\ IF c.age >= DestroyAge
       THEN /\ pve' = IF Halted(c.vmid) THEN [pve EXCEPT ![c.vmid] = NoInstance] ELSE pve
            /\ task' = [task EXCEPT !.todo = @ \ {c}, !.flushed = Written,
                                    !.written[c.res] = "destroyed"]
       ELSE /\ task' = [task EXCEPT !.todo = @ \ {c}, !.flushed = Written]
            /\ UNCHANGED pve
    /\ UNCHANGED <<pool, rows, create, del, imp, age, power, sync>>

\* One row of the destroy loop.  Proxmox refuses to destroy a running guest.
DestroyOne(c) ==
    /\ task.step = "destroy"
    /\ c \in task.todo
    /\ ~FlushFails
    /\ \/ /\ c.age >= DestroyAge
          /\ Halted(c.vmid)
          /\ pve' = [pve EXCEPT ![c.vmid] = NoInstance]
          /\ task' = [task EXCEPT !.todo = @ \ {c}, !.flushed = Written,
                                  !.written[c.res] = "destroyed"]
       \/ /\ c.age < DestroyAge \/ ~Halted(c.vmid)
          /\ task' = [task EXCEPT !.todo = @ \ {c}, !.flushed = Written]
          /\ UNCHANGED pve
    /\ UNCHANGED <<pool, rows, create, del, imp, age, power, sync>>

\* Mutant: the commit frees the VMIDs of the destroyed rows.
TaskCommitFrees ==
    /\ task.step = "destroy"
    /\ task.todo = {}
    /\ ~FlushFails
    /\ rows' = [x \in ResIds |-> IF x \in Written
                                 THEN [rows[x] EXCEPT !.status = task.written[x]]
                                 ELSE rows[x]]
    /\ pool' = [v \in Vmids |->
                   IF \E x \in RowsAt(v) : task.written[x] = "destroyed" THEN Free ELSE pool[v]]
    /\ task' = TaskOff
    /\ UNCHANGED <<pve, create, del, imp, age, power, sync>>

\* The destroyed rows keep their VMID and their pool row.
TaskCommit ==
    /\ task.step = "destroy"
    /\ task.todo = {}
    /\ ~FlushFails
    /\ rows' = [x \in ResIds |-> IF x \in Written
                                 THEN [rows[x] EXCEPT !.status = task.written[x]]
                                 ELSE rows[x]]
    /\ task' = TaskOff
    /\ UNCHANGED <<pool, pve, create, del, imp, age, power, sync>>

\* A flush that fails rolls the run back; what Proxmox did stays done.  So it
\* is when the worker dies.
TaskFails ==
    /\ task.step # "off"
    /\ FlushFails \/ "worker_crash" \in Faults
    /\ task' = TaskOff
    /\ UNCHANGED <<vars, age, power, sync>>

Task ==
    \/ TaskStart \/ SelectStopped \/ TaskCommit \/ TaskFails
    \/ \E c \in task.todo : ShutDownOne(c) \/ DestroyOne(c)

-----------------------------------------------------------------------------
(* get_user_resources *)

\* The rows are loaded and Proxmox is asked for each.  A row that goes in
\* between makes the commit fail as one that goes later does, so the two are
\* one step.  Only a status that differs is written.
SyncRead ==
    LET live(x) == power[pve[rows[x].vmid]]
        answers(x) == RowExists(x) /\ pve[rows[x].vmid] # NoInstance
    IN
    /\ sync.step = "idle"
    /\ sync' = [step |-> "read",
                written |-> [x \in ResIds |->
                                IF answers(x) /\ live(x) # rows[x].status
                                THEN live(x) ELSE "none"]]
    /\ UNCHANGED <<vars, age, power, task>>

SyncCommit ==
    LET updated == {x \in ResIds : sync.written[x] # "none"} IN
    /\ sync.step = "read"
    /\ updated \intersect task.flushed = {}
    /\ \/ /\ \A x \in updated : RowExists(x)
          /\ rows' = [x \in ResIds |-> IF x \in updated
                                       THEN [rows[x] EXCEPT !.status = sync.written[x]]
                                       ELSE rows[x]]
       \/ /\ \E x \in updated : ~RowExists(x)
          /\ UNCHANGED rows
    /\ sync' = SyncIdle
    /\ UNCHANGED <<pool, pve, create, del, imp, age, power, task>>

Sync == SyncRead \/ SyncCommit

LifecycleNext == Api \/ Task \/ Sync

LifecycleSpec == LifecycleInit /\ [][LifecycleNext]_allVars

-----------------------------------------------------------------------------
(* Properties *)

(***************************************************************************)
(* A row that says destroyed (answered with 410 from then on) tells the    *)
(* truth: nothing lives under its VMID, and nothing ever will, because the *)
(* VMID stays reserved, however runs of the task, deletions and live-status *)
(* updates interleave.                                                     *)
(***************************************************************************)
DestroyedIsGone ==
    \A x \in ResIds : RowExists(x) /\ rows[x].status = "destroyed" =>
        pve[rows[x].vmid] = NoInstance /\ pool[rows[x].vmid] # Free

(***************************************************************************)
(* What a run is about to commit is true as well: a row it will mark       *)
(* destroyed has lost its instance, or the row is gone and the commit will *)
(* fail.                                                                   *)
(***************************************************************************)
WrittenIsTrue ==
    \A x \in ResIds : task.written[x] = "destroyed" /\ RowExists(x) =>
        pve[rows[x].vmid] = NoInstance

(***************************************************************************)
(* "Idle destroy: remove stopped instances past the destroy threshold":    *)
(* the instance the destroy loop acts on is the one of the row it          *)
(* selected, not one that has got the VMID since.                          *)
(***************************************************************************)
IdleDestroyTargetsOwn ==
    task.step = "destroy" =>
        \A c \in task.todo : c.age >= DestroyAge => pve[c.vmid] \in {c.inst, NoInstance}

(***************************************************************************)
(* "Touch last_accessed_at to prevent idle lifecycle enforcement": the     *)
(* task does not destroy the instance of a row whose access time, as it is *)
(* in the table at that moment, is recent.                                 *)
(***************************************************************************)
KeepAliveRespected ==
    [][\A v \in Vmids, x \in ResIds :
         /\ RowExists(x) /\ rows[x].vmid = v /\ age[x] < DestroyAge
         /\ task' # task /\ pve[v] = rows[x].inst
         => pve'[v] = pve[v]]_allVars
=============================================================================
