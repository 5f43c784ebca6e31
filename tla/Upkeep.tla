-------------------------------- MODULE Upkeep --------------------------------
(***************************************************************************)
(* What keeps the resources table in step with the cluster: the drift scan *)
(* of every five minutes, the quota task of every fifteen, beside the      *)
(* requests that change rows and guests (tasks/drift_scanner.py, tasks/    *)
(* resource_lifecycle.py, routers/drift.py, admin.py, compute.py).         *)
(*                                                                         *)
(* A task is split where it awaits the database; its Proxmox calls block   *)
(* the worker only, so everything else may happen meanwhile.               *)
(***************************************************************************)
EXTENDS Integers, FiniteSetsExt

CONSTANTS
    Insts, Owners, Nodes, Scans,
    MaxCores,    \* bound: cores of an instance are 1 .. MaxCores
    Limits,      \* bound: the max_vcpus an admin may set
    Overlap,     \* whether two scans may be at work together
    NoInst, NoOwner

ASSUME UpkeepConstants ==
    /\ MaxCores \in Nat \ {0} /\ Limits \subseteq Nat /\ Overlap \in BOOLEAN
    /\ NoInst \notin Insts /\ NoOwner \notin Owners
    /\ IsFiniteSet(Insts) /\ Nodes # {}

VARIABLES
    rows,    \* the resources table
    guests,  \* the guests of the cluster
    limit,   \* UserQuota.max_vcpus
    open,    \* unacknowledged drift events: of an instance without guest, and
             \* under NoInst of guests without row
    scan,    \* the scans
    quota    \* the quota task

upkeepVars == <<rows, guests, limit, open, scan, quota>>

Statuses == {"provisioning", "running", "stopped", "destroyed"}
ResourceRow == [status : Statuses \union {"none"}, owner : Owners \union {NoOwner},
                node : Nodes, cores : 1 .. MaxCores, protected : BOOLEAN]
NoResource == [status |-> "none", owner |-> NoOwner, node |-> CHOOSE n \in Nodes : TRUE,
               cores |-> 1, protected |-> FALSE]
Guest == [state : {"absent", "running", "stopped"}, node : Nodes]
NoGuest == [state |-> "absent", node |-> NoResource.node]
Keys == Insts \union {NoInst}

\* seen: the listing.  copy: the rows selected.  events: those found.
Scan == [step : {"idle", "listed", "selected", "flushed"}, seen : [Insts -> Guest],
         copy : [Insts -> ResourceRow], events : [Keys -> 0 .. 2]]
NoScan == [step |-> "idle", seen |-> [i \in Insts |-> NoGuest],
           copy |-> [i \in Insts |-> NoResource], events |-> [k \in Keys |-> 0]]

\* todo: owners still to be looked at.  copy: the rows of owner.  halted: the
\* rows that this run sets to stopped, flushed: those of them that are locked.
QuotaTask == [step : {"idle", "next", "read"}, todo : SUBSET Owners, owner : Owners \union {NoOwner},
              copy : [Insts -> ResourceRow], halted : SUBSET Insts, flushed : SUBSET Insts]
NoQuotaTask == [step |-> "idle", todo |-> {}, owner |-> NoOwner,
                copy |-> [i \in Insts |-> NoResource], halted |-> {}, flushed |-> {}]

Recorded(i) == rows[i].status # "none"

UpkeepTypeOK ==
    /\ rows \in [Insts -> ResourceRow]
    /\ \A i \in Insts : Recorded(i) <=> rows[i].owner # NoOwner
    /\ guests \in [Insts -> Guest]
    /\ limit \in [Owners -> Limits]
    /\ open \in [Keys -> 0 .. 2]
    /\ \A i \in Insts : ~Recorded(i) => open[i] = 0
    /\ scan \in [Scans -> Scan]
    /\ quota \in QuotaTask

UpkeepInit ==
    /\ rows = [i \in Insts |-> NoResource]
    /\ guests = [i \in Insts |-> NoGuest]
    /\ limit \in [Owners -> Limits]
    /\ open = [k \in Keys |-> 0]
    /\ scan = [s \in Scans |-> NoScan]
    /\ quota = NoQuotaTask

-----------------------------------------------------------------------------
(* The rows a scan compares, and what it finds *)

\* status.notin_: "destroyed" is not among those left out.
Scanned(s) == {i \in Insts : scan[s].copy[i].status # "none"}

\* Mutant: a row is repaired in one direction only.
RepairedRunningOnly(s, i) ==
    LET row == scan[s].copy[i]  guest == scan[s].seen[i] IN
    IF guest.state = "absent" THEN row
    ELSE [row EXCEPT !.status = IF @ = "running" THEN guest.state ELSE @, !.node = guest.node]

\* Mutant: a guest that moved is not followed.
RepairedStatusOnly(s, i) ==
    LET row == scan[s].copy[i]  guest == scan[s].seen[i] IN
    IF guest.state = "absent" THEN row
    ELSE [row EXCEPT !.status = IF @ \in {"running", "stopped"} THEN guest.state ELSE @]

Repaired(s, i) ==
    LET row == scan[s].copy[i]  guest == scan[s].seen[i] IN
    IF guest.state = "absent" THEN row
    ELSE [row EXCEPT !.status = IF @ \in {"running", "stopped"} THEN guest.state ELSE @,
                     !.node = guest.node]
Repairs(s) == {i \in Scanned(s) : Repaired(s, i) # scan[s].copy[i]}

\* Mutant: only rows that say running are missed.
FoundRunning(s) ==
    {i \in Scanned(s) : scan[s].seen[i].state = "absent" /\ scan[s].copy[i].status = "running"}

\* Guests carry the id of their row in the description.
Found(s) ==
    {i \in Scanned(s) : scan[s].seen[i].state = "absent"}
    \union {k \in {NoInst} : \E i \in Insts \ Scanned(s) : scan[s].seen[i].state # "absent"}

\* A row that a transaction has flushed is locked until that one commits.
WrittenBy(s) == IF scan[s].step = "flushed" THEN Repairs(s) ELSE {}
RowFree(i) == i \notin quota.flushed /\ \A s \in Scans : i \notin WrittenBy(s)

-----------------------------------------------------------------------------
(* Requests and the cluster *)

\* Bound of the model: an id is used again once no task has it in its copy.
Forgotten(i) ==
    /\ \A s \in Scans : scan[s].copy[i] = NoResource
    /\ quota.copy[i] = NoResource /\ i \notin quota.halted

Create(i, u, n, c) ==
    /\ ~Recorded(i) /\ guests[i].state = "absent" /\ Forgotten(i)
    /\ rows' = [rows EXCEPT ![i] = [NoResource EXCEPT !.status = "provisioning", !.owner = u,
                                                      !.node = n, !.cores = c]]
    /\ \E state \in {"running", "stopped"} :
         guests' = [guests EXCEPT ![i] = [state |-> state, node |-> n]]
    /\ UNCHANGED <<limit, open, scan, quota>>

\* get_user_resources: the node that the row names is asked.
SyncLive(i) ==
    /\ Recorded(i) /\ RowFree(i)
    /\ guests[i].state # "absent" /\ guests[i].node = rows[i].node
    /\ rows' = [rows EXCEPT ![i].status = guests[i].state]
    /\ UNCHANGED <<guests, limit, open, scan, quota>>

\* vm_action, the console of Proxmox, or the guest itself
Power(i) ==
    /\ guests[i].state # "absent"
    /\ guests' = [guests EXCEPT ![i].state = IF @ = "running" THEN "stopped" ELSE "running"]
    /\ UNCHANGED <<rows, limit, open, scan, quota>>

Migrate(i, n) ==
    /\ guests[i].state # "absent" /\ guests[i].node # n
    /\ guests' = [guests EXCEPT ![i].node = n]
    /\ UNCHANGED <<rows, limit, open, scan, quota>>

\* Deleted by the admin of the cluster
Vanish(i) ==
    /\ guests[i].state # "absent"
    /\ guests' = [guests EXCEPT ![i] = NoGuest]
    /\ UNCHANGED <<rows, limit, open, scan, quota>>

\* The idle task keeps the row.
IdleDestroy(i) ==
    /\ rows[i].status = "stopped" /\ ~rows[i].protected /\ RowFree(i)
    /\ guests' = [guests EXCEPT ![i] = NoGuest]
    /\ rows' = [rows EXCEPT ![i].status = "destroyed"]
    /\ UNCHANGED <<limit, open, scan, quota>>

\* _terminate_vm: a guest that Proxmox does not destroy stays.  The events of
\* the row lose their reference, and the next scan deletes them.
Terminate(i) ==
    /\ Recorded(i) /\ ~rows[i].protected /\ RowFree(i)
    /\ \/ guests' = [guests EXCEPT ![i] = NoGuest]
       \/ UNCHANGED guests
    /\ rows' = [rows EXCEPT ![i] = NoResource]
    /\ open' = [open EXCEPT ![i] = 0]
    /\ UNCHANGED <<limit, scan, quota>>

\* transfer_resource asks for no quota.
Transfer(i, u) ==
    /\ Recorded(i) /\ rows[i].owner # u /\ RowFree(i)
    /\ rows' = [rows EXCEPT ![i].owner = u]
    /\ UNCHANGED <<guests, limit, open, scan, quota>>

\* resize_vm compares this instance alone with the quota.
Resize(i, c) ==
    /\ rows[i].status = "stopped" /\ RowFree(i)
    /\ c <= limit[rows[i].owner]
    /\ rows' = [rows EXCEPT ![i].cores = c]
    /\ UNCHANGED <<guests, limit, open, scan, quota>>

SetProtected(i, protected) ==
    /\ Recorded(i) /\ RowFree(i)
    /\ rows' = [rows EXCEPT ![i].protected = protected]
    /\ UNCHANGED <<guests, limit, open, scan, quota>>

SetLimit(u, n) ==
    /\ limit' = [limit EXCEPT ![u] = n]
    /\ UNCHANGED <<rows, guests, open, scan, quota>>

\* acknowledge_drift_event and delete_drift_event: the scan reads neither.
CloseEvent(k) ==
    /\ open[k] > 0
    /\ open' = [open EXCEPT ![k] = @ - 1]
    /\ UNCHANGED <<rows, guests, limit, scan, quota>>

-----------------------------------------------------------------------------
(* scan_drift *)

ListGuests(s) ==
    /\ scan[s].step = "idle"
    /\ Overlap \/ \A t \in Scans : scan[t].step = "idle"
    /\ scan' = [scan EXCEPT ![s].step = "listed", ![s].seen = guests]
    /\ UNCHANGED <<rows, guests, limit, open, quota>>

SelectRows(s) ==
    /\ scan[s].step = "listed"
    /\ scan' = [scan EXCEPT ![s].step = "selected", ![s].copy = rows]
    /\ UNCHANGED <<rows, guests, limit, open, quota>>

\* The SELECT of the events flushes the repairs: a row that is gone ends the
\* scan.
FlushRepairs(s) ==
    /\ scan[s].step = "selected"
    /\ \A i \in Repairs(s) : RowFree(i) /\ Recorded(i)
    /\ scan' = [scan EXCEPT ![s].step = "flushed", ![s].events = open]
    /\ UNCHANGED <<rows, guests, limit, open, quota>>

FlushFailsScan(s) ==
    /\ scan[s].step = "selected"
    /\ \E i \in Repairs(s) : ~Recorded(i)
    /\ scan' = [scan EXCEPT ![s] = NoScan]
    /\ UNCHANGED <<rows, guests, limit, open, quota>>

\* scalar_one_or_none: two events under one key end this and every later scan.
\* So does a new event of a row that is gone, or an old one deleted meanwhile.
EventsFit(s) ==
    \A k \in Found(s) : /\ scan[s].events[k] <= 1
                        /\ k \in Insts => Recorded(k)
                        /\ open[k] >= scan[s].events[k]

Less(m, n) == IF m > n THEN m - n ELSE 0

\* Events that were not found again are deleted, those new are inserted.
CommitScan(s) ==
    /\ scan[s].step = "flushed"
    /\ IF EventsFit(s)
       THEN /\ open' = [k \in Keys |->
                          IF k \notin Found(s) THEN Less(open[k], scan[s].events[k])
                          ELSE IF scan[s].events[k] = 0 /\ open[k] < 2 THEN open[k] + 1
                          ELSE open[k]]
            /\ rows' = [i \in Insts |->
                          IF i \notin Repairs(s) THEN rows[i]
                          ELSE [rows[i] EXCEPT
                                  !.status = IF Repaired(s, i).status # scan[s].copy[i].status
                                             THEN Repaired(s, i).status ELSE @,
                                  !.node = Repaired(s, i).node]]
       ELSE UNCHANGED <<open, rows>>
    /\ scan' = [scan EXCEPT ![s] = NoScan]
    /\ UNCHANGED <<guests, limit, quota>>

-----------------------------------------------------------------------------
(* enforce_quota *)

\* The function sums the cores of an owner's rows.
UsedBy(u, table) ==
    FoldSet(LAMBDA i, sum : sum + table[i].cores, 0,
            {i \in Insts : table[i].owner = u /\ table[i].status \notin {"none", "destroyed"}})

\* Owners with a row that says running; autoflush does not change that.
QuotaStart ==
    /\ quota.step = "idle"
    /\ quota' = [NoQuotaTask EXCEPT !.step = "next",
                   !.todo = {rows[i].owner : i \in {j \in Insts : rows[j].status = "running"}}]
    /\ UNCHANGED <<rows, guests, limit, open, scan>>

\* The query flushes what the owners before have lost.
ReadOwner(u) ==
    /\ quota.step = "next" /\ u \in quota.todo
    /\ \A i \in quota.halted : Recorded(i) /\ \A s \in Scans : i \notin WrittenBy(s)
    /\ quota' = [quota EXCEPT !.step = "read", !.owner = u, !.todo = @ \ {u}, !.flushed = quota.halted,
                   !.copy = [i \in Insts |-> IF rows[i].owner = u THEN rows[i] ELSE NoResource]]
    /\ UNCHANGED <<rows, guests, limit, open, scan>>

\* All of them are stopped, whether or not the first would do: stopped rows
\* count as well.
ToHalt(u) ==
    IF UsedBy(u, quota.copy) > limit[u]
    THEN {i \in Insts : quota.copy[i].status = "running" /\ ~quota.copy[i].protected} ELSE {}

Reachable(i) == guests[i].state # "absent" /\ guests[i].node = quota.copy[i].node

\* A shutdown that Proxmox refuses is logged, one that the guest ignores
\* counts as done.
Halt(halted, down) ==
    /\ quota.step = "read"
    /\ guests' = [i \in Insts |-> IF i \in down THEN [guests[i] EXCEPT !.state = "stopped"]
                                  ELSE guests[i]]
    /\ quota' = [quota EXCEPT !.step = "next", !.owner = NoOwner,
                   !.copy = [i \in Insts |-> NoResource], !.halted = @ \union halted]
    /\ UNCHANGED <<rows, limit, open, scan>>

Asked == IF quota.step = "read" THEN {i \in ToHalt(quota.owner) : Reachable(i)} ELSE {}

HaltOwner == \E halted \in SUBSET Asked : \E down \in SUBSET halted : Halt(halted, down)
HaltAll == Halt(Asked, Asked)

\* One commit for all owners: a row that is gone takes the others along.
CommitQuota ==
    /\ quota.step = "next"
    /\ \/ quota.todo = {} /\ \A i \in quota.halted : \A s \in Scans : i \notin WrittenBy(s)
       \/ \E i \in quota.halted : ~Recorded(i)
    /\ rows' = IF \E i \in quota.halted : ~Recorded(i) THEN rows
               ELSE [i \in Insts |-> IF i \in quota.halted THEN [rows[i] EXCEPT !.status = "stopped"]
                                     ELSE rows[i]]
    /\ quota' = NoQuotaTask
    /\ UNCHANGED <<guests, limit, open, scan>>

-----------------------------------------------------------------------------
RequestNext ==
    \/ \E i \in Insts :
         \/ SyncLive(i) \/ Power(i) \/ Vanish(i) \/ IdleDestroy(i) \/ Terminate(i)
         \/ \E n \in Nodes : Migrate(i, n)
         \/ \E u \in Owners : Transfer(i, u)
         \/ \E c \in 1 .. MaxCores : Resize(i, c)
         \/ \E protected \in BOOLEAN : SetProtected(i, protected)
         \/ \E u \in Owners, n \in Nodes, c \in 1 .. MaxCores : Create(i, u, n, c)
    \/ \E u \in Owners, n \in Limits : SetLimit(u, n)
    \/ \E k \in Keys : CloseEvent(k)

ScanNext(s) ==
    ListGuests(s) \/ SelectRows(s) \/ FlushRepairs(s) \/ FlushFailsScan(s) \/ CommitScan(s)

QuotaNext == QuotaStart \/ (\E u \in Owners : ReadOwner(u)) \/ HaltOwner \/ CommitQuota

UpkeepNext == RequestNext \/ (\E s \in Scans : ScanNext(s)) \/ QuotaNext

CommitScanFits(s) == EventsFit(s) /\ CommitScan(s)

-----------------------------------------------------------------------------
(* Properties *)

(***************************************************************************)
(* "PVE is source of truth": whatever the quota task, stale listings and   *)
(* requests write, a row that says running or stopped says what its guest  *)
(* does, again and again, when that guest no longer changes.  A row in     *)
(* provisioning waits for an admin to open the list of resources.          *)
(***************************************************************************)
StatusRepaired ==
    \A i \in Insts, state \in {"running", "stopped"} :
        <>[](guests[i].state = state)
            => []<>(rows[i].status \in {"running", "stopped"} => rows[i].status = state)

(***************************************************************************)
(* A row without guest has an open event again and again, however often    *)
(* admins close it, and a row with its guest has none in the end.          *)
(***************************************************************************)
DriftReported ==
    \A i \in Insts :
        /\ <>[](Recorded(i) /\ guests[i].state = "absent") => []<>(open[i] > 0)
        /\ <>[](guests[i].state # "absent") => []<>(open[i] = 0)

(***************************************************************************)
(* "Shut down running instances for users who exceed their quota": an      *)
(* instance of an owner who stays above the quota is shut down, although   *)
(* the task goes by a row whose status and node the scan has to repair     *)
(* first.                                                                  *)
(***************************************************************************)
OverQuota(u) == UsedBy(u, rows) > limit[u]
QuotaEnforced ==
    \A i \in Insts, u \in Owners, n \in Nodes :
        <>[](/\ rows[i].owner = u /\ rows[i].status \in {"running", "stopped"}
             /\ ~rows[i].protected /\ OverQuota(u) /\ guests[i].node = n)
            => []<>(guests[i].state # "running")
===============================================================================
