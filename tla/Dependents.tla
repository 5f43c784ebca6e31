------------------------------ MODULE Dependents ------------------------------
(***************************************************************************)
(* The rows that hang on an instance by a foreign key (backups and plans   *)
(* for them, endpoints, alarms, lifecycle policies, health checks, template*)
(* requests), the deletion of the instance through all of them, and the    *)
(* files that vzdump writes of it: routers/compute.py, backups.py,         *)
(* endpoints.py, monitoring.py, lifecycle_policies.py, health_checks.py,   *)
(* template_requests.py.                                                   *)
(*                                                                         *)
(* A row is inserted after a count or a search that other requests run in  *)
(* between.  A backup row is never more than "pending": nothing calls      *)
(* evaluate_due_plans, nor evaluate_alarms, and no task reads a policy.    *)
(***************************************************************************)
EXTENDS Integers, FiniteSets

CONSTANTS
    Holders,     \* users
    Machines,    \* instances
    Clerks,      \* requests
    RowIds,      \* bound: rows of all tables
    MaxRows,     \* rows of a user in a limited table: 20 endpoints, 25 alarms,
                 \* 50 policies, UserQuota.max_snapshots backups
    MaxFiles,    \* UserQuota.max_backups
    MaxDumps,    \* bound of files and vzdump tasks of a user
    NoHolder, NoMachine

ASSUME DependentsConstants ==
    /\ MaxRows \in Nat \ {0} /\ MaxFiles \in Nat \ {0} /\ MaxDumps \in Nat
    /\ NoHolder \notin Holders /\ NoMachine \notin Machines
    /\ IsFiniteSet(RowIds) /\ IsFiniteSet(Clerks)

VARIABLES
    machine,  \* the rows of the instances, each with the guest in Proxmox
    child,    \* the rows of the tables below
    files,    \* backup files, by the user in their notes
    dumps,    \* vzdump tasks at work, likewise
    clerk     \* requests between two of their awaits

dependentsVars == <<machine, child, files, dumps, clerk>>

Limited == {"backups", "endpoints", "alarms", "policies"}
Switched == {"plans", "endpoints", "alarms", "policies"}
Tables == Limited \union Switched \union {"checks", "templates"}

Machine == [status : {"none", "held", "destroyed"}, owner : Holders \union {NoHolder},
            guest : {"gone", "up", "template"}]
NoMachineRow == [status |-> "none", owner |-> NoHolder, guest |-> "gone"]
Child == [table : Tables \union {"none"}, holder : Holders \union {NoHolder},
          machine : Machines \union {NoMachine},
          status : {"pending", "converting", "failed", "rejected", "on", "off", "none"}]
NoChild == [table |-> "none", holder |-> NoHolder, machine |-> NoMachine, status |-> "none"]
Clerk == [op : {"none", "insert", "dump", "delete", "review", "convert"},
          table : Tables \union {"none"}, holder : Holders \union {NoHolder},
          machine : Machines \union {NoMachine}, rows : SUBSET RowIds]
NoClerk == [op |-> "none", table |-> "none", holder |-> NoHolder, machine |-> NoMachine,
            rows |-> {}]

\* The foreign key: no row without its instance.
DependentsTypeOK ==
    /\ machine \in [Machines -> Machine]
    /\ child \in [RowIds -> Child]
    /\ files \in [Holders -> Nat] /\ dumps \in [Holders -> Nat]
    /\ clerk \in [Clerks -> Clerk]
    /\ \A r \in RowIds : child[r] # NoChild => machine[child[r].machine].status # "none"

DependentsInit ==
    /\ machine = [m \in Machines |-> NoMachineRow]
    /\ child = [r \in RowIds |-> NoChild]
    /\ files = [u \in Holders |-> 0] /\ dumps = [u \in Holders |-> 0]
    /\ clerk = [p \in Clerks |-> NoClerk]

\* _get_resource of the routers: a destroyed instance is refused.
Holds(u, m) == machine[m].status = "held" /\ machine[m].owner = u
RowsIn(t, u) == {r \in RowIds : child[r].table = t /\ child[r].holder = u}
RowsOf(m) == {r \in RowIds : child[r].machine = m}
Inserting(t, u) == {p \in Clerks : clerk[p].op = "insert" /\ clerk[p].table = t
                                     /\ clerk[p].holder = u}
Begin(p, op, t, u, m, rows) ==
    /\ clerk[p] = NoClerk
    /\ clerk' = [clerk EXCEPT ![p] = [op |-> op, table |-> t, holder |-> u, machine |-> m,
                                      rows |-> rows]]
End(p) == clerk' = [clerk EXCEPT ![p] = NoClerk]

-----------------------------------------------------------------------------
(* The rows *)

\* Mutant: refused above the limit only.
BelowLimitOneMore(t, u) == t \in Limited => Cardinality(RowsIn(t, u)) <= MaxRows
\* The rows of all the user's instances are counted.
BelowLimit(t, u) == t \in Limited => Cardinality(RowsIn(t, u)) < MaxRows

\* submit_template_request does not look at the status of the instance, only
\* for another pending request.
MaySubmit(u, m) ==
    /\ machine[m].status # "none" /\ machine[m].owner = u
    /\ \A r \in RowsOf(m) : ~(child[r].table = "templates" /\ child[r].status = "pending")

\* create_backup, create_backup_plan, create_endpoint, create_alarm,
\* create_policy, run_health_check, submit_template_request
ReadForChild(p, u, m, t) ==
    /\ IF t = "templates" THEN MaySubmit(u, m) ELSE Holds(u, m)
    /\ BelowLimit(t, u)
    /\ Begin(p, "insert", t, u, m, {})
    /\ UNCHANGED <<machine, child, files, dumps>>

FirstStatus(t) == IF t \in {"backups", "templates"} THEN "pending" ELSE "on"

\* The database refuses a row of an instance that is gone, and an endpoint
\* whose subdomain is taken.  A deletion at work has not seen the new row.
CommitChild(p, r) ==
    /\ clerk[p].op = "insert" /\ child[r] = NoChild
    /\ LET c == clerk[p] IN
       \/ /\ machine[c.machine].status # "none"
          /\ child' = [child EXCEPT ![r] = [table |-> c.table, holder |-> c.holder,
                                            machine |-> c.machine,
                                            status |-> FirstStatus(c.table)]]
          /\ clerk' = [q \in Clerks |-> IF q = p THEN NoClerk
                                        ELSE [clerk[q] EXCEPT !.rows = @ \ {r}]]
       \/ /\ machine[c.machine].status = "none" \/ c.table = "endpoints"
          /\ End(p) /\ UNCHANGED child
    /\ UNCHANGED <<machine, files, dumps>>

\* update_backup_plan, update_endpoint, update_alarm, update_policy
SwitchChild(u, r, status) ==
    /\ child[r].holder = u /\ child[r].table \in Switched
    /\ child' = [child EXCEPT ![r].status = status]
    /\ UNCHANGED <<machine, files, dumps, clerk>>

\* delete_backup, delete_backup_plan, delete_endpoint, delete_alarm,
\* delete_policy: of the row alone
DropChild(u, r) ==
    /\ child[r].holder = u /\ child[r].table \in Limited \union Switched
    /\ child' = [child EXCEPT ![r] = NoChild]
    /\ UNCHANGED <<machine, files, dumps, clerk>>

-----------------------------------------------------------------------------
(* From a guest to a template *)

\* review_template_request reads a pending request.
ReadForReview(p, r) ==
    /\ child[r].table = "templates" /\ child[r].status = "pending"
    /\ Begin(p, "review", "templates", NoHolder, child[r].machine, {r})
    /\ UNCHANGED <<machine, child, files, dumps>>

\* The last of two reviewers wins.  A request that is gone is an error.
CommitReview(p, approved) ==
    /\ clerk[p].op = "review"
    /\ LET live == clerk[p].rows \ {r \in RowIds : child[r] = NoChild} IN
       /\ child' = [r \in RowIds |->
                      IF r \notin live THEN child[r]
                      ELSE [child[r] EXCEPT !.status = IF approved THEN "converting" ELSE "rejected"]]
       /\ clerk' = [clerk EXCEPT ![p] = IF approved /\ live # {} THEN [@ EXCEPT !.op = "convert"]
                                        ELSE NoClerk]
    /\ UNCHANGED <<machine, files, dumps>>

\* The instance is deleted after the guest was converted, with no cleanup: the
\* row of the request itself forbids it, and the handler of the error fails in
\* the transaction that is already lost.  A guest that Proxmox does not convert
\* ends as "failed".
Convert(p, accepted) ==
    /\ clerk[p].op = "convert"
    /\ LET m == clerk[p].machine
           live == clerk[p].rows \ {r \in RowIds : child[r] = NoChild} IN
       /\ accepted => machine[m].guest = "up"
       /\ machine' = IF ~accepted THEN machine
                     ELSE IF RowsOf(m) = {} THEN [machine EXCEPT ![m] = NoMachineRow]
                     ELSE [machine EXCEPT ![m].guest = "template"]
       /\ child' = [r \in RowIds |-> IF accepted \/ r \notin live THEN child[r]
                                     ELSE [child[r] EXCEPT !.status = "failed"]]
    /\ End(p) /\ UNCHANGED <<files, dumps>>

-----------------------------------------------------------------------------
(* The files *)

\* create_vm_backup, of the owner or a member of a group: a storage that does
\* not answer counts as empty, and so does every vzdump still at work.
ReadForDump(p, u, m) ==
    /\ machine[m].status = "held"
    /\ \E counted \in 0 .. files[u] : counted < MaxFiles
    /\ Begin(p, "dump", "none", u, m, {})
    /\ UNCHANGED <<machine, child, files, dumps>>

\* After the settings were read: the storage is not enabled, the guest is gone,
\* or the task starts.
CommitDump(p) ==
    /\ clerk[p].op = "dump"
    /\ \E u \in Holders :
         /\ u = clerk[p].holder /\ files[u] + dumps[u] < MaxDumps
         /\ \/ machine[clerk[p].machine].guest # "gone" /\ dumps' = [dumps EXCEPT ![u] = @ + 1]
            \/ UNCHANGED dumps
    /\ End(p) /\ UNCHANGED <<machine, child, files>>

EndDump(u, done) ==
    /\ dumps[u] > 0
    /\ dumps' = [dumps EXCEPT ![u] = @ - 1]
    /\ files' = IF done THEN [files EXCEPT ![u] = @ + 1] ELSE files
    /\ UNCHANGED <<machine, child, clerk>>

\* delete_vm_backup, admin_prune_backups, admin_delete_backup
DeleteFile(u) ==
    /\ files[u] > 0
    /\ files' = [files EXCEPT ![u] = @ - 1]
    /\ UNCHANGED <<machine, child, dumps, clerk>>

-----------------------------------------------------------------------------
(* The instances *)

Own(u, m) ==
    /\ machine[m].status = "none"
    /\ machine' = [machine EXCEPT ![m] = [status |-> "held", owner |-> u, guest |-> "up"]]
    /\ UNCHANGED <<child, files, dumps, clerk>>

\* transfer_resource: the rows and the files stay with the owner before.
GiveAway(m, u) ==
    /\ machine[m].status = "held" /\ machine[m].owner # u
    /\ machine' = [machine EXCEPT ![m].owner = u]
    /\ UNCHANGED <<child, files, dumps, clerk>>

\* The idle task keeps the row.
DestroyIdle(m) ==
    /\ machine[m].status = "held"
    /\ machine' = [machine EXCEPT ![m].status = "destroyed", ![m].guest = "gone"]
    /\ UNCHANGED <<child, files, dumps, clerk>>

\* Mutant: a table with a foreign key that the cleanup does not name.
CleanedForgets(m) == {r \in RowsOf(m) : child[r].table # "endpoints"}
\* _cleanup_resource_children
Cleaned(m) == {r \in RowsOf(m) : child[r].table \in Tables}

\* _terminate_vm and delete_container: the guest goes first (an error of Proxmox
\* is ignored), then the rows are deleted.
ReadForDelete(p, m, gone) ==
    /\ machine[m].status = "held"
    /\ machine' = IF gone THEN [machine EXCEPT ![m].guest = "gone"] ELSE machine
    /\ Begin(p, "delete", "none", NoHolder, m, Cleaned(m))
    /\ UNCHANGED <<child, files, dumps>>

DeleteFits(p) == RowsOf(clerk[p].machine) \subseteq clerk[p].rows

\* A row that came after its table was cleaned forbids the deletion of the
\* instance, and the whole transaction is undone.
CommitDelete(p) ==
    /\ clerk[p].op = "delete"
    /\ IF DeleteFits(p)
       THEN /\ machine' = [machine EXCEPT ![clerk[p].machine] = NoMachineRow]
            /\ child' = [r \in RowIds |-> IF r \in RowsOf(clerk[p].machine) THEN NoChild
                                          ELSE child[r]]
       ELSE UNCHANGED <<machine, child>>
    /\ End(p) /\ UNCHANGED <<files, dumps>>

\* remove_resource_from_user does not clean up: refused while a row is left.
Unlink(m) ==
    /\ machine[m].status # "none" /\ RowsOf(m) = {}
    /\ machine' = [machine EXCEPT ![m] = NoMachineRow]
    /\ UNCHANGED <<child, files, dumps, clerk>>

DependentsNext ==
    \/ \E u \in Holders, m \in Machines :
         \/ \E p \in Clerks : ReadForDump(p, u, m) \/ \E t \in Tables : ReadForChild(p, u, m, t)
         \/ Own(u, m) \/ GiveAway(m, u)
    \/ \E p \in Clerks, r \in RowIds : CommitChild(p, r) \/ ReadForReview(p, r)
    \/ \E p \in Clerks, yes \in BOOLEAN : CommitReview(p, yes) \/ Convert(p, yes)
    \/ \E p \in Clerks : CommitDump(p) \/ CommitDelete(p)
    \/ \E u \in Holders, r \in RowIds :
         DropChild(u, r) \/ \E status \in {"on", "off"} : SwitchChild(u, r, status)
    \/ \E u \in Holders : DeleteFile(u) \/ \E done \in BOOLEAN : EndDump(u, done)
    \/ \E m \in Machines :
         \/ DestroyIdle(m) \/ Unlink(m)
         \/ \E p \in Clerks, gone \in BOOLEAN : ReadForDelete(p, m, gone)

DependentsSpec == DependentsInit /\ [][DependentsNext]_dependentsVars

-----------------------------------------------------------------------------
(* Properties *)

(***************************************************************************)
(* "quota exceeded" of backups.py, endpoints.py, monitoring.py and         *)
(* lifecycle_policies.py: requests that count before the others insert let *)
(* a user have more rows than the limit, but never by as many as there are *)
(* requests at work, whatever was given away or deleted meanwhile.         *)
(***************************************************************************)
RowsWithinLimit ==
    \A u \in Holders, t \in Limited : Cardinality(RowsIn(t, u)) < MaxRows + Cardinality(Clerks)

\* The inductive form: those at work have all counted below the limit.
RowsPromised ==
    \A u \in Holders, t \in Limited :
        Cardinality(RowsIn(t, u)) + Cardinality(Inserting(t, u)) < MaxRows + Cardinality(Clerks)

(***************************************************************************)
(* "Any new model with FK to resources.id must be added here": an instance *)
(* whose deletion is asked for again and again goes in the end, with its   *)
(* template requests, plans and all, unless a new row gets between the     *)
(* cleanup and the commit of every attempt but finitely many.              *)
(***************************************************************************)
DeletionEnds ==
    \A m \in Machines :
        []<>(\E p \in Clerks : clerk[p].op = "delete" /\ clerk[p].machine = m)
            => []<>(machine[m].status = "none")
===============================================================================
