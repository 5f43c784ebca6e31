-------------------------------- MODULE Caches --------------------------------
(***************************************************************************)
(* What the API tells of the cluster without asking it each time: values   *)
(* of short life in Redis (services/cache.py, services/proxmox_cache.py,   *)
(* routers/cluster.py, compute.py, backups.py), those that beat tasks      *)
(* write ahead of the requests (tasks/cache_refresh.py), and the snapshots *)
(* of an instance, which Proxmox changes by tasks of its own.              *)
(*                                                                         *)
(* One instance on one node: each has keys of its own.  cached_call awaits *)
(* Redis, then the producer in a thread, then Redis again.                 *)
(***************************************************************************)
EXTENDS Integers, FiniteSets

CONSTANTS
    Readers,   \* requests and tasks at work
    Snaps,     \* names of snapshots
    NoSnap, Absent

ASSUME CachesConstants == NoSnap \notin Snaps /\ IsFiniteSet(Snaps)

VARIABLES
    power,      \* of the guest, as Proxmox has it
    node,       \* whether the node is online
    snapshots,  \* of the guest
    pveTask,    \* the task that changes them, which locks the guest
    reachable,  \* whether Proxmox answers
    cache,      \* Redis
    call        \* what the readers are at

cachesVars == <<power, node, snapshots, pveTask, reachable, cache, call>>

CacheKeys == {"vm_status", "cluster_resources", "nodes", "cluster_status",
              "snapshots", "backup_counts"}
PowerStates == {"running", "stopped"}
NodeStates == {"online", "offline"}

\* What a producer answers if Proxmox does: the status of a cluster comes from
\* that of its nodes.
Actual == [k \in CacheKeys |->
             CASE k \in {"vm_status", "cluster_resources"} -> power
               [] k \in {"nodes", "cluster_status"} -> node
               [] k = "snapshots" -> snapshots
               [] k = "backup_counts" -> Cardinality(snapshots)]

\* Its answer else: an empty list or a count of zero, which is cached like any
\* other, but for those that raise.
Fallback == [cluster_resources |-> "none", nodes |-> "none", backup_counts |-> 0]

Views(k) == CASE k = "vm_status" -> PowerStates
              [] k = "cluster_resources" -> PowerStates \union {"none"}
              [] k \in {"nodes", "cluster_status"} -> NodeStates \union {"none"}
              [] k = "snapshots" -> SUBSET Snaps
              [] k = "backup_counts" -> 0 .. Cardinality(Snaps)

PveTask == [op : {"none", "create", "delete", "rollback"}, snap : Snaps \union {NoSnap}]
NoPveTask == [op |-> "none", snap |-> NoSnap]

\* missed: nothing was cached.  nodes: cluster_status has fetched the nodes.
\* got: the producer has answered.  drop: about to delete the key.
CallSteps == {"idle", "missed", "nodes", "got", "drop"}
NoCall == [step |-> "idle", key |-> "nodes", value |-> Absent]

CachesTypeOK ==
    /\ power \in PowerStates /\ node \in NodeStates /\ reachable \in BOOLEAN
    /\ snapshots \subseteq Snaps /\ pveTask \in PveTask
    /\ DOMAIN cache = CacheKeys
    /\ \A k \in CacheKeys : cache[k] = Absent \/ cache[k] \in Views(k)
    /\ \A p \in Readers :
         /\ call[p].step \in CallSteps /\ call[p].key \in CacheKeys
         /\ call[p].step \in {"got", "nodes"} => call[p].value \in Views(call[p].key)

CachesInit ==
    /\ power = "stopped" /\ node = "online" /\ reachable = TRUE
    /\ snapshots = {} /\ pveTask = NoPveTask
    /\ cache = [k \in CacheKeys |-> Absent]
    /\ call = [p \in Readers |-> NoCall]

Cluster == <<power, node, snapshots, pveTask, reachable>>

-----------------------------------------------------------------------------
(* cached_call *)

Miss(p, k) ==
    /\ call[p] = NoCall /\ cache[k] = Absent
    /\ call' = [call EXCEPT ![p] = [NoCall EXCEPT !.step = "missed", !.key = k]]
    /\ UNCHANGED <<Cluster, cache>>

\* refresh_vm_statuses_batch, refresh_cluster_status_cache: no look at Redis
Warm(p, k) ==
    /\ call[p] = NoCall /\ k \in {"cluster_resources", "cluster_status"}
    /\ call' = [call EXCEPT ![p] = [NoCall EXCEPT !.step = "missed", !.key = k]]
    /\ UNCHANGED <<Cluster, cache>>

Produce(p) ==
    /\ call[p].step = "missed" /\ call[p].key # "cluster_status"
    /\ LET k == call[p].key IN
       call' = [call EXCEPT ![p] =
                  IF reachable THEN [@ EXCEPT !.step = "got", !.value = Actual[k]]
                  ELSE IF k \in DOMAIN Fallback
                       THEN [@ EXCEPT !.step = "got", !.value = Fallback[k]] ELSE NoCall]
    /\ UNCHANGED <<Cluster, cache>>

\* _compute_cluster_status: by way of the cached nodes, whatever their age
ReadNodes(p) ==
    /\ call[p].step = "missed" /\ call[p].key = "cluster_status"
    /\ call' = [call EXCEPT ![p] =
                  IF cache["nodes"] # Absent
                  THEN [@ EXCEPT !.step = "got", !.value = cache["nodes"]]
                  ELSE [@ EXCEPT !.step = "nodes",
                          !.value = IF reachable THEN Actual["nodes"] ELSE Fallback["nodes"]]]
    /\ UNCHANGED <<Cluster, cache>>

\* Redis out of reach: nothing is stored, and no caller is told.
StoreNodes(p) ==
    /\ call[p].step = "nodes"
    /\ cache' \in {[cache EXCEPT !["nodes"] = call[p].value], cache}
    /\ call' = [call EXCEPT ![p].step = "got"]
    /\ UNCHANGED Cluster

Store(p) ==
    /\ call[p].step = "got"
    /\ cache' \in {[cache EXCEPT ![call[p].key] = call[p].value], cache}
    /\ call' = [call EXCEPT ![p] = NoCall]
    /\ UNCHANGED Cluster

\* Mutant: a value is set without a time to live.
OutliveNever(k) == FALSE /\ k \in CacheKeys /\ UNCHANGED cachesVars

Outlive(k) ==
    /\ cache[k] # Absent
    /\ cache' = [cache EXCEPT ![k] = Absent]
    /\ UNCHANGED <<Cluster, call>>

\* cache_delete
Drop(p) ==
    /\ call[p].step = "drop"
    /\ cache' \in {[cache EXCEPT ![call[p].key] = Absent], cache}
    /\ call' = [call EXCEPT ![p] = NoCall]
    /\ UNCHANGED Cluster

\* The API or a worker stops.
Cut(p) ==
    /\ call[p] # NoCall
    /\ call' = [call EXCEPT ![p] = NoCall]
    /\ UNCHANGED <<Cluster, cache>>

-----------------------------------------------------------------------------
(* The cluster, and the requests that change it *)

\* vm_action answers when Proxmox has taken the task on, not when it is done:
\* what is read after the key was dropped may be the state before.
AskPower(p) ==
    /\ call[p] = NoCall /\ reachable
    /\ call' = [call EXCEPT ![p] = [NoCall EXCEPT !.step = "drop", !.key = "vm_status"]]
    /\ UNCHANGED <<Cluster, cache>>

Turn ==
    /\ power' \in PowerStates \ {power}
    /\ UNCHANGED <<node, snapshots, pveTask, reachable, cache, call>>

Fail ==
    /\ \/ node' \in NodeStates \ {node} /\ UNCHANGED reachable
       \/ reachable' = ~reachable /\ UNCHANGED node
    /\ UNCHANGED <<power, snapshots, pveTask, cache, call>>

\* The endpoints of backups.py drop the key as soon as the task has begun,
\* those of compute.py do not.
StartTask(p, op, s, drops) ==
    /\ call[p] = NoCall /\ reachable /\ pveTask = NoPveTask
    /\ op = "create" <=> s \notin snapshots
    /\ pveTask' = [op |-> op, snap |-> s]
    /\ call' = IF drops THEN [call EXCEPT ![p] = [NoCall EXCEPT !.step = "drop", !.key = "snapshots"]]
               ELSE call
    /\ UNCHANGED <<power, node, snapshots, reachable, cache>>

\* A task that fails leaves the snapshots as they are, a rollback does so too.
EndTask ==
    /\ pveTask # NoPveTask
    /\ snapshots' \in {snapshots, CASE pveTask.op = "create" -> snapshots \union {pveTask.snap}
                                    [] pveTask.op = "delete" -> snapshots \ {pveTask.snap}
                                    [] OTHER -> snapshots}
    /\ power' \in IF pveTask.op = "rollback" THEN PowerStates ELSE {power}
    /\ pveTask' = NoPveTask
    /\ UNCHANGED <<node, reachable, cache, call>>

CachesNext ==
    \/ \E p \in Readers :
         \/ \E k \in CacheKeys : Miss(p, k) \/ Warm(p, k)
         \/ Produce(p) \/ ReadNodes(p) \/ StoreNodes(p) \/ Store(p) \/ Drop(p) \/ Cut(p)
         \/ AskPower(p)
         \/ \E op \in {"create", "delete", "rollback"}, s \in Snaps, drops \in BOOLEAN :
              StartTask(p, op, s, drops)
    \/ \E k \in CacheKeys : Outlive(k)
    \/ Turn \/ Fail \/ EndTask

-----------------------------------------------------------------------------
(***************************************************************************)
(* "TTL is short so user-visible state still reflects reality": whatever   *)
(* fetches were under way, keys were dropped too early or not at all, and  *)
(* however often the beat tasks write a value computed from older ones,    *)
(* what is cached is in the end what Proxmox says, if that stays the same. *)
(***************************************************************************)
CachesSettle ==
    \A k \in CacheKeys : \A v \in Views(k) :
        <>[](reachable /\ Actual[k] = v) => <>[](cache[k] \in {Absent, v})
===============================================================================
