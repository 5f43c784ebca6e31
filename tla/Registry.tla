------------------------------- MODULE Registry -------------------------------
(***************************************************************************)
(* The clients of the configured clusters (services/cluster_registry.py,   *)
(* routers/admin_connections.py): a table of connections, and in every     *)
(* process a registry that is loaded from it.  The API loads at its start  *)
(* and after each change; a Celery worker loads when it has no cluster, and*)
(* never again.                                                            *)
(***************************************************************************)
EXTENDS Integers, Sequences, FiniteSets

CONSTANTS
    Clusters,   \* names of connections
    Hosts,      \* where they point
    Loads,      \* requests that load the registry
    RegFaults,  \* subset of {"overlap", "database", "secret"}: two loads at
                \* once, a load that fails, a secret that cannot be decrypted
    NoCluster, NoHost

ASSUME RegistryConstants ==
    NoCluster \notin Clusters /\ NoHost \notin Hosts
        /\ RegFaults \subseteq {"overlap", "database", "secret"}

VARIABLES
    conns,     \* the cluster_connections table in the order of creation
    registry,  \* cluster_registry of the API
    worker,    \* cluster_registry of a Celery worker
    load       \* requests between two of their awaits

registryVars == <<conns, registry, worker, load>>

\* "of" is extra_config.pve_cluster, which for a PBS defaults to its own name.
Connection == [name : Clusters, kind : {"pve", "pbs", "s3"}, host : Hosts, active : BOOLEAN,
               of : Clusters, secret : BOOLEAN]
\* _pve_clients, _pbs_clients, the configs that know of their PBS, and the default
Clients == [pve : [Clusters -> Hosts \union {NoHost}], pbs : [Clusters -> Hosts \union {NoHost}],
            known : SUBSET Clusters, default : Clusters \union {NoCluster}]
NoClients == [pve |-> [c \in Clusters |-> NoHost], pbs |-> [c \in Clusters |-> NoHost],
              known |-> {}, default |-> NoCluster]
Load == [step : {"idle", "committed", "cleared", "read"}, rows : Seq(Connection)]
NoLoad == [step |-> "idle", rows |-> <<>>]

NamesIn(rows) == {rows[i].name : i \in DOMAIN rows}

\* conn.name is unique.
RegistryTypeOK ==
    /\ conns \in Seq(Connection)
    /\ \A i, j \in DOMAIN conns : conns[i].name = conns[j].name => i = j
    /\ registry \in Clients /\ worker \in Clients
    /\ load \in [Loads -> Load]

RegistryInit ==
    /\ conns = <<>> /\ registry = NoClients /\ worker = NoClients
    /\ load = [l \in Loads |-> NoLoad]

\* The active rows before the first whose secret cannot be decrypted: the error
\* ends the loop and is logged.
Decrypted(rows) ==
    {i \in DOMAIN rows : rows[i].active /\ \A j \in 1 .. i : rows[j].active => rows[j].secret}
OfKind(rows, kind) == {i \in Decrypted(rows) : rows[i].kind = kind}
Last(S) == CHOOSE i \in S : \A j \in S : j <= i
First(S) == CHOOSE i \in S : \A j \in S : i <= j

\* The loop of reload over the rows, on what is there: entries are overwritten,
\* and the default is the first PVE unless there is one.
Fill(clients, rows) ==
    LET pve == OfKind(rows, "pve")
        pbs == OfKind(rows, "pbs")
        At(S, c) == {i \in S : rows[i].name = c}
        For(c) == {i \in pbs : rows[i].of = c}
    IN [pve |-> [c \in Clusters |-> IF At(pve, c) = {} THEN clients.pve[c]
                                    ELSE rows[Last(At(pve, c))].host],
        pbs |-> [c \in Clusters |-> IF For(c) = {} THEN clients.pbs[c] ELSE rows[Last(For(c))].host],
        known |-> clients.known \union
                  {c \in Clusters : \E i \in For(c) :
                       clients.pve[c] # NoHost \/ \E j \in At(pve, c) : j < i},
        default |-> IF clients.default # NoCluster \/ pve = {} THEN clients.default
                    ELSE rows[First(pve)].name]

\* _resolve_cluster_id: an unknown cluster is redirected to the default.
Resolve(clients, c) == IF clients.pve[c] # NoHost THEN c ELSE clients.default

-----------------------------------------------------------------------------
(* The connections *)

MayLoad(l) == load[l] = NoLoad /\ ("overlap" \in RegFaults \/ \A k \in Loads : load[k] = NoLoad)
Committed(l) == load' = [load EXCEPT ![l].step = "committed"]

CreateConnection(l, row) ==
    /\ MayLoad(l) /\ row.name \notin NamesIn(conns)
    /\ row.secret \/ "secret" \in RegFaults
    /\ conns' = Append(conns, row)
    /\ Committed(l) /\ UNCHANGED <<registry, worker>>

\* Every field but the kind may change.
UpdateConnection(l, i, row) ==
    /\ MayLoad(l) /\ i \in DOMAIN conns
    /\ row.kind = conns[i].kind /\ row.secret = conns[i].secret
    /\ row.name \notin NamesIn(conns) \ {conns[i].name}
    /\ conns' = [conns EXCEPT ![i] = row]
    /\ Committed(l) /\ UNCHANGED <<registry, worker>>

RowRemoved(i) ==
    conns' = [j \in 1 .. Len(conns) - 1 |-> IF j < i THEN conns[j] ELSE conns[j + 1]]

\* Mutant: the registry is not loaded after a deletion.
DeleteConnectionOnly(l, i) ==
    /\ MayLoad(l) /\ i \in DOMAIN conns
    /\ RowRemoved(i)
    /\ UNCHANGED <<load, registry, worker>>

DeleteConnection(l, i) ==
    /\ MayLoad(l) /\ i \in DOMAIN conns
    /\ RowRemoved(i)
    /\ Committed(l) /\ UNCHANGED <<registry, worker>>

-----------------------------------------------------------------------------
(* The loads *)

\* reload empties the registry before its first await.
ClearClients(l) ==
    /\ load[l].step = "committed"
    /\ registry' = NoClients
    /\ load' = [load EXCEPT ![l].step = "cleared"]
    /\ UNCHANGED <<conns, worker>>

\* fix and fix_all of drift.py load when they find no cluster, which may be one
\* that another request has just cleared.
LoadForDrift(l) ==
    /\ MayLoad(l) /\ registry.default = NoCluster
    /\ registry' = NoClients
    /\ load' = [load EXCEPT ![l].step = "cleared"]
    /\ UNCHANGED <<conns, worker>>

ReadConnections(l) ==
    /\ load[l].step = "cleared"
    /\ load' = [load EXCEPT ![l] = [step |-> "read", rows |-> conns]]
    /\ UNCHANGED <<conns, registry, worker>>

FillClients(l) ==
    /\ load[l].step = "read"
    /\ registry' = Fill(registry, load[l].rows)
    /\ load' = [load EXCEPT ![l] = NoLoad]
    /\ UNCHANGED <<conns, worker>>

\* The error is logged; nothing loads again.
LoadFails(l) ==
    /\ "database" \in RegFaults /\ load[l].step = "cleared"
    /\ load' = [load EXCEPT ![l] = NoLoad]
    /\ UNCHANGED <<conns, registry, worker>>

\* lifespan
RestartApi ==
    /\ registry' = Fill(NoClients, conns)
    /\ load' = [l \in Loads |-> NoLoad]
    /\ UNCHANGED <<conns, worker>>

\* refresh_cache, refresh_cluster_status and scan_drift
LoadForTask ==
    /\ worker.default = NoCluster
    /\ worker' = Fill(NoClients, conns)
    /\ UNCHANGED <<conns, registry, load>>

RestartWorker ==
    /\ worker' = NoClients
    /\ UNCHANGED <<conns, registry, load>>

RegistryNext ==
    \/ \E l \in Loads, row \in Connection :
         CreateConnection(l, row) \/ \E i \in DOMAIN conns : UpdateConnection(l, i, row)
    \/ \E l \in Loads, i \in DOMAIN conns : DeleteConnection(l, i)
    \/ \E l \in Loads :
         \/ ClearClients(l) \/ LoadForDrift(l) \/ ReadConnections(l) \/ FillClients(l) \/ LoadFails(l)
    \/ RestartApi \/ LoadForTask \/ RestartWorker

RegistrySpec == RegistryInit /\ [][RegistryNext]_registryVars

-----------------------------------------------------------------------------
(* Properties *)

(***************************************************************************)
(* "Call reload after any connection create/update/delete": between the    *)
(* changes every active cluster resolves to itself, at the host the table  *)
(* names, none that was removed is left, and the default is the oldest.    *)
(* Two loads at a time, a load that fails and a secret that cannot be      *)
(* decrypted each break it.                                                *)
(***************************************************************************)
RegistryKnown ==
    (\A l \in Loads : load[l] = NoLoad) =>
        LET pve == {i \in DOMAIN conns : conns[i].active /\ conns[i].kind = "pve"} IN
        /\ \A i \in pve : registry.pve[conns[i].name] = conns[i].host
                          /\ Resolve(registry, conns[i].name) = conns[i].name
        /\ \A c \in Clusters : (\A i \in pve : conns[i].name # c) => registry.pve[c] = NoHost
        /\ registry.default = IF pve = {} THEN NoCluster ELSE conns[First(pve)].name
===============================================================================
