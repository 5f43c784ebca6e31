------------------------------ MODULE MCPlatform ------------------------------
(***************************************************************************)
(* The components that meet only in the database and in Proxmox, one part  *)
(* of one component at a time: the parts bound what TLC enumerates, and    *)
(* every behaviour stays in its part.                                      *)
(*                                                                         *)
(* Fairness: the beat starts a task again after it ended; no row is deleted*)
(* between the SELECT and the flush of every scan, nor an event closed     *)
(* while every scan is at work; a guest does not ignore every shutdown; a  *)
(* value in Redis expires; a reader that waits for Proxmox is answered or  *)
(* fails; not every deletion is overtaken by a new row.  Parts exclude each*)
(* other, so one condition may hold the steps of two of them.              *)
(***************************************************************************)
EXTENDS Upkeep, Caches, Dependents, Registry, Reviews, TLC

CONSTANTS Parts, Other, LoneOwner, LoneHolder, FirstHost

VARIABLE part

platformVars == <<upkeepVars, cachesVars, dependentsVars, registryVars, reviewsVars,
                  part>>

\* One instance.  Its owner, its protection and the quotas change in a part of
\* their own, without tasks and with a guest that never rests.
UpkeepSmall ==
    /\ ~Recorded(Other)' /\ guests'[Other] = NoGuest
    /\ \/ part = "owners"
       \/ /\ limit' = limit
          /\ \A i \in Insts : ~rows'[i].protected /\ rows'[i].owner \in {LoneOwner, NoOwner}
GuestsStay == \A i \in Insts : Recorded(i) => guests'[i].state # "absent"
DriftPart == quota' = NoQuotaTask /\ \A i \in Insts : rows'[i].cores = 1
QuotaPart == GuestsStay /\ \A i \in Insts : Recorded(i) => rows'[i].status \in {"running", "stopped"}
OwnersPart == GuestsStay /\ scan' = scan /\ quota' = NoQuotaTask

UpkeepParts ==
    /\ UpkeepNext
    /\ UpkeepSmall
    /\ \/ part = "drift" /\ DriftPart
       \/ part = "quota" /\ QuotaPart
       \/ part = "owners" /\ OwnersPart
    /\ UNCHANGED <<cachesVars, dependentsVars, registryVars, reviewsVars, part>>

KeysOf == CASE part = "status" -> {"nodes", "cluster_status"}
            [] part = "snapshots" -> {"snapshots", "backup_counts"}
            [] part = "list" -> {"vm_status", "cluster_resources"}
            [] OTHER -> {}

CachesParts ==
    /\ CachesNext
    /\ \A p \in Readers : call'[p] # NoCall => call'[p].key \in KeysOf
    /\ part # "snapshots" => pveTask' = NoPveTask
    /\ part # "status" => node' = node
    /\ part # "list" => reachable' = TRUE
    /\ part \in {"status", "list", "snapshots"} /\ UNCHANGED <<upkeepVars, dependentsVars, registryVars, reviewsVars, part>>

\* One table of each kind stands for the others of its kind.
TablesAre(S) ==
    /\ files' = files
    /\ \A r \in RowIds : child'[r].table \in S \union {"none"}
    /\ \A p \in Clerks : clerk'[p].op # "dump" /\ clerk'[p].table \in S \union {"none"}
LimitsPart == TablesAre({"backups"}) /\ \A p \in Clerks : clerk'[p].op # "delete"
DeletionPart ==
    /\ TablesAre({"endpoints", "checks"})
    /\ Cardinality({r \in RowIds : child'[r] # NoChild}) <= 1
TemplatesPart ==
    /\ TablesAre({"templates"})
    /\ Cardinality({r \in RowIds : child'[r] # NoChild}) <= 1
    /\ \A m \in Machines : machine'[m].owner \in {LoneHolder, NoHolder}
    /\ \A p \in Clerks : clerk'[p].holder \in {LoneHolder, NoHolder}
FilesPart ==
    /\ child' = child /\ \A p \in Clerks : clerk'[p].op \in {"none", "dump"}
    /\ \A m \in Machines : machine'[m].status # "destroyed"

DependentsParts ==
    /\ DependentsNext
    /\ \/ part = "limits" /\ LimitsPart
       \/ part = "deletion" /\ DeletionPart
       \/ part = "templates" /\ TemplatesPart
       \/ part = "files" /\ FilesPart
    /\ UNCHANGED <<upkeepVars, cachesVars, registryVars, reviewsVars, part>>

\* A PVE has every host, the others one; only a PBS is of another cluster.
RowsOfMC == {row \in Connection :
    /\ row.host = FirstHost \/ (row.kind = "pve" /\ row.active)
    /\ row.of = row.name \/ row.kind = "pbs"
    /\ row.kind = "s3" => row.active}
RegistryParts ==
    /\ part \in {"api", "worker"}
    /\ RegistryNext
    /\ \A i \in DOMAIN conns' : conns'[i] \in RowsOfMC
    /\ part = "api" => worker' = worker
    /\ part = "worker" => Len(conns') <= 1
    /\ UNCHANGED <<upkeepVars, cachesVars, dependentsVars, reviewsVars, part>>

ReviewsParts ==
    /\ ReviewsNext
    /\ \/ part = "quotas" /\ UNCHANGED <<tiers, tierOf, catalog>>
       \/ part = "tiers" /\ UNCHANGED <<quotaOf, catalog>>
          /\ \A p \in Desks : desk'[p].ask.kind # "quota"
       \/ part = "catalog" /\ UNCHANGED <<tiers, quotaOf, ask, desk>>
    /\ UNCHANGED <<upkeepVars, cachesVars, dependentsVars, registryVars, part>>

ScanRuns == part \in {"drift", "quota"}
CachesRun == part \in {"status", "list", "snapshots"}
DependentsRun == part \in {"limits", "deletion", "templates", "files"}
QuotaRuns == part = "quota"
UpkeepFairness ==
    /\ \A s \in Scans :
         /\ WF_upkeepVars(ScanRuns /\ ListGuests(s)) /\ WF_upkeepVars(ScanRuns /\ SelectRows(s))
         /\ SF_<<upkeepVars, dependentsVars>>(
                \/ ScanRuns /\ FlushRepairs(s) /\ UNCHANGED dependentsVars
                \/ DependentsRun /\ UNCHANGED upkeepVars
                   /\ \E p \in Clerks : CommitDelete(p) /\ DeleteFits(p))
         /\ WF_upkeepVars(ScanRuns /\ FlushFailsScan(s))
         /\ SF_upkeepVars((ScanRuns /\ ~QuotaRuns /\ CommitScanFits(s)) \/ (QuotaRuns /\ HaltAll))
         /\ WF_upkeepVars(ScanRuns /\ CommitScan(s))
    /\ WF_upkeepVars(QuotaRuns /\ QuotaStart)
    /\ WF_upkeepVars(QuotaRuns /\ ReadOwner(LoneOwner))
    /\ WF_upkeepVars(QuotaRuns /\ HaltOwner)
    /\ WF_upkeepVars(QuotaRuns /\ CommitQuota)
    /\ WF_upkeepVars(part = "owners" /\ \E i \in Insts : Power(i))

CachesFairness ==
    /\ \A k \in CacheKeys : WF_cachesVars(CachesRun /\ Outlive(k))
    /\ \A p \in Readers : WF_cachesVars(CachesRun /\ (Store(p) \/ StoreNodes(p)))

DependentsFairness == \A p \in Clerks : WF_dependentsVars(DependentsRun /\ CommitDelete(p))

PlatformTypeOK ==
    /\ UpkeepTypeOK /\ CachesTypeOK /\ DependentsTypeOK /\ RegistryTypeOK /\ ReviewsTypeOK
    /\ part \in Parts

PlatformInit == UpkeepInit /\ CachesInit /\ DependentsInit /\ RegistryInit /\ ReviewsInit
                /\ part \in Parts /\ \A u \in Owners : limit[u] = 1
PlatformNext == UpkeepParts \/ CachesParts \/ DependentsParts \/ RegistryParts \/ ReviewsParts
PlatformSpec == PlatformInit /\ [][PlatformNext]_platformVars /\ UpkeepFairness /\ CachesFairness
                /\ DependentsFairness
===============================================================================
