------------------------------ MODULE MCServices ------------------------------
(***************************************************************************)
(* Small instances of Accounts, Sharing, Buckets and Availability for TLC. *)
(* A behaviour is one of these parts, chosen at the start; the rest stands *)
(* still.                                                                  *)
(*   setup     installations, registrations, roles, failed logins, locks   *)
(*   sessions  one account without guests, its logins, tokens and keys     *)
(*   owners    accounts, one with guests, purges, the lifecycle task, one  *)
(*             request and one pair of tokens at a time                    *)
(*   groups    two groups and one security group, one request at a time    *)
(*   entities  one group and one security group, two requests              *)
(*   objects   two buckets, one request at a time, none of which fails     *)
(*   names     one bucket, two requests that overlap and fail              *)
(*   nodes     one group of nodes, two requests, crashes                   *)
(***************************************************************************)
EXTENDS Accounts, Sharing, Buckets, Availability, TLC

CONSTANT Parts

VARIABLE part

servicesVars == <<accVars, shareVars, bucketVars, haVars, part>>

ServicesTypeOK == AccountsTypeOK /\ SharingTypeOK /\ BucketsTypeOK /\ AvailabilityTypeOK

-----------------------------------------------------------------------------
Plain(u) == accounts'[u].fails = 0 /\ accounts'[u].lock = "no"
Existing == {u \in Users : accounts'[u].status # "none"}
Modest(u) == used'[u] = "recent" /\ guests'[u] = "none"
SameRole(u) == Has(u) /\ accounts'[u].status # "none" => accounts'[u].admin = accounts[u].admin
Installed == (setup = "no" <=> setup' # setup) /\ \A p \in AccProcs : areq'[p].op # "setup"
NoPurge == links' = {} /\ sweep' = Resting /\ \A p \in AccProcs : areq'[p].op # "purge"

SetupPart ==
    /\ \A s \in Pairs : pairs'[s] = NoTokens
    /\ \A u \in Users : Modest(u)
    /\ links' = {} /\ sweep' = Resting
    /\ \/ Cardinality(Existing) <= 1
       \/ /\ \A u \in Users : Plain(u)
          /\ \A p \in AccProcs : areq'[p].op # "login"

SessionsPart ==
    /\ Installed /\ NoPurge
    /\ Cardinality(Existing) <= 1
    /\ \A u \in Users : SameRole(u) /\ Modest(u) /\ Plain(u)

OwnersPart ==
    /\ Installed /\ Cardinality(links') <= 1
    /\ \A u \in Users : SameRole(u) /\ Plain(u)
    /\ cutoff' = {} /\ revoked' = revoked
    /\ Cardinality({u \in Users : guests'[u] # "none"}) <= 1
    /\ \A s \in Pairs : "key" \notin pairs'[s].live
    /\ Cardinality({s \in Pairs : pairs'[s] # NoTokens}) <= 1
    /\ Cardinality({p \in AccProcs : areq'[p] # AccFree}) <= 1

AccountsParts ==
    /\ AccNext
    /\ \/ part = "setup" /\ SetupPart
       \/ part = "sessions" /\ SessionsPart
       \/ part = "owners" /\ OwnersPart
    /\ UNCHANGED <<shareVars, bucketVars, haVars, part>>

-----------------------------------------------------------------------------
AllIdle == \A p \in ShareProcs : shreq'[p] = ShareFree

GroupsPart ==
    /\ rules' = {} /\ worn' = {} /\ \A g \in Groups : team'[g].tokens = {}
    /\ Cardinality({p \in ShareProcs : shreq'[p] # ShareFree}) <= 1

EntitiesPart ==
    /\ Cardinality({g \in Groups : team'[g].owner # NoUser}) <= 1
    /\ (\E g \in Groups : team'[g].tokens # {}) => AllIdle /\ rules' = {}
    /\ worn' # {} => AllIdle

SharingParts ==
    /\ SharingNext
    /\ \/ part = "groups" /\ GroupsPart
       \/ part = "entities" /\ EntitiesPart
    /\ UNCHANGED <<accVars, bucketVars, haVars, part>>

-----------------------------------------------------------------------------
Active(n) == bucket[n] # NoBucket \/ s3[n] # NotStored \/ BucketUsed(n)

ObjectsPart ==
    /\ upset' = {}
    /\ \A n \in Names : bucket'[n].tags = {}
    /\ \A p \in BucketProcs : breq'[p].op # "settings"
    /\ Cardinality({p \in BucketProcs : breq'[p] # BucketFree}) <= 1
    /\ Cardinality({bucket'[n].owner : n \in Names} \ {NoUser}) <= 1

NamesPart ==
    /\ Cardinality({n \in Names : Active(n)'}) <= 1
    /\ \A n \in Names : /\ bucket'[n].count <= 1 /\ bucket'[n].size <= 1
                        /\ bucket'[n].tags \subseteq {"tags", "shares"}
    /\ \A p \in BucketProcs : breq'[p].tags \subseteq {"tags", "shares"}
    /\ upset # {} => \A p \in BucketProcs : breq[p] = BucketFree => breq'[p] = BucketFree

BucketsParts ==
    /\ BucketsNext
    /\ \/ part = "objects" /\ ObjectsPart
       \/ part = "names" /\ NamesPart
    /\ UNCHANGED <<accVars, shareVars, haVars, part>>

-----------------------------------------------------------------------------
AvailabilityParts ==
    /\ AvailabilityNext
    /\ part = "nodes"
    /\ UNCHANGED <<accVars, shareVars, bucketVars, part>>

-----------------------------------------------------------------------------
ServicesInit ==
    /\ AccInit /\ SharingInit /\ BucketsInit /\ AvailabilityInit
    /\ part \in Parts
    /\ part # "nodes" => ~ruled /\ loose = {}

ServicesNext == AccountsParts \/ SharingParts \/ BucketsParts \/ AvailabilityParts

ServicesSpec == ServicesInit /\ [][ServicesNext]_servicesVars

ServicesSymmetry ==
    {f @@ g @@ h @@ k : f \in Permutations(Users), g \in Permutations(Pairs),
                        h \in Permutations(AccProcs), k \in Permutations(ObjectKeys)}
===============================================================================
