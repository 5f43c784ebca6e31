-------------------------------- MODULE Reviews --------------------------------
(***************************************************************************)
(* What users ask for and administrators decide: more quota, another tier  *)
(* (routers/quota_requests.py, admin_quota_requests.py, admin_tiers.py,    *)
(* admin.py), and the catalog of templates (admin_templates.py).           *)
(***************************************************************************)
EXTENDS Integers

CONSTANTS
    Askers,          \* users
    Desks,           \* requests to the API
    AskIds,          \* bound: rows of quota_requests and tier_requests
    Tiers,           \* tiers
    MaxQuota,        \* bound of a quota
    Images,          \* templates in Proxmox
    ReviewsOverlap,  \* two administrators decide the same request at once
    NoAsker, NoTier, NoAskId

ASSUME ReviewsConstants ==
    /\ MaxQuota \in Nat \ {0} /\ ReviewsOverlap \in BOOLEAN
    /\ NoAsker \notin Askers /\ NoTier \notin Tiers /\ NoAskId \notin AskIds

VARIABLES
    tiers,     \* the user_tiers table
    quotaOf,   \* a field of UserQuota
    tierOf,    \* User.tier_id
    granted,   \* history: the quota and the tier that an administrator last set
    ask,       \* the rows of the requests
    desk,      \* requests to the API between two of their awaits
    catalog    \* the template_catalog table

reviewsVars == <<tiers, quotaOf, tierOf, granted, ask, desk, catalog>>

Quotas == 1 .. MaxQuota
TierOrNone == Tiers \union {NoTier}
Ask == [kind : {"none", "quota", "tier"}, asker : Askers \union {NoAsker},
        value : Quotas, tier : TierOrNone,
        status : {"none", "pending", "approved", "denied"}]
NoAsk == [kind |-> "none", asker |-> NoAsker, value |-> 1, tier |-> NoTier, status |-> "none"]
Desk == [op : {"none", "ask", "decide"}, ask : Ask, id : AskIds \union {NoAskId}]
NoDesk == [op |-> "none", ask |-> NoAsk, id |-> NoAskId]

\* The foreign keys: no user and no request of a tier that is gone.
ReviewsTypeOK ==
    /\ tiers \subseteq Tiers
    /\ quotaOf \in [Askers -> Quotas] /\ tierOf \in [Askers -> tiers \union {NoTier}]
    /\ granted \in [Askers -> [quota : Quotas, tier : TierOrNone]]
    /\ ask \in [AskIds -> Ask] /\ desk \in [Desks -> Desk]
    /\ \A i \in AskIds : ask[i].kind = "tier" => ask[i].tier \in tiers
    /\ catalog \in [Images -> {"none", "active", "inactive"}]

ReviewsInit ==
    /\ tiers = {}
    /\ quotaOf = [u \in Askers |-> 1] /\ tierOf = [u \in Askers |-> NoTier]
    /\ granted = [u \in Askers |-> [quota |-> 1, tier |-> NoTier]]
    /\ ask = [i \in AskIds |-> NoAsk] /\ desk = [p \in Desks |-> NoDesk]
    /\ catalog = [i \in Images |-> "none"]

-----------------------------------------------------------------------------
(* The users *)

Pending(u, kind) == {i \in AskIds : ask[i].asker = u /\ ask[i].kind = kind
                                      /\ ask[i].status = "pending"}

\* submit_quota_request: only for more than there is now.
ReadForQuota(p, u, value) ==
    /\ desk[p] = NoDesk /\ Pending(u, "quota") = {} /\ value > quotaOf[u]
    /\ desk' = [desk EXCEPT ![p] = [NoDesk EXCEPT !.op = "ask", !.ask =
                  [kind |-> "quota", asker |-> u, value |-> value, tier |-> NoTier,
                   status |-> "pending"]]]
    /\ UNCHANGED <<tiers, quotaOf, tierOf, granted, ask, catalog>>

\* request_tier
ReadForTier(p, u, t) ==
    /\ desk[p] = NoDesk /\ Pending(u, "tier") = {} /\ t \in tiers /\ tierOf[u] # t
    /\ desk' = [desk EXCEPT ![p] = [NoDesk EXCEPT !.op = "ask", !.ask =
                  [kind |-> "tier", asker |-> u, value |-> 1, tier |-> t, status |-> "pending"]]]
    /\ UNCHANGED <<tiers, quotaOf, tierOf, granted, ask, catalog>>

\* Nothing but the search forbids two pending rows; a tier that is gone does.
CommitAsk(p, i) ==
    /\ desk[p].op = "ask" /\ ask[i] = NoAsk
    /\ ask' = IF desk[p].ask.tier \in tiers \union {NoTier}
              THEN [ask EXCEPT ![i] = desk[p].ask] ELSE ask
    /\ desk' = [desk EXCEPT ![p] = NoDesk]
    /\ UNCHANGED <<tiers, quotaOf, tierOf, granted, catalog>>

-----------------------------------------------------------------------------
(* The administrators *)

Undisturbed(i) == ReviewsOverlap \/ \A p \in Desks : desk[p].id # i

\* Mutant: a request that was decided is decided again.
ReadForDecisionAgain(p, i) ==
    /\ desk[p] = NoDesk /\ ask[i].status # "none" /\ Undisturbed(i)
    /\ desk' = [desk EXCEPT ![p] = [NoDesk EXCEPT !.op = "decide", !.id = i]]
    /\ UNCHANGED <<tiers, quotaOf, tierOf, granted, ask, catalog>>

\* review_quota_request, review_tier_request: "Request already reviewed"
ReadForDecision(p, i) ==
    /\ desk[p] = NoDesk /\ ask[i].status = "pending" /\ Undisturbed(i)
    /\ desk' = [desk EXCEPT ![p] = [NoDesk EXCEPT !.op = "decide", !.id = i]]
    /\ UNCHANGED <<tiers, quotaOf, tierOf, granted, ask, catalog>>

\* The last of two decisions is the status, and any approval is applied, also
\* one for less than the quota has become.  The review of a tier takes any word
\* for a status; one that is not "approved" applies nothing.
CommitDecision(p, status) ==
    /\ desk[p].op = "decide"
    /\ LET i == desk[p].id
           a == ask[i] IN
       /\ status = "pending" => a.kind = "tier"
       /\ ask' = [ask EXCEPT ![i].status = status]
       /\ quotaOf' = IF status = "approved" /\ a.kind = "quota"
                     THEN [quotaOf EXCEPT ![a.asker] = a.value] ELSE quotaOf
       /\ tierOf' = IF status = "approved" /\ a.kind = "tier"
                    THEN [tierOf EXCEPT ![a.asker] = a.tier] ELSE tierOf
    /\ desk' = [desk EXCEPT ![p] = NoDesk]
    /\ UNCHANGED <<tiers, granted, catalog>>

\* update_user_quota
SetQuota(u, value) ==
    /\ quotaOf' = [quotaOf EXCEPT ![u] = value]
    /\ granted' = [granted EXCEPT ![u].quota = value]
    /\ UNCHANGED <<tiers, tierOf, ask, desk, catalog>>

\* assign_user_tier
AssignTier(u, t) ==
    /\ t \in tiers \union {NoTier}
    /\ tierOf' = [tierOf EXCEPT ![u] = t]
    /\ granted' = [granted EXCEPT ![u].tier = t]
    /\ UNCHANGED <<tiers, quotaOf, ask, desk, catalog>>

CreateTier(t) ==
    /\ t \notin tiers
    /\ tiers' = tiers \union {t}
    /\ UNCHANGED <<quotaOf, tierOf, granted, ask, desk, catalog>>

\* Mutant: the tier is not taken from its users.
DeleteTierOnly(t) ==
    /\ t \in tiers /\ \A i \in AskIds : ask[i].tier # t
    /\ tiers' = tiers \ {t}
    /\ UNCHANGED <<quotaOf, tierOf, granted, ask, desk, catalog>>

\* delete_tier takes it from its users; a request for it, decided or not,
\* forbids the deletion for good.
DeleteTier(t) ==
    /\ t \in tiers /\ \A i \in AskIds : ask[i].tier # t
    /\ tiers' = tiers \ {t}
    /\ tierOf' = [u \in Askers |-> IF tierOf[u] = t THEN NoTier ELSE tierOf[u]]
    /\ granted' = [u \in Askers |-> IF tierOf[u] = t THEN [granted[u] EXCEPT !.tier = NoTier]
                                    ELSE granted[u]]
    /\ UNCHANGED <<quotaOf, ask, desk, catalog>>

\* create_, update_ and delete_catalog_template
ChangeCatalog(i, state) ==
    /\ catalog[i] = "none" => state = "active"
    /\ catalog' = [catalog EXCEPT ![i] = state]
    /\ UNCHANGED <<tiers, quotaOf, tierOf, granted, ask, desk>>

ReviewsNext ==
    \/ \E p \in Desks, u \in Askers :
         \/ \E value \in Quotas : ReadForQuota(p, u, value)
         \/ \E t \in Tiers : ReadForTier(p, u, t)
    \/ \E p \in Desks, i \in AskIds : CommitAsk(p, i) \/ ReadForDecision(p, i)
    \/ \E p \in Desks, status \in {"approved", "denied", "pending"} : CommitDecision(p, status)
    \/ \E u \in Askers :
         (\E value \in Quotas : SetQuota(u, value)) \/ \E t \in TierOrNone : AssignTier(u, t)
    \/ \E t \in Tiers : CreateTier(t) \/ DeleteTier(t)
    \/ \E i \in Images, state \in {"none", "active", "inactive"} : ChangeCatalog(i, state)

ReviewsSpec == ReviewsInit /\ [][ReviewsNext]_reviewsVars

-----------------------------------------------------------------------------
(* Properties *)

(***************************************************************************)
(* "On approval, the user's quota is updated automatically": the quota and *)
(* the tier of a user are the ones an administrator set or those of a      *)
(* request that stands as approved, never those of one that stands as      *)
(* denied.  Two administrators who decide the same request at once break   *)
(* it.                                                                     *)
(***************************************************************************)
ReviewsStand ==
    \A u \in Askers :
        /\ quotaOf[u] = granted[u].quota
           \/ \E i \in AskIds : ask[i].kind = "quota" /\ ask[i].asker = u
                                  /\ ask[i].status = "approved" /\ ask[i].value = quotaOf[u]
        /\ tierOf[u] = granted[u].tier
           \/ \E i \in AskIds : ask[i].kind = "tier" /\ ask[i].asker = u
                                  /\ ask[i].status = "approved" /\ ask[i].tier = tierOf[u]
===============================================================================
