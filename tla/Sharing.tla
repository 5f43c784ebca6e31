-------------------------------- MODULE Sharing --------------------------------
(***************************************************************************)
(* Groups, their members, shares and API tokens, and security groups, the  *)
(* entities that are shared here (routers/groups.py, admin_groups.py,      *)
(* security_groups.py, services/group_access.py).                          *)
(*                                                                         *)
(* A handler reads rows and checks access, then commits; constraints of    *)
(* the database are tested by the commit.  A security group is a set of    *)
(* rows only: nothing of it reaches the firewall.                          *)
(***************************************************************************)
EXTENDS Integers, FiniteSets, Actors

CONSTANTS
    Groups, Entities, ShareProcs,
    Platform,      \* users with role "admin" or is_superuser
    NoGroup, NoEntity

ASSUME SharingConstants ==
    Platform \subseteq Users /\ NoGroup \notin Groups /\ NoEntity \notin Entities

VARIABLES
    team,   \* user_groups with their members, shares and tokens
    held,   \* security_groups: each one's owner
    rules,  \* those that have a rule
    worn,   \* resource_security_groups: <<user, entity>>, one instance a user
    shreq

shareVars == <<team, held, rules, worn, shreq>>

Perms == {"read", "operate", "admin"}
Assignable == {"admin", "member", "viewer"}
Roles == Assignable \union {"owner"}

Team == [owner : Users \union {NoUser}, role : [Users -> Roles \union {"none"}],
         perm : [Entities -> Perms \union {"none"}], by : [Entities -> Users \union {NoUser}],
         tokens : SUBSET Users]
NoTeam == [owner |-> NoUser, role |-> [u \in Users |-> "none"],
           perm |-> [e \in Entities |-> "none"], by |-> [e \in Entities |-> NoUser],
           tokens |-> {}]

ShareRequest == [op : {"none", "add", "role", "remove", "share", "unshare", "dissolve", "rule"},
                 group : Groups \union {NoGroup}, user : Users \union {NoUser},
                 entity : Entities \union {NoEntity},
                 value : Perms \union Roles \union {"none"}, rows : SUBSET (Users \union Entities)]
ShareFree == [op |-> "none", group |-> NoGroup, user |-> NoUser, entity |-> NoEntity,
              value |-> "none", rows |-> {}]

Exists(g) == team[g].owner # NoUser
IsMember(g, u) == team[g].role[u] # "none"
Shared(g, e) == team[g].perm[e] # "none"

SharingTypeOK ==
    /\ team \in [Groups -> Team]
    /\ \A g \in Groups :
         IF Exists(g) THEN \A u \in Users : team[g].role[u] = "owner" <=> team[g].owner = u
         ELSE team[g] = NoTeam
    /\ \A g \in Groups, e \in Entities : Shared(g, e) <=> team[g].by[e] # NoUser
    /\ held \in [Entities -> Users \union {NoUser}]
    /\ rules \subseteq {e \in Entities : held[e] # NoUser}
    /\ worn \subseteq {w \in Users \X Entities : held[w[2]] # NoUser}
    /\ shreq \in [ShareProcs -> ShareRequest]

SharingInit ==
    /\ team = [g \in Groups |-> NoTeam]
    /\ held = [e \in Entities |-> NoUser]
    /\ rules = {}
    /\ worn = {}
    /\ shreq = [p \in ShareProcs |-> ShareFree]

-----------------------------------------------------------------------------
(* Access *)

RoleRank == [owner |-> 0, admin |-> 1, member |-> 2, viewer |-> 3, none |-> 99]
PermLevel == [none |-> -1, read |-> 0, operate |-> 1, admin |-> 2]

\* _get_group_with_access
MayUse(u, g, min) ==
    /\ Exists(g)
    /\ team[g].owner = u \/ u \in Platform \/ RoleRank[team[g].role[u]] <= RoleRank[min]

\* Mutant: the rows of groups that the user is not in are joined as well.
ShareRowsOfAll(u, e) == {r \in Groups \X Users : Shared(r[1], e) /\ IsMember(r[1], r[2])}

\* The shares joined with member rows: those of the user, and all rows of the
\* groups the user owns
ShareRows(u, e) ==
    {r \in Groups \X Users : /\ Shared(r[1], e) /\ IsMember(r[1], r[2])
                             /\ r[2] = u \/ team[r[1]].owner = u}

\* get_group_permission: the rows with role "owner" do not count as admin.
GroupPermission(u, e) ==
    LET rows == ShareRows(u, e) IN
    IF rows = {} THEN "none"
    ELSE IF \E r \in rows : team[r[1]].role[r[2]] = "admin" THEN "admin"
    ELSE CHOOSE p \in Perms :
           /\ \E r \in rows : team[r[1]].perm[e] = p
           /\ \A r \in rows : PermLevel[team[r[1]].perm[e]] <= PermLevel[p]

\* _get_user_sg: one's own, or shared at this level
CanUse(u, e, min) ==
    /\ held[e] # NoUser
    /\ held[e] = u \/ PermLevel[GroupPermission(u, e)] >= PermLevel[min]

-----------------------------------------------------------------------------
ShareBegin(p, r) == shreq[p] = ShareFree /\ shreq' = [shreq EXCEPT ![p] = r]
ShareEnd(p) == shreq' = [shreq EXCEPT ![p] = ShareFree]
Handles(p, op) == shreq[p].op = op
AskGroup(op, g, u) == [ShareFree EXCEPT !.op = op, !.group = g, !.user = u]

\* Bound of the model: ids are used again once nothing refers to them.
GroupFree(g) == ~Exists(g) /\ \A p \in ShareProcs : shreq[p].group # g
EntityFree(e) ==
    /\ held[e] = NoUser
    /\ \A g \in Groups : ~Shared(g, e)
    /\ \A p \in ShareProcs : shreq[p].entity # e

CreateGroup(u, g) ==
    /\ GroupFree(g)
    /\ team' = [team EXCEPT ![g] = [NoTeam EXCEPT !.owner = u, !.role[u] = "owner"]]
    /\ UNCHANGED <<held, rules, worn, shreq>>

ReadForMember(p, a, g, u) ==
    /\ MayUse(a, g, "admin")
    /\ \/ \E role \in Assignable :
            \/ ~IsMember(g, u) /\ ShareBegin(p, [AskGroup("add", g, u) EXCEPT !.value = role])
            \/ /\ team[g].role[u] \in Assignable
               /\ ShareBegin(p, [AskGroup("role", g, u) EXCEPT !.value = role])
       \/ team[g].role[u] \in Assignable /\ ShareBegin(p, AskGroup("remove", g, u))
    /\ UNCHANGED <<team, held, rules, worn>>

\* A group that is gone, a row that is there or one that is gone: the statement
\* fails.
CommitMember(p) ==
    LET r == shreq[p] IN
    /\ r.op \in {"add", "role", "remove"}
    /\ team' = IF Exists(r.group) /\ (r.op = "add" <=> ~IsMember(r.group, r.user))
               THEN [team EXCEPT ![r.group].role[r.user] = r.value] ELSE team
    /\ ShareEnd(p)
    /\ UNCHANGED <<held, rules, worn>>

\* The share is found by its id, the group's access check follows the role of
\* whoever asks.
ReadForShare(p, a, g, e) ==
    /\ MayUse(a, g, "member")
    /\ \/ /\ held[e] # NoUser /\ (held[e] = a \/ a \in Platform) /\ ~Shared(g, e)
          /\ \E perm \in Perms :
               ShareBegin(p, [AskGroup("share", g, a) EXCEPT !.entity = e, !.value = perm])
       \/ /\ Shared(g, e) /\ (team[g].by[e] = a \/ MayUse(a, g, "admin"))
          /\ ShareBegin(p, [AskGroup("unshare", g, a) EXCEPT !.entity = e])
    /\ UNCHANGED <<team, held, rules, worn>>

CommitShare(p) ==
    LET r == shreq[p] IN
    /\ r.op \in {"share", "unshare"}
    /\ team' = IF Exists(r.group) /\ (r.op = "share" <=> ~Shared(r.group, r.entity))
               THEN [team EXCEPT ![r.group].perm[r.entity] = r.value,
                                 ![r.group].by[r.entity] = IF r.op = "share" THEN r.user ELSE NoUser]
               ELSE team
    /\ ShareEnd(p)
    /\ UNCHANGED <<held, rules, worn>>

RowsOf(g) == {u \in Users : IsMember(g, u)} \union {e \in Entities : Shared(g, e)}

\* delete_group, admin_delete_group: the ORM deletes the rows it has read.
ReadForDissolve(p, a, g) ==
    /\ Exists(g) /\ (team[g].owner = a \/ a \in Platform)
    /\ ShareBegin(p, [AskGroup("dissolve", g, a) EXCEPT !.rows = RowsOf(g)])
    /\ UNCHANGED <<team, held, rules, worn>>

\* A row that came later refers to the group: the deletion is refused.
CommitDissolve(p) ==
    LET r == shreq[p] IN
    /\ Handles(p, "dissolve")
    /\ team' = IF Exists(r.group) /\ RowsOf(r.group) \subseteq r.rows
               THEN [team EXCEPT ![r.group] = NoTeam] ELSE team
    /\ ShareEnd(p)
    /\ UNCHANGED <<held, rules, worn>>

\* create_group_token and revoke_group_token
SetToken(a, g) ==
    /\ MayUse(a, g, "admin")
    /\ \/ team' = [team EXCEPT ![g].tokens = @ \union {a}]
       \/ \E u \in team[g].tokens : team' = [team EXCEPT ![g].tokens = @ \ {u}]
    /\ UNCHANGED <<held, rules, worn, shreq>>

-----------------------------------------------------------------------------
(* Security groups *)

CreateEntity(u, e, template) ==
    /\ EntityFree(e)
    /\ held' = [held EXCEPT ![e] = u]
    /\ rules' = IF template THEN rules \union {e} ELSE rules
    /\ UNCHANGED <<team, worn, shreq>>

\* Mutant: the instances keep the security group.
DeleteEntityWorn(u, e) ==
    /\ CanUse(u, e, "admin")
    /\ held' = [held EXCEPT ![e] = NoUser]
    /\ rules' = rules \ {e}
    /\ UNCHANGED <<team, worn, shreq>>

\* The shares stay: their entity reads "(deleted)".
DeleteEntity(u, e) ==
    /\ CanUse(u, e, "admin")
    /\ held' = [held EXCEPT ![e] = NoUser]
    /\ rules' = rules \ {e}
    /\ worn' = {w \in worn : w[2] # e}
    /\ UNCHANGED <<team, shreq>>

ReadForRule(p, u, e) ==
    /\ CanUse(u, e, "admin")
    /\ ShareBegin(p, [ShareFree EXCEPT !.op = "rule", !.user = u, !.entity = e,
                                       !.rows = {e} \ rules])
    /\ UNCHANGED <<team, held, rules, worn>>

\* add_rule or delete_rule, of the rules that were read
CommitRule(p) ==
    LET e == shreq[p].entity IN
    /\ Handles(p, "rule")
    /\ rules' = IF held[e] = NoUser THEN rules
                ELSE IF e \in shreq[p].rows THEN rules \union {e} ELSE rules \ {e}
    /\ ShareEnd(p)
    /\ UNCHANGED <<team, held, worn>>

\* attach and detach, with the user's own instance
Wear(u, e) ==
    /\ CanUse(u, e, "read")
    /\ worn' = IF <<u, e>> \in worn THEN worn \ {<<u, e>>} ELSE worn \union {<<u, e>>}
    /\ UNCHANGED <<team, held, rules, shreq>>

-----------------------------------------------------------------------------
SharingNext ==
    \/ \E p \in ShareProcs : CommitMember(p) \/ CommitShare(p) \/ CommitDissolve(p) \/ CommitRule(p)
    \/ \E a \in Users, g \in Groups :
         \/ CreateGroup(a, g) \/ SetToken(a, g)
         \/ \E p \in ShareProcs :
              \/ ReadForDissolve(p, a, g)
              \/ \E u \in Users : ReadForMember(p, a, g, u)
              \/ \E e \in Entities : ReadForShare(p, a, g, e)
    \/ \E u \in Users, e \in Entities :
         \/ DeleteEntity(u, e) \/ Wear(u, e)
         \/ \E template \in BOOLEAN : CreateEntity(u, e, template)
         \/ \E p \in ShareProcs : ReadForRule(p, u, e)

SharingSpec == SharingInit /\ [][SharingNext]_shareVars

-----------------------------------------------------------------------------
(***************************************************************************)
(* "Return the highest permission a user has on an entity via any group    *)
(* share.  Group admins/owners automatically get 'admin'": what the        *)
(* docstring promises of get_group_permission.                             *)
(***************************************************************************)
StatedLevel(u, e) ==
    LET mine == {g \in Groups : Shared(g, e) /\ (IsMember(g, u) \/ team[g].owner = u)} IN
    IF \E g \in mine : team[g].role[u] \in {"owner", "admin"} THEN 2
    ELSE IF mine = {} THEN -1
    ELSE CHOOSE n \in {PermLevel[team[g].perm[e]] : g \in mine} :
           \A g \in mine : PermLevel[team[g].perm[e]] <= n

(***************************************************************************)
(* Whatever members, roles, shares and groups come and go, and whichever   *)
(* rows a deletion or a late commit left behind, nobody gets more of an    *)
(* entity by its shares than the docstring promises.                       *)
(***************************************************************************)
PermissionsAsStated ==
    \A u \in Users, e \in Entities : PermLevel[GroupPermission(u, e)] <= StatedLevel(u, e)
===============================================================================
