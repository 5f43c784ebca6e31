---------------------------- MODULE ServicesProofs ----------------------------
(***************************************************************************)
(* What a user may do by the shares of groups, what a bucket is charged    *)
(* with and which objects it keeps, for any users, groups, buckets and     *)
(* requests; and the types of the four parts that MCServices puts side by  *)
(* side.                                                                   *)
(***************************************************************************)
EXTENDS MCServices, AccountsProofs, AvailabilityProofs, FiniteSetTheorems, WellFoundedInduction

-----------------------------------------------------------------------------
(* Sharing: the inductive invariant *)

TeamTyped ==
    /\ team \in [Groups -> Team]
    /\ \A g \in Groups :
         IF Exists(g) THEN \A u \in Users : team[g].role[u] = "owner" <=> team[g].owner = u
         ELSE team[g] = NoTeam
    /\ \A g \in Groups, e \in Entities : Shared(g, e) <=> team[g].by[e] # NoUser
HeldTyped ==
    /\ held \in [Entities -> Users \union {NoUser}]
    /\ rules \subseteq {e \in Entities : held[e] # NoUser}
    /\ worn \subseteq {w \in Users \X Entities : held[w[2]] # NoUser}

\* What a request knows of the rows it is about.
AboutMember(r) == /\ r.group \in Groups /\ r.user \in Users
                  /\ IF r.op = "remove" THEN r.value = "none" ELSE r.value \in Assignable
AboutShare(r) == /\ r.group \in Groups /\ r.user \in Users /\ r.entity \in Entities
                 /\ IF r.op = "unshare" THEN r.value = "none" ELSE r.value \in Perms
Known(r) ==
    /\ r.op \in {"add", "role", "remove"} => AboutMember(r)
    /\ r.op \in {"share", "unshare"} => AboutShare(r)
    /\ r.op = "dissolve" => r.group \in Groups
    /\ r.op = "rule" => r.entity \in Entities
AskTyped == shreq \in [ShareProcs -> ShareRequest] /\ \A p \in ShareProcs : Known(shreq[p])

\* Whoever is about to change or remove a member's row does not do so to the
\* owner's.
OwnersSpared == \A p \in ShareProcs : LET r == shreq[p] IN
    r.op \in {"role", "remove"} => ~Exists(r.group) \/ team[r.group].owner # r.user

SharingInv == TeamTyped /\ HeldTyped /\ AskTyped /\ OwnersSpared

LEMMA InvTyped == SharingInv => SharingTypeOK
BY DEF SharingInv, TeamTyped, HeldTyped, AskTyped, SharingTypeOK

LEMMA SharingNulls ==
  /\ NoTeam \in Team /\ NoTeam.owner = NoUser /\ NoUser \notin Users
  /\ \A u \in Users : NoTeam.role[u] = "none"
  /\ \A e \in Entities : NoTeam.perm[e] = "none" /\ NoTeam.by[e] = NoUser
  /\ ShareFree \in ShareRequest /\ ShareFree.op = "none" /\ ShareFree.group = NoGroup
  /\ NoGroup \notin Groups /\ NoEntity \notin Entities
BY UsersAssumption, SharingConstants
DEF NoTeam, Team, ShareFree, ShareRequest, Roles, Assignable, Perms

LEMMA SharingStart == SharingInit => SharingInv
<1>. SUFFICES ASSUME SharingInit PROVE TeamTyped /\ HeldTyped /\ AskTyped /\ OwnersSpared
  BY DEF SharingInv
<1>1. TeamTyped
  BY SharingNulls DEF SharingInit, TeamTyped, Exists, Shared
<1>2. HeldTyped
  BY DEF SharingInit, HeldTyped
<1>3. AskTyped
  BY SharingNulls DEF SharingInit, AskTyped, Known
<1>4. OwnersSpared
  BY SharingNulls DEF SharingInit, OwnersSpared
<1>. QED
  BY <1>1, <1>2, <1>3, <1>4

-----------------------------------------------------------------------------
(* Requests *)

\* A request begins, of a member whose row is not the owner's.
LEMMA AskBegun ==
  ASSUME AskTyped, OwnersSpared, NEW p \in ShareProcs, NEW r \in ShareRequest,
         ShareBegin(p, r), Known(r), UNCHANGED team,
         r.op \in {"role", "remove"} => ~Exists(r.group) \/ team[r.group].owner # r.user
  PROVE  AskTyped' /\ OwnersSpared'
<1>1. AskTyped'
  BY DEF AskTyped, ShareBegin
<1>2. OwnersSpared'
  BY DEF AskTyped, OwnersSpared, ShareBegin, Exists
<1>. QED
  BY <1>1, <1>2

\* A request ends, and no group gets another owner meanwhile.
LEMMA AskEnded ==
  ASSUME AskTyped, OwnersSpared, NEW p \in ShareProcs, ShareEnd(p),
         \A g \in Groups : team'[g].owner \in {team[g].owner, NoUser}
  PROVE  AskTyped' /\ OwnersSpared'
<1>1. AskTyped'
  BY SharingNulls DEF AskTyped, ShareEnd, Known
<1>2. \A q \in ShareProcs : shreq'[q] = shreq[q] \/ shreq'[q].op = "none"
  BY SharingNulls DEF AskTyped, ShareEnd
<1>3. OwnersSpared'
  <2>1. SUFFICES ASSUME NEW q \in ShareProcs, shreq'[q].op \in {"role", "remove"}
                 PROVE  \/ team'[shreq'[q].group].owner = NoUser
                        \/ team'[shreq'[q].group].owner # shreq'[q].user
    BY DEF OwnersSpared, Exists
  <2>2. shreq'[q] = shreq[q] /\ shreq[q].group \in Groups
    BY <1>2, <2>1 DEF AskTyped, Known, AboutMember
  <2>. QED
    BY <2>1, <2>2 DEF OwnersSpared, Exists
<1>. QED
  BY <1>1, <1>3

LEMMA AskStays ==
  ASSUME AskTyped, OwnersSpared, UNCHANGED <<team, shreq>>
  PROVE  AskTyped' /\ OwnersSpared'
BY DEF AskTyped, OwnersSpared, Exists

-----------------------------------------------------------------------------
(* Groups *)

\* A row of user_groups with what hangs on it.
TeamFits(t) ==
    /\ t \in Team
    /\ IF t.owner # NoUser THEN \A u \in Users : t.role[u] = "owner" <=> t.owner = u
       ELSE t = NoTeam
    /\ \A e \in Entities : t.perm[e] # "none" <=> t.by[e] # NoUser

LEMMA TeamIs == TeamTyped => \A g \in Groups : TeamFits(team[g])
BY DEF TeamTyped, TeamFits, Exists, Shared

LEMMA TeamReplaced ==
  ASSUME TeamTyped, NEW g \in Groups, NEW t, TeamFits(t), team' = [team EXCEPT ![g] = t]
  PROVE  TeamTyped' /\ team'[g] = t /\ \A h \in Groups : h # g => team'[h] = team[h]
<1>1. team'[g] = t /\ \A h \in Groups : h # g => team'[h] = team[h]
  BY DEF TeamTyped
<1>2. team' \in [Groups -> Team]
  BY DEF TeamTyped, TeamFits
<1>3. ASSUME NEW h \in Groups
      PROVE  /\ IF Exists(h)' THEN \A u \in Users : team'[h].role[u] = "owner" <=> team'[h].owner = u
                ELSE team'[h] = NoTeam
             /\ \A e \in Entities : Shared(h, e)' <=> team'[h].by[e] # NoUser
  <2>1. CASE h = g
    BY <1>1, <2>1 DEF TeamFits, Exists, Shared
  <2>2. CASE h # g
    BY <1>1, <2>2 DEF TeamTyped, Exists, Shared
  <2>. QED
    BY <2>1, <2>2
<1>. QED
  BY <1>1, <1>2, <1>3 DEF TeamTyped

LEMMA NoTeamFits == TeamFits(NoTeam)
BY SharingNulls DEF TeamFits

\* The new role of a user who is not the owner.
LEMMA RoleFits ==
  ASSUME NEW t, TeamFits(t), t.owner # NoUser, NEW u \in Users, t.owner # u,
         NEW role \in Assignable \union {"none"}
  PROVE  LET n == [t EXCEPT !.role[u] = role] IN TeamFits(n) /\ n.owner = t.owner
<1>. DEFINE roles == [t.role EXCEPT ![u] = role]
            n == [t EXCEPT !.role = roles]
<1>1. t.role \in [Users -> Roles \union {"none"}]
  BY DEF TeamFits, Team
<1>2. /\ roles \in [Users -> Roles \union {"none"}]
      /\ \A v \in Users : roles[v] = "owner" <=> t.owner = v
  BY <1>1 DEF TeamFits, Roles, Assignable
<1>. HIDE DEF roles
<1>3. n \in Team /\ n.role = roles /\ n.owner = t.owner /\ n.perm = t.perm /\ n.by = t.by
  BY <1>2 DEF TeamFits, Team
<1>4. n = [t EXCEPT !.role[u] = role]
  BY DEF roles
<1>. HIDE DEF n
<1>5. TeamFits(n)
  BY <1>2, <1>3 DEF TeamFits
<1>. QED
  BY <1>3, <1>4, <1>5

\* Other shares, each with the user who made it.
LEMMA ShareFits ==
  ASSUME NEW t, TeamFits(t), t.owner # NoUser, NEW perms \in [Entities -> Perms \union {"none"}],
         NEW bys \in [Entities -> Users \union {NoUser}],
         \A f \in Entities : perms[f] # "none" <=> bys[f] # NoUser
  PROVE  LET n == [t EXCEPT !.perm = perms, !.by = bys] IN TeamFits(n) /\ n.owner = t.owner
<1>. DEFINE n == [t EXCEPT !.perm = perms, !.by = bys]
<1>1. n \in Team /\ n.perm = perms /\ n.by = bys /\ n.owner = t.owner /\ n.role = t.role
  BY DEF TeamFits, Team
<1>. HIDE DEF n
<1>2. TeamFits(n)
  BY <1>1 DEF TeamFits
<1>3. n.owner = t.owner
  BY <1>1
<1>. QED
  BY <1>2, <1>3 DEF n

LEMMA HeldStays ==
  ASSUME HeldTyped, UNCHANGED <<held, rules, worn>>
  PROVE  HeldTyped'
BY DEF HeldTyped

LEMMA TeamStays ==
  ASSUME TeamTyped, UNCHANGED team
  PROVE  TeamTyped'
BY DEF TeamTyped, Exists, Shared

LEMMA GroupSteps ==
  ASSUME SharingInv
  PROVE  /\ \A u \in Users, g \in Groups : CreateGroup(u, g) \/ SetToken(u, g) => SharingInv'
         /\ \A p \in ShareProcs : CommitMember(p) \/ CommitShare(p) \/ CommitDissolve(p) => SharingInv'
<1>t. TeamTyped /\ HeldTyped /\ AskTyped /\ OwnersSpared
  BY DEF SharingInv
<1>1. ASSUME NEW u \in Users, NEW g \in Groups, CreateGroup(u, g)
      PROVE  SharingInv'
  <2>. DEFINE roles == [NoTeam.role EXCEPT ![u] = "owner"]
              t == [NoTeam EXCEPT !.owner = u, !.role = roles]
  <2>1. team' = [team EXCEPT ![g] = t] /\ UNCHANGED <<held, rules, worn, shreq>>
    BY <1>1 DEF CreateGroup
  <2>2. /\ roles \in [Users -> Roles \union {"none"}]
        /\ \A v \in Users : roles[v] = "owner" <=> u = v
    BY SharingNulls DEF NoTeam, Roles, Assignable
  <2>. HIDE DEF roles
  <2>3. /\ t \in Team /\ t.owner = u /\ t.role = roles
        /\ t.perm = NoTeam.perm /\ t.by = NoTeam.by
    BY <2>2, SharingNulls DEF Team
  <2>. HIDE DEF t
  <2>4. TeamFits(t)
    BY <2>2, <2>3, SharingNulls DEF TeamFits
  <2>5. TeamTyped' /\ \A h \in Groups : h # g => team'[h] = team[h]
    BY <1>t, <2>1, <2>4, TeamReplaced
  <2>6. AskTyped'
    BY <1>t, <2>1 DEF AskTyped
  <2>7. OwnersSpared'
    <3>1. SUFFICES ASSUME NEW p \in ShareProcs, shreq[p].op \in {"role", "remove"}
                   PROVE  \/ team'[shreq[p].group].owner = NoUser
                          \/ team'[shreq[p].group].owner # shreq[p].user
      BY <2>1 DEF OwnersSpared, Exists
    <3>2. shreq[p].group \in Groups /\ shreq[p].group # g
      BY <1>t, <1>1, <3>1 DEF CreateGroup, GroupFree, AskTyped, Known, AboutMember
    <3>. QED
      BY <1>t, <2>5, <3>1, <3>2 DEF OwnersSpared, Exists
  <2>. QED
    BY <1>t, <2>1, <2>5, <2>6, <2>7, HeldStays DEF SharingInv
<1>2. ASSUME NEW u \in Users, NEW g \in Groups, SetToken(u, g)
      PROVE  SharingInv'
  <2>1. PICK tokens \in SUBSET Users : team' = [team EXCEPT ![g].tokens = tokens]
    <3>1. team[g].tokens \subseteq Users
      BY <1>t DEF TeamTyped, Team
    <3>2. CASE team' = [team EXCEPT ![g].tokens = @ \union {u}]
      BY <3>1, <3>2
    <3>3. ASSUME NEW v \in team[g].tokens, team' = [team EXCEPT ![g].tokens = @ \ {v}]
          PROVE  \E tokens \in SUBSET Users : team' = [team EXCEPT ![g].tokens = tokens]
      BY <3>1, <3>3
    <3>. QED
      BY <1>2, <3>2, <3>3 DEF SetToken
  <2>. DEFINE t == [team[g] EXCEPT !.tokens = tokens]
  <2>2. team' = [team EXCEPT ![g] = t] /\ Exists(g) /\ UNCHANGED <<held, rules, worn, shreq>>
    BY <1>2, <2>1 DEF SetToken, MayUse
  <2>3. team[g] \in Team /\ TeamFits(team[g])
    BY <1>t, TeamIs DEF TeamTyped
  <2>4. /\ t \in Team /\ t.owner = team[g].owner /\ t.role = team[g].role
        /\ t.perm = team[g].perm /\ t.by = team[g].by
    BY <2>3 DEF Team
  <2>. HIDE DEF t
  <2>5. TeamFits(t)
    BY <2>2, <2>3, <2>4 DEF TeamFits, Exists
  <2>6. TeamTyped' /\ team'[g] = t /\ \A h \in Groups : h # g => team'[h] = team[h]
    BY <1>t, <2>2, <2>5, TeamReplaced
  <2>7. AskTyped' /\ \A h \in Groups : team'[h].owner = team[h].owner
    BY <1>t, <2>2, <2>4, <2>6 DEF AskTyped
  <2>8. OwnersSpared'
    <3>1. SUFFICES ASSUME NEW p \in ShareProcs, shreq[p].op \in {"role", "remove"}
                   PROVE  \/ team'[shreq[p].group].owner = NoUser
                          \/ team'[shreq[p].group].owner # shreq[p].user
      BY <2>2 DEF OwnersSpared, Exists
    <3>2. shreq[p].group \in Groups
      BY <1>t, <3>1 DEF AskTyped, Known, AboutMember
    <3>. QED
      BY <1>t, <2>7, <3>1, <3>2 DEF OwnersSpared, Exists
  <2>. QED
    BY <1>t, <2>2, <2>6, <2>7, <2>8, HeldStays DEF SharingInv
<1>3. ASSUME NEW p \in ShareProcs, NEW g \in Groups, NEW t, TeamFits(t), ShareEnd(p),
             team' = [team EXCEPT ![g] = t], t.owner \in {team[g].owner, NoUser},
             UNCHANGED <<held, rules, worn>>
      PROVE  SharingInv'
  <2>1. TeamTyped' /\ team'[g] = t /\ \A h \in Groups : h # g => team'[h] = team[h]
    BY <1>t, <1>3, TeamReplaced
  <2>2. \A h \in Groups : team'[h].owner \in {team[h].owner, NoUser}
    BY <1>3, <2>1
  <2>. QED
    BY <1>t, <1>3, <2>1, <2>2, AskEnded, HeldStays DEF SharingInv
<1>4. ASSUME NEW p \in ShareProcs, ShareEnd(p), UNCHANGED <<team, held, rules, worn>>
      PROVE  SharingInv'
  BY <1>t, <1>4, AskEnded, HeldStays, TeamStays DEF SharingInv
<1>5. ASSUME NEW p \in ShareProcs, CommitMember(p)
      PROVE  SharingInv'
  <2>. DEFINE g == shreq[p].group
              u == shreq[p].user
              role == shreq[p].value
              n == [team[g] EXCEPT !.role[u] = role]
  <2>1. /\ g \in Groups /\ u \in Users /\ role \in Assignable \union {"none"}
        /\ ShareEnd(p) /\ UNCHANGED <<held, rules, worn>>
    BY <1>t, <1>5 DEF CommitMember, AskTyped, Known, AboutMember
  <2>2. CASE Exists(g) /\ (shreq[p].op = "add" <=> ~IsMember(g, u))
    <3>1. team[g].owner # u
      <4>1. CASE shreq[p].op = "add"
        BY <1>t, <2>1, <2>2, <4>1 DEF TeamTyped, Exists, IsMember
      <4>2. CASE shreq[p].op # "add"
        BY <1>t, <1>5, <2>2, <4>2 DEF CommitMember, OwnersSpared
      <4>. QED
        BY <4>1, <4>2
    <3>2. TeamFits(n) /\ n.owner = team[g].owner
      BY <1>t, <2>1, <2>2, <3>1, TeamIs, RoleFits DEF Exists
    <3>3. team' = [team EXCEPT ![g] = n]
      BY <1>5, <2>2 DEF CommitMember
    <3>. HIDE DEF n
    <3>. QED
      BY <1>3, <2>1, <3>2, <3>3
  <2>3. CASE ~(Exists(g) /\ (shreq[p].op = "add" <=> ~IsMember(g, u)))
    <3>1. UNCHANGED team
      BY <1>5, <2>3 DEF CommitMember
    <3>. QED
      BY <1>4, <2>1, <3>1
  <2>. QED
    BY <2>2, <2>3
<1>6. ASSUME NEW p \in ShareProcs, CommitShare(p)
      PROVE  SharingInv'
  <2>. DEFINE g == shreq[p].group
              e == shreq[p].entity
              perm == shreq[p].value
              by == IF shreq[p].op = "share" THEN shreq[p].user ELSE NoUser
              perms == [team[g].perm EXCEPT ![e] = perm]
              bys == [team[g].by EXCEPT ![e] = by]
              n == [team[g] EXCEPT !.perm = perms, !.by = bys]
  <2>1. /\ g \in Groups /\ e \in Entities /\ perm \in Perms \union {"none"}
        /\ by \in Users \union {NoUser} /\ (perm = "none" <=> by = NoUser)
        /\ ShareEnd(p) /\ UNCHANGED <<held, rules, worn>>
    BY <1>t, <1>6, SharingNulls DEF CommitShare, AskTyped, Known, AboutShare, Perms
  <2>2. CASE Exists(g) /\ (shreq[p].op = "share" <=> ~Shared(g, e))
    <3>1. team' = [team EXCEPT ![g] = n]
      BY <1>6, <2>2 DEF CommitShare
    <3>2. TeamFits(n) /\ n.owner = team[g].owner
      <4>1. TeamFits(team[g]) /\ team[g].owner # NoUser
        BY <1>t, <2>1, <2>2, TeamIs DEF Exists
      <4>2. /\ team[g].perm \in [Entities -> Perms \union {"none"}]
            /\ team[g].by \in [Entities -> Users \union {NoUser}]
            /\ \A f \in Entities : team[g].perm[f] # "none" <=> team[g].by[f] # NoUser
        BY <4>1 DEF TeamFits, Team
      <4>. HIDE DEF g, e, perm, by
      <4>3. /\ perms \in [Entities -> Perms \union {"none"}]
            /\ bys \in [Entities -> Users \union {NoUser}]
            /\ \A f \in Entities : perms[f] # "none" <=> bys[f] # NoUser
        BY <2>1, <4>2
      <4>. HIDE DEF perms, bys
      <4>. QED
        BY <4>1, <4>3, ShareFits
    <3>. HIDE DEF n
    <3>. QED
      BY <1>3, <2>1, <3>1, <3>2
  <2>3. CASE ~(Exists(g) /\ (shreq[p].op = "share" <=> ~Shared(g, e)))
    <3>1. UNCHANGED team
      BY <1>6, <2>3 DEF CommitShare
    <3>. QED
      BY <1>4, <2>1, <3>1
  <2>. QED
    BY <2>2, <2>3
<1>7. ASSUME NEW p \in ShareProcs, CommitDissolve(p)
      PROVE  SharingInv'
  <2>1. /\ shreq[p].group \in Groups /\ ShareEnd(p) /\ UNCHANGED <<held, rules, worn>>
        /\ UNCHANGED team \/ team' = [team EXCEPT ![shreq[p].group] = NoTeam]
    BY <1>t, <1>7 DEF CommitDissolve, Handles, AskTyped, Known
  <2>. QED
    BY <1>3, <1>4, <2>1, NoTeamFits, SharingNulls
<1>. QED
  BY <1>1, <1>2, <1>5, <1>6, <1>7

\* The request of AskGroup.
LEMMA AskFits ==
  ASSUME NEW g \in Groups, NEW u \in Users,
         NEW op \in {"add", "role", "remove", "share", "unshare", "dissolve"}
  PROVE  LET r == AskGroup(op, g, u) IN
         r \in ShareRequest /\ r.op = op /\ r.group = g /\ r.user = u /\ r.value = "none"
BY SharingConstants DEF AskGroup, ShareFree, ShareRequest

LEMMA AskSteps ==
  ASSUME SharingInv
  PROVE  /\ \A p \in ShareProcs, a, u \in Users, g \in Groups : ReadForMember(p, a, g, u) => SharingInv'
         /\ \A p \in ShareProcs, a \in Users, g \in Groups, e \in Entities :
              ReadForShare(p, a, g, e) => SharingInv'
         /\ \A p \in ShareProcs, a \in Users, g \in Groups : ReadForDissolve(p, a, g) => SharingInv'
         /\ \A p \in ShareProcs, u \in Users, e \in Entities : ReadForRule(p, u, e) => SharingInv'
<1>t. TeamTyped /\ HeldTyped /\ AskTyped /\ OwnersSpared
  BY DEF SharingInv
<1>b. ASSUME NEW p \in ShareProcs, NEW r \in ShareRequest, ShareBegin(p, r), Known(r),
             UNCHANGED <<team, held, rules, worn>>,
             r.op \in {"role", "remove"} => ~Exists(r.group) \/ team[r.group].owner # r.user
      PROVE  SharingInv'
  BY <1>t, <1>b, AskBegun, HeldStays, TeamStays DEF SharingInv
<1>1. ASSUME NEW p \in ShareProcs, NEW a \in Users, NEW u \in Users, NEW g \in Groups,
             ReadForMember(p, a, g, u)
      PROVE  SharingInv'
  <2>0. UNCHANGED <<team, held, rules, worn>>
    BY <1>1 DEF ReadForMember
  <2>1. ASSUME NEW op \in {"add", "role"}, NEW role \in Assignable,
               ShareBegin(p, [AskGroup(op, g, u) EXCEPT !.value = role]),
               op = "role" => team[g].role[u] \in Assignable
        PROVE  SharingInv'
    <3>. DEFINE r0 == AskGroup(op, g, u)
                r == [r0 EXCEPT !.value = role]
    <3>1. r0 \in ShareRequest /\ r0.op = op /\ r0.group = g /\ r0.user = u
      BY <2>1, AskFits
    <3>. HIDE DEF r0
    <3>2. r \in ShareRequest /\ r.op = op /\ r.group = g /\ r.user = u /\ r.value = role
      BY <3>1 DEF ShareRequest, Roles
    <3>5. ShareBegin(p, r)
      BY <2>1 DEF r0
    <3>. HIDE DEF r
    <3>3. Known(r)
      BY <3>2 DEF Known, AboutMember
    <3>4. op = "role" => ~Exists(g) \/ team[g].owner # u
      BY <1>t, <2>1 DEF TeamTyped, Exists, Assignable
    <3>. QED
      BY <1>b, <2>0, <3>2, <3>3, <3>4, <3>5
  <2>2. ASSUME team[g].role[u] \in Assignable, ShareBegin(p, AskGroup("remove", g, u))
        PROVE  SharingInv'
    <3>. DEFINE r == AskGroup("remove", g, u)
    <3>2. r \in ShareRequest /\ r.op = "remove" /\ r.group = g /\ r.user = u /\ r.value = "none"
      BY AskFits
    <3>5. ShareBegin(p, r)
      BY <2>2
    <3>. HIDE DEF r
    <3>3. Known(r)
      BY <3>2 DEF Known, AboutMember
    <3>4. ~Exists(g) \/ team[g].owner # u
      BY <1>t, <2>2 DEF TeamTyped, Exists, Assignable
    <3>. QED
      BY <1>b, <2>0, <3>2, <3>3, <3>4, <3>5
  <2>. QED
    BY <1>1, <2>1, <2>2 DEF ReadForMember
<1>2. ASSUME NEW p \in ShareProcs, NEW a \in Users, NEW g \in Groups, NEW e \in Entities,
             ReadForShare(p, a, g, e)
      PROVE  SharingInv'
  <2>0. UNCHANGED <<team, held, rules, worn>>
    BY <1>2 DEF ReadForShare
  <2>1. ASSUME NEW perm \in Perms,
               ShareBegin(p, [AskGroup("share", g, a) EXCEPT !.entity = e, !.value = perm])
        PROVE  SharingInv'
    <3>. DEFINE r0 == AskGroup("share", g, a)
                r == [r0 EXCEPT !.entity = e, !.value = perm]
    <3>1. r0 \in ShareRequest /\ r0.op = "share" /\ r0.group = g /\ r0.user = a
      BY AskFits
    <3>2. ShareBegin(p, r)
      BY <2>1
    <3>. HIDE DEF r0
    <3>3. /\ r \in ShareRequest /\ r.op = "share" /\ r.group = g /\ r.user = a /\ r.value = perm
          /\ r.entity = e
      BY <3>1 DEF ShareRequest
    <3>. HIDE DEF r
    <3>4. Known(r)
      BY <3>3 DEF Known, AboutShare
    <3>. QED
      BY <1>b, <2>0, <3>2, <3>3, <3>4
  <2>2. ASSUME ShareBegin(p, [AskGroup("unshare", g, a) EXCEPT !.entity = e])
        PROVE  SharingInv'
    <3>. DEFINE r0 == AskGroup("unshare", g, a)
                r == [r0 EXCEPT !.entity = e]
    <3>1. /\ r0 \in ShareRequest /\ r0.op = "unshare" /\ r0.group = g /\ r0.user = a
          /\ r0.value = "none"
      BY AskFits
    <3>2. ShareBegin(p, r)
      BY <2>2
    <3>. HIDE DEF r0
    <3>3. /\ r \in ShareRequest /\ r.op = "unshare" /\ r.group = g /\ r.user = a
          /\ r.value = "none" /\ r.entity = e
      BY <3>1 DEF ShareRequest
    <3>. HIDE DEF r
    <3>4. Known(r)
      BY <3>3 DEF Known, AboutShare
    <3>. QED
      BY <1>b, <2>0, <3>2, <3>3, <3>4
  <2>. QED
    BY <1>2, <2>1, <2>2 DEF ReadForShare
<1>3. ASSUME NEW p \in ShareProcs, NEW a \in Users, NEW g \in Groups, ReadForDissolve(p, a, g)
      PROVE  SharingInv'
  <2>. DEFINE rows == RowsOf(g)
              r0 == AskGroup("dissolve", g, a)
              r == [r0 EXCEPT !.rows = rows]
  <2>1. rows \in SUBSET (Users \union Entities)
    BY DEF RowsOf
  <2>2. r0 \in ShareRequest /\ r0.op = "dissolve" /\ r0.group = g
    BY AskFits
  <2>3. ShareBegin(p, r) /\ UNCHANGED <<team, held, rules, worn>>
    BY <1>3 DEF ReadForDissolve
  <2>. HIDE DEF rows, r0
  <2>4. r \in ShareRequest /\ r.op = "dissolve" /\ r.group = g
    BY <2>1, <2>2 DEF ShareRequest
  <2>. HIDE DEF r
  <2>5. Known(r)
    BY <2>4 DEF Known
  <2>. QED
    BY <1>b, <2>3, <2>4, <2>5
<1>4. ASSUME NEW p \in ShareProcs, NEW u \in Users, NEW e \in Entities, ReadForRule(p, u, e)
      PROVE  SharingInv'
  <2>. DEFINE rows == {e} \ rules
              r == [ShareFree EXCEPT !.op = "rule", !.user = u, !.entity = e, !.rows = rows]
  <2>1. rows \in SUBSET (Users \union Entities)
    OBVIOUS
  <2>3. ShareBegin(p, r) /\ UNCHANGED <<team, held, rules, worn>>
    BY <1>4 DEF ReadForRule
  <2>. HIDE DEF rows
  <2>4. r \in ShareRequest /\ r.op = "rule" /\ r.entity = e
    BY <2>1, SharingNulls DEF ShareRequest
  <2>. HIDE DEF r
  <2>5. Known(r)
    BY <2>4 DEF Known
  <2>. QED
    BY <1>b, <2>3, <2>4, <2>5
<1>. QED
  BY <1>1, <1>2, <1>3, <1>4

-----------------------------------------------------------------------------
(* Security groups *)

LEMMA EntitySteps ==
  ASSUME SharingInv
  PROVE  /\ \A u \in Users, e \in Entities : DeleteEntity(u, e) \/ Wear(u, e) => SharingInv'
         /\ \A u \in Users, e \in Entities, template \in BOOLEAN :
              CreateEntity(u, e, template) => SharingInv'
         /\ \A p \in ShareProcs : CommitRule(p) => SharingInv'
<1>t. TeamTyped /\ HeldTyped /\ AskTyped /\ OwnersSpared
  BY DEF SharingInv
<1>1. ASSUME NEW u \in Users, NEW e \in Entities, DeleteEntity(u, e)
      PROVE  SharingInv'
  <2>1. HeldTyped'
    BY <1>t, <1>1 DEF DeleteEntity, HeldTyped
  <2>. QED
    BY <1>t, <1>1, <2>1, TeamStays, AskStays DEF DeleteEntity, SharingInv
<1>2. ASSUME NEW u \in Users, NEW e \in Entities, Wear(u, e)
      PROVE  SharingInv'
  <2>1. HeldTyped'
    BY <1>t, <1>2 DEF Wear, CanUse, HeldTyped
  <2>. QED
    BY <1>t, <1>2, <2>1, TeamStays, AskStays DEF Wear, SharingInv
<1>3. ASSUME NEW u \in Users, NEW e \in Entities, NEW template \in BOOLEAN,
             CreateEntity(u, e, template)
      PROVE  SharingInv'
  <2>1. HeldTyped'
    BY <1>t, <1>3, SharingNulls DEF CreateEntity, HeldTyped
  <2>. QED
    BY <1>t, <1>3, <2>1, TeamStays, AskStays DEF CreateEntity, SharingInv
<1>4. ASSUME NEW p \in ShareProcs, CommitRule(p)
      PROVE  SharingInv'
  <2>1. HeldTyped'
    BY <1>t, <1>4 DEF CommitRule, HeldTyped, AskTyped, Known, Handles
  <2>. QED
    BY <1>t, <1>4, <2>1, TeamStays, AskEnded DEF CommitRule, SharingInv
<1>. QED
  BY <1>1, <1>2, <1>3, <1>4

LEMMA SharingStep ==
  ASSUME SharingInv, [SharingNext]_shareVars
  PROVE  SharingInv'
<1>1. CASE SharingNext
  BY <1>1, GroupSteps, AskSteps, EntitySteps DEF SharingNext
<1>2. CASE UNCHANGED shareVars
  BY <1>2, TeamStays, HeldStays, AskStays DEF shareVars, SharingInv
<1>. QED
  BY <1>1, <1>2

(***************************************************************************)
(* Groups, shares, security groups and requests keep their types; a group  *)
(* has one owner row, and every share its maker: routers/groups.py,        *)
(* routers/security_groups.py.                                             *)
(***************************************************************************)
THEOREM SharingTyped == SharingSpec => []SharingTypeOK
<1>. QED
  BY SharingStart, SharingStep, InvTyped, PTL DEF SharingSpec

-----------------------------------------------------------------------------
(* Permissions *)

\* The stated level is that of the highest share, or that of an admin.
LEMMA StatedIs ==
  ASSUME SharingInv, NEW u \in Users, NEW e \in Entities, NEW g \in Groups,
         Shared(g, e), IsMember(g, u) \/ team[g].owner = u
  PROVE  PermLevel[team[g].perm[e]] <= StatedLevel(u, e) /\ StatedLevel(u, e) \in 0 .. 2
<1>. DEFINE mine == {h \in Groups : Shared(h, e) /\ (IsMember(h, u) \/ team[h].owner = u)}
            levels == {PermLevel[team[h].perm[e]] : h \in mine}
<1>1. g \in mine
  OBVIOUS
<1>2. \A h \in mine : PermLevel[team[h].perm[e]] \in 0 .. 2
  BY DEF SharingInv, TeamTyped, Team, Shared, Perms, PermLevel
<1>3. levels \subseteq 0 .. 2 /\ PermLevel[team[g].perm[e]] \in levels
  BY <1>1, <1>2
<1>4. StatedLevel(u, e) = IF \E h \in mine : team[h].role[u] \in {"owner", "admin"} THEN 2
                          ELSE IF mine = {} THEN -1
                          ELSE CHOOSE n \in levels : \A h \in mine : PermLevel[team[h].perm[e]] <= n
  BY DEF StatedLevel
<1>. HIDE DEF mine
<1>5. CASE \E h \in mine : team[h].role[u] \in {"owner", "admin"}
  BY <1>1, <1>2, <1>4, <1>5
<1>6. CASE ~\E h \in mine : team[h].role[u] \in {"owner", "admin"}
  <2>1. StatedLevel(u, e) = CHOOSE n \in levels : \A h \in mine : PermLevel[team[h].perm[e]] <= n
    BY <1>1, <1>4, <1>6
  <2>. HIDE DEF levels
  <2>2. \E n \in levels : \A m \in levels : m <= n
    <3>1. CASE 2 \in levels
      BY <1>3, <3>1
    <3>2. CASE 2 \notin levels /\ 1 \in levels
      <4>1. \A m \in levels : m <= 1
        BY <1>3, <3>2
      <4>. QED
        BY <3>2, <4>1
    <3>3. CASE 2 \notin levels /\ 1 \notin levels
      <4>1. \A m \in levels : m = 0
        BY <1>3, <3>3
      <4>2. 0 \in levels
        BY <1>3, <4>1
      <4>. QED
        BY <4>1, <4>2
    <3>. QED
      BY <3>1, <3>2, <3>3
  <2>3. \E n \in levels : \A h \in mine : PermLevel[team[h].perm[e]] <= n
    BY <2>2 DEF levels
  <2>. QED
    BY <1>1, <1>3, <2>1, <2>3
<1>. QED
  BY <1>5, <1>6

LEMMA StatedAtLeastNothing ==
  ASSUME SharingInv, NEW u \in Users, NEW e \in Entities
  PROVE  -1 <= StatedLevel(u, e)
<1>1. CASE \E g \in Groups : Shared(g, e) /\ (IsMember(g, u) \/ team[g].owner = u)
  BY <1>1, StatedIs
<1>2. CASE ~\E g \in Groups : Shared(g, e) /\ (IsMember(g, u) \/ team[g].owner = u)
  BY <1>2 DEF StatedLevel
<1>. QED
  BY <1>1, <1>2

\* An admin of a sharing group, or its owner, is one by the statement too.
LEMMA StatedAdmin ==
  ASSUME SharingInv, NEW u \in Users, NEW e \in Entities, NEW g \in Groups,
         Shared(g, e), team[g].role[u] = "admin" \/ team[g].owner = u
  PROVE  StatedLevel(u, e) = 2
<1>1. team[g].role[u] \in {"owner", "admin"}
  BY SharingNulls DEF SharingInv, TeamTyped, Exists
<1>. QED
  BY <1>1 DEF StatedLevel, IsMember

(***************************************************************************)
(* Whatever comes and goes, the shares give nobody more than the docstring *)
(* of get_group_permission promises: services/group_access.py.             *)
(***************************************************************************)
THEOREM NoMoreThanStated == SharingSpec => []PermissionsAsStated
<1>1. SharingInv => PermissionsAsStated
  <2>. SUFFICES ASSUME SharingInv, NEW u \in Users, NEW e \in Entities
                PROVE  PermLevel[GroupPermission(u, e)] <= StatedLevel(u, e)
    BY DEF PermissionsAsStated
  <2>. DEFINE rows == ShareRows(u, e)
  <2>1. ASSUME NEW r \in rows
        PROVE  /\ r[1] \in Groups /\ Shared(r[1], e) /\ (r[2] = u \/ team[r[1]].owner = u)
               /\ IsMember(r[1], u) \/ team[r[1]].owner = u
               /\ team[r[1]].perm[e] \in Perms
    <3>1. /\ r \in Groups \X Users /\ Shared(r[1], e) /\ IsMember(r[1], r[2])
          /\ r[2] = u \/ team[r[1]].owner = u
      <4>1. r \in ShareRows(u, e)
        BY <2>1
      <4>2. r \in Groups \X Users
        BY <4>1, Zenon DEF ShareRows
      <4>. QED
        BY <4>1, <4>2, Zenon DEF ShareRows
    <3>2. team[r[1]] \in Team
      BY <3>1 DEF SharingInv, TeamTyped
    <3>3. team[r[1]].perm[e] \in Perms
      BY <3>1, <3>2 DEF Team, Shared
    <3>. QED
      BY <3>1, <3>3
  <2>2. CASE rows = {}
    BY <2>2, StatedAtLeastNothing DEF GroupPermission, PermLevel
  <2>3. CASE \E r \in rows : team[r[1]].role[r[2]] = "admin"
    <3>1. StatedLevel(u, e) = 2
      BY <2>1, <2>3, StatedAdmin
    <3>2. GroupPermission(u, e) = "admin"
      BY <2>3 DEF GroupPermission
    <3>. QED
      BY <3>1, <3>2 DEF PermLevel
  <2>4. CASE rows # {} /\ ~\E r \in rows : team[r[1]].role[r[2]] = "admin"
    <3>1. GroupPermission(u, e) = CHOOSE p \in Perms :
            /\ \E r \in rows : team[r[1]].perm[e] = p
            /\ \A r \in rows : PermLevel[team[r[1]].perm[e]] <= PermLevel[p]
      BY <2>4 DEF GroupPermission
    <3>2. \E p \in Perms : /\ \E r \in rows : team[r[1]].perm[e] = p
                           /\ \A r \in rows : PermLevel[team[r[1]].perm[e]] <= PermLevel[p]
      <4>. DEFINE seen == {team[r[1]].perm[e] : r \in rows}
      <4>1. seen \subseteq Perms /\ seen # {}
        BY <2>1, <2>4
      <4>. HIDE DEF seen
      <4>2. \E p \in seen : \A q \in seen : PermLevel[q] <= PermLevel[p]
        <5>1. \A q \in seen : PermLevel[q] \in 0 .. 2
          BY <4>1 DEF Perms, PermLevel
        <5>2. CASE "admin" \in seen
          BY <5>1, <5>2 DEF PermLevel
        <5>3. CASE "admin" \notin seen /\ "operate" \in seen
          <6>1. \A q \in seen : PermLevel[q] <= PermLevel["operate"]
            BY <4>1, <5>3 DEF Perms, PermLevel
          <6>. QED
            BY <5>3, <6>1
        <5>4. CASE "admin" \notin seen /\ "operate" \notin seen
          <6>1. "read" \in seen /\ \A q \in seen : q = "read"
            BY <4>1, <5>4 DEF Perms
          <6>. QED
            BY <6>1 DEF PermLevel
        <5>. QED
          BY <5>2, <5>3, <5>4
      <4>. QED
        BY <4>1, <4>2 DEF seen
    <3>. HIDE DEF rows
    <3>3. PICK r \in rows : team[r[1]].perm[e] = GroupPermission(u, e)
      BY <3>1, <3>2
    <3>. QED
      BY <2>1, <3>3, StatedIs
  <2>. QED
    BY <2>2, <2>3, <2>4
<1>. QED
  BY <1>1, SharingStart, SharingStep, PTL DEF SharingSpec

-----------------------------------------------------------------------------
(* Sums over a finite set: induction, by way of the least counterexample *)

Total(f, S) == FoldSet(LAMBDA k, total : total + f[k], 0, S)
Pick(s) == CHOOSE x \in s : TRUE

\* g is what FoldSet computes on the sets of D.
Sums(g, f, D) == g = [s \in D |-> IF s = {} THEN 0 ELSE g[s \ {Pick(s)}] + f[Pick(s)]]

LEMMA TotalIs ==
  ASSUME NEW f, NEW S
  PROVE  Total(f, S) = (CHOOSE g : Sums(g, f, SUBSET S))[S]
BY DEF Total, FoldSet, MapThenFoldSet, Sums, Pick

LEMMA SetInduction ==
  ASSUME NEW Q \in SUBSET Nat, 0 \in Q, \A n \in Q : n + 1 \in Q
  PROVE  Q = Nat
<1>. SUFFICES ASSUME Nat \ Q # {} PROVE FALSE
  OBVIOUS
<1>. DEFINE below == {p \in Nat \X Nat : p[1] < p[2]}
            D == Nat \ Q
<1>1. IsWellFoundedOn(below, Nat)
  BY NatLessThanWellFounded DEF OpToRel
<1>2. D \subseteq Nat /\ D # {}
  OBVIOUS
<1>3. PICK n \in D : \A m \in D : ~(<<m, n>> \in below)
  <2>. HIDE DEF below, D
  <2>. QED
    BY <1>1, <1>2, WFMin
<1>4. n \in Nat /\ n # 0 /\ n - 1 \in Nat
  OBVIOUS
<1>5. n - 1 \in Q
  <2>1. <<n - 1, n>> \in below
    BY <1>4
  <2>. QED
    BY <1>3, <1>4, <2>1
<1>6. (n - 1) + 1 \in Q
  BY <1>5
<1>. QED
  BY <1>4, <1>6

LEMMA PickIn == \A s : s # {} => Pick(s) \in s
BY DEF Pick

LEMMA Smaller ==
  ASSUME NEW S, IsFiniteSet(S), NEW s \in SUBSET S
  PROVE  /\ Cardinality(s) \in Nat /\ (Cardinality(s) = 0 <=> s = {})
         /\ s # {} => Cardinality(s \ {Pick(s)}) = Cardinality(s) - 1
<1>1. IsFiniteSet(s)
  BY FS_Subset
<1>. QED
  BY <1>1, PickIn, FS_CardinalityType, FS_EmptySet, FS_RemoveElement

LEMMA SubsetInduction ==
  ASSUME NEW S, IsFiniteSet(S), NEW Q \in SUBSET SUBSET S, {} \in Q,
         \A s \in SUBSET S : s # {} /\ s \ {Pick(s)} \in Q => s \in Q
  PROVE  Q = SUBSET S
<1>. DEFINE N == {n \in Nat : \A s \in SUBSET S : Cardinality(s) = n => s \in Q}
<1>1. 0 \in N
  BY Smaller
<1>2. ASSUME NEW n \in N PROVE n + 1 \in N
  <2>1. SUFFICES ASSUME NEW s \in SUBSET S, Cardinality(s) = n + 1 PROVE s \in Q
    OBVIOUS
  <2>2. s # {} /\ Cardinality(s \ {Pick(s)}) = n /\ s \ {Pick(s)} \in SUBSET S
    BY <2>1, Smaller
  <2>. QED
    BY <2>2
<1>3. N = Nat
  <2>. HIDE DEF N
  <2>1. N \subseteq Nat
    BY DEF N
  <2>. QED
    BY <1>1, <1>2, <2>1, SetInduction
<1>4. \A s \in SUBSET S : Cardinality(s) \in N
  BY <1>3, Smaller
<1>. QED
  BY <1>4

LEMMA SumsExist ==
  ASSUME NEW S, IsFiniteSet(S), NEW f
  PROVE  \E g : Sums(g, f, SUBSET S)
<1>. DEFINE Level(n) == {s \in SUBSET S : Cardinality(s) <= n}
            N == {n \in Nat : \E g : Sums(g, f, Level(n))}
<1>1. 0 \in N
  <2>. DEFINE g == [s \in Level(0) |-> 0]
  <2>1. ASSUME NEW s \in Level(0) PROVE s = {}
    <3>1. s \in SUBSET S /\ Cardinality(s) <= 0
      OBVIOUS
    <3>2. Cardinality(s) \in Nat /\ (Cardinality(s) = 0 <=> s = {})
      BY <3>1, Smaller
    <3>. QED
      BY <3>1, <3>2
  <2>2. Sums(g, f, Level(0))
    BY <2>1 DEF Sums
  <2>. QED
    BY <2>2
<1>2. ASSUME NEW n \in N PROVE n + 1 \in N
  <2>1. PICK g : Sums(g, f, Level(n))
    OBVIOUS
  <2>. DEFINE h == [s \in Level(n + 1) |-> IF s = {} THEN 0 ELSE g[s \ {Pick(s)}] + f[Pick(s)]]
  <2>2. \A s \in Level(n) : s \in Level(n + 1) /\ h[s] = g[s]
    <3>1. ASSUME NEW s \in Level(n) PROVE s \in Level(n + 1)
      <4>1. s \in SUBSET S /\ Cardinality(s) <= n /\ n \in Nat
        OBVIOUS
      <4>2. Cardinality(s) \in Nat
        BY <4>1, Smaller
      <4>. QED
        BY <4>1, <4>2
    <3>2. \A s \in Level(n) : g[s] = IF s = {} THEN 0 ELSE g[s \ {Pick(s)}] + f[Pick(s)]
      BY <2>1 DEF Sums
    <3>. QED
      BY <3>1, <3>2
  <2>3. \A s \in Level(n + 1) : s # {} => s \ {Pick(s)} \in Level(n)
    <3>1. SUFFICES ASSUME NEW s \in Level(n + 1), s # {} PROVE s \ {Pick(s)} \in Level(n)
      OBVIOUS
    <3>2. s \ {Pick(s)} \in SUBSET S /\ Cardinality(s) \in Nat /\ Cardinality(s) <= n + 1
          /\ Cardinality(s \ {Pick(s)}) = Cardinality(s) - 1
      BY <3>1, Smaller
    <3>. QED
      BY <3>2
  <2>4. h = [s \in Level(n + 1) |-> IF s = {} THEN 0 ELSE h[s \ {Pick(s)}] + f[Pick(s)]]
    <3>1. \A s \in Level(n + 1) : s # {} => h[s \ {Pick(s)}] = g[s \ {Pick(s)}]
      BY <2>2, <2>3
    <3>. QED
      BY <3>1
  <2>. HIDE DEF h, Level
  <2>5. Sums(h, f, Level(n + 1))
    BY <2>4 DEF Sums
  <2>6. n + 1 \in Nat /\ \E e : Sums(e, f, Level(n + 1))
    BY <2>5
  <2>. QED
    BY <2>6
<1>3. N = Nat
  <2>. HIDE DEF N
  <2>1. N \subseteq Nat
    BY DEF N
  <2>. QED
    BY <1>1, <1>2, <2>1, SetInduction
<1>4. Cardinality(S) \in Nat /\ \A s \in SUBSET S : Cardinality(s) <= Cardinality(S)
  BY FS_CardinalityType, FS_Subset
<1>5. Level(Cardinality(S)) = SUBSET S
  BY <1>4
<1>6. Cardinality(S) \in N
  BY <1>3, <1>4
<1>. HIDE DEF Level
<1>. QED
  BY <1>5, <1>6

LEMMA TotalSums ==
  ASSUME NEW S, IsFiniteSet(S), NEW f
  PROVE  \E g : Sums(g, f, SUBSET S) /\ Total(f, S) = g[S]
<1>. DEFINE g == CHOOSE h : Sums(h, f, SUBSET S)
<1>1. Sums(g, f, SUBSET S)
  BY SumsExist
<1>. QED
  BY <1>1, TotalIs

\* A sum changes by what one of its terms does.
LEMMA TotalChanges ==
  ASSUME NEW S, IsFiniteSet(S), NEW f \in [S -> Nat], NEW k \in S, NEW v \in Nat,
         NEW e, e[k] = v, \A j \in S \ {k} : e[j] = f[j]
  PROVE  /\ Total(f, S) \in Nat /\ f[k] <= Total(f, S)
         /\ Total(e, S) = Total(f, S) - f[k] + v
<1>1. PICK g : Sums(g, f, SUBSET S) /\ Total(f, S) = g[S]
  BY TotalSums
<1>2. PICK h : Sums(h, e, SUBSET S) /\ Total(e, S) = h[S]
  BY TotalSums
<1>3. /\ e[k] = v /\ \A j \in S : j # k => e[j] = f[j]
      /\ \A j \in S : f[j] \in Nat
  OBVIOUS
<1>. DEFINE Q == {s \in SUBSET S : /\ g[s] \in Nat
                                  /\ h[s] = (IF k \in s THEN g[s] - f[k] + v ELSE g[s])
                                  /\ (k \in s => f[k] <= g[s])}
<1>4. \A s \in SUBSET S : /\ g[s] = IF s = {} THEN 0 ELSE g[s \ {Pick(s)}] + f[Pick(s)]
                          /\ h[s] = IF s = {} THEN 0 ELSE h[s \ {Pick(s)}] + e[Pick(s)]
  BY <1>1, <1>2 DEF Sums
<1>5. {} \in Q
  <2>1. g[{}] = 0 /\ h[{}] = 0
    BY <1>4
  <2>. QED
    BY <2>1
<1>6. ASSUME NEW s \in SUBSET S, s # {}, s \ {Pick(s)} \in Q PROVE s \in Q
  <2>. DEFINE x == Pick(s)
              t == s \ {x}
  <2>1. x \in s /\ x \in S /\ s = t \union {x} /\ x \notin t
    BY <1>6, PickIn
  <2>2. g[s] = g[t] + f[x] /\ h[s] = h[t] + e[x]
    BY <1>4, <1>6
  <2>3. /\ g[t] \in Nat /\ h[t] = (IF k \in t THEN g[t] - f[k] + v ELSE g[t])
        /\ k \in t => f[k] <= g[t]
    BY <1>6
  <2>. HIDE DEF x, t
  <2>4. CASE x = k
    BY <1>3, <2>1, <2>2, <2>3, <2>4
  <2>5. CASE x # k
    BY <1>3, <2>1, <2>2, <2>3, <2>5
  <2>. QED
    BY <2>4, <2>5
<1>7. Q = SUBSET S
  <2>. HIDE DEF Q
  <2>1. Q \subseteq SUBSET S
    BY DEF Q
  <2>. QED
    BY <1>5, <1>6, <2>1, SubsetInduction
<1>8. S \in Q
  BY <1>7
<1>. QED
  BY <1>1, <1>2, <1>8

LEMMA TotalOfNone ==
  ASSUME NEW S, IsFiniteSet(S), NEW f, \A k \in S : f[k] = 0
  PROVE  Total(f, S) = 0
<1>1. PICK g : Sums(g, f, SUBSET S) /\ Total(f, S) = g[S]
  BY TotalSums
<1>. DEFINE Q == {s \in SUBSET S : g[s] = 0}
<1>2. \A s \in SUBSET S : g[s] = IF s = {} THEN 0 ELSE g[s \ {Pick(s)}] + f[Pick(s)]
  BY <1>1 DEF Sums
<1>3. {} \in Q
  BY <1>2
<1>4. ASSUME NEW s \in SUBSET S, s # {}, s \ {Pick(s)} \in Q PROVE s \in Q
  BY <1>2, <1>4, PickIn
<1>5. Q = SUBSET S
  <2>. HIDE DEF Q
  <2>1. Q \subseteq SUBSET S
    BY DEF Q
  <2>. QED
    BY <1>3, <1>4, <2>1, SubsetInduction
<1>. QED
  BY <1>1, <1>5

-----------------------------------------------------------------------------
(* Buckets: types *)

\* What a request knows of itself.
BucketAsk(r) ==
    /\ r.op = "none" => r = BucketFree
    /\ r.op # "none" => r.name \in Names
    /\ r.op \in {"copy", "move"} => r.to \in Names /\ r.toKey \in ObjectKeys
    /\ r.op \notin {"copy", "move"} => r.to = NoName
    /\ r.op \in {"upload", "remove", "copy", "move"} => r.key \in ObjectKeys
    /\ r.op \in {"upload", "copy", "move"} => r.size \in ObjectSizes
    /\ r.op = "create" => r.user \in Users
    /\ r.op = "move" => MoveOntoItself \/ <<r.name, r.key>> # <<r.to, r.toKey>>

BucketRowsTyped ==
    /\ bucket \in [Names -> Bucket]
    /\ \A n \in Names : ~Owned(n) => bucket[n] = NoBucket
StoreTyped ==
    /\ s3 \in [Names -> Stored]
    /\ \A n \in Names : ~s3[n].there => s3[n] = NotStored
AsksTyped == breq \in [BucketProcs -> BucketRequest] /\ \A p \in BucketProcs : BucketAsk(breq[p])
PastTyped == owed \subseteq Names \X ObjectKeys /\ upset \subseteq Names
BucketsTypeInv == BucketRowsTyped /\ StoreTyped /\ AsksTyped /\ PastTyped

LEMMA BucketsInvTyped == BucketsTypeInv => BucketsTypeOK
BY DEF BucketsTypeInv, BucketRowsTyped, StoreTyped, AsksTyped, PastTyped, BucketsTypeOK

LEMMA BucketNulls ==
    /\ NoBucket \in Bucket /\ NoBucket.owner = NoUser /\ NoBucket.size = 0 /\ NoBucket.count = 0
    /\ NotStored \in Stored /\ ~NotStored.there /\ \A k \in ObjectKeys : NotStored.object[k] = 0
    /\ BucketFree \in BucketRequest /\ BucketAsk(BucketFree)
    /\ BucketFree.op = "none" /\ BucketFree.name = NoName /\ BucketFree.to = NoName
    /\ NoUser \notin Users /\ NoName \notin Names
<1>1. /\ NoBucket \in Bucket /\ NoBucket.owner = NoUser /\ NoBucket.size = 0 /\ NoBucket.count = 0
  BY BucketConstants DEF NoBucket, Bucket
<1>2. /\ NotStored \in Stored /\ ~NotStored.there /\ \A k \in ObjectKeys : NotStored.object[k] = 0
  BY DEF NotStored, Stored
<1>3. /\ BucketFree \in BucketRequest
      /\ BucketFree.op = "none" /\ BucketFree.name = NoName /\ BucketFree.to = NoName
  BY <1>1 DEF BucketFree, BucketRequest
<1>4. BucketAsk(BucketFree)
  BY <1>3 DEF BucketAsk
<1>. QED
  BY <1>1, <1>2, <1>3, <1>4, UsersAssumption, BucketConstants

LEMMA BucketsStart == BucketsInit => BucketsTypeInv
<1>. SUFFICES ASSUME BucketsInit PROVE BucketsTypeInv
  OBVIOUS
<1>1. BucketRowsTyped
  BY BucketNulls DEF BucketsInit, BucketRowsTyped
<1>2. StoreTyped
  BY BucketNulls DEF BucketsInit, StoreTyped
<1>3. AsksTyped
  BY BucketNulls DEF BucketsInit, AsksTyped
<1>4. PastTyped
  BY DEF BucketsInit, PastTyped
<1>. QED
  BY <1>1, <1>2, <1>3, <1>4 DEF BucketsTypeInv

\* A request begins, goes on, ends.
LEMMA AskBegins ==
  ASSUME AsksTyped, PastTyped, NEW p \in BucketProcs, NEW r \in BucketRequest, BucketAsk(r),
         BucketBegin(p, r)
  PROVE  /\ AsksTyped' /\ upset' \subseteq Names /\ breq'[p] = r
         /\ \A q \in BucketProcs : q # p => breq'[q] = breq[q]
BY DEF AsksTyped, PastTyped, BucketBegin

LEMMA AskEnds ==
  ASSUME AsksTyped, NEW p \in BucketProcs, BucketEnd(p)
  PROVE  /\ AsksTyped' /\ breq'[p] = BucketFree
         /\ \A q \in BucketProcs : q # p => breq'[q] = breq[q]
BY BucketNulls DEF AsksTyped, BucketEnd

LEMMA AskGoes ==
  ASSUME AsksTyped, NEW p \in BucketProcs, NEW step \in {"copied", "done"},
         breq[p].op # "none", breq' = [breq EXCEPT ![p].step = step]
  PROVE  /\ AsksTyped' /\ breq'[p] = [breq[p] EXCEPT !.step = step]
         /\ breq'[p] \in BucketRequest /\ breq'[p].step = step
         /\ breq'[p].op = breq[p].op /\ breq'[p].name = breq[p].name /\ breq'[p].to = breq[p].to
         /\ breq'[p].key = breq[p].key /\ breq'[p].toKey = breq[p].toKey
         /\ breq'[p].size = breq[p].size /\ breq'[p].row = breq[p].row
         /\ breq'[p].toRow = breq[p].toRow /\ breq'[p].user = breq[p].user
         /\ breq'[p].force = breq[p].force
         /\ \A q \in BucketProcs : q # p => breq'[q] = breq[q]
<1>. DEFINE r == [breq[p] EXCEPT !.step = step]
<1>1. breq[p] \in BucketRequest /\ BucketAsk(breq[p])
  BY DEF AsksTyped
<1>2. /\ r \in BucketRequest /\ r.step = step
      /\ r.op = breq[p].op /\ r.name = breq[p].name /\ r.to = breq[p].to
      /\ r.key = breq[p].key /\ r.toKey = breq[p].toKey
      /\ r.size = breq[p].size /\ r.row = breq[p].row /\ r.toRow = breq[p].toRow
      /\ r.user = breq[p].user /\ r.force = breq[p].force
  BY <1>1 DEF BucketRequest
<1>3. breq' = [breq EXCEPT ![p] = r]
  BY DEF AsksTyped
<1>. HIDE DEF r
<1>4. BucketAsk(r)
  BY <1>1, <1>2 DEF BucketAsk
<1>5. AsksTyped' /\ breq'[p] = r /\ \A q \in BucketProcs : q # p => breq'[q] = breq[q]
  BY <1>2, <1>3, <1>4 DEF AsksTyped
<1>. QED
  BY <1>2, <1>5 DEF r

LEMMA RowsRest ==
  ASSUME BucketRowsTyped, UNCHANGED bucket
  PROVE  BucketRowsTyped'
BY DEF BucketRowsTyped, Owned

LEMMA StoreRests ==
  ASSUME StoreTyped, UNCHANGED s3
  PROVE  StoreTyped'
BY DEF StoreTyped

\* A row is written, a store is.
LEMMA BucketWritten ==
  ASSUME BucketRowsTyped, NEW n \in Names, NEW b \in Bucket, b.owner # NoUser \/ b = NoBucket,
         bucket' = [bucket EXCEPT ![n] = b]
  PROVE  BucketRowsTyped' /\ bucket'[n] = b /\ \A m \in Names : m # n => bucket'[m] = bucket[m]
BY DEF BucketRowsTyped, Owned

LEMMA StoreWritten ==
  ASSUME StoreTyped, NEW n \in Names, NEW s \in Stored, s.there \/ s = NotStored,
         s3' = [s3 EXCEPT ![n] = s]
  PROVE  StoreTyped' /\ s3'[n] = s /\ \A m \in Names : m # n => s3'[m] = s3[m]
BY DEF StoreTyped

\* An object is put into a bucket that is there, or taken from it.
LEMMA ObjectPut ==
  ASSUME StoreTyped, NEW n \in Names, NEW k \in ObjectKeys, NEW size \in ObjectSizes \union {0},
         s3[n].there, Put(n, k, size)
  PROVE  /\ StoreTyped' /\ s3'[n].there
         /\ s3'[n].object = [s3[n].object EXCEPT ![k] = size]
         /\ \A m \in Names : m # n => s3'[m] = s3[m]
<1>. DEFINE object == [s3[n].object EXCEPT ![k] = size]
            s == [s3[n] EXCEPT !.object = object]
<1>1. s3[n] \in Stored /\ s3[n].object \in [ObjectKeys -> ObjectSizes \union {0}]
  BY DEF StoreTyped, Stored
<1>2. object \in [ObjectKeys -> ObjectSizes \union {0}]
  BY <1>1
<1>3. s3' = [s3 EXCEPT ![n] = s]
  BY DEF Put, StoreTyped
<1>. HIDE DEF object
<1>4. s \in Stored /\ s.there /\ s.object = object
  BY <1>1, <1>2 DEF Stored
<1>. HIDE DEF s
<1>. QED
  BY <1>3, <1>4, StoreWritten DEF object

-----------------------------------------------------------------------------
(* Buckets: what the handlers read *)

NewCreate(u, n) == [BucketFree EXCEPT !.op = "create", !.user = u, !.name = n]
NewDelete(n, force) == [Ask("delete", bucket[n].owner, n) EXCEPT !.force = force]
NewUpload(n, k, size) == [Ask("upload", bucket[n].owner, n) EXCEPT !.key = k, !.size = size]
NewRemove(n, k) == [Ask("remove", bucket[n].owner, n) EXCEPT !.key = k]
NewCopy(op, n, m, k, j) ==
    [Ask(op, bucket[n].owner, n) EXCEPT !.key = k, !.to = m, !.toRow = bucket[m],
                                        !.toKey = j, !.size = s3[n].object[k]]
NewSettings(n, tags) == [Ask("settings", bucket[n].owner, n) EXCEPT !.tags = tags]

\* A request of bucket n, that has just read its row.
AskOf(r, op, n) ==
    /\ r \in BucketRequest /\ BucketAsk(r) /\ r.op = op /\ r.step = "read"
    /\ r.name = n /\ r.row = bucket[n]

LEMMA FreeFields ==
    /\ BucketFree.op = "none" /\ BucketFree.step = "read" /\ BucketFree.user = NoUser
    /\ BucketFree.name = NoName /\ BucketFree.row = NoBucket /\ BucketFree.to = NoName
    /\ BucketFree.toRow = NoBucket /\ BucketFree.key = NoKey /\ BucketFree.toKey = NoKey
    /\ BucketFree.size = 0 /\ BucketFree.force = FALSE /\ BucketFree.tags = {}
BY DEF BucketFree

LEMMA AskFields ==
  ASSUME BucketRowsTyped, NEW op \in BucketOps, NEW n \in Names
  PROVE  \E r \in BucketRequest :
           /\ r = Ask(op, bucket[n].owner, n) /\ r.op = op /\ r.step = "read"
           /\ r.name = n /\ r.row = bucket[n] /\ r.to = NoName
<1>1. bucket[n] \in Bucket /\ bucket[n].owner \in Users \union {NoUser}
  BY DEF BucketRowsTyped, Bucket
<1>. DEFINE r == Ask(op, bucket[n].owner, n)
<1>2. r \in BucketRequest /\ r.op = op /\ r.step = "read" /\ r.name = n /\ r.row = bucket[n]
      /\ r.to = NoName
  BY <1>1, BucketNulls, FreeFields DEF Ask, BucketRequest
<1>. HIDE DEF r
<1>3. r \in BucketRequest /\ r = Ask(op, bucket[n].owner, n)
  BY <1>2 DEF r
<1>. QED
  BY <1>2, <1>3

LEMMA CreateAsked ==
  ASSUME BucketRowsTyped, NEW u \in Users, NEW n \in Names, ~Owned(n)
  PROVE  AskOf(NewCreate(u, n), "create", n) /\ NewCreate(u, n).to = NoName
<1>. DEFINE r == NewCreate(u, n)
<1>1. /\ r \in BucketRequest /\ r.op = "create" /\ r.step = "read" /\ r.user = u
      /\ r.name = n /\ r.row = NoBucket /\ r.to = NoName
  BY BucketNulls, FreeFields DEF NewCreate, BucketRequest, BucketOps
<1>2. bucket[n] = NoBucket
  BY DEF BucketRowsTyped
<1>. HIDE DEF r
<1>3. BucketAsk(r)
  BY <1>1 DEF BucketAsk
<1>. QED
  BY <1>1, <1>2, <1>3 DEF AskOf, r

LEMMA DeleteAsked ==
  ASSUME BucketRowsTyped, NEW n \in Names, NEW force \in BOOLEAN
  PROVE  AskOf(NewDelete(n, force), "delete", n) /\ NewDelete(n, force).to = NoName
         /\ NewDelete(n, force).force = force
<1>. DEFINE a == Ask("delete", bucket[n].owner, n)
            r == [a EXCEPT !.force = force]
<1>1. a \in BucketRequest /\ a.op = "delete" /\ a.step = "read" /\ a.name = n
      /\ a.row = bucket[n] /\ a.to = NoName
  BY AskFields DEF BucketOps
<1>. HIDE DEF a
<1>2. r \in BucketRequest /\ r.op = "delete" /\ r.step = "read" /\ r.name = n
      /\ r.row = bucket[n] /\ r.to = NoName /\ r.force = force
  BY <1>1 DEF BucketRequest
<1>. HIDE DEF r
<1>3. BucketAsk(r)
  BY <1>2 DEF BucketAsk
<1>. QED
  BY <1>2, <1>3 DEF AskOf, NewDelete, r, a

LEMMA UploadAsked ==
  ASSUME BucketRowsTyped, NEW n \in Names, NEW k \in ObjectKeys, NEW size \in ObjectSizes
  PROVE  AskOf(NewUpload(n, k, size), "upload", n) /\ NewUpload(n, k, size).to = NoName
<1>. DEFINE a == Ask("upload", bucket[n].owner, n)
            r == [a EXCEPT !.key = k, !.size = size]
<1>1. a \in BucketRequest /\ a.op = "upload" /\ a.step = "read" /\ a.name = n
      /\ a.row = bucket[n] /\ a.to = NoName
  BY AskFields DEF BucketOps
<1>. HIDE DEF a
<1>2. r \in BucketRequest /\ r.op = "upload" /\ r.step = "read" /\ r.name = n
      /\ r.row = bucket[n] /\ r.to = NoName /\ r.key = k /\ r.size = size
  BY <1>1 DEF BucketRequest
<1>. HIDE DEF r
<1>3. BucketAsk(r)
  BY <1>2 DEF BucketAsk
<1>. QED
  BY <1>2, <1>3 DEF AskOf, NewUpload, r, a

LEMMA RemoveAsked ==
  ASSUME BucketRowsTyped, NEW n \in Names, NEW k \in ObjectKeys
  PROVE  AskOf(NewRemove(n, k), "remove", n) /\ NewRemove(n, k).to = NoName
         /\ NewRemove(n, k).key = k
<1>. DEFINE a == Ask("remove", bucket[n].owner, n)
            r == [a EXCEPT !.key = k]
<1>1. a \in BucketRequest /\ a.op = "remove" /\ a.step = "read" /\ a.name = n
      /\ a.row = bucket[n] /\ a.to = NoName
  BY AskFields DEF BucketOps
<1>. HIDE DEF a
<1>2. r \in BucketRequest /\ r.op = "remove" /\ r.step = "read" /\ r.name = n
      /\ r.row = bucket[n] /\ r.to = NoName /\ r.key = k
  BY <1>1 DEF BucketRequest
<1>. HIDE DEF r
<1>3. BucketAsk(r)
  BY <1>2 DEF BucketAsk
<1>. QED
  BY <1>2, <1>3 DEF AskOf, NewRemove, r, a

LEMMA CopyAsked ==
  ASSUME BucketRowsTyped, StoreTyped, NEW op \in {"copy", "move"}, NEW n \in Names, NEW m \in Names,
         NEW k \in ObjectsIn(n), NEW j \in ObjectKeys,
         op = "move" => MoveOntoItself \/ <<n, k>> # <<m, j>>
  PROVE  LET r == NewCopy(op, n, m, k, j) IN
         /\ AskOf(r, op, n) /\ r.to = m /\ r.toRow = bucket[m] /\ r.key = k /\ r.toKey = j
         /\ r.size = s3[n].object[k]
<1>. DEFINE a == Ask(op, bucket[n].owner, n)
            r == [a EXCEPT !.key = k, !.to = m, !.toRow = bucket[m], !.toKey = j,
                           !.size = s3[n].object[k]]
<1>0. op \in BucketOps
  BY DEF BucketOps
<1>1. a \in BucketRequest /\ a.op = op /\ a.step = "read" /\ a.name = n /\ a.row = bucket[n]
  BY <1>0, AskFields
<1>2. /\ bucket[m] \in Bucket /\ k \in ObjectKeys /\ s3[n].object[k] > 0
      /\ s3[n].object[k] \in ObjectSizes \union {0}
  BY DEF BucketRowsTyped, StoreTyped, Stored, ObjectsIn
<1>3. s3[n].object[k] \in ObjectSizes
  BY <1>2
<1>. HIDE DEF a
<1>4. r \in BucketRequest /\ r.op = op /\ r.step = "read" /\ r.name = n
      /\ r.row = bucket[n] /\ r.to = m /\ r.toRow = bucket[m] /\ r.key = k /\ r.toKey = j
      /\ r.size = s3[n].object[k]
  BY <1>1, <1>2 DEF BucketRequest
<1>. HIDE DEF r
<1>5. BucketAsk(r)
  BY <1>2, <1>3, <1>4 DEF BucketAsk
<1>. QED
  BY <1>4, <1>5 DEF AskOf, NewCopy, r, a

LEMMA SettingsAsked ==
  ASSUME BucketRowsTyped, NEW n \in Names, NEW tags \in SUBSET Settings
  PROVE  AskOf(NewSettings(n, tags), "settings", n) /\ NewSettings(n, tags).to = NoName
<1>. DEFINE a == Ask("settings", bucket[n].owner, n)
            r == [a EXCEPT !.tags = tags]
<1>1. a \in BucketRequest /\ a.op = "settings" /\ a.step = "read" /\ a.name = n
      /\ a.row = bucket[n] /\ a.to = NoName
  BY AskFields DEF BucketOps
<1>. HIDE DEF a
<1>2. r \in BucketRequest /\ r.op = "settings" /\ r.step = "read" /\ r.name = n
      /\ r.row = bucket[n] /\ r.to = NoName
  BY <1>1 DEF BucketRequest
<1>. HIDE DEF r
<1>3. BucketAsk(r)
  BY <1>2 DEF BucketAsk
<1>. QED
  BY <1>2, <1>3 DEF AskOf, NewSettings, r, a

\* The request r begins: what it has read, and what is owed no longer.
Begun(p, r) ==
    /\ BucketBegin(p, r) /\ UNCHANGED <<bucket, s3>>
    /\ r \in BucketRequest /\ BucketAsk(r) /\ r.step = "read" /\ r.op # "none"
    /\ r.name \in Names /\ r.row = bucket[r.name]
    /\ r.op = "create" <=> ~Owned(r.name)
    /\ r.to \in Names => Owned(r.to) /\ r.toRow = bucket[r.to]
    /\ r.op \in {"copy", "move"} => r.size = s3[r.name].object[r.key]
    /\ owed' \subseteq owed
    /\ \A o \in owed' : /\ r.op \in {"remove", "move"} => o # <<r.name, r.key>>
                        /\ r.op = "delete" /\ r.force => o[1] # r.name

BucketReads(p) ==
    \E n \in Names :
      \/ ReadForSettings(p, n)
      \/ \E u \in Users : ReadForCreate(p, u, n)
      \/ \E force \in BOOLEAN : ReadForDelete(p, n, force)
      \/ \E k \in ObjectKeys :
           \/ ReadForRemove(p, n, k)
           \/ \E size \in ObjectSizes : ReadForUpload(p, n, k, size)
           \/ \E op \in {"copy", "move"}, m \in Names, j \in ObjectKeys :
                ReadForCopy(p, op, n, m, k, j)

LEMMA BucketReadsBegin ==
  ASSUME BucketsTypeInv, NEW p \in BucketProcs, BucketReads(p)
  PROVE  \E r : Begun(p, r)
<1>. USE DEF BucketsTypeInv
<1>0. BucketRowsTyped /\ StoreTyped /\ NoName \notin Names
  BY BucketNulls
<1>1. ASSUME NEW n \in Names, ReadForSettings(p, n) PROVE \E r : Begun(p, r)
  <2>1. PICK tags \in SUBSET Settings : BucketBegin(p, NewSettings(n, tags))
    <3>1. bucket[n].tags \in SUBSET Settings
      BY DEF BucketRowsTyped, Bucket
    <3>2. CASE \E s \in Settings :
                 \E tags \in {bucket[n].tags \union {s}, bucket[n].tags \ {s}} :
                    BucketBegin(p, [Ask("settings", bucket[n].owner, n) EXCEPT !.tags = tags])
      BY <3>1, <3>2 DEF NewSettings
    <3>3. CASE BucketBegin(p, [Ask("settings", bucket[n].owner, n) EXCEPT !.tags = {"tags"}])
      BY <3>3 DEF NewSettings, Settings
    <3>. QED
      BY <1>1, <3>2, <3>3 DEF ReadForSettings
  <2>2. AskOf(NewSettings(n, tags), "settings", n) /\ NewSettings(n, tags).to = NoName
    BY <1>0, SettingsAsked
  <2>3. Begun(p, NewSettings(n, tags))
    BY <1>0, <1>1, <2>1, <2>2 DEF AskOf, Begun, ReadForSettings
  <2>. QED
    BY <2>3
<1>2. ASSUME NEW n \in Names, NEW u \in Users, ReadForCreate(p, u, n) PROVE \E r : Begun(p, r)
  <2>1. ~Owned(n) /\ BucketBegin(p, NewCreate(u, n)) /\ UNCHANGED <<bucket, s3, owed>>
    BY <1>2 DEF ReadForCreate, NewCreate
  <2>2. AskOf(NewCreate(u, n), "create", n) /\ NewCreate(u, n).to = NoName
    BY <1>0, <2>1, CreateAsked
  <2>3. Begun(p, NewCreate(u, n))
    BY <1>0, <2>1, <2>2 DEF AskOf, Begun
  <2>. QED
    BY <2>3
<1>3. ASSUME NEW n \in Names, NEW force \in BOOLEAN, ReadForDelete(p, n, force)
      PROVE  \E r : Begun(p, r)
  <2>1. Owned(n) /\ BucketBegin(p, NewDelete(n, force)) /\ UNCHANGED <<bucket, s3>>
        /\ owed' = IF force THEN {o \in owed : o[1] # n} ELSE owed
    BY <1>3 DEF ReadForDelete, NewDelete
  <2>2. AskOf(NewDelete(n, force), "delete", n) /\ NewDelete(n, force).to = NoName
        /\ NewDelete(n, force).force = force
    BY <1>0, DeleteAsked
  <2>3. Begun(p, NewDelete(n, force))
    BY <1>0, <2>1, <2>2 DEF AskOf, Begun
  <2>. QED
    BY <2>3
<1>4. ASSUME NEW n \in Names, NEW k \in ObjectKeys, ReadForRemove(p, n, k)
      PROVE  \E r : Begun(p, r)
  <2>1. Owned(n) /\ BucketBegin(p, NewRemove(n, k)) /\ UNCHANGED <<bucket, s3>>
        /\ owed' = owed \ {<<n, k>>}
    BY <1>4 DEF ReadForRemove, NewRemove
  <2>2. AskOf(NewRemove(n, k), "remove", n) /\ NewRemove(n, k).to = NoName
        /\ NewRemove(n, k).key = k
    BY <1>0, RemoveAsked
  <2>3. Begun(p, NewRemove(n, k))
    BY <1>0, <2>1, <2>2 DEF AskOf, Begun
  <2>. QED
    BY <2>3
<1>5. ASSUME NEW n \in Names, NEW k \in ObjectKeys, NEW size \in ObjectSizes,
             ReadForUpload(p, n, k, size)
      PROVE  \E r : Begun(p, r)
  <2>1. Owned(n) /\ BucketBegin(p, NewUpload(n, k, size)) /\ UNCHANGED <<bucket, s3, owed>>
    BY <1>5 DEF ReadForUpload, NewUpload
  <2>2. AskOf(NewUpload(n, k, size), "upload", n) /\ NewUpload(n, k, size).to = NoName
    BY <1>0, UploadAsked
  <2>3. Begun(p, NewUpload(n, k, size))
    BY <1>0, <2>1, <2>2 DEF AskOf, Begun
  <2>. QED
    BY <2>3
<1>6. ASSUME NEW n \in Names, NEW k \in ObjectKeys, NEW op \in {"copy", "move"}, NEW m \in Names,
             NEW j \in ObjectKeys, ReadForCopy(p, op, n, m, k, j)
      PROVE  \E r : Begun(p, r)
  <2>. DEFINE r == NewCopy(op, n, m, k, j)
  <2>1. /\ Owned(n) /\ bucket[m].owner = bucket[n].owner /\ k \in ObjectsIn(n)
        /\ op = "move" => MoveOntoItself \/ <<n, k>> # <<m, j>>
        /\ BucketBegin(p, r) /\ UNCHANGED <<bucket, s3>>
        /\ owed' = IF op = "move" THEN owed \ {<<n, k>>} ELSE owed
    BY <1>6 DEF ReadForCopy, NewCopy
  <2>2. /\ AskOf(r, op, n) /\ r.to = m /\ r.toRow = bucket[m] /\ r.key = k /\ r.toKey = j
        /\ r.size = s3[n].object[k]
    BY <1>0, <2>1, CopyAsked
  <2>. HIDE DEF r
  <2>3. Owned(m)
    BY <2>1 DEF Owned
  <2>4. Begun(p, r)
    BY <1>0, <2>1, <2>2, <2>3 DEF AskOf, Begun
  <2>. QED
    BY <2>4
<1>. QED
  BY <1>1, <1>2, <1>3, <1>4, <1>5, <1>6 DEF BucketReads

-----------------------------------------------------------------------------
(* Buckets: what the handlers write *)

\* The row that is written with new counters.
LEMMA CountersWritten ==
  ASSUME BucketRowsTyped, NEW n \in Names, NEW row, NEW new, new.count \in Nat, new.size \in Nat,
         Writable(n, new)
  PROVE  \E b \in Bucket :
           /\ b = Counters(n, row, new) /\ b.owner # NoUser
           /\ b.size = IF new.size # row.size THEN new.size ELSE bucket[n].size
<1>. DEFINE c == IF new.count # row.count THEN new.count ELSE bucket[n].count
            z == IF new.size # row.size THEN new.size ELSE bucket[n].size
            b == [bucket[n] EXCEPT !.count = c, !.size = z]
<1>1. bucket[n] \in Bucket /\ bucket[n].owner # NoUser
  BY DEF BucketRowsTyped, Writable, Owned
<1>2. c \in 0 .. MaxInteger /\ z \in 0 .. MaxInteger
  BY <1>1, BucketConstants DEF Writable, Bucket
<1>3. b = Counters(n, row, new)
  BY <1>1 DEF Counters, Bucket
<1>. HIDE DEF c
<1>4. b \in Bucket /\ b.owner # NoUser /\ b.size = z
  <2>. HIDE DEF z
  <2>. QED
    BY <1>1, <1>2 DEF Bucket
<1>. HIDE DEF b
<1>. QED
  BY <1>3, <1>4

LEMMA Added ==
  ASSUME NEW row \in Bucket, NEW size \in Nat
  PROVE  /\ Adds(row, size).count = row.count + 1 /\ Adds(row, size).size = row.size + size
         /\ row.count \in Nat /\ row.size \in Nat
BY BucketConstants DEF Adds, Bucket

LEMMA LessIs ==
  ASSUME NEW a \in Nat, NEW b \in Nat
  PROVE  Less(a, b) \in Nat /\ (b <= a => Less(a, b) = a - b)
BY DEF Less

LEMMA RequestTyped ==
  ASSUME AsksTyped, NEW p \in BucketProcs
  PROVE  /\ BucketAsk(breq[p]) /\ breq[p].row \in Bucket /\ breq[p].toRow \in Bucket
         /\ breq[p].size \in Nat /\ breq[p].tags \in SUBSET Settings
         /\ breq[p].op = "create" => breq[p].name \in Names /\ breq[p].user \in Users
<1>1. breq[p] \in BucketRequest /\ BucketAsk(breq[p])
  BY DEF AsksTyped
<1>2. /\ breq[p].row \in Bucket /\ breq[p].toRow \in Bucket
      /\ breq[p].size \in ObjectSizes \union {0} /\ breq[p].tags \in SUBSET Settings
  BY <1>1 DEF BucketRequest
<1>3. breq[p].op = "create" => breq[p].name \in Names /\ breq[p].user \in Users
  BY <1>1 DEF BucketAsk
<1>4. ObjectSizes \union {0} \subseteq Nat
  BY BucketConstants
<1>5. breq[p].size \in Nat
  BY <1>2, <1>4
<1>. QED
  BY <1>1, <1>2, <1>3, <1>5

\* An answer, whatever it writes.
LEMMA Answered ==
  ASSUME BucketsTypeInv, NEW p \in BucketProcs, NEW ok, NEW rows, NEW kept \in SUBSET (Names \X ObjectKeys),
         Answer(p, ok, rows, kept),
         ok /\ bucket' = rows => BucketRowsTyped'
  PROVE  /\ BucketsTypeInv' /\ breq'[p] = BucketFree /\ UNCHANGED s3
         /\ \A q \in BucketProcs : q # p => breq'[q] = breq[q]
<1>. USE DEF BucketsTypeInv
<1>1. BucketEnd(p) /\ UNCHANGED s3
  BY DEF Answer
<1>2. AsksTyped' /\ breq'[p] = BucketFree /\ \A q \in BucketProcs : q # p => breq'[q] = breq[q]
  BY <1>1, AskEnds
<1>3. StoreTyped'
  BY <1>1, StoreRests
<1>4. CASE ok
  <2>1. bucket' = rows /\ owed' = owed \union kept /\ UNCHANGED upset
    BY <1>4 DEF Answer
  <2>2. PastTyped'
    BY <2>1 DEF PastTyped
  <2>. QED
    BY <1>1, <1>2, <1>3, <1>4, <2>1, <2>2
<1>5. CASE ~ok
  <2>1. upset' = upset \union NamesOf(p) /\ UNCHANGED <<bucket, owed>>
    BY <1>5 DEF Answer
  <2>2. PastTyped'
    BY <2>1 DEF PastTyped, NamesOf
  <2>3. BucketRowsTyped'
    BY <2>1, RowsRest
  <2>. QED
    BY <1>1, <1>2, <1>3, <2>2, <2>3
<1>. QED
  BY <1>4, <1>5

\* A step of a request that goes on, with the store it leaves.
LEMMA WentOn ==
  ASSUME BucketsTypeInv, NEW p \in BucketProcs, NEW step \in {"copied", "done"},
         breq[p].op # "none", breq' = [breq EXCEPT ![p].step = step],
         StoreTyped', UNCHANGED <<bucket, historyVars>>
  PROVE  BucketsTypeInv'
<1>. USE DEF BucketsTypeInv
<1>1. AsksTyped'
  BY AskGoes
<1>2. BucketRowsTyped'
  BY RowsRest
<1>3. PastTyped'
  BY DEF PastTyped, historyVars
<1>. QED
  BY <1>1, <1>2, <1>3

-----------------------------------------------------------------------------
(* Buckets: the type invariant *)

LEMMA BegunTyped ==
  ASSUME BucketsTypeInv, NEW p \in BucketProcs, NEW r, Begun(p, r)
  PROVE  BucketsTypeInv'
<1>. USE DEF BucketsTypeInv
<1>1. AsksTyped' /\ upset' \subseteq Names
  BY AskBegins DEF Begun
<1>2. BucketRowsTyped' /\ StoreTyped'
  BY RowsRest, StoreRests DEF Begun
<1>3. PastTyped'
  BY <1>1 DEF PastTyped, Begun
<1>. QED
  BY <1>1, <1>2, <1>3

LEMMA PutTyped ==
  ASSUME BucketsTypeInv, NEW p \in BucketProcs, NEW step \in {"copied", "done"},
         breq[p].op # "none", breq' = [breq EXCEPT ![p].step = step],
         NEW n \in Names, NEW k \in ObjectKeys, NEW size \in ObjectSizes \union {0},
         s3[n].there, Put(n, k, size), UNCHANGED <<bucket, historyVars>>
  PROVE  BucketsTypeInv'
<1>1. StoreTyped'
  BY ObjectPut DEF BucketsTypeInv
<1>. QED
  BY <1>1, WentOn

LEMMA CreateStoredTyped ==
  ASSUME BucketsTypeInv, NEW p \in BucketProcs, CreateStored(p)
  PROVE  BucketsTypeInv'
<1>. DEFINE n == breq[p].name
            s == [s3[n] EXCEPT !.there = TRUE]
<1>1. breq[p].op = "create" /\ n \in Names /\ s3[n] \in Stored
  BY RequestTyped DEF CreateStored, Does, BucketsTypeInv, StoreTyped
<1>2. s3' = [s3 EXCEPT ![n] = s] /\ s \in Stored /\ s.there
  BY <1>1 DEF CreateStored, Stored, BucketsTypeInv, StoreTyped
<1>. HIDE DEF s, n
<1>3. StoreTyped'
  BY <1>1, <1>2, StoreWritten DEF BucketsTypeInv
<1>. QED
  BY <1>1, <1>3, WentOn DEF CreateStored, Done

LEMMA RemoveStoredTyped ==
  ASSUME BucketsTypeInv, NEW p \in BucketProcs, RemoveStored(p)
  PROVE  BucketsTypeInv'
<1>. DEFINE n == breq[p].name
<1>1. breq[p].op = "delete" /\ n \in Names /\ NotStored \in Stored
  BY RequestTyped, BucketNulls DEF RemoveStored, Does, BucketsTypeInv, BucketAsk
<1>2. CASE s3' = [s3 EXCEPT ![n] = NotStored] /\ Done(p)
  <2>1. StoreTyped'
    BY <1>1, <1>2, StoreWritten DEF BucketsTypeInv
  <2>. QED
    BY <1>1, <1>2, <2>1, WentOn DEF RemoveStored, Done
<1>3. CASE BucketEnd(p) /\ UNCHANGED s3
  <2>1. AsksTyped' /\ StoreTyped' /\ BucketRowsTyped' /\ PastTyped'
    BY <1>3, AskEnds, StoreRests, RowsRest DEF BucketsTypeInv, RemoveStored, PastTyped, historyVars
  <2>. QED
    BY <2>1 DEF BucketsTypeInv
<1>. QED
  BY <1>2, <1>3 DEF RemoveStored

LEMMA CommitDeleteTyped ==
  ASSUME BucketsTypeInv, NEW p \in BucketProcs, CommitDelete(p)
  PROVE  BucketsTypeInv'
<1>. DEFINE n == breq[p].name
<1>1. breq[p].op = "delete" /\ n \in Names /\ NoBucket \in Bucket
  BY RequestTyped, BucketNulls DEF CommitDelete, Does, BucketsTypeInv, BucketAsk
<1>2. /\ bucket' = [bucket EXCEPT ![n] = NoBucket] /\ BucketEnd(p) /\ UNCHANGED s3
      /\ owed' \subseteq owed /\ upset' \subseteq upset
  BY DEF CommitDelete
<1>. HIDE DEF n
<1>3. BucketRowsTyped'
  BY <1>1, <1>2, BucketWritten DEF BucketsTypeInv
<1>4. AsksTyped' /\ StoreTyped' /\ PastTyped'
  BY <1>2, AskEnds, StoreRests DEF BucketsTypeInv, PastTyped
<1>. QED
  BY <1>3, <1>4 DEF BucketsTypeInv

LEMMA CommitCreateTyped ==
  ASSUME BucketsTypeInv, NEW p \in BucketProcs, CommitCreateBucket(p)
  PROVE  BucketsTypeInv'
<1>. DEFINE r == breq[p]
            b == [bucket[r.name] EXCEPT !.owner = r.user]
            rows == [bucket EXCEPT ![r.name].owner = r.user]
<1>1. r.op = "create" /\ r.name \in Names /\ r.user \in Users /\ bucket[r.name] \in Bucket
  BY RequestTyped DEF CommitCreateBucket, Does, BucketsTypeInv, BucketRowsTyped
<1>2. b \in Bucket /\ b.owner # NoUser /\ rows = [bucket EXCEPT ![r.name] = b]
  BY <1>1, BucketNulls DEF Bucket, BucketsTypeInv, BucketRowsTyped
<1>3. Answer(p, ~Owned(r.name), rows, {})
  BY DEF CommitCreateBucket
<1>. HIDE DEF b, rows, r
<1>4. bucket' = rows => BucketRowsTyped'
  BY <1>1, <1>2, BucketWritten DEF BucketsTypeInv
<1>. QED
  BY <1>3, <1>4, Answered

LEMMA CommitSettingsTyped ==
  ASSUME BucketsTypeInv, NEW p \in BucketProcs, CommitSettings(p)
  PROVE  BucketsTypeInv'
<1>. DEFINE r == breq[p]
            b == [bucket[r.name] EXCEPT !.tags = r.tags]
            rows == [bucket EXCEPT ![r.name].tags = r.tags]
<1>1. r.op = "settings" /\ r.name \in Names /\ r.tags \in SUBSET Settings /\ bucket[r.name] \in Bucket
  BY RequestTyped DEF CommitSettings, Does, BucketsTypeInv, BucketRowsTyped, BucketAsk
<1>2. b \in Bucket /\ b.owner = bucket[r.name].owner /\ rows = [bucket EXCEPT ![r.name] = b]
  BY <1>1 DEF Bucket, BucketsTypeInv, BucketRowsTyped
<1>3. Answer(p, Owned(r.name), rows, {})
  BY DEF CommitSettings
<1>. HIDE DEF b, rows, r
<1>4. Owned(r.name) /\ bucket' = rows => BucketRowsTyped'
  BY <1>1, <1>2, BucketWritten DEF BucketsTypeInv, Owned
<1>. QED
  BY <1>3, <1>4, Answered

\* A commit of counters.
LEMMA CountedTyped ==
  ASSUME BucketsTypeInv, NEW p \in BucketProcs, NEW n \in Names, NEW row, NEW new,
         new.count \in Nat, new.size \in Nat, NEW kept \in SUBSET (Names \X ObjectKeys),
         Answer(p, Writable(n, new), [bucket EXCEPT ![n] = Counters(n, row, new)], kept)
  PROVE  BucketsTypeInv'
<1>. DEFINE rows == [bucket EXCEPT ![n] = Counters(n, row, new)]
<1>1. ASSUME Writable(n, new), bucket' = rows PROVE BucketRowsTyped'
  <2>1. PICK b \in Bucket : b = Counters(n, row, new) /\ b.owner # NoUser
    BY <1>1, CountersWritten DEF BucketsTypeInv
  <2>. QED
    BY <1>1, <2>1, BucketWritten DEF BucketsTypeInv
<1>2. Answer(p, Writable(n, new), rows, kept)
  OBVIOUS
<1>. HIDE DEF rows
<1>. QED
  BY <1>1, <1>2, Answered

LEMMA CommitUploadTyped ==
  ASSUME BucketsTypeInv, NEW p \in BucketProcs, CommitUpload(p)
  PROVE  BucketsTypeInv'
<1>. DEFINE r == breq[p]
            new == Adds(r.row, r.size)
<1>1. r.op = "upload" /\ r.name \in Names /\ r.key \in ObjectKeys /\ r.row \in Bucket /\ r.size \in Nat
  BY RequestTyped DEF CommitUpload, Does, BucketsTypeInv, BucketAsk
<1>2. new.count \in Nat /\ new.size \in Nat
  BY <1>1, Added
<1>3. Answer(p, Writable(r.name, new), [bucket EXCEPT ![r.name] = Counters(r.name, r.row, new)],
             {<<r.name, r.key>>})
  BY DEF CommitUpload
<1>4. {<<r.name, r.key>>} \in SUBSET (Names \X ObjectKeys)
  BY <1>1
<1>. HIDE DEF new, r
<1>. QED
  BY <1>1, <1>2, <1>3, <1>4, CountedTyped

LEMMA CommitRemoveTyped ==
  ASSUME BucketsTypeInv, NEW p \in BucketProcs, CommitRemove(p)
  PROVE  BucketsTypeInv'
<1>. DEFINE r == breq[p]
            new == [r.row EXCEPT !.count = Less(@, 1)]
<1>1. r.op = "remove" /\ r.name \in Names /\ r.row \in Bucket
  BY RequestTyped DEF CommitRemove, Does, BucketsTypeInv, BucketAsk
<1>2. new.count \in Nat /\ new.size \in Nat
  BY <1>1, LessIs, BucketConstants DEF Bucket
<1>3. Answer(p, Writable(r.name, new), [bucket EXCEPT ![r.name] = Counters(r.name, r.row, new)], {})
  BY DEF CommitRemove
<1>. HIDE DEF new, r
<1>. QED
  BY <1>1, <1>2, <1>3, CountedTyped

LEMMA CommitCopyTyped ==
  ASSUME BucketsTypeInv, NEW p \in BucketProcs, CommitCopy(p)
  PROVE  BucketsTypeInv'
<1>. DEFINE r == breq[p]
            new == Adds(r.toRow, r.size)
<1>1. r.op = "copy" /\ r.to \in Names /\ r.toKey \in ObjectKeys /\ r.toRow \in Bucket /\ r.size \in Nat
  BY RequestTyped DEF CommitCopy, Does, BucketsTypeInv, BucketAsk
<1>2. new.count \in Nat /\ new.size \in Nat
  BY <1>1, Added
<1>3. Answer(p, Writable(r.to, new), [bucket EXCEPT ![r.to] = Counters(r.to, r.toRow, new)],
             {<<r.to, r.toKey>>})
  BY DEF CommitCopy
<1>4. {<<r.to, r.toKey>>} \in SUBSET (Names \X ObjectKeys)
  BY <1>1
<1>. HIDE DEF new, r
<1>. QED
  BY <1>1, <1>2, <1>3, <1>4, CountedTyped

\* The rows of a move between two buckets.
MovedFrom(r) == [r.row EXCEPT !.count = Less(@, 1), !.size = Less(@, r.size)]
MovedTo(r) == Adds(r.toRow, r.size)
MovedRows(r) ==
    [bucket EXCEPT ![r.name] = Counters(r.name, r.row, MovedFrom(r)),
                   ![r.to] = Counters(r.to, r.toRow, MovedTo(r))]

LEMMA MoveCounts ==
  ASSUME NEW r, r.row \in Bucket, r.toRow \in Bucket, r.size \in Nat
  PROVE  /\ MovedFrom(r).count \in Nat /\ MovedFrom(r).size \in Nat
         /\ MovedTo(r).count \in Nat /\ MovedTo(r).size \in Nat
         /\ MovedFrom(r).size = Less(r.row.size, r.size) /\ MovedTo(r).size = r.toRow.size + r.size
         /\ r.row.size \in Nat /\ r.toRow.size \in Nat
<1>1. /\ r.row.count \in Nat /\ r.row.size \in Nat
      /\ MovedFrom(r).count = Less(r.row.count, 1) /\ MovedFrom(r).size = Less(r.row.size, r.size)
  BY BucketConstants DEF MovedFrom, Bucket
<1>2. Less(r.row.count, 1) \in Nat /\ Less(r.row.size, r.size) \in Nat
  BY <1>1, LessIs
<1>3. MovedTo(r).count = r.toRow.count + 1 /\ MovedTo(r).size = r.toRow.size + r.size
      /\ r.toRow.count \in Nat /\ r.toRow.size \in Nat
  BY Added DEF MovedTo
<1>. QED
  BY <1>1, <1>2, <1>3

\* Both rows of a move are written.
LEMMA MovedWritten ==
  ASSUME BucketsTypeInv, NEW r, r.name \in Names, r.to \in Names, r.name # r.to,
         r.row \in Bucket, r.toRow \in Bucket, r.size \in Nat,
         Writable(r.name, MovedFrom(r)), Writable(r.to, MovedTo(r)), bucket' = MovedRows(r)
  PROVE  /\ BucketRowsTyped'
         /\ bucket'[r.name].owner # NoUser /\ bucket'[r.to].owner # NoUser
         /\ bucket'[r.name].size = (IF MovedFrom(r).size # r.row.size THEN MovedFrom(r).size
                                    ELSE bucket[r.name].size)
         /\ bucket'[r.to].size = (IF MovedTo(r).size # r.toRow.size THEN MovedTo(r).size
                                  ELSE bucket[r.to].size)
         /\ \A m \in Names \ {r.name, r.to} : bucket'[m] = bucket[m]
<1>. USE DEF BucketsTypeInv
<1>1. PICK b \in Bucket :
        /\ b = Counters(r.name, r.row, MovedFrom(r)) /\ b.owner # NoUser
        /\ b.size = IF MovedFrom(r).size # r.row.size THEN MovedFrom(r).size ELSE bucket[r.name].size
  BY MoveCounts, CountersWritten
<1>2. PICK c \in Bucket :
        /\ c = Counters(r.to, r.toRow, MovedTo(r)) /\ c.owner # NoUser
        /\ c.size = IF MovedTo(r).size # r.toRow.size THEN MovedTo(r).size ELSE bucket[r.to].size
  BY MoveCounts, CountersWritten
<1>3. bucket \in [Names -> Bucket] /\ bucket' = [bucket EXCEPT ![r.name] = b, ![r.to] = c]
  BY <1>1, <1>2 DEF BucketRowsTyped, MovedRows
<1>4. /\ bucket' \in [Names -> Bucket] /\ bucket'[r.name] = b /\ bucket'[r.to] = c
      /\ \A m \in Names \ {r.name, r.to} : bucket'[m] = bucket[m]
  BY <1>3
<1>5. BucketRowsTyped'
  <2>1. \A m \in Names : bucket'[m].owner = NoUser => bucket'[m] = NoBucket
    BY <1>1, <1>2, <1>4 DEF BucketRowsTyped, Owned
  <2>. QED
    BY <1>4, <2>1 DEF BucketRowsTyped, Owned
<1>. QED
  BY <1>1, <1>2, <1>4, <1>5

LEMMA CommitMoveTyped ==
  ASSUME BucketsTypeInv, NEW p \in BucketProcs, CommitMove(p)
  PROVE  BucketsTypeInv'
<1>. DEFINE r == breq[p]
            kept == {<<r.to, r.toKey>>}
<1>1. /\ r.op = "move" /\ r.name \in Names /\ r.to \in Names /\ r.toKey \in ObjectKeys
      /\ r.row \in Bucket /\ r.toRow \in Bucket /\ r.size \in Nat
  BY RequestTyped DEF CommitMove, Does, BucketsTypeInv, BucketAsk
<1>2. kept \in SUBSET (Names \X ObjectKeys)
  BY <1>1
<1>3. CASE r.name = r.to
  <2>1. Answer(p, TRUE, bucket, kept)
    BY <1>3 DEF CommitMove
  <2>2. bucket' = bucket => BucketRowsTyped'
    BY RowsRest DEF BucketsTypeInv
  <2>. QED
    BY <1>2, <2>1, <2>2, Answered
<1>4. CASE r.name # r.to
  <2>1. Answer(p, Writable(r.name, MovedFrom(r)) /\ Writable(r.to, MovedTo(r)), MovedRows(r), kept)
    BY <1>4 DEF CommitMove, MovedFrom, MovedTo, MovedRows
  <2>. HIDE DEF r
  <2>2. (Writable(r.name, MovedFrom(r)) /\ Writable(r.to, MovedTo(r))) /\ bucket' = MovedRows(r)
        => BucketRowsTyped'
    BY <1>1, <1>4, MovedWritten
  <2>. QED
    BY <1>2, <2>1, <2>2, Answered
<1>. QED
  BY <1>3, <1>4

LEMMA PurgeTyped ==
  ASSUME BucketsTypeInv, NEW u \in Users, PurgeBuckets(u)
  PROVE  BucketsTypeInv'
<1>1. BucketRowsTyped'
  BY BucketNulls DEF BucketsTypeInv, BucketRowsTyped, PurgeBuckets, Owned
<1>2. StoreTyped' /\ AsksTyped' /\ PastTyped'
  BY DEF BucketsTypeInv, StoreTyped, AsksTyped, PastTyped, PurgeBuckets, BucketsOf
<1>. QED
  BY <1>1, <1>2 DEF BucketsTypeInv

LEMMA PresignedTyped ==
  ASSUME BucketsTypeInv, NEW n \in Names, NEW k \in ObjectKeys, Presigned(n, k)
  PROVE  BucketsTypeInv'
<1>1. StoreTyped'
  BY ObjectPut DEF BucketsTypeInv, Presigned
<1>2. BucketRowsTyped'
  BY RowsRest DEF BucketsTypeInv, Presigned
<1>3. AsksTyped' /\ PastTyped'
  BY DEF BucketsTypeInv, AsksTyped, PastTyped, Presigned
<1>. QED
  BY <1>1, <1>2, <1>3 DEF BucketsTypeInv

LEMMA AbandonTyped ==
  ASSUME BucketsTypeInv, NEW p \in BucketProcs, Abandon(p)
  PROVE  BucketsTypeInv'
<1>1. AsksTyped' /\ StoreTyped' /\ BucketRowsTyped'
  BY AskEnds, StoreRests, RowsRest DEF BucketsTypeInv, Abandon
<1>2. PastTyped'
  BY DEF BucketsTypeInv, PastTyped, Abandon, NamesOf
<1>. QED
  BY <1>1, <1>2 DEF BucketsTypeInv

\* The steps that put or take an object.
BucketPuts(p) == PutUpload(p) \/ RemoveObject(p) \/ PutCopy(p) \/ DeleteSource(p)

LEMMA PutsTyped ==
  ASSUME BucketsTypeInv, NEW p \in BucketProcs, BucketPuts(p)
  PROVE  BucketsTypeInv'
<1>. DEFINE r == breq[p]
<1>0. BucketAsk(r)
  BY RequestTyped DEF BucketsTypeInv
<1>1. CASE PutUpload(p)
  <2>1. r.name \in Names /\ r.key \in ObjectKeys /\ r.size \in ObjectSizes /\ r.op # "none"
    BY <1>0, <1>1 DEF PutUpload, Does, BucketAsk
  <2>. QED
    BY <1>1, <2>1, PutTyped DEF PutUpload, Done
<1>2. CASE RemoveObject(p)
  <2>1. r.name \in Names /\ r.key \in ObjectKeys /\ r.op # "none"
    BY <1>0, <1>2 DEF RemoveObject, Does, BucketAsk
  <2>. QED
    BY <1>2, <2>1, PutTyped DEF RemoveObject, Done
<1>3. CASE PutCopy(p)
  <2>1. r.to \in Names /\ r.toKey \in ObjectKeys /\ r.size \in ObjectSizes /\ r.op # "none"
    BY <1>0, <1>3 DEF PutCopy, BucketAsk
  <2>. QED
    BY <1>3, <2>1, PutTyped DEF PutCopy
<1>4. CASE DeleteSource(p)
  <2>1. r.name \in Names /\ r.key \in ObjectKeys /\ r.op # "none"
    BY <1>0, <1>4 DEF DeleteSource, Does, BucketAsk
  <2>. QED
    BY <1>4, <2>1, PutTyped DEF DeleteSource, Done
<1>. QED
  BY <1>1, <1>2, <1>3, <1>4 DEF BucketPuts

\* One case for each kind of step.
LEMMA BucketCases ==
  ASSUME BucketsNext
  PROVE  \/ \E p \in BucketProcs :
              \/ BucketReads(p) \/ BucketPuts(p)
              \/ CreateStored(p) \/ CommitCreateBucket(p) \/ RemoveStored(p) \/ CommitDelete(p)
              \/ CommitUpload(p) \/ CommitRemove(p) \/ CommitCopy(p) \/ CommitMove(p)
              \/ CommitSettings(p) \/ Abandon(p)
         \/ \E u \in Users : PurgeBuckets(u)
         \/ \E n \in Names, k \in ObjectKeys : Presigned(n, k)
BY DEF BucketsNext, BucketReads, BucketPuts

LEMMA BucketsTypeStep == BucketsTypeInv /\ [BucketsNext]_bucketVars => BucketsTypeInv'
<1>. SUFFICES ASSUME BucketsTypeInv, [BucketsNext]_bucketVars PROVE BucketsTypeInv'
  OBVIOUS
<1>1. CASE BucketsNext
  <2>1. ASSUME NEW p \in BucketProcs
        PROVE  /\ BucketReads(p) => BucketsTypeInv'
               /\ CreateStored(p) => BucketsTypeInv'
               /\ CommitCreateBucket(p) => BucketsTypeInv'
               /\ RemoveStored(p) => BucketsTypeInv'
               /\ CommitDelete(p) => BucketsTypeInv'
               /\ BucketPuts(p) => BucketsTypeInv'
               /\ CommitUpload(p) => BucketsTypeInv'
               /\ CommitRemove(p) => BucketsTypeInv'
               /\ CommitCopy(p) => BucketsTypeInv'
               /\ CommitMove(p) => BucketsTypeInv'
               /\ CommitSettings(p) => BucketsTypeInv'
               /\ Abandon(p) => BucketsTypeInv'
    BY BucketReadsBegin, BegunTyped, CreateStoredTyped, CommitCreateTyped, RemoveStoredTyped,
       CommitDeleteTyped, PutsTyped, CommitUploadTyped, CommitRemoveTyped, CommitCopyTyped,
       CommitMoveTyped, CommitSettingsTyped, AbandonTyped
  <2>. QED
    BY <1>1, <2>1, BucketCases, PurgeTyped, PresignedTyped
<1>2. CASE UNCHANGED bucketVars
  BY <1>2 DEF bucketVars, historyVars, BucketsTypeInv, BucketRowsTyped, StoreTyped, AsksTyped,
              PastTyped, Owned
<1>. QED
  BY <1>1, <1>2

(***************************************************************************)
(* The rows, the store and the requests of object storage keep their       *)
(* types: a bucket without a row has no counters, a bucket that is not in  *)
(* S3 no objects, and no counter leaves what its INTEGER column holds      *)
(* (routers/storage.py).                                                   *)
(***************************************************************************)
THEOREM BucketsTyped == BucketsSpec => []BucketsTypeOK
<1>1. BucketsInit => BucketsTypeInv
  BY BucketsStart
<1>2. BucketsTypeInv /\ [BucketsNext]_bucketVars => BucketsTypeInv'
  BY BucketsTypeStep
<1>3. BucketsTypeInv => BucketsTypeOK
  BY BucketsInvTyped
<1>. QED
  BY <1>1, <1>2, <1>3, PTL DEF BucketsSpec

-----------------------------------------------------------------------------
(* Buckets: what a bucket is charged with *)

Stock(s) == Total(s.object, ObjectKeys)
Uses(p, n) == n \in {breq[p].name, breq[p].to}

\* What a request has put at n and not yet charged, what it has taken from n
\* and not yet credited.
More(r, n) ==
    IF \/ r.op = "upload" /\ r.step = "done" /\ r.name = n
       \/ r.op \in {"copy", "move"} /\ r.step = "copied" /\ r.to = n
       \/ r.op = "move" /\ r.step = "done" /\ r.to = n /\ r.name # n
    THEN r.size ELSE 0
Spared(r, n) == IF r.op = "move" /\ r.step = "done" /\ r.name = n /\ r.to # n THEN r.size ELSE 0

\* Bucket n with the row b and the store s, between requests and in one.
Rested(b, s) == Stock(s) <= b.size /\ (b.owner = NoUser => s = NotStored)
WorkedNew(r, b, s) ==
    /\ b = NoBucket
    /\ r.step = "read" => s = NotStored
    /\ r.step = "done" => \A k \in ObjectKeys : s.object[k] = 0
WorkedOld(r, n, b, s) ==
    /\ b.owner # NoUser
    /\ r.name = n => r.row = b
    /\ r.to = n => r.toRow = b
    /\ Stock(s) + Spared(r, n) <= b.size + More(r, n)
    /\ r.op = "delete" /\ r.step = "done" => s = NotStored
    /\ r.op = "move" /\ r.step # "done" /\ r.name = n => s.object[r.key] = r.size
Worked(r, n, b, s) ==
    IF r.op = "create" THEN WorkedNew(r, b, s) ELSE WorkedOld(r, n, b, s)

NameInv(n) ==
    /\ \A p, q \in BucketProcs : Uses(p, n) /\ Uses(q, n) => p = q
    /\ (\A p \in BucketProcs : ~Uses(p, n)) => Rested(bucket[n], s3[n])
    /\ \A p \in BucketProcs : Uses(p, n) => Worked(breq[p], n, bucket[n], s3[n])
NamesInv == \A n \in Names \ upset : NameInv(n)

LEMMA StockNat ==
  ASSUME NEW s \in Stored
  PROVE  Stock(s) \in Nat /\ s.object \in [ObjectKeys -> Nat]
<1>1. ObjectSizes \union {0} \subseteq Nat /\ IsFiniteSet(ObjectKeys)
  BY BucketConstants
<1>2. s.object \in [ObjectKeys -> ObjectSizes \union {0}]
  BY DEF Stored
<1>3. s.object \in [ObjectKeys -> Nat]
  BY <1>1, <1>2
<1>. DEFINE f == s.object
<1>4. f \in [ObjectKeys -> Nat] /\ IsFiniteSet(ObjectKeys)
  BY <1>1, <1>3
<1>. HIDE DEF f
<1>5. Total(f, ObjectKeys) \in Nat
  <2>1. CASE ObjectKeys = {}
    BY <1>4, <2>1, TotalOfNone
  <2>2. ASSUME NEW k \in ObjectKeys PROVE Total(f, ObjectKeys) \in Nat
    <3>1. f[k] \in Nat
      BY <1>4
    <3>. QED
      BY <1>4, <3>1, TotalChanges
  <2>. QED
    BY <2>1, <2>2
<1>. QED
  BY <1>3, <1>5 DEF Stock, f

\* What the objects add up to when one is put.
LEMMA StockPut ==
  ASSUME StoreTyped, NEW n \in Names, NEW k \in ObjectKeys, NEW size \in ObjectSizes \union {0},
         s3[n].there, Put(n, k, size)
  PROVE  /\ Stock(s3[n]) \in Nat /\ Stock(s3'[n]) \in Nat /\ size \in Nat
         /\ s3[n].object[k] \in Nat /\ s3[n].object[k] <= Stock(s3[n])
         /\ Stock(s3'[n]) = Stock(s3[n]) - s3[n].object[k] + size
         /\ s3'[n].object[k] = size
         /\ \A j \in ObjectKeys : j # k => s3'[n].object[j] = s3[n].object[j]
         /\ \A m \in Names : m # n => s3'[m] = s3[m]
<1>1. StoreTyped' /\ s3'[n].object = [s3[n].object EXCEPT ![k] = size]
      /\ \A m \in Names : m # n => s3'[m] = s3[m]
  BY ObjectPut
<1>2. s3[n] \in Stored /\ s3'[n] \in Stored
  BY <1>1 DEF StoreTyped
<1>3. s3[n].object \in [ObjectKeys -> Nat] /\ Stock(s3[n]) \in Nat /\ Stock(s3'[n]) \in Nat
  BY <1>2, StockNat
<1>4. size \in Nat /\ IsFiniteSet(ObjectKeys)
  <2>1. ObjectSizes \union {0} \subseteq Nat /\ IsFiniteSet(ObjectKeys)
    BY BucketConstants
  <2>. QED
    BY <2>1
<1>0. PICK f, e : f = s3[n].object /\ e = s3'[n].object
  OBVIOUS
<1>5. e = [f EXCEPT ![k] = size] /\ f \in [ObjectKeys -> Nat]
  BY <1>0, <1>1, <1>3
<1>6. Stock(s3[n]) = Total(f, ObjectKeys) /\ Stock(s3'[n]) = Total(e, ObjectKeys)
  BY <1>0 DEF Stock
<1>7. f[k] \in Nat /\ e[k] = size /\ \A j \in ObjectKeys \ {k} : e[j] = f[j]
  BY <1>5
<1>8. f[k] <= Total(f, ObjectKeys) /\ Total(e, ObjectKeys) = Total(f, ObjectKeys) - f[k] + size
  <2>1. k \in ObjectKeys
    OBVIOUS
  <2>2. IsFiniteSet(ObjectKeys)
    BY <1>4
  <2>3. size \in Nat
    BY <1>4
  <2>4. f \in [ObjectKeys -> Nat]
    BY <1>5
  <2>5. \A v \in Nat : \A h :
          h[k] = v /\ (\A j \in ObjectKeys \ {k} : h[j] = f[j])
            => Total(h, ObjectKeys) = Total(f, ObjectKeys) - f[k] + v
    BY ONLY <2>1, <2>2, <2>4, TotalChanges
  <2>6. Total(e, ObjectKeys) = Total(f, ObjectKeys) - f[k] + size
    BY ONLY <2>5, <2>3, <1>7
  <2>7. f[k] <= Total(f, ObjectKeys)
    BY ONLY <2>1, <2>2, <2>4, <1>7, <2>3, TotalChanges
  <2>. QED
    BY ONLY <2>6, <2>7
<1>. QED
  BY <1>0, <1>1, <1>3, <1>4, <1>6, <1>7, <1>8

LEMMA StockNone == Stock(NotStored) = 0
<1>. DEFINE f == NotStored.object
<1>1. \A k \in ObjectKeys : f[k] = 0
  BY BucketNulls
<1>2. IsFiniteSet(ObjectKeys)
  BY BucketConstants
<1>. HIDE DEF f
<1>3. Total(f, ObjectKeys) = 0
  BY <1>1, <1>2, TotalOfNone
<1>. QED
  BY <1>3 DEF f, Stock

LEMMA StockZero ==
  ASSUME NEW s, \A k \in ObjectKeys : s.object[k] = 0
  PROVE  Stock(s) = 0
<1>. DEFINE f == s.object
<1>1. \A k \in ObjectKeys : f[k] = 0
  OBVIOUS
<1>2. IsFiniteSet(ObjectKeys)
  BY BucketConstants
<1>. HIDE DEF f
<1>3. Total(f, ObjectKeys) = 0
  BY <1>1, <1>2, TotalOfNone
<1>. QED
  BY <1>3 DEF f, Stock

\* A step of one request: what it must show for the name n.
LEMMA NameTurns ==
  ASSUME NEW n \in Names, NameInv(n), NEW p \in BucketProcs,
         \A q \in BucketProcs : q # p => breq'[q] = breq[q],
         Uses(p, n)' => Uses(p, n) \/ ~BucketUsed(n),
         ~Uses(p, n) /\ ~Uses(p, n)' => bucket'[n] = bucket[n] /\ s3'[n] = s3[n],
         Uses(p, n) /\ ~Uses(p, n)' => Rested(bucket'[n], s3'[n]),
         Uses(p, n)' => Worked(breq'[p], n, bucket'[n], s3'[n])
  PROVE  NameInv(n)'
<1>1. \A q \in BucketProcs : q # p => (Uses(q, n)' <=> Uses(q, n))
  BY DEF Uses
<1>2. BucketUsed(n) <=> \E q \in BucketProcs : Uses(q, n)
  BY DEF BucketUsed, Uses
<1>3. \A q, s \in BucketProcs : Uses(q, n)' /\ Uses(s, n)' => q = s
  BY <1>1, <1>2 DEF NameInv
<1>4. ASSUME \A q \in BucketProcs : ~Uses(q, n)' PROVE Rested(bucket'[n], s3'[n])
  BY <1>1, <1>4 DEF NameInv
<1>5. ASSUME NEW q \in BucketProcs, Uses(q, n)'
      PROVE  Worked(breq'[q], n, bucket'[n], s3'[n])
  <2>1. CASE q = p
    BY <1>5, <2>1
  <2>2. CASE q # p
    <3>1. Uses(q, n) /\ ~Uses(p, n)'
      BY <1>1, <1>3, <1>5, <2>2
    <3>2. ~Uses(p, n)
      BY <2>2, <3>1 DEF NameInv
    <3>. QED
      BY <2>2, <3>1, <3>2 DEF NameInv
  <2>. QED
    BY <2>1, <2>2
<1>. HIDE DEF Uses
<1>. QED
  BY <1>3, <1>4, <1>5 DEF NameInv

LEMMA NameRests ==
  ASSUME NEW n \in Names, NameInv(n), UNCHANGED breq, bucket'[n] = bucket[n], s3'[n] = s3[n]
  PROVE  NameInv(n)'
BY DEF NameInv, Uses

\* A request begins.
LEMMA NameBegins ==
  ASSUME BucketsTypeInv, NamesInv, NEW p \in BucketProcs, NEW r, Begun(p, r),
         NEW n \in Names \ upset'
  PROVE  NameInv(n)'
<1>1. /\ breq[p] = BucketFree /\ BucketBegin(p, r) /\ UNCHANGED <<bucket, s3>>
      /\ upset' = upset \union {m \in {r.name, r.to} \intersect Names : BucketUsed(m)}
  BY DEF Begun, BucketBegin
<1>2. breq'[p] = r /\ \A q \in BucketProcs : q # p => breq'[q] = breq[q]
  BY AskBegins DEF Begun, BucketsTypeInv
<1>3. NameInv(n)
  BY <1>1 DEF NamesInv
<1>4. ~Uses(p, n)
  BY <1>1, BucketNulls DEF Uses
<1>5. ASSUME n \in {r.name, r.to} PROVE ~BucketUsed(n) /\ Worked(r, n, bucket[n], s3[n])
  <2>1. ~BucketUsed(n)
    BY <1>1, <1>5
  <2>2. Rested(bucket[n], s3[n])
    BY <1>3, <2>1 DEF NameInv, BucketUsed, Uses
  <2>3. r.step = "read" /\ Spared(r, n) = 0 /\ More(r, n) = 0
    BY DEF Begun, Spared, More
  <2>4. Stock(s3[n]) \in Nat /\ bucket[n].size \in Nat
    BY StockNat, BucketConstants DEF BucketsTypeInv, StoreTyped, BucketRowsTyped, Bucket
  <2>5. CASE r.op = "create"
    <3>1. r.name = n /\ ~Owned(n)
      BY <1>5, <2>5, BucketNulls DEF Begun, BucketAsk
    <3>2. bucket[n] = NoBucket /\ bucket[n].owner = NoUser
      BY <3>1 DEF BucketsTypeInv, BucketRowsTyped, Owned
    <3>. QED
      BY <2>1, <2>2, <2>3, <2>5, <3>2 DEF Worked, WorkedNew, Rested
  <2>6. CASE r.op # "create"
    <3>1. Owned(n) /\ (r.name = n => r.row = bucket[n]) /\ (r.to = n => r.toRow = bucket[n])
      BY <1>5, <2>6 DEF Begun
    <3>2. r.op = "move" /\ r.name = n => s3[n].object[r.key] = r.size
      BY DEF Begun
    <3>. QED
      BY <2>1, <2>2, <2>3, <2>4, <2>6, <3>1, <3>2 DEF Worked, WorkedOld, Rested, Owned
  <2>. QED
    BY <2>5, <2>6
<1>6. Uses(p, n)' <=> n \in {r.name, r.to}
  BY <1>2 DEF Uses
<1>. QED
  BY <1>1, <1>2, <1>3, <1>4, <1>5, <1>6, NameTurns

\* The facts of a request at work on a name that is not upset.
LEMMA AtWork ==
  ASSUME BucketsTypeInv, NamesInv, NEW n \in Names \ upset, NEW p \in BucketProcs, Uses(p, n)
  PROVE  /\ Worked(breq[p], n, bucket[n], s3[n]) /\ NameInv(n)
         /\ Stock(s3[n]) \in Nat /\ bucket[n].size \in Nat /\ breq[p].size \in Nat
         /\ bucket[n] \in Bucket /\ s3[n] \in Stored /\ breq[p].op # "none"
<1>1. s3[n] \in Stored /\ bucket[n] \in Bucket
  BY DEF BucketsTypeInv, StoreTyped, BucketRowsTyped
<1>2. Stock(s3[n]) \in Nat /\ bucket[n].size \in Nat /\ breq[p].size \in Nat
  BY <1>1, StockNat, RequestTyped, BucketConstants DEF BucketsTypeInv, Bucket
<1>3. breq[p].op # "none"
  BY RequestTyped, BucketNulls DEF BucketsTypeInv, BucketAsk, Uses
<1>. QED
  BY <1>1, <1>2, <1>3 DEF NamesInv, NameInv

LEMMA NameCreateStored ==
  ASSUME BucketsTypeInv, NamesInv, NEW p \in BucketProcs, CreateStored(p), NEW n \in Names \ upset'
  PROVE  NameInv(n)'
<1>. DEFINE r == breq[p]
<1>0. /\ n \in Names \ upset /\ NameInv(n) /\ breq[p].op = "create" /\ breq[p].step = "read"
      /\ breq[p].name \in Names /\ breq[p].to = NoName /\ UNCHANGED bucket
      /\ breq' = [breq EXCEPT ![p].step = "done"]
  BY RequestTyped DEF BucketsTypeInv, NamesInv, CreateStored, Does, Done, historyVars, BucketAsk
<1>1. /\ breq'[p].step = "done" /\ breq'[p].op = "create" /\ breq'[p].name = r.name
      /\ breq'[p].to = r.to /\ \A q \in BucketProcs : q # p => breq'[q] = breq[q]
  BY <1>0, AskGoes DEF BucketsTypeInv
<1>2. Uses(p, n)' <=> Uses(p, n)
  BY <1>1 DEF Uses
<1>3. ASSUME ~Uses(p, n) PROVE s3'[n] = s3[n]
  BY <1>0, <1>3 DEF CreateStored, Uses, BucketsTypeInv, StoreTyped
<1>4. ASSUME Uses(p, n) PROVE Worked(breq'[p], n, bucket'[n], s3'[n])
  <2>1. n = r.name
    BY <1>0, <1>4, BucketNulls DEF Uses
  <2>2. bucket[n] = NoBucket /\ s3[n] = NotStored
    BY <1>0, <1>4, AtWork DEF Worked, WorkedNew
  <2>3. s3[n] \in Stored /\ s3'[n] = [s3[n] EXCEPT !.there = TRUE]
    BY <1>0, <2>1 DEF CreateStored, BucketsTypeInv, StoreTyped
  <2>4. s3'[n].object = s3[n].object
    BY <2>3 DEF Stored
  <2>5. \A k \in ObjectKeys : s3'[n].object[k] = 0
    BY <2>2, <2>4, BucketNulls
  <2>. QED
    BY <1>0, <1>1, <2>2, <2>5 DEF Worked, WorkedNew
<1>. QED
  BY <1>0, <1>1, <1>2, <1>3, <1>4, NameTurns

LEMMA NameRemoveStored ==
  ASSUME BucketsTypeInv, NamesInv, NEW p \in BucketProcs, RemoveStored(p), NEW n \in Names \ upset'
  PROVE  NameInv(n)'
<1>0. /\ n \in Names \ upset /\ NameInv(n) /\ breq[p].op = "delete" /\ breq[p].step = "read"
      /\ breq[p].name \in Names /\ breq[p].to = NoName /\ UNCHANGED bucket
  BY RequestTyped DEF BucketsTypeInv, NamesInv, RemoveStored, Does, historyVars, BucketAsk
<1>1. Uses(p, n) <=> n = breq[p].name
  BY <1>0, BucketNulls DEF Uses
<1>2. CASE s3' = [s3 EXCEPT ![breq[p].name] = NotStored] /\ Done(p)
  <2>1. /\ breq'[p].step = "done" /\ breq'[p].op = "delete" /\ breq'[p].name = breq[p].name
        /\ breq'[p].to = breq[p].to /\ breq'[p].row = breq[p].row
        /\ \A q \in BucketProcs : q # p => breq'[q] = breq[q]
    BY <1>0, <1>2, AskGoes DEF BucketsTypeInv, Done
  <2>2. Uses(p, n)' <=> Uses(p, n)
    BY <2>1 DEF Uses
  <2>3. ASSUME ~Uses(p, n) PROVE s3'[n] = s3[n]
    BY <1>0, <1>1, <1>2, <2>3 DEF BucketsTypeInv, StoreTyped
  <2>4. ASSUME Uses(p, n) PROVE Worked(breq'[p], n, bucket'[n], s3'[n])
    <3>1. s3'[n] = NotStored /\ Stock(s3'[n]) = 0
      BY <1>1, <1>2, <2>4, StockNone DEF BucketsTypeInv, StoreTyped
    <3>2. WorkedOld(breq[p], n, bucket[n], s3[n]) /\ bucket[n].size \in Nat
      BY <1>0, <2>4, AtWork DEF Worked
    <3>3. More(breq'[p], n) = 0 /\ Spared(breq'[p], n) = 0
      BY <2>1 DEF More, Spared
    <3>4. n # NoName /\ breq'[p].to = NoName
      BY <1>0, <2>1, BucketNulls
    <3>5. WorkedOld(breq'[p], n, bucket'[n], s3'[n])
      BY <1>0, <2>1, <3>1, <3>2, <3>3, <3>4 DEF WorkedOld
    <3>. QED
      BY <2>1, <3>5 DEF Worked
  <2>. QED
    BY <1>0, <2>1, <2>2, <2>3, <2>4, NameTurns
<1>3. CASE BucketEnd(p) /\ UNCHANGED s3
  <2>1. breq'[p] = BucketFree /\ \A q \in BucketProcs : q # p => breq'[q] = breq[q]
    BY <1>3, AskEnds DEF BucketsTypeInv
  <2>2. ~Uses(p, n)'
    BY <2>1, BucketNulls DEF Uses
  <2>3. ASSUME Uses(p, n) PROVE Rested(bucket'[n], s3'[n])
    <3>1. /\ WorkedOld(breq[p], n, bucket[n], s3[n]) /\ bucket[n].size \in Nat
          /\ Stock(s3[n]) \in Nat
      BY <1>0, <2>3, AtWork DEF Worked
    <3>2. More(breq[p], n) = 0 /\ Spared(breq[p], n) = 0
      BY <1>0 DEF More, Spared
    <3>. QED
      BY <1>0, <1>3, <3>1, <3>2 DEF WorkedOld, Rested
  <2>. QED
    BY <1>0, <1>3, <2>1, <2>2, <2>3, NameTurns
<1>. QED
  BY <1>2, <1>3 DEF RemoveStored

LEMMA NameCommitDelete ==
  ASSUME BucketsTypeInv, NamesInv, NEW p \in BucketProcs, CommitDelete(p), NEW n \in Names \ upset'
  PROVE  NameInv(n)'
<1>0. /\ breq[p].op = "delete" /\ breq[p].step = "done" /\ breq[p].name \in Names
      /\ breq[p].to = NoName /\ UNCHANGED s3 /\ BucketEnd(p)
      /\ bucket' = [bucket EXCEPT ![breq[p].name] = NoBucket]
  BY RequestTyped DEF BucketsTypeInv, CommitDelete, Does, BucketAsk
<1>1. breq'[p] = BucketFree /\ \A q \in BucketProcs : q # p => breq'[q] = breq[q]
  BY <1>0, AskEnds DEF BucketsTypeInv
<1>2. ~Uses(p, n)' /\ (Uses(p, n) <=> n = breq[p].name)
  BY <1>0, <1>1, BucketNulls DEF Uses
<1>3. /\ n # breq[p].name => bucket'[n] = bucket[n]
      /\ n = breq[p].name => bucket'[n] = NoBucket
  BY <1>0 DEF BucketsTypeInv, BucketRowsTyped
<1>4. Rested(NoBucket, NotStored)
  BY BucketNulls, StockNone DEF Rested
<1>5. CASE n \notin upset
  <2>1. NameInv(n)
    BY <1>5 DEF NamesInv
  <2>2. ASSUME Uses(p, n) PROVE Rested(bucket'[n], s3'[n])
    <3>1. s3[n] = NotStored
      BY <1>0, <1>2, <1>5, <2>2, AtWork DEF Worked, WorkedOld
    <3>. QED
      BY <1>0, <1>2, <1>3, <1>4, <2>2, <3>1
  <2>. QED
    BY <1>0, <1>1, <1>2, <1>3, <2>1, <2>2, NameTurns
<1>6. CASE n \in upset
  <2>1. n = breq[p].name /\ ~s3[n].there /\ \A q \in BucketProcs \ {p} : n \notin {breq[q].name, breq[q].to}
    BY <1>6 DEF CommitDelete
  <2>2. s3'[n] = NotStored /\ bucket'[n] = NoBucket
    BY <1>0, <1>3, <2>1 DEF BucketsTypeInv, StoreTyped
  <2>3. \A q \in BucketProcs : ~Uses(q, n)'
    BY <1>1, <1>2, <2>1 DEF Uses
  <2>. QED
    BY <1>4, <2>2, <2>3 DEF NameInv
<1>. QED
  BY <1>5, <1>6

\* An object is put at the name m by the request p, which goes on to step.
LEMMA NamePut ==
  ASSUME BucketsTypeInv, NamesInv, NEW p \in BucketProcs, NEW step \in {"copied", "done"},
         breq[p].op \notin {"none", "create", "delete"}, breq' = [breq EXCEPT ![p].step = step],
         NEW m \in Names, m \in {breq[p].name, breq[p].to},
         NEW k \in ObjectKeys, NEW size \in ObjectSizes \union {0},
         s3[m].there, Put(m, k, size), UNCHANGED <<bucket, historyVars>>,
         NEW n \in Names \ upset',
         Uses(p, n) =>
           /\ Stock(s3'[n]) + Spared(breq'[p], n) <= bucket[n].size + More(breq'[p], n)
           /\ breq[p].op = "move" /\ step # "done" /\ breq[p].name = n
                => s3'[n].object[breq[p].key] = breq[p].size
  PROVE  NameInv(n)'
<1>0. n \in Names \ upset /\ NameInv(n) /\ UNCHANGED bucket
  BY DEF historyVars, NamesInv
<1>1. /\ breq'[p].step = step /\ breq'[p].op = breq[p].op /\ breq'[p].name = breq[p].name
      /\ breq'[p].to = breq[p].to /\ breq'[p].row = breq[p].row /\ breq'[p].toRow = breq[p].toRow
      /\ breq'[p].key = breq[p].key /\ breq'[p].size = breq[p].size
      /\ \A q \in BucketProcs : q # p => breq'[q] = breq[q]
  BY AskGoes DEF BucketsTypeInv
<1>2. Uses(p, n)' <=> Uses(p, n)
  BY <1>1 DEF Uses
<1>3. ASSUME ~Uses(p, n) PROVE s3'[n] = s3[n]
  <2>1. n # m
    BY <1>3 DEF Uses
  <2>. QED
    BY <2>1, StockPut DEF BucketsTypeInv
<1>4. ASSUME Uses(p, n) PROVE Worked(breq'[p], n, bucket'[n], s3'[n])
  <2>1. WorkedOld(breq[p], n, bucket[n], s3[n])
    BY <1>0, <1>4, AtWork DEF Worked
  <2>2. WorkedOld(breq'[p], n, bucket'[n], s3'[n])
    BY <1>0, <1>1, <1>4, <2>1 DEF WorkedOld
  <2>. QED
    BY <1>1, <2>2 DEF Worked
<1>. QED
  BY <1>0, <1>1, <1>2, <1>3, <1>4, NameTurns

LEMMA NamePutUpload ==
  ASSUME BucketsTypeInv, NamesInv, NEW p \in BucketProcs, PutUpload(p), NEW n \in Names \ upset'
  PROVE  NameInv(n)'
<1>. DEFINE r == breq[p]
<1>1. /\ r.op = "upload" /\ r.step = "read" /\ r.name \in Names /\ r.to = NoName
      /\ r.key \in ObjectKeys /\ r.size \in ObjectSizes
      /\ s3[r.name].there /\ Put(r.name, r.key, r.size) /\ UNCHANGED <<bucket, historyVars>>
      /\ breq' = [breq EXCEPT ![p].step = "done"]
  BY RequestTyped DEF BucketsTypeInv, PutUpload, Does, Done, BucketAsk
<1>2. breq'[p].step = "done" /\ breq'[p].op = "upload" /\ breq'[p].name = r.name
      /\ breq'[p].to = r.to /\ breq'[p].size = r.size
  BY <1>1, AskGoes DEF BucketsTypeInv
<1>3. ASSUME Uses(p, n)
      PROVE  Stock(s3'[n]) + Spared(breq'[p], n) <= bucket[n].size + More(breq'[p], n)
  <2>1. n = r.name /\ n \in Names \ upset
    BY <1>1, <1>3, BucketNulls DEF Uses, historyVars
  <2>2. /\ Stock(s3[n]) \in Nat /\ Stock(s3'[n]) \in Nat /\ s3[n].object[r.key] \in Nat
        /\ Stock(s3'[n]) = Stock(s3[n]) - s3[n].object[r.key] + r.size
    BY <1>1, <2>1, StockPut DEF BucketsTypeInv
  <2>3. /\ Stock(s3[n]) + Spared(r, n) <= bucket[n].size + More(r, n)
        /\ bucket[n].size \in Nat /\ r.size \in Nat
    BY <1>1, <1>3, <2>1, AtWork DEF Worked, WorkedOld
  <2>4. Spared(r, n) = 0 /\ More(r, n) = 0 /\ Spared(breq'[p], n) = 0 /\ More(breq'[p], n) = r.size
    BY <1>1, <1>2, <2>1 DEF Spared, More
  <2>. QED
    BY <2>2, <2>3, <2>4
<1>. QED
  BY <1>1, <1>3, NamePut

LEMMA NameRemoveObject ==
  ASSUME BucketsTypeInv, NamesInv, NEW p \in BucketProcs, RemoveObject(p), NEW n \in Names \ upset'
  PROVE  NameInv(n)'
<1>. DEFINE r == breq[p]
<1>1. /\ r.op = "remove" /\ r.step = "read" /\ r.name \in Names /\ r.to = NoName
      /\ r.key \in ObjectKeys
      /\ s3[r.name].there /\ Put(r.name, r.key, 0) /\ UNCHANGED <<bucket, historyVars>>
      /\ breq' = [breq EXCEPT ![p].step = "done"]
  BY RequestTyped DEF BucketsTypeInv, RemoveObject, Does, Done, BucketAsk
<1>2. breq'[p].step = "done" /\ breq'[p].op = "remove"
  BY <1>1, AskGoes DEF BucketsTypeInv
<1>3. ASSUME Uses(p, n)
      PROVE  Stock(s3'[n]) + Spared(breq'[p], n) <= bucket[n].size + More(breq'[p], n)
  <2>1. n = r.name /\ n \in Names \ upset
    BY <1>1, <1>3, BucketNulls DEF Uses, historyVars
  <2>2. /\ Stock(s3[n]) \in Nat /\ Stock(s3'[n]) \in Nat /\ s3[n].object[r.key] \in Nat
        /\ Stock(s3'[n]) = Stock(s3[n]) - s3[n].object[r.key] + 0
    BY <1>1, <2>1, StockPut DEF BucketsTypeInv
  <2>3. /\ Stock(s3[n]) + Spared(r, n) <= bucket[n].size + More(r, n)
        /\ bucket[n].size \in Nat
    BY <1>1, <1>3, <2>1, AtWork DEF Worked, WorkedOld
  <2>4. Spared(r, n) = 0 /\ More(r, n) = 0 /\ Spared(breq'[p], n) = 0 /\ More(breq'[p], n) = 0
    BY <1>1, <1>2, <2>1 DEF Spared, More
  <2>. QED
    BY <2>2, <2>3, <2>4
<1>. QED
  BY <1>1, <1>3, NamePut

LEMMA NamePutCopy ==
  ASSUME BucketsTypeInv, NamesInv, NEW p \in BucketProcs, PutCopy(p), NEW n \in Names \ upset'
  PROVE  NameInv(n)'
<1>. DEFINE r == breq[p]
<1>1. /\ r.op \in {"copy", "move"} /\ r.step = "read" /\ r.name \in Names /\ r.to \in Names
      /\ r.key \in ObjectKeys /\ r.toKey \in ObjectKeys /\ r.size \in ObjectSizes
      /\ s3[r.to].there /\ Put(r.to, r.toKey, r.size) /\ UNCHANGED <<bucket, historyVars>>
      /\ breq' = [breq EXCEPT ![p].step = "copied"]
  BY RequestTyped DEF BucketsTypeInv, PutCopy, BucketAsk
<1>2. breq'[p].step = "copied" /\ breq'[p].op = r.op /\ breq'[p].name = r.name
      /\ breq'[p].to = r.to /\ breq'[p].size = r.size
  BY <1>1, AskGoes DEF BucketsTypeInv
<1>3. ASSUME Uses(p, n)
      PROVE  /\ Stock(s3'[n]) + Spared(breq'[p], n) <= bucket[n].size + More(breq'[p], n)
             /\ r.op = "move" /\ r.name = n => s3'[n].object[r.key] = r.size
  <2>1. n \in Names \ upset
    BY <1>1 DEF historyVars
  <2>2. /\ Stock(s3[r.to]) \in Nat /\ Stock(s3'[r.to]) \in Nat /\ s3[r.to].object[r.toKey] \in Nat
        /\ Stock(s3'[r.to]) = Stock(s3[r.to]) - s3[r.to].object[r.toKey] + r.size
        /\ s3'[r.to].object[r.toKey] = r.size
        /\ \A j \in ObjectKeys : j # r.toKey => s3'[r.to].object[j] = s3[r.to].object[j]
        /\ \A m \in Names : m # r.to => s3'[m] = s3[m]
    BY <1>1, StockPut DEF BucketsTypeInv
  <2>3. /\ Stock(s3[n]) + Spared(r, n) <= bucket[n].size + More(r, n)
        /\ r.op = "move" /\ r.name = n => s3[n].object[r.key] = r.size
        /\ bucket[n].size \in Nat /\ r.size \in Nat /\ Stock(s3[n]) \in Nat
    BY <1>1, <1>3, <2>1, AtWork DEF Worked, WorkedOld
  <2>4. /\ Spared(r, n) = 0 /\ More(r, n) = 0 /\ Spared(breq'[p], n) = 0
        /\ More(breq'[p], n) = IF r.to = n THEN r.size ELSE 0
    BY <1>1, <1>2 DEF Spared, More
  <2>5. CASE n = r.to
    <3>1. r.op = "move" /\ r.name = n => s3'[n].object[r.key] = r.size
      BY <1>1, <2>2, <2>3, <2>5
    <3>2. /\ Stock(s3[n]) \in Nat /\ Stock(s3'[n]) \in Nat /\ s3[n].object[r.toKey] \in Nat
          /\ Stock(s3'[n]) = Stock(s3[n]) - s3[n].object[r.toKey] + r.size
          /\ More(breq'[p], n) = r.size
      BY <2>2, <2>4, <2>5
    <3>. QED
      BY <2>3, <2>4, <3>1, <3>2
  <2>6. CASE n # r.to
    BY <2>2, <2>3, <2>4, <2>6
  <2>. QED
    BY <2>5, <2>6
<1>. QED
  BY <1>1, <1>3, NamePut

LEMMA NameDeleteSource ==
  ASSUME BucketsTypeInv, NamesInv, NEW p \in BucketProcs, DeleteSource(p), NEW n \in Names \ upset'
  PROVE  NameInv(n)'
<1>. DEFINE r == breq[p]
<1>1. /\ r.op = "move" /\ r.step = "copied" /\ r.name \in Names /\ r.to \in Names
      /\ r.key \in ObjectKeys
      /\ s3[r.name].there /\ Put(r.name, r.key, 0) /\ UNCHANGED <<bucket, historyVars>>
      /\ breq' = [breq EXCEPT ![p].step = "done"]
  BY RequestTyped DEF BucketsTypeInv, DeleteSource, Does, Done, BucketAsk
<1>2. breq'[p].step = "done" /\ breq'[p].op = r.op /\ breq'[p].name = r.name
      /\ breq'[p].to = r.to /\ breq'[p].size = r.size
  BY <1>1, AskGoes DEF BucketsTypeInv
<1>3. ASSUME Uses(p, n)
      PROVE  Stock(s3'[n]) + Spared(breq'[p], n) <= bucket[n].size + More(breq'[p], n)
  <2>1. n \in Names \ upset
    BY <1>1 DEF historyVars
  <2>2. /\ Stock(s3[r.name]) \in Nat /\ Stock(s3'[r.name]) \in Nat
        /\ Stock(s3'[r.name]) = Stock(s3[r.name]) - s3[r.name].object[r.key] + 0
        /\ \A m \in Names : m # r.name => s3'[m] = s3[m]
    BY <1>1, StockPut DEF BucketsTypeInv
  <2>3. /\ Stock(s3[n]) + Spared(r, n) <= bucket[n].size + More(r, n)
        /\ r.name = n => s3[n].object[r.key] = r.size
        /\ bucket[n].size \in Nat /\ r.size \in Nat /\ Stock(s3[n]) \in Nat
    BY <1>1, <1>3, <2>1, AtWork DEF Worked, WorkedOld
  <2>4. /\ Spared(r, n) = 0 /\ More(r, n) = IF r.to = n THEN r.size ELSE 0
        /\ Spared(breq'[p], n) = IF r.name = n /\ r.to # n THEN r.size ELSE 0
        /\ More(breq'[p], n) = IF r.name # n /\ r.to = n THEN r.size ELSE 0
    BY <1>1, <1>2 DEF Spared, More
  <2>5. CASE n = r.name
    <3>1. Stock(s3'[n]) = Stock(s3[n]) - r.size + 0 /\ Stock(s3'[n]) \in Nat
      BY <2>2, <2>3, <2>5
    <3>. QED
      BY <2>3, <2>4, <2>5, <3>1
  <2>6. CASE n # r.name
    <3>1. s3'[n] = s3[n] /\ n = r.to
      BY <1>3, <2>2, <2>6 DEF Uses
    <3>. QED
      BY <2>3, <2>4, <2>6, <3>1
  <2>. QED
    BY <2>5, <2>6
<1>. QED
  BY <1>1, <1>3, NamePut

\* An answer, as the name n sees it.
LEMMA NameAnswered ==
  ASSUME BucketsTypeInv, NamesInv, NEW p \in BucketProcs, NEW ok, NEW rows, NEW kept,
         Answer(p, ok, rows, kept), NEW n \in Names \ upset',
         ok /\ bucket' = rows /\ n \notin upset =>
           /\ ~Uses(p, n) => bucket'[n] = bucket[n]
           /\ Uses(p, n) => Rested(bucket'[n], s3[n])
  PROVE  NameInv(n)'
<1>1. BucketEnd(p) /\ UNCHANGED s3
  BY DEF Answer
<1>2. breq'[p] = BucketFree /\ \A q \in BucketProcs : q # p => breq'[q] = breq[q]
  BY <1>1, AskEnds DEF BucketsTypeInv
<1>3. ~Uses(p, n)'
  BY <1>2, BucketNulls DEF Uses
<1>4. CASE ok
  <2>1. bucket' = rows /\ n \in Names \ upset /\ NameInv(n)
    BY <1>4 DEF Answer, NamesInv
  <2>. QED
    BY <1>1, <1>2, <1>3, <1>4, <2>1, NameTurns
<1>5. CASE ~ok
  <2>1. upset' = upset \union NamesOf(p) /\ UNCHANGED bucket
    BY <1>5 DEF Answer
  <2>2. NameInv(n) /\ ~Uses(p, n)
    BY <2>1 DEF NamesInv, NamesOf, Uses
  <2>. QED
    BY <1>1, <1>2, <1>3, <2>1, <2>2, NameTurns
<1>. QED
  BY <1>4, <1>5

LEMMA NameCommitCreate ==
  ASSUME BucketsTypeInv, NamesInv, NEW p \in BucketProcs, CommitCreateBucket(p),
         NEW n \in Names \ upset'
  PROVE  NameInv(n)'
<1>. DEFINE r == breq[p]
            rows == [bucket EXCEPT ![r.name].owner = r.user]
<1>1. /\ r.op = "create" /\ r.step = "done" /\ r.name \in Names /\ r.to = NoName
      /\ r.user \in Users /\ Answer(p, ~Owned(r.name), rows, {})
  BY RequestTyped DEF BucketsTypeInv, CommitCreateBucket, Does, BucketAsk
<1>2. ASSUME bucket' = rows, ~Uses(p, n) PROVE bucket'[n] = bucket[n]
  BY <1>2 DEF Uses, BucketsTypeInv, BucketRowsTyped
<1>3. ASSUME bucket' = rows, Uses(p, n), n \notin upset PROVE Rested(bucket'[n], s3[n])
  <2>1. n = r.name
    BY <1>1, <1>3, BucketNulls DEF Uses
  <2>2. bucket[n] = NoBucket /\ Stock(s3[n]) = 0
    BY <1>1, <1>3, AtWork, StockZero DEF Worked, WorkedNew
  <2>3. bucket[n] \in Bucket /\ bucket'[n] = [bucket[n] EXCEPT !.owner = r.user]
    BY <1>3, <2>1 DEF BucketsTypeInv, BucketRowsTyped
  <2>4. bucket'[n].owner = r.user /\ bucket'[n].size = bucket[n].size
    BY <2>3 DEF Bucket
  <2>. QED
    BY <1>1, <2>2, <2>4, BucketNulls DEF Rested
<1>4. Answer(p, ~Owned(r.name), rows, {})
  BY <1>1
<1>. HIDE DEF rows
<1>. QED
  BY <1>2, <1>3, <1>4, NameAnswered

LEMMA NameCommitSettings ==
  ASSUME BucketsTypeInv, NamesInv, NEW p \in BucketProcs, CommitSettings(p),
         NEW n \in Names \ upset'
  PROVE  NameInv(n)'
<1>. DEFINE r == breq[p]
            rows == [bucket EXCEPT ![r.name].tags = r.tags]
<1>1. /\ r.op = "settings" /\ r.step = "read" /\ r.name \in Names /\ r.to = NoName
      /\ Answer(p, Owned(r.name), rows, {})
  BY RequestTyped DEF BucketsTypeInv, CommitSettings, Does, BucketAsk
<1>2. ASSUME bucket' = rows, ~Uses(p, n) PROVE bucket'[n] = bucket[n]
  BY <1>2 DEF Uses, BucketsTypeInv, BucketRowsTyped
<1>3. ASSUME bucket' = rows, Uses(p, n), n \notin upset PROVE Rested(bucket'[n], s3[n])
  <2>1. n = r.name
    BY <1>1, <1>3, BucketNulls DEF Uses
  <2>2. /\ Stock(s3[n]) + Spared(r, n) <= bucket[n].size + More(r, n) /\ bucket[n].owner # NoUser
        /\ bucket[n].size \in Nat /\ Stock(s3[n]) \in Nat
    BY <1>1, <1>3, AtWork DEF Worked, WorkedOld
  <2>3. bucket[n] \in Bucket /\ bucket'[n] = [bucket[n] EXCEPT !.tags = r.tags]
    BY <1>3, <2>1 DEF BucketsTypeInv, BucketRowsTyped
  <2>4. bucket'[n].owner = bucket[n].owner /\ bucket'[n].size = bucket[n].size
    BY <2>3 DEF Bucket
  <2>5. Spared(r, n) = 0 /\ More(r, n) = 0
    BY <1>1 DEF Spared, More
  <2>. QED
    BY <2>2, <2>4, <2>5 DEF Rested
<1>4. Answer(p, Owned(r.name), rows, {})
  BY <1>1
<1>. HIDE DEF rows
<1>. QED
  BY <1>2, <1>3, <1>4, NameAnswered

\* A commit of the counters of bucket m, computed from the row it has.
LEMMA NameCounted ==
  ASSUME BucketsTypeInv, NamesInv, NEW p \in BucketProcs, NEW m \in Names, NEW row, NEW new,
         NEW kept, new.count \in Nat, new.size \in Nat,
         Answer(p, Writable(m, new), [bucket EXCEPT ![m] = Counters(m, row, new)], kept),
         m \in {breq[p].name, breq[p].to}, NEW n \in Names \ upset',
         n = m /\ n \notin upset =>
           /\ row.size = bucket[n].size /\ Stock(s3[n]) <= new.size,
         n # m /\ n \notin upset /\ Uses(p, n) => Rested(bucket[n], s3[n])
  PROVE  NameInv(n)'
<1>. DEFINE rows == [bucket EXCEPT ![m] = Counters(m, row, new)]
<1>1. ASSUME Writable(m, new), bucket' = rows, n \notin upset
      PROVE  /\ ~Uses(p, n) => bucket'[n] = bucket[n]
             /\ Uses(p, n) => Rested(bucket'[n], s3[n])
  <2>1. PICK b \in Bucket :
          /\ b = Counters(m, row, new) /\ b.owner # NoUser
          /\ b.size = IF new.size # row.size THEN new.size ELSE bucket[m].size
    BY <1>1, CountersWritten DEF BucketsTypeInv
  <2>2. bucket'[m] = b /\ (n # m => bucket'[n] = bucket[n])
    BY <1>1, <2>1 DEF BucketsTypeInv, BucketRowsTyped
  <2>3. CASE n = m
    <3>1. b.size = new.size
      BY <1>1, <2>1, <2>3
    <3>2. Rested(bucket'[n], s3[n])
      BY <1>1, <2>1, <2>2, <2>3, <3>1 DEF Rested
    <3>. QED
      BY <2>3, <3>2 DEF Uses
  <2>4. CASE n # m
    BY <1>1, <2>2, <2>4
  <2>. QED
    BY <2>3, <2>4
<1>2. Answer(p, Writable(m, new), rows, kept)
  OBVIOUS
<1>. HIDE DEF rows
<1>. QED
  BY <1>1, <1>2, NameAnswered

LEMMA NameCommitUpload ==
  ASSUME BucketsTypeInv, NamesInv, NEW p \in BucketProcs, CommitUpload(p), NEW n \in Names \ upset'
  PROVE  NameInv(n)'
<1>. DEFINE r == breq[p]
            new == Adds(r.row, r.size)
            kept == {<<r.name, r.key>>}
<1>1. /\ r.op = "upload" /\ r.step = "done" /\ r.name \in Names /\ r.to = NoName
      /\ r.row \in Bucket /\ r.size \in Nat
      /\ Answer(p, Writable(r.name, new), [bucket EXCEPT ![r.name] = Counters(r.name, r.row, new)], kept)
  BY RequestTyped DEF BucketsTypeInv, CommitUpload, Does, BucketAsk
<1>2. new.count \in Nat /\ new.size \in Nat /\ new.size = r.row.size + r.size /\ r.row.size \in Nat
  BY <1>1, Added
<1>3. ASSUME n = r.name, n \notin upset
      PROVE  r.row.size = bucket[n].size /\ Stock(s3[n]) <= new.size
  <2>1. Uses(p, n)
    BY <1>3 DEF Uses
  <2>2. /\ Stock(s3[n]) + Spared(r, n) <= bucket[n].size + More(r, n) /\ r.row = bucket[n]
        /\ bucket[n].size \in Nat /\ Stock(s3[n]) \in Nat
    BY <1>1, <1>3, <2>1, AtWork DEF Worked, WorkedOld
  <2>3. Spared(r, n) = 0 /\ More(r, n) = r.size
    BY <1>1, <1>3 DEF Spared, More
  <2>. QED
    BY <1>1, <1>2, <2>2, <2>3
<1>4. ASSUME n # r.name PROVE ~Uses(p, n)
  BY <1>1, <1>4, BucketNulls DEF Uses
<1>. HIDE DEF new, kept
<1>. QED
  BY <1>1, <1>2, <1>3, <1>4, NameCounted

LEMMA NameCommitRemove ==
  ASSUME BucketsTypeInv, NamesInv, NEW p \in BucketProcs, CommitRemove(p), NEW n \in Names \ upset'
  PROVE  NameInv(n)'
<1>. DEFINE r == breq[p]
            new == [r.row EXCEPT !.count = Less(@, 1)]
<1>1. /\ r.op = "remove" /\ r.step = "done" /\ r.name \in Names /\ r.to = NoName
      /\ r.row \in Bucket
      /\ Answer(p, Writable(r.name, new), [bucket EXCEPT ![r.name] = Counters(r.name, r.row, new)], {})
  BY RequestTyped DEF BucketsTypeInv, CommitRemove, Does, BucketAsk
<1>2. new.count \in Nat /\ new.size \in Nat /\ new.size = r.row.size
  BY <1>1, LessIs, BucketConstants DEF Bucket
<1>3. ASSUME n = r.name, n \notin upset
      PROVE  r.row.size = bucket[n].size /\ Stock(s3[n]) <= new.size
  <2>1. Uses(p, n)
    BY <1>3 DEF Uses
  <2>2. /\ Stock(s3[n]) + Spared(r, n) <= bucket[n].size + More(r, n) /\ r.row = bucket[n]
        /\ bucket[n].size \in Nat /\ Stock(s3[n]) \in Nat
    BY <1>1, <1>3, <2>1, AtWork DEF Worked, WorkedOld
  <2>3. Spared(r, n) = 0 /\ More(r, n) = 0
    BY <1>1, <1>3 DEF Spared, More
  <2>. QED
    BY <1>1, <1>2, <2>2, <2>3
<1>4. ASSUME n # r.name PROVE ~Uses(p, n)
  BY <1>1, <1>4, BucketNulls DEF Uses
<1>. HIDE DEF new
<1>. QED
  BY <1>1, <1>2, <1>3, <1>4, NameCounted

LEMMA NameCommitCopy ==
  ASSUME BucketsTypeInv, NamesInv, NEW p \in BucketProcs, CommitCopy(p), NEW n \in Names \ upset'
  PROVE  NameInv(n)'
<1>. DEFINE r == breq[p]
            new == Adds(r.toRow, r.size)
            kept == {<<r.to, r.toKey>>}
<1>1. /\ r.op = "copy" /\ r.step = "copied" /\ r.name \in Names /\ r.to \in Names
      /\ r.toRow \in Bucket /\ r.size \in Nat
      /\ Answer(p, Writable(r.to, new), [bucket EXCEPT ![r.to] = Counters(r.to, r.toRow, new)], kept)
  BY RequestTyped DEF BucketsTypeInv, CommitCopy, Does, BucketAsk
<1>2. new.count \in Nat /\ new.size \in Nat /\ new.size = r.toRow.size + r.size /\ r.toRow.size \in Nat
  BY <1>1, Added
<1>3. ASSUME Uses(p, n), n \notin upset
      PROVE  /\ Stock(s3[n]) + Spared(r, n) <= bucket[n].size + More(r, n)
             /\ r.to = n => r.toRow = bucket[n]
             /\ bucket[n].owner # NoUser /\ bucket[n].size \in Nat /\ Stock(s3[n]) \in Nat
             /\ Spared(r, n) = 0 /\ More(r, n) = IF r.to = n THEN r.size ELSE 0
  BY <1>1, <1>3, AtWork DEF Worked, WorkedOld, Spared, More
<1>4. ASSUME n = r.to, n \notin upset
      PROVE  r.toRow.size = bucket[n].size /\ Stock(s3[n]) <= new.size
  BY <1>1, <1>2, <1>3, <1>4 DEF Uses
<1>5. ASSUME n # r.to, n \notin upset, Uses(p, n) PROVE Rested(bucket[n], s3[n])
  BY <1>3, <1>5 DEF Rested
<1>. HIDE DEF new, kept
<1>. QED
  BY <1>1, <1>2, <1>4, <1>5, NameCounted

LEMMA NameCommitMove ==
  ASSUME BucketsTypeInv, NamesInv, NEW p \in BucketProcs, CommitMove(p), NEW n \in Names \ upset'
  PROVE  NameInv(n)'
<1>. DEFINE r == breq[p]
            kept == {<<r.to, r.toKey>>}
<1>1. /\ r.op = "move" /\ r.step = "done" /\ r.name \in Names /\ r.to \in Names
      /\ r.row \in Bucket /\ r.toRow \in Bucket /\ r.size \in Nat
  BY RequestTyped DEF BucketsTypeInv, CommitMove, Does, BucketAsk
<1>2. ASSUME Uses(p, n), n \notin upset
      PROVE  /\ Stock(s3[n]) + Spared(r, n) <= bucket[n].size + More(r, n)
             /\ r.name = n => r.row = bucket[n]
             /\ r.to = n => r.toRow = bucket[n]
             /\ bucket[n].owner # NoUser /\ bucket[n].size \in Nat /\ Stock(s3[n]) \in Nat
             /\ Spared(r, n) = IF r.name = n /\ r.to # n THEN r.size ELSE 0
             /\ More(r, n) = IF r.to = n /\ r.name # n THEN r.size ELSE 0
  BY <1>1, <1>2, AtWork DEF Worked, WorkedOld, Spared, More
<1>3. CASE r.name = r.to
  <2>1. Answer(p, TRUE, bucket, kept)
    BY <1>3 DEF CommitMove
  <2>2. ASSUME Uses(p, n), n \notin upset PROVE Rested(bucket[n], s3[n])
    BY <1>2, <1>3, <2>2 DEF Rested, Uses
  <2>. HIDE DEF kept
  <2>. QED
    BY <2>1, <2>2, NameAnswered
<1>4. CASE r.name # r.to
  <2>. DEFINE ok == Writable(r.name, MovedFrom(r)) /\ Writable(r.to, MovedTo(r))
  <2>1. Answer(p, ok, MovedRows(r), kept)
    BY <1>4 DEF CommitMove, MovedFrom, MovedTo, MovedRows
  <2>2. ASSUME ok, bucket' = MovedRows(r), n \notin upset
        PROVE  /\ ~Uses(p, n) => bucket'[n] = bucket[n]
               /\ Uses(p, n) => Rested(bucket'[n], s3[n])
    <3>1. /\ bucket'[r.name].owner # NoUser /\ bucket'[r.to].owner # NoUser
          /\ bucket'[r.name].size = (IF MovedFrom(r).size # r.row.size THEN MovedFrom(r).size
                                     ELSE bucket[r.name].size)
          /\ bucket'[r.to].size = (IF MovedTo(r).size # r.toRow.size THEN MovedTo(r).size
                                   ELSE bucket[r.to].size)
          /\ \A m \in Names \ {r.name, r.to} : bucket'[m] = bucket[m]
      BY <1>1, <1>4, <2>2, MovedWritten
    <3>2. /\ MovedFrom(r).size = Less(r.row.size, r.size) /\ MovedTo(r).size = r.toRow.size + r.size
          /\ r.row.size \in Nat /\ r.toRow.size \in Nat
      BY <1>1, MoveCounts
    <3>3. ~Uses(p, n) => bucket'[n] = bucket[n]
      BY <3>1 DEF Uses
    <3>4. ASSUME n = r.name PROVE Rested(bucket'[n], s3[n])
      <4>1. /\ Stock(s3[n]) + r.size <= bucket[n].size + 0 /\ r.row = bucket[n]
            /\ bucket[n].size \in Nat /\ Stock(s3[n]) \in Nat
        BY <1>2, <1>4, <2>2, <3>4 DEF Uses
      <4>2. MovedFrom(r).size = r.row.size - r.size
        <5>1. r.size \in Nat /\ r.size <= r.row.size
          BY <1>1, <4>1
        <5>2. Less(r.row.size, r.size) = r.row.size - r.size
          BY <3>2, <5>1, LessIs
        <5>. QED
          BY <3>2, <5>2
      <4>3. bucket'[n].size = bucket[n].size - r.size
        BY <1>1, <3>1, <3>4, <4>1, <4>2
      <4>. QED
        BY <1>1, <3>1, <3>4, <4>1, <4>3 DEF Rested
    <3>5. ASSUME n = r.to PROVE Rested(bucket'[n], s3[n])
      <4>1. /\ Stock(s3[n]) + 0 <= bucket[n].size + r.size /\ r.toRow = bucket[n]
            /\ bucket[n].size \in Nat /\ Stock(s3[n]) \in Nat
        BY <1>2, <1>4, <2>2, <3>5 DEF Uses
      <4>2. bucket'[n].size = bucket[n].size + r.size
        BY <1>1, <3>1, <3>2, <3>5, <4>1
      <4>. QED
        BY <1>1, <3>1, <3>5, <4>1, <4>2 DEF Rested
    <3>. QED
      BY <3>3, <3>4, <3>5 DEF Uses
  <2>. HIDE DEF ok, kept
  <2>. QED
    BY <2>1, <2>2, NameAnswered
<1>. QED
  BY <1>3, <1>4

LEMMA NamePurge ==
  ASSUME BucketsTypeInv, NamesInv, NEW u \in Users, PurgeBuckets(u), NEW n \in Names \ upset'
  PROVE  NameInv(n)'
<1>1. n \notin BucketsOf(u) /\ n \notin upset
  BY DEF PurgeBuckets
<1>2. bucket'[n] = bucket[n] /\ UNCHANGED <<s3, breq>>
  BY <1>1 DEF PurgeBuckets
<1>. QED
  BY <1>1, <1>2, NameRests DEF NamesInv

LEMMA NamePresigned ==
  ASSUME BucketsTypeInv, NamesInv, NEW m \in Names, NEW k \in ObjectKeys, Presigned(m, k),
         NEW n \in Names \ upset'
  PROVE  NameInv(n)'
<1>1. n # m /\ n \notin upset /\ UNCHANGED <<bucket, breq>>
  BY DEF Presigned
<1>2. s3'[n] = s3[n]
  BY <1>1 DEF Presigned, Put, BucketsTypeInv, StoreTyped
<1>. QED
  BY <1>1, <1>2, NameRests DEF NamesInv

LEMMA NameAbandon ==
  ASSUME BucketsTypeInv, NamesInv, NEW p \in BucketProcs, Abandon(p), NEW n \in Names \ upset'
  PROVE  NameInv(n)'
<1>1. n \notin NamesOf(p) /\ n \notin upset /\ UNCHANGED <<bucket, s3>>
  BY DEF Abandon
<1>2. breq'[p] = BucketFree /\ \A q \in BucketProcs : q # p => breq'[q] = breq[q]
  BY AskEnds DEF BucketsTypeInv, Abandon
<1>3. ~Uses(p, n) /\ ~Uses(p, n)'
  BY <1>1, <1>2, BucketNulls DEF Uses, NamesOf
<1>. QED
  BY <1>1, <1>2, <1>3, NameTurns DEF NamesInv

LEMMA NamesStart == BucketsInit => NamesInv
<1>. SUFFICES ASSUME BucketsInit, NEW n \in Names PROVE NameInv(n)
  BY DEF NamesInv
<1>1. bucket[n] = NoBucket /\ s3[n] = NotStored /\ \A p \in BucketProcs : breq[p] = BucketFree
  BY DEF BucketsInit
<1>2. \A p \in BucketProcs : ~Uses(p, n)
  BY <1>1, BucketNulls DEF Uses
<1>3. Rested(bucket[n], s3[n])
  BY <1>1, StockNone, BucketNulls DEF Rested
<1>. QED
  BY <1>2, <1>3 DEF NameInv

LEMMA NamesStep == BucketsTypeInv /\ NamesInv /\ [BucketsNext]_bucketVars => NamesInv'
<1>. SUFFICES ASSUME BucketsTypeInv, NamesInv, [BucketsNext]_bucketVars, NEW n \in Names \ upset'
              PROVE  NameInv(n)'
  BY DEF NamesInv
<1>1. CASE BucketsNext
  <2>1. ASSUME NEW p \in BucketProcs
        PROVE  /\ BucketReads(p) => NameInv(n)'
               /\ CreateStored(p) => NameInv(n)'
               /\ CommitCreateBucket(p) => NameInv(n)'
               /\ RemoveStored(p) => NameInv(n)'
               /\ CommitDelete(p) => NameInv(n)'
               /\ BucketPuts(p) => NameInv(n)'
               /\ CommitUpload(p) => NameInv(n)'
               /\ CommitRemove(p) => NameInv(n)'
               /\ CommitCopy(p) => NameInv(n)'
               /\ CommitMove(p) => NameInv(n)'
               /\ CommitSettings(p) => NameInv(n)'
               /\ Abandon(p) => NameInv(n)'
    <3>1. BucketReads(p) => NameInv(n)'
      BY BucketReadsBegin, NameBegins
    <3>2. BucketPuts(p) => NameInv(n)'
      BY NamePutUpload, NameRemoveObject, NamePutCopy, NameDeleteSource DEF BucketPuts
    <3>3. /\ CreateStored(p) => NameInv(n)'
          /\ RemoveStored(p) => NameInv(n)'
          /\ CommitDelete(p) => NameInv(n)'
          /\ Abandon(p) => NameInv(n)'
      BY NameCreateStored, NameRemoveStored, NameCommitDelete, NameAbandon
    <3>4. /\ CommitCreateBucket(p) => NameInv(n)'
          /\ CommitUpload(p) => NameInv(n)'
          /\ CommitRemove(p) => NameInv(n)'
          /\ CommitCopy(p) => NameInv(n)'
          /\ CommitMove(p) => NameInv(n)'
          /\ CommitSettings(p) => NameInv(n)'
      BY NameCommitCreate, NameCommitUpload, NameCommitRemove, NameCommitCopy, NameCommitMove,
         NameCommitSettings
    <3>. QED
      BY <3>1, <3>2, <3>3, <3>4
  <2>2. \A u \in Users : PurgeBuckets(u) => NameInv(n)'
    BY NamePurge
  <2>3. \A m \in Names, k \in ObjectKeys : Presigned(m, k) => NameInv(n)'
    BY NamePresigned
  <2>. QED
    BY <1>1, <2>1, <2>2, <2>3, BucketCases
<1>2. CASE UNCHANGED bucketVars
  <2>1. UNCHANGED <<bucket, s3, breq, upset>>
    BY <1>2 DEF bucketVars, historyVars
  <2>2. NameInv(n)
    BY <2>1 DEF NamesInv
  <2>. QED
    BY <2>1, <2>2, NameRests
<1>. QED
  BY <1>1, <1>2

LEMMA SizeIsStock == \A n \in Names : SizeOf(n) = Stock(s3[n])
BY DEF SizeOf, Stock, Total

LEMMA NamesCharged == NamesInv => SizeCharged
<1>. SUFFICES ASSUME NamesInv, NEW n \in Names, Settled(n) PROVE bucket[n].size >= SizeOf(n)
  BY DEF SizeCharged
<1>1. NameInv(n) /\ \A p \in BucketProcs : ~Uses(p, n)
  BY DEF NamesInv, Settled, BucketUsed, Uses
<1>2. Stock(s3[n]) <= bucket[n].size
  BY <1>1 DEF NameInv, Rested
<1>. QED
  BY <1>2, SizeIsStock

(***************************************************************************)
(* A bucket is charged with at least what it holds, as long as its         *)
(* requests come one after the other and none of them fails: an upload, a  *)
(* copy or a move is charged with the whole size although it may overwrite *)
(* an object, a deletion gives nothing back, and a move takes away from    *)
(* the source no more than it has removed there (routers/storage.py).      *)
(***************************************************************************)
THEOREM BucketsCharged == BucketsSpec => []SizeCharged
<1>1. BucketsInit => BucketsTypeInv /\ NamesInv
  BY BucketsStart, NamesStart
<1>2. BucketsTypeInv /\ NamesInv /\ [BucketsNext]_bucketVars => BucketsTypeInv' /\ NamesInv'
  BY BucketsTypeStep, NamesStep
<1>3. NamesInv => SizeCharged
  BY NamesCharged
<1>. QED
  BY <1>1, <1>2, <1>3, PTL DEF BucketsSpec

-----------------------------------------------------------------------------
(* Buckets: the objects of answered requests *)

Full(n, k) == s3[n].object[k] > 0

\* The request r has put an object there; it is about to take one away.
PutDone(r, n, k) ==
    \/ r.op = "upload" /\ r.step = "done" /\ r.name = n /\ r.key = k
    \/ r.op \in {"copy", "move"} /\ r.step # "read" /\ r.to = n /\ r.toKey = k
Takes(r, n, k) ==
    \/ r.op \in {"remove", "move"} /\ r.name = n /\ r.key = k
    \/ r.op = "delete" /\ r.force /\ r.name = n

CellInv(n, k) ==
    /\ <<n, k>> \in owed => Full(n, k) /\ \A p \in BucketProcs : ~Takes(breq[p], n, k)
    /\ \A p \in BucketProcs : PutDone(breq[p], n, k) => Full(n, k)
CellsInv == \A n \in Names \ upset, k \in ObjectKeys : CellInv(n, k)

LEMMA FreeCells ==
  ASSUME NEW n \in Names, NEW k \in ObjectKeys
  PROVE  ~PutDone(BucketFree, n, k) /\ ~Takes(BucketFree, n, k)
BY FreeFields DEF PutDone, Takes

LEMMA PutDoneUses ==
  ASSUME NEW p \in BucketProcs, NEW n, NEW k, PutDone(breq[p], n, k) \/ Takes(breq[p], n, k)
  PROVE  Uses(p, n)
BY DEF PutDone, Takes, Uses

LEMMA NoOther ==
  ASSUME NamesInv, NEW n \in Names \ upset, NEW k, NEW p \in BucketProcs, Uses(p, n),
         NEW q \in BucketProcs, q # p
  PROVE  ~PutDone(breq[q], n, k) /\ ~Takes(breq[q], n, k)
BY PutDoneUses DEF NamesInv, NameInv

\* A step of one request: what it must show for the object k of n.
LEMMA CellTurns ==
  ASSUME NEW n \in Names, NEW k \in ObjectKeys, CellInv(n, k), NEW p \in BucketProcs,
         \A q \in BucketProcs : q # p => breq'[q] = breq[q],
         <<n, k>> \in owed' =>
           \/ <<n, k>> \in owed /\ ~Takes(breq'[p], n, k)
           \/ PutDone(breq[p], n, k) /\ \A q \in BucketProcs : ~Takes(breq'[q], n, k),
         PutDone(breq'[p], n, k) => Full(n, k)',
         Full(n, k) => \/ Full(n, k)'
                       \/ /\ <<n, k>> \notin owed'
                          /\ \A q \in BucketProcs \ {p} : ~PutDone(breq[q], n, k)
  PROVE  CellInv(n, k)'
<1>1. ASSUME <<n, k>> \in owed'
      PROVE  Full(n, k)' /\ \A q \in BucketProcs : ~Takes(breq'[q], n, k)
  <2>1. CASE <<n, k>> \in owed /\ ~Takes(breq'[p], n, k)
    <3>1. Full(n, k) /\ \A q \in BucketProcs : ~Takes(breq[q], n, k)
      BY <2>1 DEF CellInv
    <3>2. ASSUME NEW q \in BucketProcs PROVE ~Takes(breq'[q], n, k)
      <4>1. CASE q = p
        BY <2>1, <4>1
      <4>2. CASE q # p
        BY <3>1, <4>2
      <4>. QED
        BY <4>1, <4>2
    <3>. QED
      BY <1>1, <3>1, <3>2
  <2>2. CASE PutDone(breq[p], n, k) /\ \A q \in BucketProcs : ~Takes(breq'[q], n, k)
    BY <1>1, <2>2 DEF CellInv
  <2>. QED
    BY <1>1, <2>1, <2>2
<1>2. ASSUME NEW q \in BucketProcs, PutDone(breq'[q], n, k) PROVE Full(n, k)'
  <2>1. CASE q = p
    BY <1>2, <2>1
  <2>2. CASE q # p
    BY <1>2, <2>2 DEF CellInv
  <2>. QED
    BY <2>1, <2>2
<1>. QED
  BY <1>1, <1>2 DEF CellInv

\* Steps after which nothing new is owed, and that keep the object.
LEMMA CellEnds ==
  ASSUME NEW n \in Names, NEW k \in ObjectKeys, CellInv(n, k), NEW p \in BucketProcs,
         AsksTyped, BucketEnd(p), owed' \subseteq owed, s3'[n] = s3[n]
  PROVE  CellInv(n, k)'
<1>1. breq'[p] = BucketFree /\ \A q \in BucketProcs : q # p => breq'[q] = breq[q]
  BY AskEnds
<1>2. ~PutDone(breq'[p], n, k) /\ ~Takes(breq'[p], n, k)
  BY <1>1, FreeCells
<1>3. Full(n, k)' <=> Full(n, k)
  BY DEF Full
<1>. QED
  BY <1>1, <1>2, <1>3, CellTurns

LEMMA CellBegins ==
  ASSUME BucketsTypeInv, CellsInv, NEW p \in BucketProcs, NEW r, Begun(p, r),
         NEW n \in Names \ upset', NEW k \in ObjectKeys
  PROVE  CellInv(n, k)'
<1>1. breq'[p] = r /\ \A q \in BucketProcs : q # p => breq'[q] = breq[q]
  BY AskBegins DEF Begun, BucketsTypeInv
<1>2. CellInv(n, k)
  BY DEF CellsInv, Begun, BucketBegin
<1>3. ~PutDone(r, n, k)
  BY DEF Begun, PutDone
<1>4. ASSUME <<n, k>> \in owed' PROVE <<n, k>> \in owed /\ ~Takes(r, n, k)
  BY <1>4 DEF Begun, Takes
<1>5. Full(n, k)' <=> Full(n, k)
  BY DEF Begun, Full
<1>. QED
  BY <1>1, <1>2, <1>3, <1>4, <1>5, CellTurns

\* A request goes on: what it takes stays what it was.
LEMMA TakesStays ==
  ASSUME AsksTyped, NEW p \in BucketProcs, NEW step \in {"copied", "done"},
         breq[p].op # "none", breq' = [breq EXCEPT ![p].step = step], NEW n, NEW k
  PROVE  Takes(breq'[p], n, k) <=> Takes(breq[p], n, k)
BY AskGoes DEF Takes

LEMMA CellCreateStored ==
  ASSUME BucketsTypeInv, CellsInv, NEW p \in BucketProcs, CreateStored(p),
         NEW n \in Names \ upset', NEW k \in ObjectKeys
  PROVE  CellInv(n, k)'
<1>1. /\ breq[p].op = "create" /\ breq[p].name \in Names /\ UNCHANGED <<owed, upset>>
      /\ breq' = [breq EXCEPT ![p].step = "done"]
  BY RequestTyped DEF BucketsTypeInv, CreateStored, Does, Done, historyVars
<1>2. breq'[p].op = "create" /\ \A q \in BucketProcs : q # p => breq'[q] = breq[q]
  BY <1>1, AskGoes DEF BucketsTypeInv
<1>3. ~PutDone(breq'[p], n, k) /\ ~Takes(breq'[p], n, k)
  BY <1>2 DEF PutDone, Takes
<1>4. s3'[n].object = s3[n].object
  <2>1. s3[n] \in Stored /\ (s3'[n] = [s3[n] EXCEPT !.there = TRUE] \/ s3'[n] = s3[n])
    BY <1>1 DEF CreateStored, BucketsTypeInv, StoreTyped
  <2>. QED
    BY <2>1 DEF Stored
<1>5. CellInv(n, k) /\ (Full(n, k)' <=> Full(n, k))
  BY <1>1, <1>4 DEF CellsInv, Full
<1>. QED
  BY <1>1, <1>2, <1>3, <1>5, CellTurns

LEMMA CellRemoveStored ==
  ASSUME BucketsTypeInv, NamesInv, CellsInv, NEW p \in BucketProcs, RemoveStored(p),
         NEW n \in Names \ upset', NEW k \in ObjectKeys
  PROVE  CellInv(n, k)'
<1>1. /\ breq[p].op = "delete" /\ breq[p].name \in Names /\ UNCHANGED <<owed, upset>>
      /\ n \in Names \ upset /\ CellInv(n, k)
  BY RequestTyped DEF BucketsTypeInv, RemoveStored, Does, historyVars, BucketAsk, CellsInv
<1>2. CASE /\ s3[breq[p].name].there /\ (ObjectsIn(breq[p].name) = {} \/ breq[p].force)
           /\ s3' = [s3 EXCEPT ![breq[p].name] = NotStored] /\ Done(p)
  <2>1. breq'[p].op = "delete" /\ \A q \in BucketProcs : q # p => breq'[q] = breq[q]
    BY <1>1, <1>2, AskGoes DEF BucketsTypeInv, Done
  <2>2. ~PutDone(breq'[p], n, k) /\ (Takes(breq'[p], n, k) <=> Takes(breq[p], n, k))
    BY <1>1, <1>2, <2>1, TakesStays DEF PutDone, BucketsTypeInv, Done
  <2>3. <<n, k>> \in owed => Full(n, k) /\ ~Takes(breq[p], n, k)
    BY <1>1 DEF CellInv
  <2>4. ASSUME Full(n, k)
        PROVE  \/ Full(n, k)'
               \/ <<n, k>> \notin owed' /\ \A q \in BucketProcs \ {p} : ~PutDone(breq[q], n, k)
    <3>1. CASE n # breq[p].name
      <4>1. s3'[n] = s3[n]
        BY <1>2, <3>1 DEF BucketsTypeInv, StoreTyped
      <4>. QED
        BY <2>4, <4>1 DEF Full
    <3>2. CASE n = breq[p].name
      <4>1. k \in ObjectsIn(n)
        BY <2>4 DEF ObjectsIn, Full
      <4>2. Takes(breq[p], n, k)
        BY <1>1, <1>2, <3>2, <4>1 DEF Takes
      <4>3. \A q \in BucketProcs \ {p} : ~PutDone(breq[q], n, k)
        BY <1>1, <4>2, PutDoneUses, NoOther
      <4>. QED
        BY <1>1, <2>3, <4>2, <4>3
    <3>. QED
      BY <3>1, <3>2
  <2>. QED
    BY <1>1, <2>1, <2>2, <2>3, <2>4, CellTurns
<1>3. CASE BucketEnd(p) /\ UNCHANGED s3
  BY <1>1, <1>3, CellEnds DEF BucketsTypeInv
<1>. QED
  BY <1>2, <1>3 DEF RemoveStored

LEMMA CellCommitDelete ==
  ASSUME BucketsTypeInv, CellsInv, NEW p \in BucketProcs, CommitDelete(p),
         NEW n \in Names \ upset', NEW k \in ObjectKeys
  PROVE  CellInv(n, k)'
<1>1. BucketEnd(p) /\ UNCHANGED s3 /\ owed' \subseteq owed
  BY DEF CommitDelete
<1>2. CASE n \notin upset
  BY <1>1, <1>2, CellEnds DEF BucketsTypeInv, CellsInv
<1>3. CASE n \in upset
  <2>1. /\ n = breq[p].name /\ <<n, k>> \notin owed'
        /\ \A q \in BucketProcs \ {p} : n \notin {breq[q].name, breq[q].to}
    BY <1>3 DEF CommitDelete
  <2>2. breq'[p] = BucketFree /\ \A q \in BucketProcs : q # p => breq'[q] = breq[q]
    BY <1>1, AskEnds DEF BucketsTypeInv
  <2>3. ASSUME NEW q \in BucketProcs PROVE ~PutDone(breq'[q], n, k)
    <3>1. CASE q = p
      BY <2>2, <3>1, FreeCells
    <3>2. CASE q # p
      BY <2>1, <2>2, <3>2 DEF PutDone
    <3>. QED
      BY <3>1, <3>2
  <2>. QED
    BY <2>1, <2>3 DEF CellInv
<1>. QED
  BY <1>2, <1>3

\* An object of size is put at <<m, j>>, or taken from there if size is 0.
LEMMA CellPut ==
  ASSUME BucketsTypeInv, NamesInv, CellsInv, NEW p \in BucketProcs, NEW step \in {"copied", "done"},
         breq[p].op # "none", breq' = [breq EXCEPT ![p].step = step],
         NEW m \in Names, m \in {breq[p].name, breq[p].to},
         NEW j \in ObjectKeys, NEW size \in ObjectSizes \union {0},
         s3[m].there, Put(m, j, size), UNCHANGED <<bucket, historyVars>>,
         size = 0 => Takes(breq[p], m, j) /\ ~PutDone(breq'[p], m, j),
         NEW n \in Names \ upset', NEW k \in ObjectKeys,
         PutDone(breq'[p], n, k) => <<n, k>> = <<m, j>> \/ PutDone(breq[p], n, k)
  PROVE  CellInv(n, k)'
<1>1. n \in Names \ upset /\ CellInv(n, k) /\ UNCHANGED owed
  BY DEF historyVars, CellsInv
<1>2. /\ \A q \in BucketProcs : q # p => breq'[q] = breq[q]
      /\ Takes(breq'[p], n, k) <=> Takes(breq[p], n, k)
  BY AskGoes, TakesStays DEF BucketsTypeInv
<1>3. <<n, k>> \in owed => ~Takes(breq[p], n, k)
  BY <1>1 DEF CellInv
<1>4. /\ size \in Nat /\ s3'[m].object[j] = size
      /\ \A i \in ObjectKeys : i # j => s3'[m].object[i] = s3[m].object[i]
      /\ \A i \in Names : i # m => s3'[i] = s3[i]
  BY StockPut DEF BucketsTypeInv
<1>5. CASE <<n, k>> = <<m, j>> /\ size = 0
  <2>1. Takes(breq[p], n, k) /\ ~PutDone(breq'[p], n, k)
    BY <1>5
  <2>2. <<n, k>> \notin owed'
    BY <1>1, <1>3, <2>1
  <2>3. \A q \in BucketProcs \ {p} : ~PutDone(breq[q], n, k)
    BY <1>1, <2>1, PutDoneUses, NoOther
  <2>. QED
    BY <1>1, <1>2, <2>1, <2>2, <2>3, CellTurns
<1>6. CASE <<n, k>> = <<m, j>> /\ size # 0
  <2>1. Full(n, k)'
    BY <1>4, <1>6 DEF Full
  <2>. QED
    BY <1>1, <1>2, <1>3, <2>1, CellTurns
<1>7. CASE <<n, k>> # <<m, j>>
  <2>1. Full(n, k)' <=> Full(n, k)
    BY <1>4, <1>7 DEF Full
  <2>2. PutDone(breq'[p], n, k) => Full(n, k)
    BY <1>1, <1>7 DEF CellInv
  <2>. QED
    BY <1>1, <1>2, <1>3, <2>1, <2>2, CellTurns
<1>. QED
  BY <1>5, <1>6, <1>7

LEMMA CellPuts ==
  ASSUME ~MoveOntoItself, BucketsTypeInv, NamesInv, CellsInv, NEW p \in BucketProcs, BucketPuts(p),
         NEW n \in Names \ upset', NEW k \in ObjectKeys
  PROVE  CellInv(n, k)'
<1>. DEFINE r == breq[p]
<1>0. BucketAsk(r) /\ 0 \notin ObjectSizes
  BY RequestTyped, BucketConstants DEF BucketsTypeInv
<1>1. CASE PutUpload(p)
  <2>1. /\ r.op = "upload" /\ r.name \in Names /\ r.key \in ObjectKeys /\ r.size \in ObjectSizes
        /\ s3[r.name].there /\ Put(r.name, r.key, r.size) /\ UNCHANGED <<bucket, historyVars>>
        /\ breq' = [breq EXCEPT ![p].step = "done"]
    BY <1>0, <1>1 DEF PutUpload, Does, Done, BucketAsk
  <2>2. breq'[p].op = r.op /\ breq'[p].name = r.name /\ breq'[p].key = r.key
    BY <2>1, AskGoes DEF BucketsTypeInv
  <2>3. PutDone(breq'[p], n, k) => <<n, k>> = <<r.name, r.key>>
    BY <2>1, <2>2 DEF PutDone
  <2>4. r.size # 0 /\ r.size \in ObjectSizes \union {0} /\ r.op # "none"
    BY <1>0, <2>1
  <2>5. r.size = 0 => Takes(r, r.name, r.key) /\ ~PutDone(breq'[p], r.name, r.key)
    BY <2>4
  <2>6. PutDone(breq'[p], n, k) => <<n, k>> = <<r.name, r.key>> \/ PutDone(r, n, k)
    BY <2>3
  <2>. QED
    BY <2>1, <2>4, <2>5, <2>6, CellPut
<1>2. CASE RemoveObject(p)
  <2>1. /\ r.op = "remove" /\ r.name \in Names /\ r.key \in ObjectKeys
        /\ s3[r.name].there /\ Put(r.name, r.key, 0) /\ UNCHANGED <<bucket, historyVars>>
        /\ breq' = [breq EXCEPT ![p].step = "done"]
    BY <1>0, <1>2 DEF RemoveObject, Does, Done, BucketAsk
  <2>2. breq'[p].op = "remove"
    BY <2>1, AskGoes DEF BucketsTypeInv
  <2>3. /\ Takes(r, r.name, r.key) /\ ~PutDone(breq'[p], r.name, r.key)
        /\ ~PutDone(breq'[p], n, k)
    BY <2>1, <2>2 DEF PutDone, Takes
  <2>. QED
    BY <2>1, <2>3, CellPut
<1>3. CASE PutCopy(p)
  <2>1. /\ r.op \in {"copy", "move"} /\ r.to \in Names /\ r.toKey \in ObjectKeys
        /\ r.size \in ObjectSizes
        /\ s3[r.to].there /\ Put(r.to, r.toKey, r.size) /\ UNCHANGED <<bucket, historyVars>>
        /\ breq' = [breq EXCEPT ![p].step = "copied"]
    BY <1>0, <1>3 DEF PutCopy, BucketAsk
  <2>2. breq'[p].op = r.op /\ breq'[p].to = r.to /\ breq'[p].toKey = r.toKey
    BY <2>1, AskGoes DEF BucketsTypeInv
  <2>3. PutDone(breq'[p], n, k) => <<n, k>> = <<r.to, r.toKey>>
    BY <2>1, <2>2 DEF PutDone
  <2>4. r.size # 0 /\ r.size \in ObjectSizes \union {0} /\ r.op # "none"
    BY <1>0, <2>1
  <2>5. r.size = 0 => Takes(r, r.to, r.toKey) /\ ~PutDone(breq'[p], r.to, r.toKey)
    BY <2>4
  <2>6. PutDone(breq'[p], n, k) => <<n, k>> = <<r.to, r.toKey>> \/ PutDone(r, n, k)
    BY <2>3
  <2>. QED
    BY <2>1, <2>4, <2>5, <2>6, CellPut
<1>4. CASE DeleteSource(p)
  <2>1. /\ r.op = "move" /\ r.step = "copied" /\ r.name \in Names /\ r.key \in ObjectKeys
        /\ r.to \in Names /\ r.toKey \in ObjectKeys
        /\ s3[r.name].there /\ Put(r.name, r.key, 0) /\ UNCHANGED <<bucket, historyVars>>
        /\ breq' = [breq EXCEPT ![p].step = "done"]
        /\ <<r.name, r.key>> # <<r.to, r.toKey>>
    BY <1>0, <1>4 DEF DeleteSource, Does, Done, BucketAsk
  <2>2. breq'[p].op = "move" /\ breq'[p].to = r.to /\ breq'[p].toKey = r.toKey
    BY <2>1, AskGoes DEF BucketsTypeInv
  <2>3. Takes(r, r.name, r.key) /\ ~PutDone(breq'[p], r.name, r.key)
    BY <2>1, <2>2 DEF PutDone, Takes
  <2>4. PutDone(breq'[p], n, k) => PutDone(r, n, k)
    BY <2>1, <2>2 DEF PutDone
  <2>. QED
    BY <2>1, <2>3, <2>4, CellPut
<1>. QED
  BY <1>1, <1>2, <1>3, <1>4 DEF BucketPuts

\* An answer, as the object k of n sees it.
LEMMA CellAnswered ==
  ASSUME BucketsTypeInv, NamesInv, CellsInv, NEW p \in BucketProcs, NEW ok, NEW rows, NEW kept,
         Answer(p, ok, rows, kept), NEW n \in Names \ upset', NEW k \in ObjectKeys,
         <<n, k>> \in kept => PutDone(breq[p], n, k)
  PROVE  CellInv(n, k)'
<1>1. BucketEnd(p) /\ UNCHANGED s3
  BY DEF Answer
<1>2. CASE ok
  <2>1. owed' = owed \union kept /\ UNCHANGED upset
    BY <1>2 DEF Answer
  <2>2. n \in Names \ upset /\ CellInv(n, k) /\ (Full(n, k)' <=> Full(n, k))
    BY <1>1, <2>1 DEF CellsInv, Full
  <2>3. breq'[p] = BucketFree /\ \A q \in BucketProcs : q # p => breq'[q] = breq[q]
    BY <1>1, AskEnds DEF BucketsTypeInv
  <2>4. ~PutDone(breq'[p], n, k) /\ ~Takes(breq'[p], n, k)
    BY <2>3, FreeCells
  <2>5. ASSUME PutDone(breq[p], n, k), NEW q \in BucketProcs PROVE ~Takes(breq'[q], n, k)
    <3>1. CASE q = p
      BY <2>4, <3>1
    <3>2. CASE q # p
      BY <2>2, <2>3, <2>5, <3>2, PutDoneUses, NoOther
    <3>. QED
      BY <3>1, <3>2
  <2>. QED
    BY <2>1, <2>2, <2>3, <2>4, <2>5, CellTurns
<1>3. CASE ~ok
  <2>1. upset' = upset \union NamesOf(p) /\ UNCHANGED owed
    BY <1>3 DEF Answer
  <2>. QED
    BY <1>1, <2>1, CellEnds DEF CellsInv, BucketsTypeInv
<1>. QED
  BY <1>2, <1>3

LEMMA CellCommits ==
  ASSUME BucketsTypeInv, NamesInv, CellsInv, NEW p \in BucketProcs,
         \/ CommitCreateBucket(p) \/ CommitUpload(p) \/ CommitRemove(p)
         \/ CommitCopy(p) \/ CommitMove(p) \/ CommitSettings(p),
         NEW n \in Names \ upset', NEW k \in ObjectKeys
  PROVE  CellInv(n, k)'
<1>. DEFINE r == breq[p]
<1>1. PICK none : none = {}
  OBVIOUS
<1>2. CASE CommitCreateBucket(p) \/ CommitRemove(p) \/ CommitSettings(p)
  <2>1. <<n, k>> \in none => PutDone(r, n, k)
    BY <1>1
  <2>2. \E ok, rows : Answer(p, ok, rows, none)
    BY <1>1, <1>2 DEF CommitCreateBucket, CommitRemove, CommitSettings
  <2>. QED
    BY <2>1, <2>2, CellAnswered
<1>3. CASE CommitUpload(p)
  <2>1. <<n, k>> \in {<<r.name, r.key>>} => PutDone(r, n, k)
    BY <1>3 DEF CommitUpload, Does, PutDone
  <2>. QED
    BY <1>3, <2>1, CellAnswered DEF CommitUpload
<1>4. ASSUME r.op \in {"copy", "move"}, r.step # "read", NEW ok, NEW rows,
             Answer(p, ok, rows, {<<r.to, r.toKey>>})
      PROVE  CellInv(n, k)'
  <2>1. <<n, k>> \in {<<r.to, r.toKey>>} => PutDone(r, n, k)
    BY <1>4 DEF PutDone
  <2>. QED
    BY <1>4, <2>1, CellAnswered
<1>5. CASE CommitCopy(p)
  BY <1>4, <1>5 DEF CommitCopy, Does
<1>6. CASE CommitMove(p)
  BY <1>4, <1>6 DEF CommitMove, Does
<1>. QED
  BY <1>2, <1>3, <1>5, <1>6

LEMMA CellsOthers ==
  ASSUME BucketsTypeInv, CellsInv, NEW n \in Names \ upset', NEW k \in ObjectKeys
  PROVE  /\ \A p \in BucketProcs : Abandon(p) => CellInv(n, k)'
         /\ \A u \in Users : PurgeBuckets(u) => CellInv(n, k)'
         /\ \A m \in Names, j \in ObjectKeys : Presigned(m, j) => CellInv(n, k)'
<1>1. ASSUME NEW p \in BucketProcs, Abandon(p) PROVE CellInv(n, k)'
  BY <1>1, CellEnds DEF Abandon, CellsInv, BucketsTypeInv
<1>2. ASSUME NEW u \in Users, PurgeBuckets(u) PROVE CellInv(n, k)'
  BY <1>2 DEF PurgeBuckets, CellsInv, CellInv, Full
<1>3. ASSUME NEW m \in Names, NEW j \in ObjectKeys, Presigned(m, j) PROVE CellInv(n, k)'
  <2>1. n # m /\ CellInv(n, k) /\ UNCHANGED <<owed, breq>>
    BY <1>3 DEF Presigned, CellsInv
  <2>2. s3'[n] = s3[n]
    BY <1>3, <2>1 DEF Presigned, Put, BucketsTypeInv, StoreTyped
  <2>. QED
    BY <2>1, <2>2 DEF CellInv, Full
<1>. QED
  BY <1>1, <1>2, <1>3

LEMMA CellsStart == BucketsInit => CellsInv
<1>. SUFFICES ASSUME BucketsInit, NEW n \in Names, NEW k \in ObjectKeys PROVE CellInv(n, k)
  BY DEF CellsInv
<1>1. owed = {} /\ \A p \in BucketProcs : breq[p] = BucketFree
  BY DEF BucketsInit
<1>. QED
  BY <1>1, FreeCells DEF CellInv

LEMMA CellsStep ==
  ASSUME ~MoveOntoItself
  PROVE  BucketsTypeInv /\ NamesInv /\ CellsInv /\ [BucketsNext]_bucketVars => CellsInv'
<1>. SUFFICES ASSUME BucketsTypeInv, NamesInv, CellsInv, [BucketsNext]_bucketVars,
                     NEW n \in Names \ upset', NEW k \in ObjectKeys
              PROVE  CellInv(n, k)'
  BY DEF CellsInv
<1>1. CASE BucketsNext
  <2>1. ASSUME NEW p \in BucketProcs
        PROVE  /\ BucketReads(p) => CellInv(n, k)'
               /\ BucketPuts(p) => CellInv(n, k)'
               /\ CreateStored(p) => CellInv(n, k)'
               /\ RemoveStored(p) => CellInv(n, k)'
               /\ CommitDelete(p) => CellInv(n, k)'
               /\ \/ CommitCreateBucket(p) \/ CommitUpload(p) \/ CommitRemove(p)
                  \/ CommitCopy(p) \/ CommitMove(p) \/ CommitSettings(p)
                  => CellInv(n, k)'
    <3>1. BucketReads(p) => CellInv(n, k)'
      BY BucketReadsBegin, CellBegins
    <3>2. BucketPuts(p) => CellInv(n, k)'
      BY CellPuts
    <3>3. /\ CreateStored(p) => CellInv(n, k)'
          /\ RemoveStored(p) => CellInv(n, k)'
          /\ CommitDelete(p) => CellInv(n, k)'
      BY CellCreateStored, CellRemoveStored, CellCommitDelete
    <3>4. \/ CommitCreateBucket(p) \/ CommitUpload(p) \/ CommitRemove(p)
          \/ CommitCopy(p) \/ CommitMove(p) \/ CommitSettings(p)
          => CellInv(n, k)'
      BY CellCommits
    <3>. QED
      BY <3>1, <3>2, <3>3, <3>4
  <2>2. /\ \A p \in BucketProcs : Abandon(p) => CellInv(n, k)'
        /\ \A u \in Users : PurgeBuckets(u) => CellInv(n, k)'
        /\ \A m \in Names, j \in ObjectKeys : Presigned(m, j) => CellInv(n, k)'
    BY CellsOthers
  <2>. QED
    BY <1>1, <2>1, <2>2, BucketCases
<1>2. CASE UNCHANGED bucketVars
  BY <1>2 DEF bucketVars, historyVars, CellsInv, CellInv, Full
<1>. QED
  BY <1>1, <1>2

LEMMA CellsKept ==
  BucketsTypeInv /\ CellsInv => AnsweredKept
<1>. SUFFICES ASSUME BucketsTypeInv, CellsInv, NEW o \in owed, o[1] \notin upset
              PROVE  o[2] \in ObjectsIn(o[1])
  BY DEF AnsweredKept
<1>1. o[1] \in Names \ upset /\ o[2] \in ObjectKeys /\ o = <<o[1], o[2]>>
  BY DEF BucketsTypeInv, PastTyped
<1>2. Full(o[1], o[2])
  BY <1>1 DEF CellsInv, CellInv
<1>. QED
  BY <1>1, <1>2 DEF ObjectsIn, Full

(***************************************************************************)
(* An object whose upload, copy or move was answered stays in the store    *)
(* until a request asks to delete it, on names whose requests come one     *)
(* after the other and succeed: a bucket whose object count has been       *)
(* driven to zero is not removed without force while it holds one.  A move *)
(* of an object onto its own key, which deletes it, is left out            *)
(* (routers/storage.py, services/storage_service.py).                      *)
(***************************************************************************)
THEOREM AnsweredObjectsKept ==
  ASSUME ~MoveOntoItself
  PROVE  BucketsSpec => []AnsweredKept
<1>1. BucketsInit => BucketsTypeInv /\ NamesInv /\ CellsInv
  BY BucketsStart, NamesStart, CellsStart
<1>2. BucketsTypeInv /\ NamesInv /\ CellsInv /\ [BucketsNext]_bucketVars
        => BucketsTypeInv' /\ NamesInv' /\ CellsInv'
  BY BucketsTypeStep, NamesStep, CellsStep
<1>3. BucketsTypeInv /\ CellsInv => AnsweredKept
  BY CellsKept
<1>. QED
  BY <1>1, <1>2, <1>3, PTL DEF BucketsSpec

-----------------------------------------------------------------------------
(* The parts of MCServices *)

ServicesInv == AccountsInv /\ SharingInv /\ BucketsTypeInv /\ HaInv

\* A part moves one component and leaves the others alone.
LEMMA ServicesParts ==
  ASSUME [ServicesNext]_servicesVars
  PROVE  /\ [AccNext]_accVars /\ [SharingNext]_shareVars
         /\ [BucketsNext]_bucketVars /\ [AvailabilityNext]_haVars
<1>1. CASE AccountsParts
  BY <1>1 DEF AccountsParts
<1>2. CASE SharingParts
  BY <1>2 DEF SharingParts
<1>3. CASE BucketsParts
  BY <1>3 DEF BucketsParts
<1>4. CASE AvailabilityParts
  BY <1>4 DEF AvailabilityParts
<1>5. CASE UNCHANGED servicesVars
  BY <1>5 DEF servicesVars
<1>. QED
  BY <1>1, <1>2, <1>3, <1>4, <1>5 DEF ServicesNext

(***************************************************************************)
(* Every state of accounts, sharing, object storage and availability that  *)
(* the program can reach has its types, for any users, groups, buckets and *)
(* requests, when the requests about one group of nodes do not meet        *)
(* (core/deps.py, routers/auth.py, groups.py, storage.py, admin_ha.py).    *)
(***************************************************************************)
THEOREM ServicesTyped ==
  ASSUME HaFaults \subseteq {"crash"}
  PROVE  ServicesSpec => []ServicesTypeOK
<1>1. ServicesInit => ServicesInv
  BY TypesStart, SharingStart, BucketsStart, HaStart DEF ServicesInit, ServicesInv
<1>2. ServicesInv /\ [ServicesNext]_servicesVars => ServicesInv'
  <2>1. SUFFICES ASSUME ServicesInv, [ServicesNext]_servicesVars PROVE ServicesInv'
    OBVIOUS
  <2>2. AccountsInv' /\ SharingInv'
    BY <2>1, ServicesParts, TypesStep, SharingStep DEF ServicesInv
  <2>3. BucketsTypeInv' /\ HaInv'
    BY <2>1, ServicesParts, BucketsTypeStep, HaStep DEF ServicesInv, Served
  <2>. QED
    BY <2>2, <2>3 DEF ServicesInv
<1>3. ServicesInv => ServicesTypeOK
  BY InvTyped, BucketsInvTyped DEF ServicesInv, ServicesTypeOK, AccountsInv, HaInv
<1>. QED
  BY <1>1, <1>2, <1>3, PTL DEF ServicesSpec
===============================================================================
