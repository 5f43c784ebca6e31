------------------------------- MODULE Accounts -------------------------------
(***************************************************************************)
(* Accounts and sessions: first-time setup, registration, logins and the   *)
(* lockout counter, JWT pairs and their revocation in Redis, API keys, the *)
(* purge of a user by an admin or by the account lifecycle task (routers/  *)
(* auth.py, setup.py, admin.py, api_keys.py, core/deps.py, security.py,    *)
(* services/user_service.py, user_cleanup.py).                             *)
(*                                                                         *)
(* A login or a refresh issues a pair of tokens; a pair is one element of  *)
(* Pairs and is used again once both tokens have expired.  Tokens carry no *)
(* time of issue.  Time is nondeterministic: tokens expire, revocations    *)
(* lapse, locks pass and accounts fall idle.                               *)
(***************************************************************************)
EXTENDS Integers, Actors

CONSTANTS
    Pairs, AccProcs,
    MaxFails,   \* failed logins that lock an account (10)
    AccFaults, NoPair

(***************************************************************************)
(* overlap: a refresh and a logout work on one pair at once.               *)
(* late_login: users log in while the account lifecycle task is at work.   *)
(* redis: a write to Redis is lost (revoke_token swallows the error).      *)
(***************************************************************************)
ASSUME AccountConstants ==
    /\ MaxFails \in Nat \ {0}
    /\ NoPair \notin Pairs
    /\ AccFaults \subseteq {"overlap", "late_login", "redis"}

VARIABLES
    accounts,  \* the users table
    used,      \* history: whether each account's last password login is long ago
    guests,    \* each user's instance: its row and the guest on Proxmox
    links,     \* users with other rows that purge_user does not delete in time
    pairs,     \* the tokens and API keys that are out
    revoked,   \* Redis revoked:<jti>, and the keys that are not is_active
    cutoff,    \* users with a revoked_before:<user> in Redis
    ended,     \* history: tokens whose session the user has ended
    setup,     \* setup_state._initialized
    areq,      \* requests of the API
    sweep      \* the account lifecycle task

accountVars == <<accounts, used, guests, links>>
tokenVars == <<pairs, revoked, cutoff, ended>>
accVars == <<accountVars, tokenVars, setup, areq, sweep>>

\* seen: last_login_at, or created_at for those who never logged in by password
Account == [status : {"none", "active", "disabled"}, admin : BOOLEAN, super : BOOLEAN,
            local : BOOLEAN, fails : 0 .. MaxFails, lock : {"no", "past", "now"},
            seen : {"recent", "old"}]
NoAccount == [status |-> "none", admin |-> FALSE, super |-> FALSE, local |-> TRUE,
              fails |-> 0, lock |-> "no", seen |-> "recent"]

\* An API key takes the place of a pair.
Kinds == {"access", "refresh", "key"}
Pair == [user : Users \union {NoUser}, live : SUBSET Kinds]
NoTokens == [user |-> NoUser, live |-> {}]

AccRequest == [op : {"none", "setup", "login", "refresh", "logout", "purge"},
               user : Users \union {NoUser}, pair : Pairs \union {NoPair},
               fails : 0 .. MaxFails, lock : {"no", "past", "now"}]
AccFree == [op |-> "none", user |-> NoUser, pair |-> NoPair, fails |-> 0, lock |-> "no"]

Sweep == [list : SUBSET Users, current : Users \union {NoUser}]
Resting == [list |-> {}, current |-> NoUser]

AccountsTypeOK ==
    /\ accounts \in [Users -> Account]
    /\ used \in [Users -> {"recent", "old"}]
    /\ guests \in [Users -> {"none", "alive", "gone"}]
    /\ links \subseteq Users
    /\ \A u \in Users : accounts[u].status = "none" => guests[u] = "none" /\ u \notin links
    /\ pairs \in [Pairs -> Pair]
    /\ \A s \in Pairs : pairs[s].user = NoUser <=> pairs[s].live = {}
    /\ revoked \in [Pairs -> [Kinds -> {"no", "short", "full"}]]
    /\ cutoff \subseteq Users
    /\ ended \subseteq Pairs \X Kinds
    /\ setup \in {"unknown", "no", "yes"}
    /\ areq \in [AccProcs -> AccRequest]
    /\ sweep \in Sweep

AccInit ==
    /\ accounts = [u \in Users |-> NoAccount]
    /\ used = [u \in Users |-> "recent"]
    /\ guests = [u \in Users |-> "none"]
    /\ links = {}
    /\ pairs = [s \in Pairs |-> NoTokens]
    /\ revoked = [s \in Pairs |-> [k \in Kinds |-> "no"]]
    /\ cutoff = {}
    /\ ended = {}
    /\ setup = "no"
    /\ areq = [p \in AccProcs |-> AccFree]
    /\ sweep = Resting

-----------------------------------------------------------------------------
Has(u) == accounts[u].status # "none"
IsAdmin(u) == accounts[u].status = "active" /\ (accounts[u].admin \/ accounts[u].super)
AdminExists == \E u \in Users : Has(u) /\ accounts[u].admin

\* SetupGuardMiddleware: everything but /api/setup waits for the first setup.
Open == setup # "no"

AccBegin(p, r) == areq[p] = AccFree /\ areq' = [areq EXCEPT ![p] = r]
AccEnd(p) == areq' = [areq EXCEPT ![p] = AccFree]
Serves(p, op) == areq[p].op = op

\* get_current_user for an access token or a key, refresh_token for a refresh
\* token
Accepted(s, k) ==
    /\ k \in pairs[s].live
    /\ revoked[s][k] = "no"
    /\ k = "access" => pairs[s].user \notin cutoff
    /\ accounts[pairs[s].user].status = "active"

\* Bound of the model: a name is used again once nothing refers to the account
\* that had it.
Vacant(u) ==
    /\ ~Has(u) /\ u \notin cutoff /\ u \notin sweep.list \union {sweep.current}
    /\ \A s \in Pairs : pairs[s].user # u
    /\ \A p \in AccProcs : areq[p].user # u

Unused(s) == pairs[s] = NoTokens /\ \A p \in AccProcs : areq[p].pair # s
Issue(s, u, live) == pairs' = [pairs EXCEPT ![s] = [user |-> u, live |-> live]]
IssuePair(s, u) == Issue(s, u, {"access", "refresh"})

\* revoke_token: setex replaces what is there, and errors are swallowed.
Revoke(s, k, ttl) ==
    \/ revoked' = [revoked EXCEPT ![s][k] = ttl]
    \/ "redis" \in AccFaults /\ UNCHANGED revoked

-----------------------------------------------------------------------------
(* First-time setup, registration, administration *)

ReadForSetup(p) ==
    /\ ~AdminExists
    /\ AccBegin(p, [AccFree EXCEPT !.op = "setup"])
    /\ UNCHANGED <<accountVars, tokenVars, setup, sweep>>

\* Emails and usernames are unique: a name that is taken ends the request.
CommitSetup(p, u) ==
    /\ Serves(p, "setup")
    /\ \/ /\ Vacant(u)
          /\ accounts' = [accounts EXCEPT ![u] = [NoAccount EXCEPT !.status = "active",
                                                      !.admin = TRUE, !.super = TRUE]]
          /\ used' = [used EXCEPT ![u] = "recent"]
          /\ setup' = "yes"
       \/ /\ Has(u)
          /\ UNCHANGED <<accounts, used, setup>>
    /\ AccEnd(p)
    /\ UNCHANGED <<guests, links, tokenVars, sweep>>

\* The default rows of a new user follow in commits of their own; they go
\* with the account.
Register(u) ==
    /\ Open /\ Vacant(u)
    /\ accounts' = [accounts EXCEPT ![u] = [NoAccount EXCEPT !.status = "active"]]
    /\ used' = [used EXCEPT ![u] = "recent"]
    /\ UNCHANGED <<guests, links, tokenVars, setup, areq, sweep>>

\* The first callback of a subject creates the account.  last_login_at and the
\* lock are those of password logins; no test of is_active.
OAuthCallback(u, s) ==
    /\ Open /\ Unused(s)
    /\ \/ /\ Vacant(u)
          /\ accounts' = [accounts EXCEPT ![u] = [NoAccount EXCEPT !.status = "active",
                                                                  !.local = FALSE]]
          /\ used' = [used EXCEPT ![u] = "recent"]
       \/ /\ Has(u) /\ ~accounts[u].local
          /\ UNCHANGED <<accounts, used>>
    /\ IssuePair(s, u)
    /\ UNCHANGED <<guests, links, revoked, cutoff, ended, setup, areq, sweep>>

Administer(u) ==
    /\ Open /\ Has(u)
    /\ \E a \in Users : IsAdmin(a)
    /\ \/ \E admin \in BOOLEAN : accounts' = [accounts EXCEPT ![u].admin = admin]
       \/ \E status \in {"active", "disabled"} :
            accounts' = [accounts EXCEPT ![u].status = status]
    /\ UNCHANGED <<used, guests, links, tokenVars, setup, areq, sweep>>

\* The API starts again.  When the database does not answer, every request
\* passes, and the default admin may be seeded a moment later.
Boot ==
    /\ areq' = [p \in AccProcs |-> AccFree]
    /\ \/ setup' = IF AdminExists THEN "yes" ELSE "no"
       \/ setup' = "unknown"
    /\ \/ UNCHANGED <<accounts, used>>
       \/ /\ setup' = "unknown" /\ ~AdminExists
          /\ \E u \in Users :
               /\ Vacant(u)
               /\ accounts' = [accounts EXCEPT ![u] = [NoAccount EXCEPT !.status = "active",
                                                           !.admin = TRUE, !.super = TRUE]]
               /\ used' = [used EXCEPT ![u] = "recent"]
    /\ UNCHANGED <<guests, links, tokenVars, sweep>>

-----------------------------------------------------------------------------
(* Logins *)

ReadForLogin(p, u) ==
    /\ Open /\ Has(u) /\ accounts[u].local
    /\ accounts[u].lock # "now"
    /\ "late_login" \in AccFaults \/ sweep = Resting
    /\ AccBegin(p, [AccFree EXCEPT !.op = "login", !.user = u, !.fails = accounts[u].fails,
                                   !.lock = accounts[u].lock])
    /\ UNCHANGED <<accountVars, tokenVars, setup, sweep>>

\* The row is written column by column, where the copy was changed: a lock
\* that the copy does not have stays.
CommitLogin(p, s) ==
    LET r == areq[p] IN
    /\ Serves(p, "login") /\ Unused(s)
    /\ \/ /\ Has(r.user)
          /\ accounts' = [accounts EXCEPT ![r.user].seen = "recent",
                             ![r.user].fails = IF r.fails > 0 THEN 0 ELSE @,
                             ![r.user].lock = IF r.fails > 0 /\ r.lock # "no" THEN "no" ELSE @]
          /\ used' = [used EXCEPT ![r.user] = "recent"]
          /\ IssuePair(s, r.user)
       \/ ~Has(r.user) /\ UNCHANGED <<accounts, used, pairs>>
    /\ AccEnd(p)
    /\ UNCHANGED <<guests, links, revoked, cutoff, ended, setup, sweep>>

RejectLogin(p) ==
    LET r == areq[p] IN
    LET fails == IF r.fails < MaxFails THEN r.fails + 1 ELSE MaxFails IN
    /\ Serves(p, "login")
    /\ accounts' = IF ~Has(r.user) THEN accounts
                   ELSE [accounts EXCEPT ![r.user].fails = fails,
                                         ![r.user].lock = IF fails = MaxFails THEN "now" ELSE @]
    /\ AccEnd(p)
    /\ UNCHANGED <<used, guests, links, tokenVars, setup, sweep>>

-----------------------------------------------------------------------------
(* Sessions *)

Alone(s) == "overlap" \in AccFaults \/ \A p \in AccProcs : areq[p].pair # s

ReadForRefresh(p, s) ==
    /\ Open /\ Alone(s) /\ Accepted(s, "refresh")
    /\ AccBegin(p, [AccFree EXCEPT !.op = "refresh", !.user = pairs[s].user, !.pair = s])
    /\ UNCHANGED <<accountVars, tokenVars, setup, sweep>>

\* The old refresh token is revoked for 60 seconds.
CommitRefresh(p, s) ==
    LET r == areq[p] IN
    /\ Serves(p, "refresh") /\ Unused(s)
    /\ Revoke(r.pair, "refresh", "short")
    /\ IssuePair(s, r.user)
    /\ AccEnd(p)
    /\ UNCHANGED <<accountVars, cutoff, ended, setup, sweep>>

\* Mutant: the refresh token stays.
FinishLogoutAccessOnly(p) ==
    /\ Serves(p, "logout")
    /\ ended' = ended \union {<<areq[p].pair, "refresh">>}
    /\ AccEnd(p)
    /\ UNCHANGED <<accountVars, pairs, revoked, cutoff, setup, sweep>>

\* The access token from the header, then the refresh token from the cookie,
\* as long as each lives
StartLogout(p, s) ==
    /\ Open /\ Alone(s) /\ Accepted(s, "access")
    /\ Revoke(s, "access", "full")
    /\ ended' = ended \union {<<s, "access">>}
    /\ AccBegin(p, [AccFree EXCEPT !.op = "logout", !.user = pairs[s].user, !.pair = s])
    /\ UNCHANGED <<accountVars, pairs, cutoff, setup, sweep>>

FinishLogout(p) ==
    LET s == areq[p].pair IN
    /\ Serves(p, "logout")
    /\ IF "refresh" \in pairs[s].live
       THEN Revoke(s, "refresh", "full") /\ ended' = ended \union {<<s, "refresh">>}
       ELSE UNCHANGED <<revoked, ended>>
    /\ AccEnd(p)
    /\ UNCHANGED <<accountVars, pairs, cutoff, setup, sweep>>

\* The access tokens only: /refresh does not look at revoked_before.
RevokeAll(s) ==
    LET u == pairs[s].user IN
    /\ Open /\ Accepted(s, "access")
    /\ \/ cutoff' = cutoff \union {u}
       \/ "redis" \in AccFaults /\ UNCHANGED cutoff
    /\ ended' = ended \union {<<t, "access">> : t \in {q \in Pairs : pairs[q].user = u
                                                          /\ "access" \in pairs[q].live}}
    /\ UNCHANGED <<accountVars, pairs, revoked, setup, areq, sweep>>

\* A token for an hour, without refresh token
Impersonate(u, s) ==
    /\ Open /\ Has(u) /\ Unused(s)
    /\ \E a \in Users : IsAdmin(a)
    /\ Issue(s, u, {"access"})
    /\ UNCHANGED <<accountVars, revoked, cutoff, ended, setup, areq, sweep>>

\* A token expires; a revocation for its remaining lifetime goes with it.
Expire(s, k) ==
    LET left == pairs[s].live \ {k} IN
    /\ k \in pairs[s].live /\ k # "key"
    /\ pairs' = [pairs EXCEPT ![s] = IF left = {} THEN NoTokens ELSE [@ EXCEPT !.live = left]]
    /\ revoked' = [revoked EXCEPT ![s][k] = "no"]
    /\ ended' = ended \ {<<s, k>>}
    /\ UNCHANGED <<accountVars, cutoff, setup, areq, sweep>>

Lapse(s) ==
    /\ revoked[s]["refresh"] = "short"
    /\ revoked' = [revoked EXCEPT ![s]["refresh"] = "no"]
    /\ UNCHANGED <<accountVars, pairs, cutoff, ended, setup, areq, sweep>>

CreateKey(u, s) ==
    /\ Open /\ Unused(s) /\ accounts[u].status = "active"
    /\ Issue(s, u, {"key"})
    /\ UNCHANGED <<accountVars, revoked, cutoff, ended, setup, areq, sweep>>

\* revoke_key of the owner: the row stays, inactive.
RevokeKey(s) ==
    /\ Open /\ "key" \in pairs[s].live /\ accounts[pairs[s].user].status = "active"
    /\ revoked' = [revoked EXCEPT ![s]["key"] = "full"]
    /\ ended' = ended \union {<<s, "key">>}
    /\ UNCHANGED <<accountVars, pairs, cutoff, setup, areq, sweep>>

-----------------------------------------------------------------------------
(* What users own, and the passing of time *)

SetInstance(u, state) ==
    /\ Open /\ accounts[u].status = "active"
    /\ state = "alive" => guests[u] = "none"
    /\ state = "none" => guests[u] # "none"
    /\ guests' = [guests EXCEPT ![u] = state]
    /\ UNCHANGED <<accounts, used, links, tokenVars, setup, areq, sweep>>

\* What purge_user does not delete before the rows it refers to: the security
\* group of a published VPC, a DNS record of a VPC, a health check or template
\* request of an instance, a group's API key the user made.
SetLink(u) ==
    /\ Open /\ accounts[u].status = "active"
    /\ \/ links' = links \union {u}
       \/ links' = links \ {u}
    /\ UNCHANGED <<accounts, used, guests, tokenVars, setup, areq, sweep>>

\* account_inactive_days without a login
FallIdle(u) ==
    /\ Has(u)
    /\ accounts' = [accounts EXCEPT ![u].seen = "old",
                                    ![u].lock = IF @ = "now" THEN "past" ELSE @]
    /\ used' = [used EXCEPT ![u] = "old"]
    /\ UNCHANGED <<guests, links, tokenVars, setup, areq, sweep>>

LockPasses(u) ==
    /\ accounts[u].lock = "now"
    /\ accounts' = [accounts EXCEPT ![u].lock = "past"]
    /\ UNCHANGED <<used, guests, links, tokenVars, setup, areq, sweep>>

-----------------------------------------------------------------------------
(* purge_user *)

\* The guests are destroyed first; an error of Proxmox is logged only.
DestroyGuests(u) ==
    \/ guests' = [guests EXCEPT ![u] = IF @ = "alive" THEN "gone" ELSE @]
    \/ guests[u] = "alive" /\ UNCHANGED guests

\* The pool row of an instance and the other links refer to rows that are
\* deleted before them: the foreign key refuses, all deletions roll back.
Refused(u) == guests[u] # "none" \/ u \in links

Deleted(u) ==
    /\ accounts' = [accounts EXCEPT ![u] = NoAccount]
    /\ used' = [used EXCEPT ![u] = "recent"]
    /\ LET gone == {s \in Pairs : pairs[s].user = u /\ "key" \in pairs[s].live} IN
       /\ pairs' = [s \in Pairs |-> IF s \in gone THEN NoTokens ELSE pairs[s]]
       /\ revoked' = [s \in Pairs |-> IF s \in gone THEN [revoked[s] EXCEPT !["key"] = "no"]
                                      ELSE revoked[s]]
       /\ ended' = {e \in ended : e[1] \notin gone}
    /\ UNCHANGED cutoff

StartPurge(p, u) ==
    /\ Open /\ Has(u)
    /\ \E a \in Users \ {u} : IsAdmin(a)
    /\ DestroyGuests(u)
    /\ AccBegin(p, [AccFree EXCEPT !.op = "purge", !.user = u])
    /\ UNCHANGED <<accounts, used, links, tokenVars, setup, sweep>>

CommitPurge(p) ==
    LET u == areq[p].user IN
    /\ Serves(p, "purge")
    /\ \/ ~Refused(u) /\ Deleted(u)
       \/ Refused(u) /\ UNCHANGED <<accounts, used, tokenVars>>
    /\ AccEnd(p)
    /\ UNCHANGED <<guests, links, setup, sweep>>

\* Mutant: the age of the account counts, not its last login.
StartSweepByAge ==
    /\ sweep = Resting
    /\ \E list \in SUBSET {u \in Users : accounts[u].status = "active" /\ ~accounts[u].super} :
         sweep' = [Resting EXCEPT !.list = list]
    /\ UNCHANGED <<accountVars, tokenVars, setup, areq>>

\* _enforce_account_lifecycle: one SELECT, then one purge after the other.
\* Tiers may exempt a user.
StartSweep ==
    /\ sweep = Resting
    /\ \A p \in AccProcs : "late_login" \in AccFaults \/ areq[p].op # "login"
    /\ \E list \in SUBSET {u \in Users : /\ accounts[u].status = "active" /\ ~accounts[u].super
                                         /\ accounts[u].seen = "old"} :
         sweep' = [Resting EXCEPT !.list = list]
    /\ UNCHANGED <<accountVars, tokenVars, setup, areq>>

SweepOne(u) ==
    /\ sweep.current = NoUser /\ u \in sweep.list
    /\ DestroyGuests(u)
    /\ sweep' = [list |-> sweep.list \ {u}, current |-> u]
    /\ UNCHANGED <<accounts, used, links, tokenVars, setup, areq>>

\* After a refused deletion the transaction is in error: every statement of
\* the purges that follow fails, before they touch a guest.
SweepCommit ==
    LET u == sweep.current IN
    /\ u # NoUser
    /\ \/ ~Refused(u) /\ Deleted(u) /\ sweep' = [sweep EXCEPT !.current = NoUser]
       \/ Refused(u) /\ sweep' = Resting /\ UNCHANGED <<accounts, used, tokenVars>>
    /\ UNCHANGED <<guests, links, setup, areq>>

-----------------------------------------------------------------------------
AccountNext ==
    \/ Boot \/ StartSweep \/ SweepCommit
    \/ \E p \in AccProcs : ReadForSetup(p) \/ RejectLogin(p) \/ CommitPurge(p)
                            \/ FinishLogout(p)
    \/ \E u \in Users :
         \/ Register(u) \/ Administer(u) \/ FallIdle(u) \/ LockPasses(u) \/ SweepOne(u) \/ SetLink(u)
         \/ \E state \in {"alive", "none"} : SetInstance(u, state)
         \/ \E p \in AccProcs : CommitSetup(p, u) \/ ReadForLogin(p, u) \/ StartPurge(p, u)

SessionNext ==
    \E s \in Pairs :
       \/ RevokeAll(s) \/ Lapse(s) \/ RevokeKey(s)
       \/ \E k \in Kinds : Expire(s, k)
       \/ \E u \in Users : OAuthCallback(u, s) \/ Impersonate(u, s) \/ CreateKey(u, s)
       \/ \E p \in AccProcs :
            \/ CommitLogin(p, s) \/ ReadForRefresh(p, s) \/ CommitRefresh(p, s)
            \/ StartLogout(p, s)

AccNext == AccountNext \/ SessionNext

AccSpec == AccInit /\ [][AccNext]_accVars

-----------------------------------------------------------------------------
(* Properties *)

(***************************************************************************)
(* A session that its user ended by logout or revoke-all stays ended: its  *)
(* tokens are refused until they expire, whatever refreshes, lapses and    *)
(* other logouts come between.                                             *)
(***************************************************************************)
EndedRefused == \A e \in ended : ~Accepted(e[1], e[2])

(***************************************************************************)
(* "Deactivate and purge user accounts after N days of inactivity": the    *)
(* lifecycle task does not touch the guests of an account whose owner has  *)
(* logged in with a password less than N days ago.                         *)
(***************************************************************************)
SweepTargetsIdle ==
    \A u \in sweep.list \union {sweep.current} :
        u # NoUser /\ Has(u) /\ accounts[u].local => used[u] = "old"

(***************************************************************************)
(* "Destroy all Proxmox resources owned by user and delete all DB records":*)
(* once no purge is at work on a user, no row of theirs has lost its guest.*)
(***************************************************************************)
PurgeCompletes ==
    \A u \in Users :
        guests[u] = "gone" => sweep.current = u \/ \E p \in AccProcs :
                                                     Serves(p, "purge") /\ areq[p].user = u
===============================================================================
