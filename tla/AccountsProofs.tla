--------------------------- MODULE AccountsProofs ---------------------------
(***************************************************************************)
(* Sessions that stay ended, and whom the account lifecycle task may purge,*)
(* for any users, pairs of tokens and requests.                            *)
(***************************************************************************)
EXTENDS Accounts, TLAPS

-----------------------------------------------------------------------------
(* The inductive invariants *)

\* What a request knows of its user and its pair.
RequestsKnown == \A p \in AccProcs :
    /\ areq[p].op \in {"login", "refresh", "logout", "purge"} => areq[p].user \in Users
    /\ areq[p].op \in {"refresh", "logout"} <=> areq[p].pair \in Pairs

AccountsInv == AccountsTypeOK /\ RequestsKnown

\* A token is in ended as long as it lives, and something keeps it out.
EndedHeld == \A e \in ended :
    /\ e[2] \in pairs[e[1]].live
    /\ \/ revoked[e[1]][e[2]] = "full"
       \/ e[2] = "access" /\ pairs[e[1]].user \in cutoff

OneRequestPerPair == \A p, q \in AccProcs :
    areq[p].pair = areq[q].pair /\ areq[p].pair \in Pairs => p = q

\* A refresh under way, which will revoke the token for a minute only, is of a
\* session that nobody has ended.
RefreshUnended == \A p \in AccProcs :
    Serves(p, "refresh") => <<areq[p].pair, "refresh">> \notin ended

SessionsInv == EndedHeld /\ OneRequestPerPair /\ RefreshUnended

\* last_login_at of a password login is the time of that login, and there are
\* none while the task is at work.
SeenTrue == \A u \in Users : Has(u) /\ accounts[u].local => accounts[u].seen = used[u]
SweepQuiet == \A p \in AccProcs : Serves(p, "login") => sweep = Resting
SweepInv == SeenTrue /\ SweepQuiet /\ SweepTargetsIdle

-----------------------------------------------------------------------------
(* Types *)

AccTyped ==
    /\ accounts \in [Users -> Account]
    /\ used \in [Users -> {"recent", "old"}]
    /\ guests \in [Users -> {"none", "alive", "gone"}]
    /\ links \subseteq Users
    /\ \A u \in Users : accounts[u].status = "none" => guests[u] = "none" /\ u \notin links
TokTyped ==
    /\ pairs \in [Pairs -> Pair]
    /\ \A s \in Pairs : pairs[s].user = NoUser <=> pairs[s].live = {}
    /\ revoked \in [Pairs -> [Kinds -> {"no", "short", "full"}]]
    /\ cutoff \subseteq Users
    /\ ended \subseteq Pairs \X Kinds
ReqTyped == areq \in [AccProcs -> AccRequest] /\ RequestsKnown
RestTyped == setup \in {"unknown", "no", "yes"} /\ sweep \in Sweep

LEMMA Pieces ==
  /\ AccountsInv <=> AccTyped /\ TokTyped /\ ReqTyped /\ RestTyped
  /\ AccountsInv' <=> AccTyped' /\ TokTyped' /\ ReqTyped' /\ RestTyped'
BY DEF AccountsInv, AccountsTypeOK, AccTyped, TokTyped, ReqTyped, RestTyped

LEMMA AccountsNulls ==
  /\ NoAccount \in Account /\ NoAccount.status = "none" /\ NoAccount.local
  /\ NoAccount.seen = "recent"
  /\ NoTokens \in Pair /\ NoTokens.user = NoUser /\ NoTokens.live = {}
  /\ AccFree \in AccRequest /\ AccFree.op = "none" /\ AccFree.pair = NoPair
  /\ Resting \in Sweep /\ Resting.list = {} /\ Resting.current = NoUser
  /\ NoUser \notin Users /\ NoPair \notin Pairs
BY UsersAssumption, AccountConstants
DEF NoAccount, Account, NoTokens, Pair, AccFree, AccRequest, Resting, Sweep

LEMMA TypesStart == AccInit => AccountsInv
<1>. SUFFICES ASSUME AccInit PROVE AccTyped /\ TokTyped /\ ReqTyped /\ RestTyped
  BY Pieces
<1>1. AccTyped
  BY AccountsNulls DEF AccInit, AccTyped
<1>2. TokTyped
  BY AccountsNulls DEF AccInit, TokTyped
<1>3. ReqTyped
  BY AccountsNulls DEF AccInit, ReqTyped, RequestsKnown
<1>4. RestTyped
  BY AccountsNulls DEF AccInit, RestTyped
<1>. QED
  BY <1>1, <1>2, <1>3, <1>4

\* A request begins and ends.
LEMMA BeginTyped ==
  ASSUME ReqTyped, NEW p \in AccProcs, NEW r \in AccRequest, AccBegin(p, r),
         r.op \in {"login", "refresh", "logout", "purge"} => r.user \in Users,
         r.op \in {"refresh", "logout"} <=> r.pair \in Pairs
  PROVE  /\ ReqTyped' /\ areq'[p] = r /\ areq[p] = AccFree
         /\ \A q \in AccProcs : q # p => areq'[q] = areq[q]
BY DEF ReqTyped, RequestsKnown, AccBegin

LEMMA EndTyped ==
  ASSUME ReqTyped, NEW p \in AccProcs, AccEnd(p)
  PROVE  /\ ReqTyped' /\ areq'[p] = AccFree
         /\ \A q \in AccProcs : q # p => areq'[q] = areq[q]
BY AccountsNulls DEF ReqTyped, RequestsKnown, AccEnd

\* One account changes; what it owns stays.
LEMMA AccountTyped ==
  ASSUME AccTyped, NEW u \in Users, NEW a \in Account, NEW t \in {"recent", "old"},
         accounts' = [accounts EXCEPT ![u] = a],
         used' = [used EXCEPT ![u] = t] \/ UNCHANGED used,
         a.status = "none" => guests[u] = "none" /\ u \notin links,
         UNCHANGED <<guests, links>>
  PROVE  AccTyped'
BY DEF AccTyped

\* A pair of tokens is issued.
LEMMA IssueTyped ==
  ASSUME TokTyped, NEW s \in Pairs, NEW u \in Users, NEW live \in SUBSET Kinds, live # {},
         Issue(s, u, live), revoked' \in [Pairs -> [Kinds -> {"no", "short", "full"}]],
         UNCHANGED <<cutoff, ended>>
  PROVE  TokTyped'
<1>1. [user |-> u, live |-> live] \in Pair
  BY DEF Pair
<1>. QED
  BY <1>1, AccountsNulls DEF TokTyped, Issue

LEMMA RevokeTyped ==
  ASSUME TokTyped, NEW s \in Pairs, NEW k \in Kinds, NEW ttl \in {"short", "full"},
         Revoke(s, k, ttl)
  PROVE  revoked' \in [Pairs -> [Kinds -> {"no", "short", "full"}]]
BY DEF TokTyped, Revoke

LEMMA DeletedTyped ==
  ASSUME AccTyped, TokTyped, NEW u \in Users, ~Refused(u), Deleted(u), UNCHANGED <<guests, links>>
  PROVE  AccTyped' /\ TokTyped'
<1>1. AccTyped'
  BY AccountsNulls, AccountTyped DEF Deleted, Refused
<1>. DEFINE gone == {s \in Pairs : pairs[s].user = u /\ "key" \in pairs[s].live}
<1>2. /\ pairs' = [s \in Pairs |-> IF s \in gone THEN NoTokens ELSE pairs[s]]
      /\ revoked' = [s \in Pairs |-> IF s \in gone THEN [revoked[s] EXCEPT !["key"] = "no"]
                                     ELSE revoked[s]]
      /\ ended' = {e \in ended : e[1] \notin gone} /\ UNCHANGED cutoff
  BY DEF Deleted
<1>. HIDE DEF gone
<1>3. TokTyped'
  BY <1>2, AccountsNulls DEF TokTyped
<1>. QED
  BY <1>1, <1>3

\* Instances are destroyed, not their rows.
LEMMA GuestsTyped ==
  ASSUME AccTyped, NEW u \in Users, DestroyGuests(u), UNCHANGED <<accounts, used, links>>
  PROVE  AccTyped'
BY DEF AccTyped, DestroyGuests

\* A new account.
LEMMA NewAccountTyped ==
  ASSUME AccTyped, NEW u \in Users, NEW a, Vacant(u), a \in Account,
         accounts' = [accounts EXCEPT ![u] = a], used' = [used EXCEPT ![u] = "recent"],
         UNCHANGED <<guests, links>>
  PROVE  AccTyped'
BY AccountTyped DEF AccTyped, Vacant, Has

LEMMA NewAccounts ==
  /\ [NoAccount EXCEPT !.status = "active"] \in Account
  /\ [NoAccount EXCEPT !.status = "active", !.local = FALSE] \in Account
  /\ [NoAccount EXCEPT !.status = "active", !.admin = TRUE, !.super = TRUE] \in Account
BY AccountsNulls DEF Account

LEMMA AccountFields ==
  ASSUME NEW a \in Account
  PROVE  /\ a.seen \in {"recent", "old"} /\ a.fails \in 0 .. MaxFails
         /\ a.lock \in {"no", "past", "now"} /\ 0 \in 0 .. MaxFails
BY AccountConstants DEF Account

\* The parts that a step leaves alone.
LEMMA PiecesStay ==
  ASSUME AccountsInv
  PROVE  /\ UNCHANGED accountVars => AccTyped'
         /\ UNCHANGED tokenVars => TokTyped'
         /\ UNCHANGED areq => ReqTyped'
         /\ UNCHANGED <<setup, sweep>> => RestTyped'
BY Pieces DEF accountVars, tokenVars, AccTyped, TokTyped, ReqTyped, RestTyped, RequestsKnown

LEMMA AdminTypes ==
  ASSUME AccountsInv
  PROVE  /\ \A p \in AccProcs : ReadForSetup(p) => AccountsInv'
         /\ \A p \in AccProcs, u \in Users : CommitSetup(p, u) => AccountsInv'
         /\ \A u \in Users : Register(u) => AccountsInv'
         /\ \A u \in Users, s \in Pairs : OAuthCallback(u, s) => AccountsInv'
         /\ \A u \in Users : Administer(u) => AccountsInv'
         /\ Boot => AccountsInv'
<1>t. AccTyped /\ TokTyped /\ ReqTyped /\ RestTyped
  BY Pieces
<1>1. ASSUME NEW p \in AccProcs, ReadForSetup(p)
      PROVE  AccountsInv'
  <2>1. [AccFree EXCEPT !.op = "setup"] \in AccRequest
        /\ [AccFree EXCEPT !.op = "setup"].op = "setup"
        /\ [AccFree EXCEPT !.op = "setup"].pair = NoPair
    BY AccountsNulls DEF AccFree, AccRequest
  <2>2. ReqTyped'
    BY <1>t, <1>1, <2>1, BeginTyped, AccountsNulls DEF ReadForSetup
  <2>. QED
    BY <1>1, <2>2, Pieces, PiecesStay DEF ReadForSetup
<1>2. ASSUME NEW p \in AccProcs, NEW u \in Users, CommitSetup(p, u)
      PROVE  AccountsInv'
  <2>1. ReqTyped'
    BY <1>t, <1>2, EndTyped DEF CommitSetup
  <2>2. AccTyped'
    BY <1>t, <1>2, NewAccounts, NewAccountTyped, PiecesStay DEF CommitSetup, accountVars
  <2>3. RestTyped'
    BY <1>t, <1>2 DEF CommitSetup, RestTyped
  <2>. QED
    BY <1>2, <2>1, <2>2, <2>3, Pieces, PiecesStay DEF CommitSetup
<1>3. ASSUME NEW u \in Users, Register(u)
      PROVE  AccountsInv'
  <2>1. AccTyped'
    BY <1>t, <1>3, NewAccounts, NewAccountTyped DEF Register
  <2>. QED
    BY <1>3, <2>1, Pieces, PiecesStay DEF Register
<1>4. ASSUME NEW u \in Users, NEW s \in Pairs, OAuthCallback(u, s)
      PROVE  AccountsInv'
  <2>1. AccTyped'
    BY <1>t, <1>4, NewAccounts, NewAccountTyped, PiecesStay DEF OAuthCallback, accountVars
  <2>2. TokTyped'
    <3>1. Issue(s, u, {"access", "refresh"}) /\ UNCHANGED <<revoked, cutoff, ended>>
      BY <1>4 DEF OAuthCallback, IssuePair
    <3>2. revoked' \in [Pairs -> [Kinds -> {"no", "short", "full"}]]
      BY <1>t, <3>1 DEF TokTyped
    <3>. QED
      BY <1>t, <3>1, <3>2, IssueTyped DEF Kinds
  <2>. QED
    BY <1>4, <2>1, <2>2, Pieces, PiecesStay DEF OAuthCallback
<1>5. ASSUME NEW u \in Users, Administer(u)
      PROVE  AccountsInv'
  <2>1. /\ \A admin \in BOOLEAN : [accounts[u] EXCEPT !.admin = admin] \in Account
        /\ \A status \in {"active", "disabled"} : [accounts[u] EXCEPT !.status = status] \in Account
        /\ \A admin \in BOOLEAN : [accounts[u] EXCEPT !.admin = admin].status = accounts[u].status
        /\ \A status \in {"active", "disabled"} :
             [accounts[u] EXCEPT !.status = status].status = status
    BY <1>t DEF AccTyped, Account
  <2>2. AccTyped'
    <3>1. \/ \E admin \in BOOLEAN :
               accounts' = [accounts EXCEPT ![u] = [accounts[u] EXCEPT !.admin = admin]]
          \/ \E status \in {"active", "disabled"} :
               accounts' = [accounts EXCEPT ![u] = [accounts[u] EXCEPT !.status = status]]
      BY <1>5 DEF Administer
    <3>2. UNCHANGED <<used, guests, links>> /\ accounts[u].status # "none"
      BY <1>5 DEF Administer, Has
    <3>. QED
      BY <1>t, <2>1, <3>1, <3>2 DEF AccTyped
  <2>. QED
    BY <1>5, <2>2, Pieces, PiecesStay DEF Administer
<1>6. ASSUME Boot
      PROVE  AccountsInv'
  <2>1. ReqTyped'
    BY <1>6, AccountsNulls DEF Boot, ReqTyped, RequestsKnown
  <2>2. AccTyped'
    BY <1>t, <1>6, NewAccounts, NewAccountTyped, PiecesStay DEF Boot, accountVars
  <2>3. RestTyped'
    BY <1>t, <1>6 DEF Boot, RestTyped
  <2>. QED
    BY <1>6, <2>1, <2>2, <2>3, Pieces, PiecesStay DEF Boot
<1>. QED
  BY <1>1, <1>2, <1>3, <1>4, <1>5, <1>6

LEMMA LoginTypes ==
  ASSUME AccountsInv
  PROVE  /\ \A p \in AccProcs, u \in Users : ReadForLogin(p, u) => AccountsInv'
         /\ \A p \in AccProcs, s \in Pairs : CommitLogin(p, s) => AccountsInv'
         /\ \A p \in AccProcs : RejectLogin(p) => AccountsInv'
         /\ \A u \in Users : FallIdle(u) \/ LockPasses(u) => AccountsInv'
<1>t. AccTyped /\ TokTyped /\ ReqTyped /\ RestTyped
  BY Pieces
<1>1. ASSUME NEW p \in AccProcs, NEW u \in Users, ReadForLogin(p, u)
      PROVE  AccountsInv'
  <2>. DEFINE r == [AccFree EXCEPT !.op = "login", !.user = u, !.fails = accounts[u].fails,
                                   !.lock = accounts[u].lock]
  <2>1. r \in AccRequest /\ r.op = "login" /\ r.user = u /\ r.pair = NoPair
    BY <1>t, AccountsNulls DEF AccTyped, Account, AccFree, AccRequest
  <2>2. AccBegin(p, r)
    BY <1>1 DEF ReadForLogin
  <2>. HIDE DEF r
  <2>3. ReqTyped'
    BY <1>t, <2>1, <2>2, BeginTyped, AccountsNulls
  <2>. QED
    BY <1>1, <2>3, Pieces, PiecesStay DEF ReadForLogin
<1>2. ASSUME NEW p \in AccProcs, NEW s \in Pairs, CommitLogin(p, s)
      PROVE  AccountsInv'
  <2>. DEFINE u == areq[p].user
              fails == IF areq[p].fails > 0 THEN 0 ELSE accounts[u].fails
              lock == IF areq[p].fails > 0 /\ areq[p].lock # "no" THEN "no" ELSE accounts[u].lock
              a == [accounts[u] EXCEPT !.seen = "recent", !.fails = fails, !.lock = lock]
  <2>1. ReqTyped' /\ u \in Users /\ UNCHANGED <<guests, links, setup, sweep>>
    BY <1>t, <1>2, EndTyped DEF CommitLogin, ReqTyped, RequestsKnown, Serves
  <2>2. CASE ~Has(u)
    BY <1>2, <2>1, <2>2, Pieces, PiecesStay DEF CommitLogin, accountVars, tokenVars
  <2>3. CASE Has(u)
    <3>0. accounts[u] \in Account
      BY <1>t, <2>1 DEF AccTyped
    <3>1. a \in Account /\ a.status = accounts[u].status
      <4>1. fails \in 0 .. MaxFails /\ lock \in {"no", "past", "now"}
        BY <3>0, AccountFields
      <4>. HIDE DEF fails, lock
      <4>. QED
        BY <3>0, <4>1 DEF Account
    <3>2. accounts' = [accounts EXCEPT ![u] = a] /\ used' = [used EXCEPT ![u] = "recent"]
      BY <1>2, <2>3 DEF CommitLogin
    <3>. HIDE DEF a
    <3>3. AccTyped'
      BY <1>t, <2>1, <2>3, <3>1, <3>2, AccountTyped DEF Has
    <3>4. Issue(s, u, {"access", "refresh"}) /\ UNCHANGED <<revoked, cutoff, ended>>
      BY <1>2, <2>3 DEF CommitLogin, IssuePair
    <3>5. TokTyped'
      <4>1. revoked' \in [Pairs -> [Kinds -> {"no", "short", "full"}]]
        BY <1>t, <3>4 DEF TokTyped
      <4>. QED
        BY <1>t, <2>1, <3>4, <4>1, IssueTyped DEF Kinds
    <3>. QED
      BY <2>1, <3>3, <3>5, Pieces, PiecesStay
  <2>. QED
    BY <2>2, <2>3
<1>3. ASSUME NEW p \in AccProcs, RejectLogin(p)
      PROVE  AccountsInv'
  <2>. DEFINE u == areq[p].user
              fails == IF areq[p].fails < MaxFails THEN areq[p].fails + 1 ELSE MaxFails
              lock == IF fails = MaxFails THEN "now" ELSE accounts[u].lock
              a == [accounts[u] EXCEPT !.fails = fails, !.lock = lock]
  <2>1. ReqTyped' /\ u \in Users
    BY <1>t, <1>3, EndTyped DEF RejectLogin, ReqTyped, RequestsKnown, Serves
  <2>2. fails \in 0 .. MaxFails
    BY <1>t, AccountConstants DEF ReqTyped, AccRequest
  <2>3. a \in Account /\ a.status = accounts[u].status
    <3>1. accounts[u] \in Account
      BY <1>t, <2>1 DEF AccTyped
    <3>2. lock \in {"no", "past", "now"}
      BY <3>1, AccountFields
    <3>. HIDE DEF fails, lock
    <3>. QED
      BY <2>2, <3>1, <3>2 DEF Account
  <2>4. accounts' = accounts \/ accounts' = [accounts EXCEPT ![u] = a]
    BY <1>3 DEF RejectLogin
  <2>. HIDE DEF a
  <2>5. AccTyped'
    BY <1>t, <1>3, <2>1, <2>3, <2>4 DEF AccTyped, RejectLogin
  <2>. QED
    BY <1>3, <2>1, <2>5, Pieces, PiecesStay DEF RejectLogin
<1>4. ASSUME NEW u \in Users, FallIdle(u) \/ LockPasses(u)
      PROVE  AccountsInv'
  <2>. DEFINE lock == IF accounts[u].lock = "now" THEN "past" ELSE accounts[u].lock
              a == [accounts[u] EXCEPT !.seen = "old", !.lock = lock]
              b == [accounts[u] EXCEPT !.lock = "past"]
  <2>1. /\ a \in Account /\ a.status = accounts[u].status
        /\ b \in Account /\ b.status = accounts[u].status
    <3>1. accounts[u] \in Account
      BY <1>t DEF AccTyped
    <3>2. lock \in {"no", "past", "now"}
      BY <3>1, AccountFields
    <3>. HIDE DEF lock
    <3>. QED
      BY <3>1, <3>2 DEF Account
  <2>2. /\ accounts' = [accounts EXCEPT ![u] = a] \/ accounts' = [accounts EXCEPT ![u] = b]
        /\ used' = used \/ used' = [used EXCEPT ![u] = "old"]
        /\ UNCHANGED <<guests, links, tokenVars, setup, areq, sweep>>
    BY <1>4 DEF FallIdle, LockPasses
  <2>. HIDE DEF a, b
  <2>3. AccTyped'
    BY <1>t, <2>1, <2>2 DEF AccTyped
  <2>. QED
    BY <2>2, <2>3, Pieces, PiecesStay
<1>. QED
  BY <1>1, <1>2, <1>3, <1>4

LEMMA SessionTypes ==
  ASSUME AccountsInv
  PROVE  /\ \A p \in AccProcs, s \in Pairs : ReadForRefresh(p, s) => AccountsInv'
         /\ \A p \in AccProcs, s \in Pairs : CommitRefresh(p, s) => AccountsInv'
         /\ \A p \in AccProcs, s \in Pairs : StartLogout(p, s) => AccountsInv'
         /\ \A p \in AccProcs : FinishLogout(p) => AccountsInv'
         /\ \A s \in Pairs : RevokeAll(s) \/ Lapse(s) \/ RevokeKey(s) => AccountsInv'
         /\ \A s \in Pairs, k \in Kinds : Expire(s, k) => AccountsInv'
         /\ \A u \in Users, s \in Pairs : Impersonate(u, s) \/ CreateKey(u, s) => AccountsInv'
<1>t. AccTyped /\ TokTyped /\ ReqTyped /\ RestTyped
  BY Pieces
<1>u. \A s \in Pairs, k \in Kinds : k \in pairs[s].live => pairs[s].user \in Users
  BY <1>t DEF TokTyped, Pair
<1>1. ASSUME NEW p \in AccProcs, NEW s \in Pairs, ReadForRefresh(p, s)
      PROVE  AccountsInv'
  <2>. DEFINE r == [AccFree EXCEPT !.op = "refresh", !.user = pairs[s].user, !.pair = s]
  <2>1. pairs[s].user \in Users
    BY <1>1, <1>u DEF ReadForRefresh, Accepted, Kinds
  <2>2. r \in AccRequest /\ r.op = "refresh" /\ r.user = pairs[s].user /\ r.pair = s
    BY <2>1, AccountsNulls DEF AccRequest
  <2>3. AccBegin(p, r)
    BY <1>1 DEF ReadForRefresh
  <2>. HIDE DEF r
  <2>4. ReqTyped'
    BY <1>t, <2>1, <2>2, <2>3, BeginTyped
  <2>. QED
    BY <1>1, <2>4, Pieces, PiecesStay DEF ReadForRefresh
<1>2. ASSUME NEW p \in AccProcs, NEW s \in Pairs, CommitRefresh(p, s)
      PROVE  AccountsInv'
  <2>1. ReqTyped' /\ areq[p].user \in Users /\ areq[p].pair \in Pairs
    BY <1>t, <1>2, EndTyped DEF CommitRefresh, ReqTyped, RequestsKnown, Serves
  <2>2. Issue(s, areq[p].user, {"access", "refresh"}) /\ Revoke(areq[p].pair, "refresh", "short")
        /\ UNCHANGED <<cutoff, ended>>
    BY <1>2 DEF CommitRefresh, IssuePair
  <2>3. revoked' \in [Pairs -> [Kinds -> {"no", "short", "full"}]]
    BY <1>t, <2>1, <2>2, RevokeTyped DEF Kinds
  <2>4. TokTyped'
    BY <1>t, <2>1, <2>2, <2>3, IssueTyped DEF Kinds
  <2>. QED
    BY <1>2, <2>1, <2>4, Pieces, PiecesStay DEF CommitRefresh
<1>3. ASSUME NEW p \in AccProcs, NEW s \in Pairs, StartLogout(p, s)
      PROVE  AccountsInv'
  <2>. DEFINE r == [AccFree EXCEPT !.op = "logout", !.user = pairs[s].user, !.pair = s]
  <2>1. pairs[s].user \in Users
    BY <1>3, <1>u DEF StartLogout, Accepted, Kinds
  <2>2. r \in AccRequest /\ r.op = "logout" /\ r.user = pairs[s].user /\ r.pair = s
    BY <2>1, AccountsNulls DEF AccRequest
  <2>3. AccBegin(p, r)
    BY <1>3 DEF StartLogout
  <2>. HIDE DEF r
  <2>4. ReqTyped'
    BY <1>t, <2>1, <2>2, <2>3, BeginTyped
  <2>5. /\ Revoke(s, "access", "full") /\ UNCHANGED <<pairs, cutoff>>
        /\ ended' = ended \union {<<s, "access">>}
    BY <1>3 DEF StartLogout
  <2>6. TokTyped'
    <3>1. revoked' \in [Pairs -> [Kinds -> {"no", "short", "full"}]]
      BY <1>t, <2>5, RevokeTyped DEF Kinds
    <3>. QED
      BY <1>t, <2>5, <3>1 DEF TokTyped, Kinds
  <2>. QED
    BY <1>3, <2>4, <2>6, Pieces, PiecesStay DEF StartLogout
<1>4. ASSUME NEW p \in AccProcs, FinishLogout(p)
      PROVE  AccountsInv'
  <2>1. ReqTyped' /\ areq[p].pair \in Pairs
    BY <1>t, <1>4, EndTyped DEF FinishLogout, ReqTyped, RequestsKnown, Serves
  <2>2. TokTyped'
    <3>1. CASE Revoke(areq[p].pair, "refresh", "full")
               /\ ended' = ended \union {<<areq[p].pair, "refresh">>}
      <4>1. revoked' \in [Pairs -> [Kinds -> {"no", "short", "full"}]]
        BY <1>t, <2>1, <3>1, RevokeTyped DEF Kinds
      <4>. QED
        BY <1>t, <1>4, <2>1, <3>1, <4>1 DEF TokTyped, Kinds, FinishLogout
    <3>2. CASE UNCHANGED <<revoked, ended>>
      BY <1>4, <3>2, PiecesStay DEF FinishLogout, tokenVars
    <3>. QED
      BY <1>4, <3>1, <3>2 DEF FinishLogout
  <2>. QED
    BY <1>4, <2>1, <2>2, Pieces, PiecesStay DEF FinishLogout
<1>5. ASSUME NEW s \in Pairs, RevokeAll(s)
      PROVE  AccountsInv'
  <2>. DEFINE mine == {q \in Pairs : pairs[q].user = pairs[s].user /\ "access" \in pairs[q].live}
  <2>1. pairs[s].user \in Users
    BY <1>5, <1>u DEF RevokeAll, Accepted, Kinds
  <2>2. /\ ended' = ended \union {<<t, "access">> : t \in mine}
        /\ cutoff' = cutoff \/ cutoff' = cutoff \union {pairs[s].user}
        /\ UNCHANGED <<pairs, revoked>>
    BY <1>5 DEF RevokeAll
  <2>3. mine \subseteq Pairs
    OBVIOUS
  <2>. HIDE DEF mine
  <2>4. ended' \subseteq Pairs \X Kinds
    BY <1>t, <2>2, <2>3 DEF TokTyped, Kinds
  <2>5. TokTyped'
    BY <1>t, <2>1, <2>2, <2>4 DEF TokTyped
  <2>. QED
    BY <1>5, <2>5, Pieces, PiecesStay DEF RevokeAll
<1>6. ASSUME NEW s \in Pairs, Lapse(s) \/ RevokeKey(s)
      PROVE  AccountsInv'
  <2>1. /\ \/ revoked' = [revoked EXCEPT ![s]["refresh"] = "no"] /\ UNCHANGED ended
           \/ /\ revoked' = [revoked EXCEPT ![s]["key"] = "full"]
              /\ ended' = ended \union {<<s, "key">>}
        /\ UNCHANGED <<accountVars, pairs, cutoff, setup, areq, sweep>>
    BY <1>6 DEF Lapse, RevokeKey
  <2>2. revoked' \in [Pairs -> [Kinds -> {"no", "short", "full"}]]
    BY <1>t, <2>1 DEF TokTyped
  <2>3. TokTyped'
    BY <1>t, <2>1, <2>2 DEF TokTyped, Kinds
  <2>. QED
    BY <2>1, <2>3, Pieces, PiecesStay
<1>7. ASSUME NEW s \in Pairs, NEW k \in Kinds, Expire(s, k)
      PROVE  AccountsInv'
  <2>. DEFINE left == pairs[s].live \ {k}
              new == IF left = {} THEN NoTokens ELSE [pairs[s] EXCEPT !.live = left]
  <2>1. new \in Pair /\ (new.user = NoUser <=> new.live = {})
    <3>1. pairs[s] \in Pair /\ pairs[s].user # NoUser /\ left \subseteq Kinds
      BY <1>t, <1>7 DEF TokTyped, Expire, Pair
    <3>. HIDE DEF left
    <3>2. CASE left = {}
      BY <3>2, AccountsNulls
    <3>3. CASE left # {}
      BY <3>1, <3>3 DEF Pair
    <3>. QED
      BY <3>2, <3>3
  <2>2. /\ pairs' = [pairs EXCEPT ![s] = new]
        /\ revoked' = [revoked EXCEPT ![s][k] = "no"] /\ ended' = ended \ {<<s, k>>}
        /\ UNCHANGED cutoff
    BY <1>7 DEF Expire
  <2>. HIDE DEF new
  <2>3. pairs' \in [Pairs -> Pair] /\ \A t \in Pairs : t # s => pairs'[t] = pairs[t]
    BY <1>t, <2>1, <2>2 DEF TokTyped
  <2>4. \A t \in Pairs : pairs'[t].user = NoUser <=> pairs'[t].live = {}
    <3>1. pairs'[s] = new
      BY <1>t, <2>2 DEF TokTyped
    <3>. QED
      BY <1>t, <2>1, <2>3, <3>1 DEF TokTyped
  <2>5. revoked' \in [Pairs -> [Kinds -> {"no", "short", "full"}]]
    BY <1>t, <2>2 DEF TokTyped
  <2>6. TokTyped'
    BY <1>t, <2>2, <2>3, <2>4, <2>5 DEF TokTyped
  <2>. QED
    BY <1>7, <2>6, Pieces, PiecesStay DEF Expire
<1>8. ASSUME NEW u \in Users, NEW s \in Pairs, Impersonate(u, s) \/ CreateKey(u, s)
      PROVE  AccountsInv'
  <2>1. /\ Issue(s, u, {"access"}) \/ Issue(s, u, {"key"})
        /\ UNCHANGED <<accountVars, revoked, cutoff, ended, setup, areq, sweep>>
    BY <1>8 DEF Impersonate, CreateKey
  <2>2. revoked' \in [Pairs -> [Kinds -> {"no", "short", "full"}]]
    BY <1>t, <2>1 DEF TokTyped
  <2>3. TokTyped'
    BY <1>t, <2>1, <2>2, IssueTyped DEF Kinds
  <2>. QED
    BY <2>1, <2>3, Pieces, PiecesStay
<1>. QED
  BY <1>1, <1>2, <1>3, <1>4, <1>5, <1>6, <1>7, <1>8

LEMMA PurgeTypes ==
  ASSUME AccountsInv
  PROVE  /\ \A u \in Users, state \in {"alive", "none"} : SetInstance(u, state) => AccountsInv'
         /\ \A u \in Users : SetLink(u) => AccountsInv'
         /\ \A p \in AccProcs, u \in Users : StartPurge(p, u) => AccountsInv'
         /\ \A p \in AccProcs : CommitPurge(p) => AccountsInv'
         /\ \A u \in Users : SweepOne(u) => AccountsInv'
         /\ StartSweep \/ SweepCommit => AccountsInv'
<1>t. AccTyped /\ TokTyped /\ ReqTyped /\ RestTyped
  BY Pieces
<1>1. ASSUME NEW u \in Users, NEW state \in {"alive", "none"}, SetInstance(u, state)
      PROVE  AccountsInv'
  <2>1. AccTyped'
    BY <1>t, <1>1 DEF AccTyped, SetInstance
  <2>. QED
    BY <1>1, <2>1, Pieces, PiecesStay DEF SetInstance
<1>2. ASSUME NEW u \in Users, SetLink(u)
      PROVE  AccountsInv'
  <2>1. AccTyped'
    BY <1>t, <1>2 DEF AccTyped, SetLink
  <2>. QED
    BY <1>2, <2>1, Pieces, PiecesStay DEF SetLink
<1>3. ASSUME NEW p \in AccProcs, NEW u \in Users, StartPurge(p, u)
      PROVE  AccountsInv'
  <2>. DEFINE r == [AccFree EXCEPT !.op = "purge", !.user = u]
  <2>1. r \in AccRequest /\ r.op = "purge" /\ r.user = u /\ r.pair = NoPair
    BY AccountsNulls DEF AccRequest
  <2>2. AccBegin(p, r)
    BY <1>3 DEF StartPurge
  <2>. HIDE DEF r
  <2>3. ReqTyped'
    BY <1>t, <2>1, <2>2, BeginTyped, AccountsNulls
  <2>4. AccTyped'
    BY <1>t, <1>3, GuestsTyped DEF StartPurge
  <2>. QED
    BY <1>3, <2>3, <2>4, Pieces, PiecesStay DEF StartPurge
<1>4. ASSUME NEW p \in AccProcs, CommitPurge(p)
      PROVE  AccountsInv'
  <2>1. ReqTyped' /\ areq[p].user \in Users
    BY <1>t, <1>4, EndTyped DEF CommitPurge, ReqTyped, RequestsKnown, Serves
  <2>2. AccTyped' /\ TokTyped'
    BY <1>t, <1>4, <2>1, DeletedTyped, PiecesStay DEF CommitPurge, accountVars
  <2>. QED
    BY <1>4, <2>1, <2>2, Pieces, PiecesStay DEF CommitPurge
<1>5. ASSUME NEW u \in Users, SweepOne(u)
      PROVE  AccountsInv'
  <2>1. AccTyped'
    BY <1>t, <1>5, GuestsTyped DEF SweepOne
  <2>2. RestTyped'
    BY <1>t, <1>5 DEF SweepOne, RestTyped, Sweep
  <2>. QED
    BY <1>5, <2>1, <2>2, Pieces, PiecesStay DEF SweepOne
<1>6. ASSUME StartSweep
      PROVE  AccountsInv'
  <2>1. PICK list \in SUBSET Users : sweep' = [Resting EXCEPT !.list = list]
    BY <1>6 DEF StartSweep
  <2>2. RestTyped'
    BY <1>t, <1>6, <2>1 DEF StartSweep, RestTyped, Sweep, Resting
  <2>. QED
    BY <1>6, <2>2, Pieces, PiecesStay DEF StartSweep
<1>7. ASSUME SweepCommit
      PROVE  AccountsInv'
  <2>1. sweep.current \in Users
    BY <1>t, <1>7 DEF SweepCommit, RestTyped, Sweep
  <2>2. AccTyped' /\ TokTyped'
    BY <1>t, <1>7, <2>1, DeletedTyped, PiecesStay DEF SweepCommit, accountVars
  <2>3. RestTyped'
    BY <1>t, <1>7, AccountsNulls DEF SweepCommit, RestTyped, Sweep
  <2>. QED
    BY <1>7, <2>2, <2>3, Pieces, PiecesStay DEF SweepCommit
<1>. QED
  BY <1>1, <1>2, <1>3, <1>4, <1>5, <1>6, <1>7

LEMMA TypesStep ==
  ASSUME AccountsInv, [AccNext]_accVars
  PROVE  AccountsInv'
<1>1. CASE AccountNext
  BY <1>1, AdminTypes, LoginTypes, SessionTypes, PurgeTypes DEF AccountNext
<1>2. CASE SessionNext
  BY <1>2, AdminTypes, LoginTypes, SessionTypes DEF SessionNext
<1>3. CASE UNCHANGED accVars
  BY <1>3, Pieces, PiecesStay DEF accVars
<1>. QED
  BY <1>1, <1>2, <1>3 DEF AccNext

(***************************************************************************)
(* Accounts, tokens, revocations and requests keep their types, and a      *)
(* request knows its user and its pair: core/deps.py, routers/auth.py.     *)
(***************************************************************************)
THEOREM AccountsTyped == AccSpec => []AccountsTypeOK
<1>1. AccInit => AccountsInv
  BY TypesStart
<1>2. AccountsInv /\ [AccNext]_accVars => AccountsInv'
  BY TypesStep
<1>3. AccountsInv => AccountsTypeOK
  BY DEF AccountsInv
<1>. QED
  BY <1>1, <1>2, <1>3, PTL DEF AccSpec

-----------------------------------------------------------------------------
(* Sessions that stay ended *)

\* Requests end, or begin without a pair.
LEMMA RequestsQuiet ==
  ASSUME OneRequestPerPair, RefreshUnended, ended' \subseteq ended,
         \A p \in AccProcs : \/ areq'[p] = areq[p]
                             \/ areq'[p].pair \notin Pairs /\ areq'[p].op # "refresh"
  PROVE  OneRequestPerPair' /\ RefreshUnended'
<1>1. OneRequestPerPair'
  BY DEF OneRequestPerPair
<1>2. RefreshUnended'
  BY DEF RefreshUnended, Serves
<1>. QED
  BY <1>1, <1>2

\* A pair that is not in use has no token in ended.
LEMMA HeldIfIssued ==
  ASSUME TokTyped, EndedHeld, NEW s \in Pairs, NEW u, NEW live, Unused(s), Issue(s, u, live),
         UNCHANGED <<cutoff, ended>>,
         \/ UNCHANGED revoked
         \/ \E t \in Pairs : /\ <<t, "refresh">> \notin ended
                             /\ revoked' = [revoked EXCEPT ![t]["refresh"] = "short"]
  PROVE  EndedHeld'
<1>1. SUFFICES ASSUME NEW e \in ended
              PROVE  /\ e[2] \in pairs'[e[1]].live
                     /\ \/ revoked'[e[1]][e[2]] = "full"
                        \/ e[2] = "access" /\ pairs'[e[1]].user \in cutoff
  BY DEF EndedHeld
<1>2. PICK x \in Pairs, k \in Kinds : e = <<x, k>>
  BY <1>1 DEF TokTyped
<1>3. /\ k \in pairs[x].live
      /\ revoked[x][k] = "full" \/ (k = "access" /\ pairs[x].user \in cutoff)
  BY <1>1, <1>2 DEF EndedHeld
<1>4. x # s
  BY <1>3, AccountsNulls DEF Unused
<1>5. pairs'[x] = pairs[x]
  BY <1>4 DEF Issue, TokTyped
<1>6. revoked'[x][k] = revoked[x][k]
  <2>1. CASE UNCHANGED revoked
    BY <2>1
  <2>2. ASSUME NEW t \in Pairs, <<t, "refresh">> \notin ended,
               revoked' = [revoked EXCEPT ![t]["refresh"] = "short"]
        PROVE  revoked'[x][k] = revoked[x][k]
    <3>1. x # t \/ k # "refresh"
      BY <1>1, <1>2, <2>2
    <3>. QED
      BY <2>2, <3>1 DEF TokTyped
  <2>. QED
    BY <2>1, <2>2
<1>. QED
  BY <1>2, <1>3, <1>5, <1>6

LEMMA HeldIfDeleted ==
  ASSUME TokTyped, EndedHeld, NEW u, Deleted(u)
  PROVE  EndedHeld' /\ ended' \subseteq ended
<1>. DEFINE gone == {s \in Pairs : pairs[s].user = u /\ "key" \in pairs[s].live}
<1>1. /\ pairs' = [s \in Pairs |-> IF s \in gone THEN NoTokens ELSE pairs[s]]
      /\ revoked' = [s \in Pairs |-> IF s \in gone THEN [revoked[s] EXCEPT !["key"] = "no"]
                                     ELSE revoked[s]]
      /\ ended' = {e \in ended : e[1] \notin gone} /\ cutoff' = cutoff
  BY DEF Deleted
<1>. HIDE DEF gone
<1>2. ASSUME NEW e \in ended'
      PROVE  /\ e[2] \in pairs'[e[1]].live
             /\ \/ revoked'[e[1]][e[2]] = "full"
                \/ e[2] = "access" /\ pairs'[e[1]].user \in cutoff'
  <2>1. e \in ended /\ e[1] \notin gone /\ e[1] \in Pairs
    BY <1>1, <1>2 DEF TokTyped
  <2>2. pairs'[e[1]] = pairs[e[1]] /\ revoked'[e[1]] = revoked[e[1]]
    BY <1>1, <2>1
  <2>. QED
    BY <1>1, <2>1, <2>2 DEF EndedHeld
<1>. QED
  BY <1>1, <1>2 DEF EndedHeld

\* A token is ended and held out at once.
LEMMA HeldIfRevoked ==
  ASSUME TokTyped, EndedHeld, NEW s \in Pairs, NEW k \in Kinds, k \in pairs[s].live,
         revoked' = [revoked EXCEPT ![s][k] = "full"], UNCHANGED <<pairs, cutoff>>,
         ended' = ended \union {<<s, k>>}
  PROVE  EndedHeld'
<1>1. SUFFICES ASSUME NEW e \in ended'
              PROVE  /\ e[2] \in pairs[e[1]].live
                     /\ \/ revoked'[e[1]][e[2]] = "full"
                        \/ e[2] = "access" /\ pairs[e[1]].user \in cutoff
  BY DEF EndedHeld
<1>2. PICK x \in Pairs, j \in Kinds : e = <<x, j>>
  BY <1>1 DEF TokTyped
<1>3. CASE x = s /\ j = k
  BY <1>2, <1>3 DEF TokTyped
<1>4. CASE ~(x = s /\ j = k)
  <2>1. e \in ended /\ revoked'[x][j] = revoked[x][j]
    BY <1>1, <1>2, <1>4 DEF TokTyped
  <2>. QED
    BY <1>2, <2>1 DEF EndedHeld
<1>. QED
  BY <1>3, <1>4

Reliable == {"overlap", "redis"} \cap AccFaults = {}

LEMMA SessionsStart == AccInit => SessionsInv
<1>. SUFFICES ASSUME AccInit PROVE SessionsInv
  OBVIOUS
<1>1. EndedHeld
  BY DEF AccInit, EndedHeld
<1>2. OneRequestPerPair /\ RefreshUnended
  BY AccountsNulls DEF AccInit, OneRequestPerPair, RefreshUnended, Serves
<1>. QED
  BY <1>1, <1>2 DEF SessionsInv

LEMMA SessionsQuiet ==
  ASSUME SessionsInv, UNCHANGED tokenVars,
         \A p \in AccProcs : \/ areq'[p] = areq[p]
                             \/ areq'[p].pair \notin Pairs /\ areq'[p].op # "refresh"
  PROVE  SessionsInv'
<1>1. OneRequestPerPair' /\ RefreshUnended'
  BY RequestsQuiet DEF SessionsInv, tokenVars
<1>2. EndedHeld'
  BY DEF SessionsInv, EndedHeld, tokenVars
<1>. QED
  BY <1>1, <1>2 DEF SessionsInv

LEMMA SessionsAccountStep ==
  ASSUME AccountsInv, SessionsInv, Reliable, AccountNext
  PROVE  SessionsInv'
<1>t. TokTyped /\ ReqTyped
  BY Pieces
<1>f. AccFree.pair \notin Pairs /\ AccFree.op # "refresh" /\ NoPair \notin Pairs
  BY AccountsNulls
<1>e. ASSUME NEW p \in AccProcs, AccEnd(p)
      PROVE  \A q \in AccProcs : \/ areq'[q] = areq[q]
                                 \/ areq'[q].pair \notin Pairs /\ areq'[q].op # "refresh"
  BY <1>t, <1>e, <1>f, EndTyped
<1>b. ASSUME NEW p \in AccProcs, NEW r, AccBegin(p, r), r.pair = NoPair, r.op # "refresh"
      PROVE  \A q \in AccProcs : \/ areq'[q] = areq[q]
                                 \/ areq'[q].pair \notin Pairs /\ areq'[q].op # "refresh"
  BY <1>t, <1>b, <1>f DEF AccBegin, ReqTyped
<1>n. AccFree.pair = NoPair
  BY AccountsNulls
<1>1. ASSUME Boot
      PROVE  SessionsInv'
  BY <1>1, <1>f, SessionsQuiet DEF Boot
<1>2. ASSUME StartSweep
      PROVE  SessionsInv'
  BY <1>2, SessionsQuiet DEF StartSweep
<1>3. ASSUME NEW u, Deleted(u),
             \A p \in AccProcs : \/ areq'[p] = areq[p]
                                 \/ areq'[p].pair \notin Pairs /\ areq'[p].op # "refresh"
      PROVE  SessionsInv'
  <2>1. EndedHeld' /\ ended' \subseteq ended
    BY <1>t, <1>3, HeldIfDeleted DEF SessionsInv
  <2>. QED
    BY <1>3, <2>1, RequestsQuiet DEF SessionsInv
<1>4. ASSUME SweepCommit
      PROVE  SessionsInv'
  BY <1>3, <1>4, SessionsQuiet DEF SweepCommit
<1>5. ASSUME NEW p \in AccProcs, ReadForSetup(p)
      PROVE  SessionsInv'
  <2>. DEFINE r == [AccFree EXCEPT !.op = "setup"]
  <2>1. r.pair = NoPair /\ r.op # "refresh" /\ AccBegin(p, r)
    BY <1>5, <1>n DEF ReadForSetup, AccFree
  <2>. HIDE DEF r
  <2>. QED
    BY <1>5, <1>b, <2>1, SessionsQuiet DEF ReadForSetup
<1>6. ASSUME NEW p \in AccProcs, RejectLogin(p)
      PROVE  SessionsInv'
  BY <1>6, <1>e, SessionsQuiet DEF RejectLogin
<1>7. ASSUME NEW p \in AccProcs, CommitPurge(p)
      PROVE  SessionsInv'
  BY <1>3, <1>7, <1>e, SessionsQuiet DEF CommitPurge
<1>8. ASSUME NEW p \in AccProcs, FinishLogout(p)
      PROVE  SessionsInv'
  <2>. DEFINE s == areq[p].pair
  <2>1. s \in Pairs /\ areq[p].op = "logout"
    BY <1>t, <1>8 DEF FinishLogout, ReqTyped, RequestsKnown, Serves
  <2>2. CASE "refresh" \in pairs[s].live
    <3>1. /\ revoked' = [revoked EXCEPT ![s]["refresh"] = "full"]
          /\ ended' = ended \union {<<s, "refresh">>} /\ UNCHANGED <<pairs, cutoff>>
      BY <1>8, <2>2 DEF FinishLogout, Revoke, Reliable
    <3>2. EndedHeld'
      BY <1>t, <2>1, <2>2, <3>1, HeldIfRevoked DEF SessionsInv, Kinds
    <3>3. OneRequestPerPair' /\ \A q \in AccProcs :
            areq'[q].op = "refresh" => areq[q].op = "refresh" /\ q # p /\ areq'[q] = areq[q]
      BY <1>t, <1>8, <1>f, EndTyped DEF FinishLogout, SessionsInv, OneRequestPerPair
    <3>4. \A q \in AccProcs : q # p => areq[q].pair # s
      BY <2>1 DEF SessionsInv, OneRequestPerPair
    <3>5. RefreshUnended'
      BY <3>1, <3>3, <3>4 DEF SessionsInv, RefreshUnended, Serves
    <3>. QED
      BY <3>2, <3>3, <3>5 DEF SessionsInv
  <2>3. CASE "refresh" \notin pairs[s].live
    BY <1>8, <1>e, <2>3, SessionsQuiet DEF FinishLogout, tokenVars
  <2>. QED
    BY <2>2, <2>3
<1>9. ASSUME NEW u \in Users,
             \/ Register(u) \/ Administer(u) \/ FallIdle(u) \/ LockPasses(u)
             \/ SweepOne(u) \/ SetLink(u) \/ \E state \in {"alive", "none"} : SetInstance(u, state)
      PROVE  SessionsInv'
  <2>1. UNCHANGED <<tokenVars, areq>>
    BY <1>9 DEF Register, Administer, FallIdle, LockPasses, SweepOne, SetLink, SetInstance
  <2>. QED
    BY <2>1, SessionsQuiet
<1>10. ASSUME NEW p \in AccProcs, NEW u \in Users, CommitSetup(p, u)
       PROVE  SessionsInv'
  BY <1>10, <1>e, SessionsQuiet DEF CommitSetup
<1>11. ASSUME NEW p \in AccProcs, NEW u \in Users, ReadForLogin(p, u)
       PROVE  SessionsInv'
  <2>. DEFINE r == [AccFree EXCEPT !.op = "login", !.user = u, !.fails = accounts[u].fails,
                                   !.lock = accounts[u].lock]
  <2>1. r.pair = NoPair /\ r.op # "refresh" /\ AccBegin(p, r)
    BY <1>11, <1>n DEF ReadForLogin, AccFree
  <2>. HIDE DEF r
  <2>. QED
    BY <1>11, <1>b, <2>1, SessionsQuiet DEF ReadForLogin
<1>12. ASSUME NEW p \in AccProcs, NEW u \in Users, StartPurge(p, u)
       PROVE  SessionsInv'
  <2>. DEFINE r == [AccFree EXCEPT !.op = "purge", !.user = u]
  <2>1. r.pair = NoPair /\ r.op # "refresh" /\ AccBegin(p, r)
    BY <1>12, <1>n DEF StartPurge, AccFree
  <2>. HIDE DEF r
  <2>. QED
    BY <1>12, <1>b, <2>1, SessionsQuiet DEF StartPurge
<1>. QED
  BY <1>1, <1>2, <1>4, <1>5, <1>6, <1>7, <1>8, <1>9, <1>10, <1>11, <1>12 DEF AccountNext

LEMMA SessionsSessionStep ==
  ASSUME AccountsInv, SessionsInv, Reliable, SessionNext
  PROVE  SessionsInv'
<1>t. TokTyped /\ ReqTyped
  BY Pieces
<1>f. AccFree.pair \notin Pairs /\ AccFree.op # "refresh"
  BY AccountsNulls
<1>1. ASSUME NEW s \in Pairs, NEW u, NEW live, Unused(s), Issue(s, u, live),
             UNCHANGED <<revoked, cutoff, ended>>,
             \A p \in AccProcs : \/ areq'[p] = areq[p]
                                 \/ areq'[p].pair \notin Pairs /\ areq'[p].op # "refresh"
      PROVE  SessionsInv'
  <2>1. EndedHeld'
    BY <1>t, <1>1, HeldIfIssued DEF SessionsInv
  <2>. QED
    BY <1>1, <2>1, RequestsQuiet DEF SessionsInv
<1>2. ASSUME NEW s \in Pairs, NEW u \in Users,
             OAuthCallback(u, s) \/ Impersonate(u, s) \/ CreateKey(u, s)
      PROVE  SessionsInv'
  BY <1>1, <1>2 DEF OAuthCallback, Impersonate, CreateKey, IssuePair
<1>3. ASSUME NEW s \in Pairs, NEW p \in AccProcs, CommitLogin(p, s)
      PROVE  SessionsInv'
  <2>1. \A q \in AccProcs : \/ areq'[q] = areq[q]
                            \/ areq'[q].pair \notin Pairs /\ areq'[q].op # "refresh"
    BY <1>t, <1>3, <1>f, EndTyped DEF CommitLogin
  <2>2. CASE IssuePair(s, areq[p].user)
    BY <1>1, <1>3, <2>1, <2>2 DEF CommitLogin, IssuePair
  <2>3. CASE UNCHANGED pairs
    BY <1>3, <2>1, <2>3, SessionsQuiet DEF CommitLogin, tokenVars
  <2>. QED
    BY <1>3, <2>2, <2>3 DEF CommitLogin
<1>4. ASSUME NEW s \in Pairs, NEW p \in AccProcs, ReadForRefresh(p, s)
      PROVE  SessionsInv'
  <2>. DEFINE r == [AccFree EXCEPT !.op = "refresh", !.user = pairs[s].user, !.pair = s]
  <2>1. r.pair = s /\ r.op = "refresh" /\ AccBegin(p, r)
    BY <1>4 DEF ReadForRefresh, AccFree
  <2>. HIDE DEF r
  <2>2. \A q \in AccProcs : areq'[q] = IF q = p THEN r ELSE areq[q]
    BY <1>t, <2>1 DEF AccBegin, ReqTyped
  <2>3. \A q \in AccProcs : areq[q].pair # s
    BY <1>4 DEF ReadForRefresh, Alone, Reliable
  <2>4. OneRequestPerPair'
    BY <2>1, <2>2, <2>3 DEF SessionsInv, OneRequestPerPair
  <2>5. <<s, "refresh">> \notin ended
    BY <1>4 DEF ReadForRefresh, Accepted, SessionsInv, EndedHeld
  <2>6. UNCHANGED <<ended, revoked, pairs, cutoff>>
    BY <1>4 DEF ReadForRefresh, tokenVars
  <2>7. RefreshUnended'
    BY <2>1, <2>2, <2>5, <2>6 DEF SessionsInv, RefreshUnended, Serves
  <2>8. EndedHeld'
    BY <2>6 DEF SessionsInv, EndedHeld
  <2>. QED
    BY <2>4, <2>7, <2>8 DEF SessionsInv
<1>5. ASSUME NEW s \in Pairs, NEW p \in AccProcs, CommitRefresh(p, s)
      PROVE  SessionsInv'
  <2>1. areq[p].pair \in Pairs /\ <<areq[p].pair, "refresh">> \notin ended
    BY <1>t, <1>5 DEF CommitRefresh, ReqTyped, RequestsKnown, Serves, SessionsInv, RefreshUnended
  <2>2. revoked' = [revoked EXCEPT ![areq[p].pair]["refresh"] = "short"]
    BY <1>5 DEF CommitRefresh, Revoke, Reliable
  <2>3. EndedHeld'
    BY <1>t, <1>5, <2>1, <2>2, HeldIfIssued DEF CommitRefresh, IssuePair, SessionsInv
  <2>4. \A q \in AccProcs : \/ areq'[q] = areq[q]
                            \/ areq'[q].pair \notin Pairs /\ areq'[q].op # "refresh"
    BY <1>t, <1>5, <1>f, EndTyped DEF CommitRefresh
  <2>. QED
    BY <1>5, <2>3, <2>4, RequestsQuiet DEF CommitRefresh, SessionsInv
<1>6. ASSUME NEW s \in Pairs, NEW p \in AccProcs, StartLogout(p, s)
      PROVE  SessionsInv'
  <2>. DEFINE r == [AccFree EXCEPT !.op = "logout", !.user = pairs[s].user, !.pair = s]
  <2>1. r.pair = s /\ r.op = "logout" /\ AccBegin(p, r)
    BY <1>6 DEF StartLogout, AccFree
  <2>. HIDE DEF r
  <2>2. \A q \in AccProcs : areq'[q] = IF q = p THEN r ELSE areq[q]
    BY <1>t, <2>1 DEF AccBegin, ReqTyped
  <2>3. \A q \in AccProcs : areq[q].pair # s
    BY <1>6 DEF StartLogout, Alone, Reliable
  <2>4. OneRequestPerPair'
    BY <2>1, <2>2, <2>3 DEF SessionsInv, OneRequestPerPair
  <2>5. /\ revoked' = [revoked EXCEPT ![s]["access"] = "full"] /\ UNCHANGED <<pairs, cutoff>>
        /\ ended' = ended \union {<<s, "access">>} /\ "access" \in pairs[s].live
    BY <1>6 DEF StartLogout, Revoke, Reliable, Accepted
  <2>6. EndedHeld'
    BY <1>t, <2>5, HeldIfRevoked DEF SessionsInv, Kinds
  <2>7. RefreshUnended'
    BY <2>1, <2>2, <2>5 DEF SessionsInv, RefreshUnended, Serves
  <2>. QED
    BY <2>4, <2>6, <2>7 DEF SessionsInv
<1>7. ASSUME NEW s \in Pairs, RevokeAll(s)
      PROVE  SessionsInv'
  <2>. DEFINE new == {<<t, "access">> : t \in {q \in Pairs : pairs[q].user = pairs[s].user
                                                          /\ "access" \in pairs[q].live}}
  <2>1. /\ cutoff' = cutoff \union {pairs[s].user} /\ UNCHANGED <<pairs, revoked, areq>>
        /\ ended' = ended \union new
    BY <1>7 DEF RevokeAll, Reliable
  <2>2. \A e \in new : e[2] = "access" /\ "access" \in pairs[e[1]].live
                       /\ pairs[e[1]].user = pairs[s].user
    OBVIOUS
  <2>3. \A q : <<q, "refresh">> \notin new
    OBVIOUS
  <2>. HIDE DEF new
  <2>4. EndedHeld'
    BY <2>1, <2>2 DEF SessionsInv, EndedHeld
  <2>5. OneRequestPerPair' /\ RefreshUnended'
    BY <2>1, <2>3 DEF SessionsInv, OneRequestPerPair, RefreshUnended, Serves
  <2>. QED
    BY <2>4, <2>5 DEF SessionsInv
<1>8. ASSUME NEW s \in Pairs, Lapse(s)
      PROVE  SessionsInv'
  <2>1. /\ revoked' = [revoked EXCEPT ![s]["refresh"] = "no"]
        /\ revoked[s]["refresh"] = "short" /\ UNCHANGED <<pairs, cutoff, ended, areq>>
    BY <1>8 DEF Lapse
  <2>2. \A x \in Pairs, j \in Kinds : revoked[x][j] = "full" => revoked'[x][j] = "full"
    BY <1>t, <2>1 DEF TokTyped
  <2>3. EndedHeld'
    BY <1>t, <2>1, <2>2 DEF SessionsInv, EndedHeld, TokTyped
  <2>4. OneRequestPerPair' /\ RefreshUnended'
    BY <2>1 DEF SessionsInv, OneRequestPerPair, RefreshUnended, Serves
  <2>. QED
    BY <2>3, <2>4 DEF SessionsInv
<1>9. ASSUME NEW s \in Pairs, RevokeKey(s)
      PROVE  SessionsInv'
  <2>1. /\ revoked' = [revoked EXCEPT ![s]["key"] = "full"] /\ "key" \in pairs[s].live
        /\ ended' = ended \union {<<s, "key">>} /\ UNCHANGED <<pairs, cutoff, areq>>
    BY <1>9 DEF RevokeKey
  <2>2. EndedHeld'
    BY <1>t, <2>1, HeldIfRevoked DEF SessionsInv, Kinds
  <2>3. OneRequestPerPair' /\ RefreshUnended'
    BY <2>1 DEF SessionsInv, OneRequestPerPair, RefreshUnended, Serves
  <2>. QED
    BY <2>2, <2>3 DEF SessionsInv
<1>10. ASSUME NEW s \in Pairs, NEW k \in Kinds, Expire(s, k)
       PROVE  SessionsInv'
  <2>. DEFINE left == pairs[s].live \ {k}
              new == IF left = {} THEN NoTokens ELSE [pairs[s] EXCEPT !.live = left]
  <2>1. /\ pairs' = [pairs EXCEPT ![s] = new] /\ UNCHANGED <<cutoff, areq>>
        /\ revoked' = [revoked EXCEPT ![s][k] = "no"] /\ ended' = ended \ {<<s, k>>}
    BY <1>10 DEF Expire
  <2>2. \A j \in left : j \in new.live /\ new.user = pairs[s].user
    BY <1>t DEF TokTyped, Pair
  <2>. HIDE DEF new
  <2>3. ASSUME NEW e \in ended'
        PROVE  /\ e[2] \in pairs'[e[1]].live
               /\ revoked'[e[1]][e[2]] = "full" \/ (e[2] = "access" /\ pairs'[e[1]].user \in cutoff)
    <3>1. PICK x \in Pairs, j \in Kinds : e = <<x, j>>
      BY <1>t, <2>1, <2>3 DEF TokTyped
    <3>2. ~(x = s /\ j = k) /\ e \in ended /\ e[1] = x /\ e[2] = j
      BY <2>1, <2>3, <3>1
    <3>3. revoked'[x][j] = revoked[x][j]
      BY <1>t, <2>1, <3>2 DEF TokTyped
    <3>4. j \in pairs[x].live
      BY <3>2 DEF SessionsInv, EndedHeld
    <3>5. j \in pairs'[x].live /\ pairs'[x].user = pairs[x].user
      BY <1>t, <2>1, <2>2, <3>2, <3>4 DEF TokTyped
    <3>6. revoked[x][j] = "full" \/ (j = "access" /\ pairs[x].user \in cutoff)
      BY <3>2 DEF SessionsInv, EndedHeld
    <3>. QED
      BY <3>2, <3>3, <3>5, <3>6
  <2>4. EndedHeld'
    BY <2>1, <2>3 DEF EndedHeld
  <2>5. ended' \subseteq ended
    BY <2>1
  <2>. QED
    BY <2>1, <2>4, <2>5, RequestsQuiet DEF SessionsInv
<1>. QED
  BY <1>2, <1>3, <1>4, <1>5, <1>6, <1>7, <1>8, <1>9, <1>10 DEF SessionNext

(***************************************************************************)
(* As long as no refresh works on a pair that a logout works on, and Redis *)
(* takes every write: a session that was ended stays ended (logout, revoke *)
(* all and revoke_key, against refresh, expiry and purges).                *)
(***************************************************************************)
THEOREM EndedStaysRefused ==
  ASSUME {"overlap", "redis"} \cap AccFaults = {}
  PROVE  AccSpec => []EndedRefused
<1>. DEFINE Inv == AccountsInv /\ SessionsInv
<1>1. AccInit => Inv
  BY TypesStart, SessionsStart
<1>2. Inv /\ [AccNext]_accVars => Inv'
  <2>. SUFFICES ASSUME AccountsInv, SessionsInv, [AccNext]_accVars
                PROVE  AccountsInv' /\ SessionsInv'
    OBVIOUS
  <2>1. AccountsInv'
    BY TypesStep
  <2>2. CASE AccNext
    BY <2>1, <2>2, SessionsAccountStep, SessionsSessionStep DEF AccNext, Reliable
  <2>3. CASE UNCHANGED accVars
    BY <2>1, <2>3, SessionsQuiet DEF accVars
  <2>. QED
    BY <2>1, <2>2, <2>3
<1>3. Inv => EndedRefused
  <2>. SUFFICES ASSUME AccountsInv, SessionsInv, NEW e \in ended, Accepted(e[1], e[2])
                PROVE  FALSE
    BY DEF EndedRefused
  <2>. QED
    BY DEF SessionsInv, EndedHeld, Accepted
<1>. QED
  BY <1>1, <1>2, <1>3, PTL DEF AccSpec

-----------------------------------------------------------------------------
(* Whom the account lifecycle task may purge *)

LEMMA SweepStart == AccInit => SweepInv
<1>. SUFFICES ASSUME AccInit PROVE SweepInv
  OBVIOUS
<1>1. SeenTrue
  BY AccountsNulls DEF AccInit, SeenTrue, Has
<1>2. SweepQuiet
  BY AccountsNulls DEF AccInit, SweepQuiet, Serves
<1>3. SweepTargetsIdle
  BY AccountsNulls DEF AccInit, SweepTargetsIdle
<1>. QED
  BY <1>1, <1>2, <1>3 DEF SweepInv

\* What a step may do to an account and to the task's list: a password login
\* shows on both dates, and is not of a listed user.
Same(u) == /\ Has(u) /\ accounts'[u].local = accounts[u].local
           /\ accounts'[u].seen = accounts[u].seen /\ used'[u] = used[u]
Fresh(u) == /\ accounts'[u].seen = used'[u]
            /\ used'[u] = "old" \/ u \notin sweep.list \union {sweep.current}
Out(u) == accounts'[u].status = "none" \/ ~accounts'[u].local

LEMMA SweepKept ==
  ASSUME SweepInv, RestTyped,
         \A u \in Users : Same(u) \/ Fresh(u) \/ Out(u),
         sweep' = sweep \/ sweep' = Resting,
         \A p \in AccProcs : areq'[p].op = "login" => areq[p].op = "login"
  PROVE  SweepInv'
<1>1. SeenTrue'
  BY DEF SweepInv, SeenTrue, Has, Same, Fresh, Out
<1>2. SweepQuiet'
  BY DEF SweepInv, SweepQuiet, Serves
<1>3. SweepTargetsIdle'
  <2>1. SUFFICES ASSUME NEW u \in sweep.list \union {sweep.current}, u \in Users,
                        accounts'[u].status # "none", accounts'[u].local
                 PROVE  used'[u] = "old"
    BY AccountsNulls DEF SweepTargetsIdle, Has, RestTyped, Sweep
  <2>2. u # NoUser
    BY <2>1, AccountsNulls
  <2>3. CASE Same(u)
    BY <2>1, <2>2, <2>3 DEF SweepInv, SweepTargetsIdle, Same
  <2>4. CASE Fresh(u)
    BY <2>1, <2>4 DEF Fresh
  <2>5. ~Out(u)
    BY <2>1 DEF Out
  <2>. QED
    BY <2>1, <2>3, <2>4, <2>5
<1>. QED
  BY <1>1, <1>2, <1>3 DEF SweepInv

LEMMA SweepStays ==
  ASSUME SweepInv, UNCHANGED <<accounts, used, sweep>>,
         \A p \in AccProcs : areq'[p].op = "login" => areq[p].op = "login"
  PROVE  SweepInv'
<1>1. SeenTrue'
  BY DEF SweepInv, SeenTrue, Has
<1>2. SweepQuiet'
  BY DEF SweepInv, SweepQuiet, Serves
<1>3. SweepTargetsIdle'
  BY DEF SweepInv, SweepTargetsIdle, Has
<1>. QED
  BY <1>1, <1>2, <1>3 DEF SweepInv

\* A new account, over a name that nothing refers to.
LEMMA SweepNew ==
  ASSUME SweepInv, AccTyped, NEW u \in Users, Vacant(u), NEW row, row.seen = "recent",
         accounts' = [accounts EXCEPT ![u] = row], used' = [used EXCEPT ![u] = "recent"]
  PROVE  \A v \in Users : Same(v) \/ Fresh(v) \/ Out(v)
<1>1. TAKE v \in Users
<1>2. CASE v = u
  BY <1>2 DEF AccTyped, Fresh, Vacant
<1>3. CASE v # u /\ Has(v)
  BY <1>3 DEF AccTyped, Same
<1>4. CASE v # u /\ ~Has(v)
  BY <1>4 DEF AccTyped, Out, Has
<1>. QED
  BY <1>2, <1>3, <1>4

\* An account whose dates stay.
LEMMA SweepSame ==
  ASSUME SweepInv, AccTyped, NEW u \in Users, Has(u), NEW row,
         row.seen = accounts[u].seen, row.local = accounts[u].local,
         accounts' = [accounts EXCEPT ![u] = row], UNCHANGED used
  PROVE  \A v \in Users : Same(v) \/ Fresh(v) \/ Out(v)
<1>1. TAKE v \in Users
<1>2. CASE Has(v)
  BY <1>2 DEF AccTyped, Same
<1>3. CASE ~Has(v)
  BY <1>3 DEF AccTyped, Out, Has
<1>. QED
  BY <1>2, <1>3

LEMMA SweepDeleted ==
  ASSUME SweepInv, AccTyped, NEW u \in Users, Deleted(u)
  PROVE  \A v \in Users : Same(v) \/ Fresh(v) \/ Out(v)
<1>1. accounts' = [accounts EXCEPT ![u] = NoAccount] /\ used' = [used EXCEPT ![u] = "recent"]
  BY DEF Deleted
<1>2. TAKE v \in Users
<1>3. CASE v = u
  BY <1>1, <1>3, AccountsNulls DEF AccTyped, Out
<1>4. CASE v # u /\ Has(v)
  BY <1>1, <1>4 DEF AccTyped, Same
<1>5. CASE v # u /\ ~Has(v)
  BY <1>1, <1>5 DEF AccTyped, Out, Has
<1>. QED
  BY <1>3, <1>4, <1>5

\* A password login is known to both dates, a long absence too.
LEMMA SweepDated ==
  ASSUME SweepInv, AccTyped, NEW u \in Users, NEW row, NEW date,
         row.seen = date, date = "old" \/ u \notin sweep.list \union {sweep.current},
         accounts' = [accounts EXCEPT ![u] = row], used' = [used EXCEPT ![u] = date]
  PROVE  \A v \in Users : Same(v) \/ Fresh(v) \/ Out(v)
<1>1. TAKE v \in Users
<1>2. CASE v = u
  BY <1>2 DEF AccTyped, Fresh
<1>3. CASE v # u /\ Has(v)
  BY <1>3 DEF AccTyped, Same
<1>4. CASE v # u /\ ~Has(v)
  BY <1>4 DEF AccTyped, Out, Has
<1>. QED
  BY <1>2, <1>3, <1>4

LEMMA SweepAccountStep ==
  ASSUME AccountsInv, SweepInv, "late_login" \notin AccFaults, AccountNext
  PROVE  SweepInv'
<1>t. AccTyped /\ ReqTyped /\ RestTyped
  BY Pieces
<1>f. AccFree.op # "login" /\ NoAccount.seen = "recent" /\ NoAccount.local
  BY AccountsNulls
<1>e. ASSUME NEW p \in AccProcs, AccEnd(p)
      PROVE  \A q \in AccProcs : areq'[q].op = "login" => areq[q].op = "login"
  BY <1>t, <1>e, <1>f, EndTyped
<1>b. ASSUME NEW p \in AccProcs, NEW r, AccBegin(p, r), r.op # "login"
      PROVE  \A q \in AccProcs : areq'[q].op = "login" => areq[q].op = "login"
  BY <1>t, <1>b DEF AccBegin, ReqTyped
<1>n. \A u \in Users : \A row \in {[NoAccount EXCEPT !.status = "active"],
        [NoAccount EXCEPT !.status = "active", !.admin = TRUE, !.super = TRUE]} : row.seen = "recent"
  BY DEF NoAccount
<1>1. ASSUME Boot
      PROVE  SweepInv'
  <2>1. \A p \in AccProcs : areq'[p].op = "login" => areq[p].op = "login"
    BY <1>1, <1>f DEF Boot
  <2>2. UNCHANGED sweep
    BY <1>1 DEF Boot
  <2>3. CASE UNCHANGED <<accounts, used>>
    BY <2>1, <2>2, <2>3, SweepStays
  <2>4. ASSUME NEW u \in Users, Vacant(u), used' = [used EXCEPT ![u] = "recent"],
               accounts' = [accounts EXCEPT ![u] = [NoAccount EXCEPT !.status = "active",
                                                        !.admin = TRUE, !.super = TRUE]]
        PROVE  SweepInv'
    BY <1>t, <1>n, <2>1, <2>2, <2>4, SweepNew, SweepKept
  <2>. QED
    BY <1>1, <2>3, <2>4 DEF Boot
<1>2. ASSUME StartSweep
      PROVE  SweepInv'
  <2>1. PICK list \in SUBSET {u \in Users : accounts[u].status = "active" /\ ~accounts[u].super
                                            /\ accounts[u].seen = "old"} :
          sweep' = [Resting EXCEPT !.list = list]
    BY <1>2 DEF StartSweep
  <2>2. sweep'.list = list /\ sweep'.current = NoUser
    BY <2>1 DEF Resting
  <2>3. SeenTrue' /\ SweepQuiet'
    BY <1>2 DEF StartSweep, accountVars, SweepInv, SeenTrue, Has, SweepQuiet, Serves
  <2>4. SweepTargetsIdle'
    BY <1>2, <2>1, <2>2 DEF StartSweep, accountVars, SweepTargetsIdle, Has, SweepInv, SeenTrue
  <2>. QED
    BY <2>3, <2>4 DEF SweepInv
<1>3. ASSUME SweepCommit
      PROVE  SweepInv'
  <2>. DEFINE u == sweep.current
  <2>1. u \in Users /\ u # NoUser
    BY <1>t, <1>3 DEF SweepCommit, RestTyped, Sweep
  <2>2. \A v \in Users : Same(v) \/ Fresh(v) \/ Out(v)
    <3>1. CASE Deleted(u)
      BY <1>t, <2>1, <3>1, SweepDeleted
    <3>2. CASE UNCHANGED <<accounts, used>>
      BY <3>2, <1>t DEF Same, Out, Has
    <3>. QED
      BY <1>3, <3>1, <3>2 DEF SweepCommit
  <2>3. SeenTrue'
    BY <2>2 DEF SweepInv, SeenTrue, Has, Same, Fresh, Out
  <2>4. /\ \A p \in AccProcs : areq'[p].op # "login"
        /\ sweep'.list \subseteq sweep.list /\ sweep'.current = NoUser
    <3>1. sweep # Resting
      BY <2>1, AccountsNulls
    <3>2. \A p \in AccProcs : areq'[p].op # "login"
      BY <1>3, <3>1 DEF SweepCommit, SweepInv, SweepQuiet, Serves
    <3>3. sweep'.list \subseteq sweep.list /\ sweep'.current = NoUser
      BY <1>t, <1>3, AccountsNulls DEF SweepCommit, RestTyped, Sweep
    <3>. QED
      BY <3>2, <3>3
  <2>5. SweepQuiet'
    BY <2>4 DEF SweepQuiet, Serves
  <2>6. SweepTargetsIdle'
    <3>1. SUFFICES ASSUME NEW v \in sweep.list, v # NoUser, v \in Users,
                          accounts'[v].status # "none", accounts'[v].local
                   PROVE  used'[v] = "old"
      BY <1>t, <2>4 DEF SweepTargetsIdle, Has, RestTyped, Sweep
    <3>2. CASE Same(v)
      BY <3>1, <3>2 DEF SweepInv, SweepTargetsIdle, Same
    <3>3. CASE Fresh(v)
      BY <3>1, <3>3 DEF Fresh
    <3>4. ~Out(v)
      BY <3>1 DEF Out
    <3>. QED
      BY <2>2, <3>1, <3>2, <3>3, <3>4
  <2>. QED
    BY <2>3, <2>5, <2>6 DEF SweepInv
<1>4. ASSUME NEW p \in AccProcs, ReadForSetup(p)
      PROVE  SweepInv'
  <2>. DEFINE r == [AccFree EXCEPT !.op = "setup"]
  <2>1. r.op # "login" /\ AccBegin(p, r)
    BY <1>4 DEF ReadForSetup, AccFree
  <2>. HIDE DEF r
  <2>. QED
    BY <1>4, <1>b, <2>1, SweepStays DEF ReadForSetup, accountVars
<1>5. ASSUME NEW p \in AccProcs, RejectLogin(p)
      PROVE  SweepInv'
  <2>. DEFINE u == areq[p].user
              fails == IF areq[p].fails < MaxFails THEN areq[p].fails + 1 ELSE MaxFails
              lock == IF fails = MaxFails THEN "now" ELSE accounts[u].lock
              a == [accounts[u] EXCEPT !.fails = fails, !.lock = lock]
  <2>1. u \in Users /\ UNCHANGED <<used, sweep>> /\ AccEnd(p)
    BY <1>t, <1>5 DEF RejectLogin, ReqTyped, RequestsKnown, Serves
  <2>2. a.seen = accounts[u].seen /\ a.local = accounts[u].local
    BY <1>t, <2>1 DEF AccTyped, Account
  <2>3. CASE ~Has(u)
    BY <1>5, <1>e, <2>1, <2>3, SweepStays DEF RejectLogin
  <2>4. CASE Has(u)
    <3>1. accounts' = [accounts EXCEPT ![u] = a]
      BY <1>5, <2>4 DEF RejectLogin
    <3>. HIDE DEF a
    <3>2. \A v \in Users : Same(v) \/ Fresh(v) \/ Out(v)
      BY <1>t, <2>1, <2>2, <2>4, <3>1, SweepSame
    <3>. QED
      BY <1>t, <1>e, <2>1, <3>2, SweepKept
  <2>. QED
    BY <2>3, <2>4
<1>6. ASSUME NEW p \in AccProcs, CommitPurge(p)
      PROVE  SweepInv'
  <2>1. areq[p].user \in Users /\ AccEnd(p) /\ UNCHANGED sweep
    BY <1>t, <1>6 DEF CommitPurge, ReqTyped, RequestsKnown, Serves
  <2>2. CASE Deleted(areq[p].user)
    BY <1>t, <1>e, <2>1, <2>2, SweepDeleted, SweepKept
  <2>3. CASE UNCHANGED <<accounts, used>>
    BY <1>e, <2>1, <2>3, SweepStays
  <2>. QED
    BY <1>6, <2>2, <2>3 DEF CommitPurge
<1>7. ASSUME NEW p \in AccProcs, FinishLogout(p)
      PROVE  SweepInv'
  BY <1>7, <1>e, SweepStays DEF FinishLogout, accountVars
<1>8. ASSUME NEW u \in Users, Register(u)
      PROVE  SweepInv'
  BY <1>t, <1>8, <1>n, SweepNew, SweepKept DEF Register
<1>9. ASSUME NEW u \in Users, Administer(u)
      PROVE  SweepInv'
  <2>1. /\ \A admin : /\ [accounts[u] EXCEPT !.admin = admin].seen = accounts[u].seen
                      /\ [accounts[u] EXCEPT !.admin = admin].local = accounts[u].local
        /\ \A status : /\ [accounts[u] EXCEPT !.status = status].seen = accounts[u].seen
                       /\ [accounts[u] EXCEPT !.status = status].local = accounts[u].local
    BY <1>t DEF AccTyped, Account
  <2>2. PICK row : /\ row.seen = accounts[u].seen /\ row.local = accounts[u].local
                   /\ accounts' = [accounts EXCEPT ![u] = row]
    BY <1>9, <2>1 DEF Administer
  <2>3. Has(u) /\ UNCHANGED <<used, areq, sweep>>
    BY <1>9 DEF Administer
  <2>. QED
    BY <1>t, <2>2, <2>3, SweepSame, SweepKept
<1>10. ASSUME NEW u \in Users, FallIdle(u)
       PROVE  SweepInv'
  <2>. DEFINE lock == IF accounts[u].lock = "now" THEN "past" ELSE accounts[u].lock
              a == [accounts[u] EXCEPT !.seen = "old", !.lock = lock]
  <2>1. a.seen = "old"
    BY <1>t DEF AccTyped, Account
  <2>2. /\ accounts' = [accounts EXCEPT ![u] = a] /\ used' = [used EXCEPT ![u] = "old"]
        /\ UNCHANGED <<areq, sweep>>
    BY <1>10 DEF FallIdle
  <2>. HIDE DEF a
  <2>. QED
    BY <1>t, <2>1, <2>2, SweepDated, SweepKept
<1>11. ASSUME NEW u \in Users, LockPasses(u)
       PROVE  SweepInv'
  <2>. DEFINE a == [accounts[u] EXCEPT !.lock = "past"]
  <2>1. a.seen = accounts[u].seen /\ a.local = accounts[u].local
    BY <1>t DEF AccTyped, Account
  <2>2. accounts' = [accounts EXCEPT ![u] = a] /\ UNCHANGED <<used, areq, sweep>>
    BY <1>11 DEF LockPasses
  <2>. HIDE DEF a
  <2>3. \A v \in Users : Same(v) \/ Fresh(v) \/ Out(v)
    <3>1. TAKE v \in Users
    <3>2. CASE Has(v)
      BY <1>t, <2>1, <2>2, <3>2 DEF AccTyped, Same
    <3>3. CASE ~Has(v) /\ v # u
      BY <1>t, <2>2, <3>3 DEF AccTyped, Out, Has
    <3>4. CASE v = u /\ ~Has(u)
      <4>1. accounts'[u].status = accounts[u].status
        BY <1>t, <1>11 DEF LockPasses, AccTyped, Account
      <4>. QED
        BY <3>4, <4>1 DEF Out, Has
    <3>. QED
      BY <3>2, <3>3, <3>4
  <2>. QED
    BY <1>t, <2>2, <2>3, SweepKept
<1>12. ASSUME NEW u \in Users, SweepOne(u)
       PROVE  SweepInv'
  <2>1. /\ UNCHANGED <<accounts, used, areq>> /\ sweep # Resting
        /\ sweep'.list \union {sweep'.current} \subseteq sweep.list \union {sweep.current}
    BY <1>12, AccountsNulls DEF SweepOne
  <2>2. SeenTrue' /\ SweepQuiet'
    BY <2>1 DEF SweepInv, SeenTrue, Has, SweepQuiet, Serves
  <2>3. SweepTargetsIdle'
    BY <2>1 DEF SweepInv, SweepTargetsIdle, Has
  <2>. QED
    BY <2>2, <2>3 DEF SweepInv
<1>13. ASSUME NEW u \in Users, SetLink(u) \/ \E state \in {"alive", "none"} : SetInstance(u, state)
       PROVE  SweepInv'
  <2>1. UNCHANGED <<accounts, used, areq, sweep>>
    BY <1>13 DEF SetLink, SetInstance
  <2>. QED
    BY <2>1, SweepStays
<1>14. ASSUME NEW p \in AccProcs, NEW u \in Users, CommitSetup(p, u)
       PROVE  SweepInv'
  <2>1. CASE UNCHANGED <<accounts, used>>
    BY <1>14, <1>e, <2>1, SweepStays DEF CommitSetup
  <2>2. CASE /\ Vacant(u) /\ used' = [used EXCEPT ![u] = "recent"]
             /\ accounts' = [accounts EXCEPT ![u] = [NoAccount EXCEPT !.status = "active",
                                                        !.admin = TRUE, !.super = TRUE]]
    BY <1>t, <1>14, <1>e, <1>n, <2>2, SweepNew, SweepKept DEF CommitSetup
  <2>. QED
    BY <1>14, <2>1, <2>2 DEF CommitSetup
<1>15. ASSUME NEW p \in AccProcs, NEW u \in Users, ReadForLogin(p, u)
       PROVE  SweepInv'
  <2>1. sweep = Resting /\ UNCHANGED <<accounts, used, sweep>>
    BY <1>15 DEF ReadForLogin, accountVars
  <2>2. SeenTrue' /\ SweepQuiet'
    BY <2>1 DEF SweepInv, SeenTrue, Has, SweepQuiet, Serves
  <2>3. SweepTargetsIdle'
    BY <2>1 DEF SweepInv, SweepTargetsIdle, Has
  <2>. QED
    BY <2>2, <2>3 DEF SweepInv
<1>16. ASSUME NEW p \in AccProcs, NEW u \in Users, StartPurge(p, u)
       PROVE  SweepInv'
  <2>. DEFINE r == [AccFree EXCEPT !.op = "purge", !.user = u]
  <2>1. r.op # "login" /\ AccBegin(p, r)
    BY <1>16 DEF StartPurge, AccFree
  <2>. HIDE DEF r
  <2>. QED
    BY <1>16, <1>b, <2>1, SweepStays DEF StartPurge
<1>. QED
  BY <1>1, <1>2, <1>3, <1>4, <1>5, <1>6, <1>7, <1>8, <1>9, <1>10, <1>11, <1>12, <1>13,
     <1>14, <1>15, <1>16 DEF AccountNext

LEMMA SweepSessionStep ==
  ASSUME AccountsInv, SweepInv, "late_login" \notin AccFaults, SessionNext
  PROVE  SweepInv'
<1>t. AccTyped /\ ReqTyped /\ RestTyped
  BY Pieces
<1>f. AccFree.op # "login"
  BY AccountsNulls
<1>e. ASSUME NEW p \in AccProcs, AccEnd(p)
      PROVE  \A q \in AccProcs : areq'[q].op = "login" => areq[q].op = "login"
  BY <1>t, <1>e, <1>f, EndTyped
<1>b. ASSUME NEW p \in AccProcs, NEW r, AccBegin(p, r), r.op # "login"
      PROVE  \A q \in AccProcs : areq'[q].op = "login" => areq[q].op = "login"
  BY <1>t, <1>b DEF AccBegin, ReqTyped
<1>1. ASSUME NEW s \in Pairs,
             RevokeAll(s) \/ Lapse(s) \/ RevokeKey(s) \/ \E k \in Kinds : Expire(s, k)
      PROVE  SweepInv'
  <2>1. UNCHANGED <<accounts, used, areq, sweep>>
    BY <1>1 DEF RevokeAll, Lapse, RevokeKey, Expire, accountVars
  <2>. QED
    BY <2>1, SweepStays
<1>2. ASSUME NEW s \in Pairs, NEW u \in Users, Impersonate(u, s) \/ CreateKey(u, s)
      PROVE  SweepInv'
  <2>1. UNCHANGED <<accounts, used, areq, sweep>>
    BY <1>2 DEF Impersonate, CreateKey, accountVars
  <2>. QED
    BY <2>1, SweepStays
<1>3. ASSUME NEW s \in Pairs, NEW u \in Users, OAuthCallback(u, s)
      PROVE  SweepInv'
  <2>1. UNCHANGED <<areq, sweep>>
    BY <1>3 DEF OAuthCallback
  <2>2. CASE UNCHANGED <<accounts, used>>
    BY <2>1, <2>2, SweepStays
  <2>3. CASE /\ Vacant(u) /\ used' = [used EXCEPT ![u] = "recent"]
             /\ accounts' = [accounts EXCEPT ![u] = [NoAccount EXCEPT !.status = "active",
                                                                      !.local = FALSE]]
    <3>1. [NoAccount EXCEPT !.status = "active", !.local = FALSE].seen = "recent"
      BY DEF NoAccount
    <3>. QED
      BY <1>t, <2>1, <2>3, <3>1, SweepNew, SweepKept
  <2>. QED
    BY <1>3, <2>2, <2>3 DEF OAuthCallback
<1>4. ASSUME NEW s \in Pairs, NEW p \in AccProcs, CommitLogin(p, s)
      PROVE  SweepInv'
  <2>. DEFINE u == areq[p].user
              fails == IF areq[p].fails > 0 THEN 0 ELSE accounts[u].fails
              lock == IF areq[p].fails > 0 /\ areq[p].lock # "no" THEN "no" ELSE accounts[u].lock
              a == [accounts[u] EXCEPT !.seen = "recent", !.fails = fails, !.lock = lock]
  <2>1. u \in Users /\ UNCHANGED sweep /\ AccEnd(p)
    BY <1>t, <1>4 DEF CommitLogin, ReqTyped, RequestsKnown, Serves
  <2>2. CASE ~Has(u)
    BY <1>4, <1>e, <2>1, <2>2, SweepStays DEF CommitLogin
  <2>3. CASE Has(u)
    <3>1. accounts' = [accounts EXCEPT ![u] = a] /\ used' = [used EXCEPT ![u] = "recent"]
      BY <1>4, <2>3 DEF CommitLogin
    <3>2. a.seen = "recent"
      BY <1>t, <2>1 DEF AccTyped, Account
    <3>. HIDE DEF a
    <3>3. sweep = Resting
      BY <1>4 DEF CommitLogin, SweepInv, SweepQuiet
    <3>4. u \notin sweep.list \union {sweep.current}
      BY <2>1, <3>3, AccountsNulls
    <3>. QED
      BY <1>t, <1>e, <2>1, <3>1, <3>2, <3>4, SweepDated, SweepKept
  <2>. QED
    BY <2>2, <2>3
<1>5. ASSUME NEW s \in Pairs, NEW p \in AccProcs, ReadForRefresh(p, s)
      PROVE  SweepInv'
  <2>. DEFINE r == [AccFree EXCEPT !.op = "refresh", !.user = pairs[s].user, !.pair = s]
  <2>1. r.op # "login" /\ AccBegin(p, r)
    BY <1>5 DEF ReadForRefresh, AccFree
  <2>. HIDE DEF r
  <2>. QED
    BY <1>5, <1>b, <2>1, SweepStays DEF ReadForRefresh, accountVars
<1>6. ASSUME NEW s \in Pairs, NEW p \in AccProcs, CommitRefresh(p, s)
      PROVE  SweepInv'
  BY <1>6, <1>e, SweepStays DEF CommitRefresh, accountVars
<1>7. ASSUME NEW s \in Pairs, NEW p \in AccProcs, StartLogout(p, s)
      PROVE  SweepInv'
  <2>. DEFINE r == [AccFree EXCEPT !.op = "logout", !.user = pairs[s].user, !.pair = s]
  <2>1. r.op # "login" /\ AccBegin(p, r)
    BY <1>7 DEF StartLogout, AccFree
  <2>. HIDE DEF r
  <2>. QED
    BY <1>7, <1>b, <2>1, SweepStays DEF StartLogout, accountVars
<1>. QED
  BY <1>1, <1>2, <1>3, <1>4, <1>5, <1>6, <1>7 DEF SessionNext

(***************************************************************************)
(* As long as nobody logs in while the lifecycle task is at work: the task *)
(* purges no account whose owner used its password in the last N days      *)
(* (tasks/resource_lifecycle.py, routers/auth.py).                         *)
(***************************************************************************)
THEOREM SweepSparesTheActive ==
  ASSUME "late_login" \notin AccFaults
  PROVE  AccSpec => []SweepTargetsIdle
<1>. DEFINE Inv == AccountsInv /\ SweepInv
<1>1. AccInit => Inv
  BY TypesStart, SweepStart
<1>2. Inv /\ [AccNext]_accVars => Inv'
  <2>. SUFFICES ASSUME AccountsInv, SweepInv, [AccNext]_accVars
                PROVE  AccountsInv' /\ SweepInv'
    OBVIOUS
  <2>1. AccountsInv'
    BY TypesStep
  <2>2. CASE AccNext
    BY <2>1, <2>2, SweepAccountStep, SweepSessionStep DEF AccNext
  <2>3. CASE UNCHANGED accVars
    BY <2>1, <2>3, SweepStays DEF accVars, accountVars
  <2>. QED
    BY <2>1, <2>2, <2>3
<1>3. Inv => SweepTargetsIdle
  BY DEF SweepInv
<1>. QED
  BY <1>1, <1>2, <1>3, PTL DEF AccSpec
=============================================================================
