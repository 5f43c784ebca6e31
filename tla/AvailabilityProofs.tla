-------------------------- MODULE AvailabilityProofs --------------------------
(***************************************************************************)
(* Groups of nodes in PAWS and in Proxmox, for any groups, administrators  *)
(* and instances, as long as requests about one group do not meet and      *)
(* nobody else changes the groups of Proxmox.                              *)
(***************************************************************************)
EXTENDS Availability, TLAPS

-----------------------------------------------------------------------------
(* The inductive invariant *)

GroupOps == {"create", "update", "delete"}
Changes(p, n) == haReq[p].op \in GroupOps /\ haReq[p].name = n

\* Requests that change groups do not meet, and a sync is alone among them.
Apart ==
    /\ \A p, q \in HaAdmins, n \in HaNames : Changes(p, n) /\ Changes(q, n) => p = q
    /\ \A p, q \in HaAdmins :
         haReq[p].op = "sync" /\ haReq[q].op \in GroupOps \union {"sync"} => p = q

\* What a request has read is still so, and what it will write is a row.
RequestHolds(r) ==
    /\ r.op \in GroupOps =>
         /\ r.name \in HaNames /\ r.alive
         /\ haRow[r.name] = r.loaded
         /\ r.op = "create" => r.loaded = NoHaRow
         /\ r.op # "delete" => r.row.nodes \in NodeLists
    /\ r.op = "sync" => r.called /\ r.add = pveGroup /\ r.seen \subseteq {n \in HaNames : HasGroup(n)}
    /\ r.op \in {"enable", "disable"} => r.inst \in HaInsts
    /\ r.op \notin GroupOps \union {"sync"} => ~r.called

Held == \A p \in HaAdmins : RequestHolds(haReq[p])

\* What Proxmox has once a request has called it.
Target(r) == IF r.op = "delete" THEN NoNodes ELSE r.row.nodes

\* A group that PAWS has to itself is as the row says, or as the request that
\* will write the row has asked for.
Agree == \A n \in HaNames \ loose :
    /\ \A p \in HaAdmins : Changes(p, n) /\ haReq[p].called => pveGroup[n] = Target(haReq[p])
    /\ (\A p \in HaAdmins : ~(Changes(p, n) /\ haReq[p].called)) => pveGroup[n] = haRow[n].nodes

HaInv == AvailabilityTypeOK /\ Apart /\ Held /\ Agree

Served == HaFaults \subseteq {"crash"}

LEMMA AvailabilityNulls ==
  /\ NoHaRow \in HaRow /\ ~NoHaRow.active /\ NoHaRow.nodes = NoNodes
  /\ NoHaReq \in HaReq /\ NoHaReq.op = "none" /\ ~NoHaReq.called
  /\ NoNodes \notin NodeLists /\ NoHaName \notin HaNames
BY HaConstants DEF NoHaRow, HaRow, NoHaReq, HaReq

LEMMA HaStart == AvailabilityInit => HaInv
<1>. SUFFICES ASSUME AvailabilityInit PROVE HaInv
  OBVIOUS
<1>1. AvailabilityTypeOK
  BY AvailabilityNulls DEF AvailabilityInit, AvailabilityTypeOK
<1>2. \A p \in HaAdmins : haReq[p].op = "none" /\ ~haReq[p].called
  BY AvailabilityNulls DEF AvailabilityInit
<1>3. Apart
  BY <1>2 DEF Apart, Changes, GroupOps
<1>4. Held
  BY <1>2 DEF Held, RequestHolds, GroupOps
<1>5. Agree
  BY <1>2, AvailabilityNulls DEF AvailabilityInit, Agree, Changes, GroupOps
<1>. QED
  BY <1>1, <1>3, <1>4, <1>5 DEF HaInv

-----------------------------------------------------------------------------
(* What a step may do to the requests *)

LEMMA ApartKept ==
  ASSUME Apart,
         \A q \in HaAdmins : \/ haReq'[q].op = haReq[q].op /\ haReq'[q].name = haReq[q].name
                             \/ haReq'[q].op \notin GroupOps \union {"sync"}
  PROVE  Apart'
<1>1. \A q \in HaAdmins, n \in HaNames : Changes(q, n)' => Changes(q, n)
  BY DEF Changes
<1>2. \A p, q \in HaAdmins, n \in HaNames : Changes(p, n)' /\ Changes(q, n)' => p = q
  BY <1>1 DEF Apart
<1>3. \A p, q \in HaAdmins :
        haReq'[p].op = "sync" /\ haReq'[q].op \in GroupOps \union {"sync"} => p = q
  BY DEF Apart
<1>. QED
  BY <1>2, <1>3 DEF Apart

\* A request of p changes or ends, the tables stay.
LEMMA OneRequest ==
  ASSUME AvailabilityTypeOK, NEW p \in HaAdmins, NEW r \in HaReq, haReq' = [haReq EXCEPT ![p] = r]
  PROVE  /\ haReq' \in [HaAdmins -> HaReq] /\ haReq'[p] = r
         /\ \A q \in HaAdmins : q # p => haReq'[q] = haReq[q]
BY DEF AvailabilityTypeOK

LEMMA HeldKept ==
  ASSUME Held, NEW p \in HaAdmins, \A q \in HaAdmins : q # p => haReq'[q] = haReq[q],
         UNCHANGED <<haRow, pveGroup>>, RequestHolds(haReq'[p])
  PROVE  Held'
<1>1. SUFFICES ASSUME NEW q \in HaAdmins PROVE RequestHolds(haReq[q])'
  BY DEF Held
<1>2. CASE q = p
  BY <1>2 DEF RequestHolds, HasGroup
<1>3. CASE q # p
  BY <1>3 DEF Held, RequestHolds, HasGroup
<1>. QED
  BY <1>2, <1>3

\* Groups agree as before when no request has newly called Proxmox, or one that
\* had has left its group to loose.
LEMMA AgreeKept ==
  ASSUME Agree, UNCHANGED <<haRow, pveGroup, loose>>,
         \A q \in HaAdmins, n \in HaNames : \/ haReq'[q] = haReq[q]
                                            \/ /\ ~(Changes(q, n) /\ haReq[q].called)
                                               /\ ~(Changes(q, n)' /\ haReq'[q].called)
  PROVE  Agree'
<1>1. SUFFICES ASSUME NEW n \in HaNames \ loose
              PROVE  /\ \A q \in HaAdmins :
                          Changes(q, n)' /\ haReq'[q].called => pveGroup[n] = Target(haReq'[q])
                     /\ (\A q \in HaAdmins : ~(Changes(q, n)' /\ haReq'[q].called))
                          => pveGroup[n] = haRow[n].nodes
  BY DEF Agree, Target
<1>2. \A q \in HaAdmins : (Changes(q, n)' /\ haReq'[q].called)
                             <=> (Changes(q, n) /\ haReq[q].called)
  BY <1>1 DEF Changes
<1>3. \A q \in HaAdmins : Changes(q, n)' /\ haReq'[q].called => haReq'[q] = haReq[q]
  BY <1>1
<1>. QED
  BY <1>1, <1>2, <1>3 DEF Agree

\* A request that has not called Proxmox begins, or goes on without.
LEMMA QuietRequest ==
  ASSUME HaInv, NEW p \in HaAdmins, NEW r \in HaReq, haReq' = [haReq EXCEPT ![p] = r],
         UNCHANGED <<haRow, pveGroup, ruled, loose, present, managed>>,
         RequestHolds(r), haReq[p].called => haReq[p].op \notin GroupOps,
         r.called => r.op \notin GroupOps, Apart'
  PROVE  HaInv'
<1>1. /\ haReq' \in [HaAdmins -> HaReq] /\ haReq'[p] = r
      /\ \A q \in HaAdmins : q # p => haReq'[q] = haReq[q]
  BY OneRequest DEF HaInv
<1>2. AvailabilityTypeOK'
  BY <1>1 DEF HaInv, AvailabilityTypeOK
<1>3. Held'
  BY <1>1, HeldKept DEF HaInv
<1>4. Agree'
  BY <1>1, AgreeKept DEF HaInv, Changes
<1>. QED
  BY <1>2, <1>3, <1>4 DEF HaInv

-----------------------------------------------------------------------------
(* Requests begin *)

LEMMA BeginStep ==
  ASSUME HaInv, Served, NEW p \in HaAdmins, NEW op \in GroupOps, NEW n \in HaNames,
         NEW loaded \in HaRow, NEW row \in HaRow, HaBegin(p, op, n, loaded, row),
         haRow[n] = loaded, op = "create" => loaded = NoHaRow,
         op # "delete" => row.nodes \in NodeLists
  PROVE  HaInv'
<1>. DEFINE r == [NoHaReq EXCEPT !.op = op, !.name = n, !.loaded = loaded, !.row = row,
                                 !.alive = TRUE]
<1>1. /\ haReq[p] = NoHaReq /\ About(n) = {} /\ haReq' = [haReq EXCEPT ![p] = r]
      /\ UNCHANGED <<haRow, pveGroup, ruled, loose, present, managed>>
  BY DEF HaBegin, Served
<1>2. /\ r \in HaReq /\ r.op = op /\ r.name = n /\ r.loaded = loaded /\ r.row = row /\ r.alive
      /\ ~r.called
  <2>1. r \in HaReq
    BY AvailabilityNulls DEF HaReq, GroupOps
  <2>. QED
    BY <2>1, AvailabilityNulls DEF HaReq
<1>. HIDE DEF r
<1>3. /\ haReq'[p] = r /\ \A q \in HaAdmins : q # p => haReq'[q] = haReq[q]
  BY <1>1, <1>2, OneRequest DEF HaInv
<1>4. \A q \in HaAdmins : haReq[q].name # n /\ haReq[q].op # "sync"
  BY <1>1 DEF About
<1>5. Apart'
  <2>1. ASSUME NEW q \in HaAdmins, NEW s \in HaAdmins, NEW m \in HaNames,
               Changes(q, m)', Changes(s, m)'
        PROVE  q = s
    BY <1>2, <1>3, <1>4, <2>1 DEF HaInv, Apart, Changes
  <2>2. \A q \in HaAdmins : haReq'[q].op # "sync"
    BY <1>2, <1>3, <1>4 DEF GroupOps
  <2>. QED
    BY <2>1, <2>2 DEF Apart
<1>6. RequestHolds(r)
  BY <1>2 DEF RequestHolds, GroupOps
<1>. QED
  BY <1>1, <1>2, <1>5, <1>6, QuietRequest, AvailabilityNulls

LEMMA BeginSteps ==
  ASSUME HaInv, Served, NEW p \in HaAdmins, NEW n \in HaNames
  PROVE  /\ \A nodes \in NodeLists : ReadForHaCreate(p, n, nodes) => HaInv'
         /\ \A row \in [nodes : NodeLists, active : BOOLEAN] : ReadForHaUpdate(p, n, row) => HaInv'
         /\ ReadForHaDelete(p, n) => HaInv'
<1>1. haRow[n] \in HaRow
  BY DEF HaInv, AvailabilityTypeOK
<1>2. ASSUME NEW nodes \in NodeLists, ReadForHaCreate(p, n, nodes)
      PROVE  HaInv'
  <2>. DEFINE row == [nodes |-> nodes, active |-> TRUE]
  <2>1. row \in HaRow /\ row.nodes \in NodeLists
    BY DEF HaRow
  <2>2. HaBegin(p, "create", n, NoHaRow, row) /\ haRow[n] = NoHaRow
    BY <1>2 DEF ReadForHaCreate, HasRow
  <2>. HIDE DEF row
  <2>. QED
    BY <2>1, <2>2, BeginStep, AvailabilityNulls DEF GroupOps
<1>3. ASSUME NEW row \in [nodes : NodeLists, active : BOOLEAN], ReadForHaUpdate(p, n, row)
      PROVE  HaInv'
  <2>1. row \in HaRow /\ row.nodes \in NodeLists
    BY DEF HaRow
  <2>. QED
    BY <1>1, <1>3, <2>1, BeginStep DEF GroupOps, ReadForHaUpdate
<1>4. ASSUME ReadForHaDelete(p, n)
      PROVE  HaInv'
  BY <1>1, <1>4, BeginStep DEF GroupOps, ReadForHaDelete
<1>. QED
  BY <1>2, <1>3, <1>4

LEMMA OtherRequests ==
  ASSUME HaInv, Served, NEW p \in HaAdmins
  PROVE  /\ \A op \in {"enable", "disable"}, i \in HaInsts, n \in HaNames \union {NoHaName} :
              ReadForHa(p, op, i, n) => HaInv'
         /\ \A answered \in BOOLEAN : ListHaGroups(p, answered) => HaInv'
         /\ \A n \in HaNames : LookForHaRow(p, n) => HaInv'
<1>1. ASSUME NEW op \in {"enable", "disable"}, NEW i \in HaInsts, NEW n \in HaNames \union {NoHaName},
             ReadForHa(p, op, i, n)
      PROVE  HaInv'
  <2>. DEFINE r == [NoHaReq EXCEPT !.op = op, !.name = n, !.inst = i]
  <2>1. /\ haReq[p] = NoHaReq /\ haReq' = [haReq EXCEPT ![p] = r]
        /\ UNCHANGED <<haRow, pveGroup, ruled, loose, present, managed>>
    BY <1>1 DEF ReadForHa
  <2>2. r \in HaReq
    BY AvailabilityNulls DEF HaReq
  <2>3. r.op = op /\ r.inst = i /\ ~r.called
    BY <2>2, AvailabilityNulls DEF HaReq
  <2>. HIDE DEF r
  <2>4. /\ haReq'[p] = r /\ \A q \in HaAdmins : q # p => haReq'[q] = haReq[q]
    BY <2>1, <2>2, OneRequest DEF HaInv
  <2>5. Apart'
    BY <2>3, <2>4, ApartKept DEF HaInv, GroupOps
  <2>6. RequestHolds(r)
    BY <2>3 DEF RequestHolds, GroupOps
  <2>. QED
    BY <2>1, <2>2, <2>3, <2>5, <2>6, QuietRequest, AvailabilityNulls
<1>2. ASSUME NEW answered \in BOOLEAN, ListHaGroups(p, answered)
      PROVE  HaInv'
  <2>. DEFINE seen == Listed(answered)
              r == [NoHaReq EXCEPT !.op = "sync", !.called = TRUE, !.add = pveGroup, !.seen = seen]
  <2>1. /\ haReq' = [haReq EXCEPT ![p] = r] /\ \A q \in HaAdmins : haReq[q] = NoHaReq
        /\ UNCHANGED <<haRow, pveGroup, ruled, loose, present, managed>>
    BY <1>2 DEF ListHaGroups, Served
  <2>2. seen \in SUBSET HaNames /\ seen \subseteq {n \in HaNames : HasGroup(n)}
    BY DEF Listed
  <2>. HIDE DEF seen
  <2>3. r \in HaReq
    BY <2>2, AvailabilityNulls DEF HaReq, HaInv, AvailabilityTypeOK
  <2>4. r.op = "sync" /\ r.called /\ r.add = pveGroup /\ r.seen = seen
    BY <2>3, AvailabilityNulls DEF HaReq
  <2>. HIDE DEF r
  <2>5. /\ haReq'[p] = r /\ \A q \in HaAdmins : q # p => haReq'[q] = NoHaReq
    BY <2>1, <2>3, OneRequest DEF HaInv
  <2>6. Apart'
    BY <2>4, <2>5, AvailabilityNulls DEF Apart, Changes, GroupOps
  <2>7. RequestHolds(r)
    BY <2>2, <2>4 DEF RequestHolds, GroupOps
  <2>. QED
    BY <2>1, <2>3, <2>4, <2>6, <2>7, QuietRequest, AvailabilityNulls DEF GroupOps
<1>3. ASSUME NEW n \in HaNames, LookForHaRow(p, n)
      PROVE  HaInv'
  <2>. DEFINE seen == haReq[p].seen \ {n}
              r == [haReq[p] EXCEPT !.seen = seen]
  <2>1. /\ haReq' = [haReq EXCEPT ![p] = r] /\ haReq[p].op = "sync"
        /\ UNCHANGED <<haRow, pveGroup, ruled, loose, present, managed>>
    BY <1>3 DEF LookForHaRow
  <2>2. haReq[p] \in HaReq /\ RequestHolds(haReq[p])
    BY DEF HaInv, AvailabilityTypeOK, Held
  <2>3. seen \in SUBSET HaNames /\ seen \subseteq haReq[p].seen
    BY <2>2 DEF HaReq
  <2>. HIDE DEF seen
  <2>4. r \in HaReq
    BY <2>2, <2>3 DEF HaReq
  <2>5. /\ r.op = "sync" /\ r.called = haReq[p].called /\ r.add = haReq[p].add /\ r.seen = seen
        /\ r.name = haReq[p].name
    BY <2>1, <2>2 DEF HaReq
  <2>. HIDE DEF r
  <2>6. /\ haReq'[p] = r /\ \A q \in HaAdmins : q # p => haReq'[q] = haReq[q]
    BY <2>1, <2>4, OneRequest DEF HaInv
  <2>7. Apart'
    BY <2>1, <2>5, <2>6, ApartKept DEF HaInv
  <2>8. RequestHolds(r)
    BY <2>1, <2>2, <2>3, <2>5 DEF RequestHolds, GroupOps
  <2>. QED
    BY <2>1, <2>4, <2>5, <2>7, <2>8, QuietRequest DEF GroupOps
<1>. QED
  BY <1>1, <1>2, <1>3

-----------------------------------------------------------------------------
(* Proxmox is called *)

LEMMA EndedStep ==
  ASSUME HaInv, NEW p \in HaAdmins, HaEnd(p), ~(haReq[p].called /\ haReq[p].op \in GroupOps),
         UNCHANGED <<haRow, pveGroup, ruled, loose, present, managed>>
  PROVE  HaInv'
<1>1. haReq' = [haReq EXCEPT ![p] = NoHaReq]
  BY DEF HaEnd
<1>2. /\ haReq'[p] = NoHaReq /\ \A q \in HaAdmins : q # p => haReq'[q] = haReq[q]
  BY <1>1, AvailabilityNulls, OneRequest DEF HaInv
<1>3. Apart'
  BY <1>2, AvailabilityNulls, ApartKept DEF HaInv, GroupOps
<1>4. RequestHolds(NoHaReq)
  BY AvailabilityNulls DEF RequestHolds, GroupOps
<1>. QED
  BY <1>1, <1>3, <1>4, AvailabilityNulls, QuietRequest

\* After the call, Proxmox has what the request asked for, or PAWS does not have
\* the group to itself.
LEMMA CalledStep ==
  ASSUME HaInv, NEW p \in HaAdmins, NEW n \in HaNames, Changes(p, n), ~haReq[p].called,
         HaCalled(p), loose' = loose \/ loose' = loose \union {n},
         \/ UNCHANGED pveGroup
         \/ \E x \in NodeLists \union {NoNodes} : pveGroup' = [pveGroup EXCEPT ![n] = x],
         n \in loose' \/ pveGroup'[n] = Target(haReq[p]),
         UNCHANGED <<haRow, ruled, present, managed>>
  PROVE  HaInv'
<1>. DEFINE r == [haReq[p] EXCEPT !.called = TRUE]
<1>0. haReq[p] \in HaReq /\ RequestHolds(haReq[p]) /\ haReq[p].op \in GroupOps
  BY DEF HaInv, AvailabilityTypeOK, Held, Changes
<1>1. r \in HaReq
  BY <1>0 DEF HaReq
<1>2. /\ r.op = haReq[p].op /\ r.name = haReq[p].name /\ r.loaded = haReq[p].loaded
      /\ r.row = haReq[p].row /\ r.alive = haReq[p].alive /\ r.called
  BY <1>0 DEF HaReq
<1>3. haReq' = [haReq EXCEPT ![p] = r]
  BY DEF HaCalled
<1>. HIDE DEF r
<1>4. /\ haReq' \in [HaAdmins -> HaReq] /\ haReq'[p] = r
      /\ \A q \in HaAdmins : q # p => haReq'[q] = haReq[q]
  BY <1>1, <1>3, OneRequest DEF HaInv
<1>5. /\ pveGroup' \in [HaNames -> NodeLists \union {NoNodes}]
      /\ \A m \in HaNames : m # n => pveGroup'[m] = pveGroup[m]
  BY DEF HaInv, AvailabilityTypeOK
<1>6. AvailabilityTypeOK'
  BY <1>4, <1>5 DEF HaInv, AvailabilityTypeOK
<1>7. Apart'
  BY <1>2, <1>4, ApartKept DEF HaInv
<1>8. Held'
  <2>1. SUFFICES ASSUME NEW q \in HaAdmins PROVE RequestHolds(haReq[q])'
    BY DEF Held
  <2>2. CASE q = p
    BY <1>0, <1>2, <1>4, <2>2 DEF RequestHolds, GroupOps
  <2>3. CASE q # p
    <3>1. haReq[q].op # "sync" /\ RequestHolds(haReq[q])
      BY <1>0, <2>3 DEF HaInv, Apart, Held
    <3>. QED
      BY <1>4, <2>3, <3>1 DEF RequestHolds
  <2>. QED
    BY <2>2, <2>3
<1>9. Agree'
  <2>1. SUFFICES ASSUME NEW m \in HaNames \ loose'
                PROVE  /\ \A q \in HaAdmins :
                            Changes(q, m)' /\ haReq'[q].called => pveGroup'[m] = Target(haReq'[q])
                       /\ (\A q \in HaAdmins : ~(Changes(q, m)' /\ haReq'[q].called))
                            => pveGroup'[m] = haRow[m].nodes
    BY DEF Agree, Target
  <2>2. CASE m = n
    <3>1. Changes(p, n)' /\ haReq'[p].called /\ Target(haReq'[p]) = Target(haReq[p])
      BY <1>2, <1>4 DEF Changes, Target
    <3>2. \A q \in HaAdmins : Changes(q, n)' => q = p
      BY <1>7, <3>1 DEF Apart
    <3>. QED
      BY <2>1, <2>2, <3>1, <3>2
  <2>3. CASE m # n
    <3>1. m \in HaNames \ loose /\ pveGroup'[m] = pveGroup[m]
      BY <1>5, <2>1, <2>3
    <3>2. \A q \in HaAdmins : /\ Changes(q, m)' <=> Changes(q, m)
                              /\ Changes(q, m) => haReq'[q] = haReq[q]
      BY <1>2, <1>4, <2>3 DEF Changes
    <3>. QED
      BY <3>1, <3>2 DEF HaInv, Agree
  <2>. QED
    BY <2>2, <2>3
<1>. QED
  BY <1>6, <1>7, <1>8, <1>9 DEF HaInv

LEMMA CallSteps ==
  ASSUME HaInv, NEW p \in HaAdmins
  PROVE  /\ CallHaCreate(p) => HaInv'
         /\ CallHaUpdate(p) => HaInv'
         /\ CallHaDelete(p) => HaInv'
         /\ CallHa(p) => HaInv'
<1>. DEFINE n == haReq[p].name
<1>0. /\ haReq[p] \in HaReq /\ RequestHolds(haReq[p])
      /\ haReq[p].op \in GroupOps => n \in HaNames /\ Changes(p, n)
  BY DEF HaInv, AvailabilityTypeOK, Held, RequestHolds, Changes
<1>9. pveGroup \in [HaNames -> NodeLists \union {NoNodes}]
  BY DEF HaInv, AvailabilityTypeOK
<1>1. ASSUME CallHaCreate(p)
      PROVE  HaInv'
  <2>0. haReq[p].op = "create" /\ ~haReq[p].called /\ n \in HaNames /\ Changes(p, n)
        /\ haReq[p].row.nodes \in NodeLists /\ Target(haReq[p]) = haReq[p].row.nodes
    BY <1>0, <1>1 DEF CallHaCreate, GroupOps, RequestHolds, Target
  <2>1. CASE HaCalled(p) /\ loose' = loose \union {n} /\ UNCHANGED pveGroup
    BY <1>1, <2>0, <2>1, CalledStep DEF CallHaCreate
  <2>2. CASE /\ HaCalled(p) /\ UNCHANGED loose
             /\ pveGroup' = [pveGroup EXCEPT ![n] = haReq[p].row.nodes]
    <3>1. pveGroup'[n] = Target(haReq[p])
      BY <1>9, <2>0, <2>2
    <3>. QED
      BY <1>1, <2>0, <2>2, <3>1, CalledStep DEF CallHaCreate
  <2>3. CASE HaEnd(p) /\ UNCHANGED <<pveGroup, loose>>
    BY <1>1, <2>0, <2>3, EndedStep DEF CallHaCreate
  <2>. QED
    BY <1>1, <2>1, <2>2, <2>3 DEF CallHaCreate
<1>2. ASSUME CallHaUpdate(p)
      PROVE  HaInv'
  <2>0. /\ haReq[p].op = "update" /\ ~haReq[p].called /\ n \in HaNames /\ Changes(p, n)
        /\ haReq[p].row.nodes \in NodeLists /\ Target(haReq[p]) = haReq[p].row.nodes
        /\ haRow[n] = haReq[p].loaded
    BY <1>0, <1>2 DEF CallHaUpdate, GroupOps, RequestHolds, Target
  <2>1. CASE /\ HaCalled(p) /\ UNCHANGED pveGroup
             /\ loose' = IF haReq[p].row.nodes = haReq[p].loaded.nodes THEN loose
                         ELSE loose \union {n}
    <3>1. n \in loose' \/ pveGroup'[n] = Target(haReq[p])
      <4>1. CASE n \in loose \/ haReq[p].row.nodes # haReq[p].loaded.nodes
        BY <2>1, <4>1
      <4>2. CASE n \notin loose /\ haReq[p].row.nodes = haReq[p].loaded.nodes
        <5>1. \A q \in HaAdmins : ~(Changes(q, n) /\ haReq[q].called)
          BY <2>0 DEF HaInv, Apart
        <5>2. pveGroup[n] = haRow[n].nodes
          BY <2>0, <4>2, <5>1 DEF HaInv, Agree
        <5>. QED
          BY <2>0, <2>1, <4>2, <5>2
      <4>. QED
        BY <4>1, <4>2
    <3>. QED
      BY <1>2, <2>0, <2>1, <3>1, CalledStep DEF CallHaUpdate
  <2>2. CASE /\ HaCalled(p) /\ UNCHANGED loose
             /\ pveGroup' = [pveGroup EXCEPT ![n] = haReq[p].row.nodes]
    <3>1. pveGroup'[n] = Target(haReq[p])
      BY <1>9, <2>0, <2>2
    <3>. QED
      BY <1>2, <2>0, <2>2, <3>1, CalledStep DEF CallHaUpdate
  <2>3. CASE HaEnd(p) /\ UNCHANGED <<pveGroup, loose>>
    BY <1>2, <2>0, <2>3, EndedStep DEF CallHaUpdate
  <2>. QED
    BY <1>2, <2>1, <2>2, <2>3 DEF CallHaUpdate
<1>3. ASSUME CallHaDelete(p)
      PROVE  HaInv'
  <2>0. /\ haReq[p].op = "delete" /\ ~haReq[p].called /\ n \in HaNames /\ Changes(p, n)
        /\ Target(haReq[p]) = NoNodes
    BY <1>0, <1>3 DEF CallHaDelete, GroupOps, Target
  <2>1. CASE HaCalled(p) /\ loose' = loose \union {n} /\ UNCHANGED pveGroup
    BY <1>3, <2>0, <2>1, CalledStep DEF CallHaDelete
  <2>2. CASE HaCalled(p) /\ UNCHANGED loose /\ pveGroup' = [pveGroup EXCEPT ![n] = NoNodes]
    <3>1. pveGroup'[n] = Target(haReq[p])
      BY <1>9, <2>0, <2>2
    <3>. QED
      BY <1>3, <2>0, <2>2, <3>1, CalledStep DEF CallHaDelete
  <2>3. CASE HaEnd(p) /\ UNCHANGED <<pveGroup, loose>>
    BY <1>3, <2>0, <2>3, EndedStep DEF CallHaDelete
  <2>. QED
    BY <1>3, <2>1, <2>2, <2>3 DEF CallHaDelete
<1>4. ASSUME CallHa(p)
      PROVE  HaInv'
  <2>0. /\ haReq[p].op \in {"enable", "disable"} /\ ~haReq[p].called /\ haReq[p].inst \in HaInsts
        /\ haReq[p].op \notin GroupOps
    BY <1>0, <1>4 DEF CallHa, GroupOps, RequestHolds
  <2>1. managed' \in [HaInsts -> HaNames \union {NoHaName, "no"}]
    BY <1>0, <1>4, <2>0 DEF CallHa, HaInv, AvailabilityTypeOK, HaReq
  <2>2. /\ haReq' = [haReq EXCEPT ![p] = NoHaReq]
        /\ UNCHANGED <<haRow, pveGroup, ruled, loose, present>>
    BY <1>4 DEF CallHa, HaEnd
  <2>3. /\ haReq' \in [HaAdmins -> HaReq] /\ haReq'[p] = NoHaReq
        /\ \A q \in HaAdmins : q # p => haReq'[q] = haReq[q]
    BY <2>2, AvailabilityNulls, OneRequest DEF HaInv
  <2>4. AvailabilityTypeOK'
    BY <2>1, <2>2, <2>3 DEF HaInv, AvailabilityTypeOK
  <2>5. Apart'
    BY <2>3, AvailabilityNulls, ApartKept DEF HaInv, GroupOps
  <2>6. Held'
    <3>1. RequestHolds(NoHaReq)
      BY AvailabilityNulls DEF RequestHolds, GroupOps
    <3>. QED
      BY <2>2, <2>3, <3>1, HeldKept DEF HaInv
  <2>7. Agree'
    <3>1. \A q \in HaAdmins, m \in HaNames : \/ haReq'[q] = haReq[q]
                                             \/ /\ ~(Changes(q, m) /\ haReq[q].called)
                                                /\ ~(Changes(q, m)' /\ haReq'[q].called)
      BY <2>0, <2>3, AvailabilityNulls DEF Changes
    <3>. QED
      BY <2>2, <3>1, AgreeKept DEF HaInv
  <2>. QED
    BY <2>4, <2>5, <2>6, <2>7 DEF HaInv
<1>. QED
  BY <1>1, <1>2, <1>3, <1>4

-----------------------------------------------------------------------------
(* Rows are written *)

\* The row of a request that commits has the nodes that Proxmox was asked for.
LEMMA RowWritten ==
  ASSUME HaInv, NEW p \in HaAdmins, CommitHa(p)
  PROVE  LET n == haReq[p].name IN
         /\ n \in HaNames /\ Changes(p, n) /\ haReq[p].called
         /\ haRow' \in [HaNames -> HaRow] /\ \A m \in HaNames : m # n => haRow'[m] = haRow[m]
         /\ haRow'[n].nodes = Target(haReq[p])
         /\ haRow'[n].active => haRow'[n].nodes # NoNodes
<1>. DEFINE n == haReq[p].name
<1>0. /\ haReq[p] \in HaReq /\ RequestHolds(haReq[p]) /\ haReq[p].op \in GroupOps
      /\ haReq[p].called /\ n \in HaNames /\ Changes(p, n) /\ haRow[n] = haReq[p].loaded
      /\ haReq[p].alive /\ haRow[n] \in HaRow
  <2>1. haReq[p] \in HaReq /\ RequestHolds(haReq[p]) /\ haReq[p].op \in GroupOps /\ haReq[p].called
    BY DEF CommitHa, HaInv, AvailabilityTypeOK, Held, GroupOps
  <2>. QED
    BY <2>1 DEF RequestHolds, Changes, HaInv, AvailabilityTypeOK
<1>1. ASSUME NEW new \in HaRow, haRow' = [haRow EXCEPT ![n] = new], new.nodes = Target(haReq[p]),
             new.active => new.nodes # NoNodes
      PROVE  /\ haRow' \in [HaNames -> HaRow] /\ \A m \in HaNames : m # n => haRow'[m] = haRow[m]
             /\ haRow'[n].nodes = Target(haReq[p])
             /\ haRow'[n].active => haRow'[n].nodes # NoNodes
  BY <1>0, <1>1 DEF HaInv, AvailabilityTypeOK
<1>2. CASE haReq[p].op = "create"
  <2>1. haRow' = [haRow EXCEPT ![n] = haReq[p].row]
    BY <1>0, <1>2 DEF CommitHa, HasRow, RequestHolds, GroupOps
  <2>2. haReq[p].row \in HaRow /\ haReq[p].row.nodes \in NodeLists
    BY <1>0, <1>2 DEF HaReq, RequestHolds
  <2>. QED
    BY <1>0, <1>1, <1>2, <2>1, <2>2, AvailabilityNulls DEF Target
<1>3. CASE haReq[p].op = "update"
  <2>1. haRow' = [haRow EXCEPT ![n] = Updated(p)]
    BY <1>3 DEF CommitHa
  <2>2. haReq[p].row \in HaRow /\ haReq[p].row.nodes \in NodeLists
    BY <1>0, <1>3 DEF HaReq, RequestHolds
  <2>. DEFINE nodes == IF haReq[p].row.nodes = haReq[p].loaded.nodes THEN haRow[n].nodes
                       ELSE haReq[p].row.nodes
              active == IF haReq[p].row.active = haReq[p].loaded.active THEN haRow[n].active
                        ELSE haReq[p].row.active
  <2>3. Updated(p) = [nodes |-> nodes, active |-> active]
    BY <1>0 DEF Updated
  <2>4. nodes = haReq[p].row.nodes /\ active \in BOOLEAN
    BY <1>0, <2>2 DEF HaRow
  <2>. HIDE DEF nodes, active
  <2>5. Updated(p) \in HaRow /\ Updated(p).nodes = haReq[p].row.nodes
    BY <2>2, <2>3, <2>4 DEF HaRow
  <2>. QED
    BY <1>0, <1>1, <1>3, <2>1, <2>2, <2>5, AvailabilityNulls DEF Target
<1>4. CASE haReq[p].op = "delete"
  <2>1. haRow' = [haRow EXCEPT ![n] = NoHaRow]
    BY <1>0, <1>4 DEF CommitHa
  <2>. QED
    BY <1>0, <1>1, <1>4, <2>1, AvailabilityNulls DEF Target
<1>. QED
  BY <1>0, <1>2, <1>3, <1>4 DEF GroupOps

LEMMA CommitStep ==
  ASSUME HaInv, NEW p \in HaAdmins, CommitHa(p)
  PROVE  HaInv'
<1>. DEFINE n == haReq[p].name
<1>1. /\ n \in HaNames /\ Changes(p, n) /\ haReq[p].called
      /\ haRow' \in [HaNames -> HaRow] /\ \A m \in HaNames : m # n => haRow'[m] = haRow[m]
      /\ haRow'[n].nodes = Target(haReq[p])
      /\ haRow'[n].active => haRow'[n].nodes # NoNodes
      /\ UNCHANGED <<pveGroup, ruled, loose, present, managed>>
  BY RowWritten DEF CommitHa
<1>2. haReq' = [q \in HaAdmins |->
                  IF q = p THEN NoHaReq
                  ELSE IF haReq[p].op = "delete" /\ haReq[q].name = n
                  THEN [haReq[q] EXCEPT !.alive = FALSE] ELSE haReq[q]]
  BY DEF CommitHa
<1>3. haReq'[p] = NoHaReq
  BY <1>2
<1>4. ASSUME NEW q \in HaAdmins, q # p
      PROVE  /\ haReq'[q] \in HaReq /\ haReq'[q].op = haReq[q].op /\ haReq'[q].name = haReq[q].name
             /\ haReq'[q].called = haReq[q].called /\ haReq'[q].inst = haReq[q].inst
             /\ haReq[q].op # "sync"
             /\ haReq[q].op \in GroupOps => haReq'[q] = haReq[q] /\ haReq[q].name # n
  <2>1. haReq[q] \in HaReq
    BY DEF HaInv, AvailabilityTypeOK
  <2>2. haReq'[q] = haReq[q] \/ haReq'[q] = [haReq[q] EXCEPT !.alive = FALSE]
    BY <1>2, <1>4
  <2>3. haReq[q].op # "sync"
    BY <1>1, <1>4 DEF HaInv, Apart, Changes
  <2>4. haReq[q].op \in GroupOps => haReq[q].name # n
    BY <1>1, <1>4 DEF HaInv, Apart, Changes
  <2>5. haReq[q].op \in GroupOps => haReq'[q] = haReq[q]
    BY <1>2, <1>4, <2>4
  <2>. QED
    BY <2>1, <2>2, <2>3, <2>4, <2>5 DEF HaReq
<1>5. haReq' \in [HaAdmins -> HaReq]
  BY <1>2, <1>3, <1>4, AvailabilityNulls
<1>6. AvailabilityTypeOK'
  BY <1>1, <1>5 DEF HaInv, AvailabilityTypeOK
<1>7. Apart'
  BY <1>3, <1>4, AvailabilityNulls, ApartKept DEF HaInv, GroupOps
<1>8. Held'
  <2>1. SUFFICES ASSUME NEW q \in HaAdmins PROVE RequestHolds(haReq[q])'
    BY DEF Held
  <2>2. CASE q = p
    BY <1>3, <2>2, AvailabilityNulls DEF RequestHolds, GroupOps
  <2>3. CASE q # p
    <3>1. RequestHolds(haReq[q])
      BY DEF HaInv, Held
    <3>2. CASE haReq[q].op \in GroupOps
      BY <1>1, <1>4, <2>3, <3>1, <3>2 DEF RequestHolds, GroupOps
    <3>3. CASE haReq[q].op \notin GroupOps
      BY <1>4, <2>3, <3>1, <3>3 DEF RequestHolds
    <3>. QED
      BY <3>2, <3>3
  <2>. QED
    BY <2>2, <2>3
<1>9. Agree'
  <2>1. SUFFICES ASSUME NEW m \in HaNames \ loose
                PROVE  /\ \A q \in HaAdmins :
                            Changes(q, m)' /\ haReq'[q].called => pveGroup[m] = Target(haReq'[q])
                       /\ (\A q \in HaAdmins : ~(Changes(q, m)' /\ haReq'[q].called))
                            => pveGroup[m] = haRow'[m].nodes
    BY <1>1 DEF Agree, Target
  <2>2. CASE m = n
    <3>1. pveGroup[n] = Target(haReq[p])
      BY <1>1, <2>1, <2>2 DEF HaInv, Agree
    <3>2. \A q \in HaAdmins : ~Changes(q, m)'
      BY <1>3, <1>4, <2>2, AvailabilityNulls DEF Changes, GroupOps
    <3>. QED
      BY <1>1, <2>2, <3>1, <3>2
  <2>3. CASE m # n
    <3>1. \A q \in HaAdmins : /\ Changes(q, m)' <=> Changes(q, m)
                              /\ Changes(q, m) => haReq'[q] = haReq[q]
      BY <1>1, <1>3, <1>4, <2>3, AvailabilityNulls DEF Changes, GroupOps
    <3>. QED
      BY <1>1, <2>1, <2>3, <3>1 DEF HaInv, Agree
  <2>. QED
    BY <2>2, <2>3
<1>. QED
  BY <1>6, <1>7, <1>8, <1>9 DEF HaInv

LEMMA SyncStep ==
  ASSUME HaInv, NEW p \in HaAdmins, CommitHaSync(p)
  PROVE  HaInv'
<1>. DEFINE r == haReq[p]
<1>1. /\ r \in HaReq /\ r.op = "sync" /\ r.add = pveGroup /\ r.seen \subseteq HaNames
      /\ \A n \in r.seen : pveGroup[n] \in NodeLists
  BY DEF CommitHaSync, HaInv, AvailabilityTypeOK, Held, RequestHolds, HaReq, HasGroup, GroupOps
<1>2. /\ loose' = {n \in loose : n \notin r.seen \/ r.add[n] # haRow'[n].nodes}
      /\ HaEnd(p) /\ UNCHANGED <<pveGroup, ruled, present, managed>>
  BY DEF CommitHaSync
<1>3. /\ haReq' \in [HaAdmins -> HaReq] /\ haReq'[p] = NoHaReq
      /\ \A q \in HaAdmins : q # p => haReq'[q] = haReq[q]
  BY <1>2, AvailabilityNulls, OneRequest DEF HaInv, HaEnd
<1>4. ASSUME NEW n \in HaNames
      PROVE  /\ haRow'[n] \in HaRow
             /\ haRow'[n].active => haRow'[n].nodes # NoNodes
             /\ haRow'[n] = haRow[n] \/ (n \in r.seen /\ haRow'[n].nodes = pveGroup[n])
  <2>0. haRow[n] \in HaRow /\ (haRow[n].active => haRow[n].nodes # NoNodes)
    BY DEF HaInv, AvailabilityTypeOK
  <2>1. CASE \E m \in r.seen : HasRow(m)
    BY <2>0, <2>1 DEF CommitHaSync, HaInv, AvailabilityTypeOK
  <2>2. CASE ~\E m \in r.seen : HasRow(m)
    <3>1. haRow'[n] = IF n \in r.seen THEN [nodes |-> r.add[n], active |-> TRUE] ELSE haRow[n]
      BY <2>2 DEF CommitHaSync
    <3>2. CASE n \in r.seen
      BY <1>1, <3>1, <3>2, AvailabilityNulls DEF HaRow
    <3>3. CASE n \notin r.seen
      BY <2>0, <3>1, <3>3 DEF HaInv, AvailabilityTypeOK
    <3>. QED
      BY <3>2, <3>3
  <2>. QED
    BY <2>1, <2>2
<1>5. haRow' \in [HaNames -> HaRow]
  <2>1. CASE \E m \in r.seen : HasRow(m)
    BY <2>1 DEF CommitHaSync, HaInv, AvailabilityTypeOK
  <2>2. CASE ~\E m \in r.seen : HasRow(m)
    <3>1. haRow' = [n \in HaNames |-> IF n \in r.seen THEN [nodes |-> r.add[n], active |-> TRUE]
                                      ELSE haRow[n]]
      BY <2>2 DEF CommitHaSync
    <3>2. haRow' = [n \in HaNames |-> haRow'[n]]
      BY <3>1
    <3>3. \A n \in HaNames : haRow'[n] \in HaRow
      BY <1>4
    <3>. QED
      BY <3>2, <3>3
  <2>. QED
    BY <2>1, <2>2
<1>6. AvailabilityTypeOK'
  BY <1>2, <1>3, <1>4, <1>5 DEF HaInv, AvailabilityTypeOK
<1>7. Apart'
  BY <1>3, AvailabilityNulls, ApartKept DEF HaInv, GroupOps
<1>8. \A q \in HaAdmins : q # p => haReq[q].op \notin GroupOps \union {"sync"}
  BY <1>1 DEF HaInv, Apart
<1>9. Held'
  <2>1. SUFFICES ASSUME NEW q \in HaAdmins PROVE RequestHolds(haReq[q])'
    BY DEF Held
  <2>2. CASE q = p
    BY <1>3, <2>2, AvailabilityNulls DEF RequestHolds, GroupOps
  <2>3. CASE q # p
    BY <1>3, <1>8, <2>3 DEF HaInv, Held, RequestHolds
  <2>. QED
    BY <2>2, <2>3
<1>10. Agree'
  <2>1. \A q \in HaAdmins, n \in HaNames : ~Changes(q, n) /\ ~Changes(q, n)'
    BY <1>1, <1>3, <1>8, AvailabilityNulls DEF Changes, GroupOps
  <2>2. SUFFICES ASSUME NEW n \in HaNames, n \notin loose'
                PROVE  pveGroup[n] = haRow'[n].nodes
    BY <1>2, <2>1 DEF Agree
  <2>3. CASE n \in loose
    BY <1>1, <1>2, <2>2, <2>3
  <2>4. CASE n \notin loose
    <3>1. pveGroup[n] = haRow[n].nodes
      BY <2>1, <2>4 DEF HaInv, Agree
    <3>. QED
      BY <1>4, <3>1
  <2>. QED
    BY <2>3, <2>4
<1>. QED
  BY <1>6, <1>7, <1>9, <1>10 DEF HaInv

LEMMA CrashStep ==
  ASSUME HaInv, HaCrash
  PROVE  HaInv'
<1>1. /\ \A q \in HaAdmins : haReq'[q] = NoHaReq
      /\ haReq' \in [HaAdmins -> HaReq]
      /\ UNCHANGED <<haRow, pveGroup, ruled, present, managed>>
      /\ loose' = loose \union {n \in HaNames : \E p \in HaAdmins :
                                   haReq[p].name = n /\ haReq[p].called}
  BY AvailabilityNulls DEF HaCrash
<1>2. AvailabilityTypeOK'
  BY <1>1 DEF HaInv, AvailabilityTypeOK
<1>3. Apart'
  BY <1>1, AvailabilityNulls, ApartKept DEF HaInv, GroupOps
<1>4. Held'
  BY <1>1, AvailabilityNulls DEF Held, RequestHolds, GroupOps
<1>5. Agree'
  <2>1. \A q \in HaAdmins, n \in HaNames : ~Changes(q, n)'
    BY <1>1, AvailabilityNulls DEF Changes, GroupOps
  <2>2. SUFFICES ASSUME NEW n \in HaNames, n \notin loose'
                PROVE  pveGroup[n] = haRow[n].nodes
    BY <1>1, <2>1 DEF Agree
  <2>3. n \notin loose /\ \A q \in HaAdmins : ~(Changes(q, n) /\ haReq[q].called)
    BY <1>1, <2>2 DEF Changes
  <2>. QED
    BY <2>3 DEF HaInv, Agree
<1>. QED
  BY <1>2, <1>3, <1>4, <1>5 DEF HaInv

LEMMA HaStays ==
  ASSUME HaInv, UNCHANGED <<haRow, pveGroup, ruled, loose, haReq, managed>>, present' \subseteq HaInsts
  PROVE  HaInv'
<1>1. AvailabilityTypeOK'
  BY DEF HaInv, AvailabilityTypeOK
<1>2. Apart'
  BY ApartKept DEF HaInv
<1>3. Held'
  BY DEF HaInv, Held, RequestHolds, HasGroup
<1>4. Agree'
  BY AgreeKept DEF HaInv
<1>. QED
  BY <1>1, <1>2, <1>3, <1>4 DEF HaInv

LEMMA HaStep ==
  ASSUME HaInv, Served, [AvailabilityNext]_haVars
  PROVE  HaInv'
<1>p. present \subseteq HaInsts
  BY DEF HaInv, AvailabilityTypeOK
<1>1. ASSUME NEW i \in HaInsts, HoldInstance(i) \/ TerminateInstance(i)
      PROVE  HaInv'
  <2>1. /\ present' = present \union {i} \/ present' = present \ {i}
        /\ UNCHANGED <<haRow, pveGroup, ruled, loose, haReq, managed>>
    BY <1>1 DEF HoldInstance, TerminateInstance
  <2>. QED
    BY <1>p, <2>1, HaStays
<1>2. ~\E n \in HaNames, nodes \in NodeLists \union {NoNodes} : ForeignGroup(n, nodes)
  BY DEF ForeignGroup, Served
<1>3. CASE UNCHANGED haVars
  BY <1>p, <1>3, HaStays DEF haVars
<1>4. CASE AvailabilityNext
  BY <1>1, <1>2, <1>4, BeginSteps, OtherRequests, CallSteps, CommitStep, SyncStep, CrashStep
  DEF AvailabilityNext
<1>. QED
  BY <1>3, <1>4

-----------------------------------------------------------------------------
(***************************************************************************)
(* As long as requests about one group do not meet, and nobody else        *)
(* changes groups: the types hold, and an active row has nodes             *)
(* (routers/admin_ha.py).                                                  *)
(***************************************************************************)
THEOREM AvailabilityTyped ==
  ASSUME HaFaults \subseteq {"crash"}
  PROVE  AvailabilitySpec => []AvailabilityTypeOK
<1>1. HaInv /\ [AvailabilityNext]_haVars => HaInv'
  BY HaStep DEF Served
<1>2. HaInv => AvailabilityTypeOK
  BY DEF HaInv
<1>. QED
  BY <1>1, <1>2, HaStart, PTL DEF AvailabilitySpec

(***************************************************************************)
(* Under the same assumption: between the requests, whatever Proxmox       *)
(* refuses and whenever the API dies, a group that PAWS has to itself has  *)
(* the nodes of its row in Proxmox (admin_ha.py, create, update, delete    *)
(* and sync).                                                              *)
(***************************************************************************)
THEOREM RowsAgreeWithProxmox ==
  ASSUME HaFaults \subseteq {"crash"}
  PROVE  AvailabilitySpec => []GroupsAgree
<1>1. HaInv /\ [AvailabilityNext]_haVars => HaInv'
  BY HaStep DEF Served
<1>2. HaInv => GroupsAgree
  <2>. SUFFICES ASSUME HaInv, NEW n \in HaNames \ loose, \A p \in About(n) : ~haReq[p].called
                PROVE  pveGroup[n] = haRow[n].nodes
    BY DEF GroupsAgree
  <2>1. \A p \in HaAdmins : ~(Changes(p, n) /\ haReq[p].called)
    BY DEF Changes, About
  <2>. QED
    BY <2>1 DEF HaInv, Agree
<1>. QED
  BY <1>1, <1>2, HaStart, PTL DEF AvailabilitySpec
=============================================================================
