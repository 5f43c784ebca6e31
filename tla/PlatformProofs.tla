---------------------------- MODULE PlatformProofs ----------------------------
(***************************************************************************)
(* The components that meet in the database and in Proxmox, for any users, *)
(* instances, connections, requests and limits: what hangs on an instance, *)
(* what a review leaves behind, the registry of the clusters, and the      *)
(* types of all of them.                                                   *)
(***************************************************************************)
EXTENDS MCPlatform, FiniteSetTheorems, SequenceTheorems, WellFoundedInduction, TLAPS

-----------------------------------------------------------------------------
(* Dependents *)

-----------------------------------------------------------------------------
(* Types and the foreign key *)

\* A row names an instance, and so does a request that will insert one.
KeysKnown ==
    /\ \A r \in RowIds : child[r] # NoChild => child[r].machine \in Machines
    /\ \A p \in Clerks : clerk[p].op = "insert" => clerk[p].machine \in Machines

DependentsTypeInv == DependentsTypeOK /\ KeysKnown

LEMMA NullsTyped ==
    /\ NoChild \in Child /\ NoClerk \in Clerk /\ NoMachineRow \in Machine
    /\ NoChild.table = "none" /\ NoChild.holder = NoHolder /\ NoChild.machine = NoMachine
    /\ NoClerk.op = "none" /\ NoMachineRow.status = "none"
BY DEF NoChild, NoClerk, NoMachineRow, Child, Clerk, Machine

LEMMA DependentsTypeStarts == DependentsInit => DependentsTypeInv
<1>. SUFFICES ASSUME DependentsInit PROVE DependentsTypeInv
  OBVIOUS
<1>1. /\ machine = [m \in Machines |-> NoMachineRow]
      /\ child = [r \in RowIds |-> NoChild]
      /\ files = [u \in Holders |-> 0] /\ dumps = [u \in Holders |-> 0]
      /\ clerk = [p \in Clerks |-> NoClerk]
  BY DEF DependentsInit
<1>2. DependentsTypeOK
  BY <1>1, NullsTyped DEF DependentsTypeOK
<1>3. KeysKnown
  BY <1>1, NullsTyped DEF KeysKnown
<1>. QED
  BY <1>2, <1>3 DEF DependentsTypeInv

\* The parts of the invariant.
MachinesTyped == machine \in [Machines -> Machine]
FilesTyped == files \in [Holders -> Nat] /\ dumps \in [Holders -> Nat]
ClerksTyped ==
    /\ clerk \in [Clerks -> Clerk]
    /\ \A p \in Clerks : clerk[p].op = "insert" => clerk[p].machine \in Machines
RowsTyped ==
    /\ child \in [RowIds -> Child]
    /\ \A r \in RowIds : child[r] # NoChild =>
         child[r].machine \in Machines /\ machine[child[r].machine].status # "none"

LEMMA TypeParts ==
  DependentsTypeInv <=> MachinesTyped /\ FilesTyped /\ ClerksTyped /\ RowsTyped
BY DEF DependentsTypeInv, DependentsTypeOK, KeysKnown, MachinesTyped, FilesTyped, ClerksTyped,
       RowsTyped

\* A request that begins, and one that ends.
LEMMA BeginTyped ==
  ASSUME clerk \in [Clerks -> Clerk], NEW p \in Clerks,
         NEW op \in {"insert", "dump", "delete", "review"},
         NEW t \in Tables \union {"none"}, NEW u \in Holders \union {NoHolder},
         NEW m \in Machines \union {NoMachine}, NEW rest \in SUBSET RowIds,
         Begin(p, op, t, u, m, rest)
  PROVE  /\ clerk' \in [Clerks -> Clerk]
         /\ clerk'[p].op = op /\ clerk'[p].machine = m
         /\ clerk'[p].table = t /\ clerk'[p].holder = u
         /\ \A q \in Clerks : q # p => clerk'[q] = clerk[q]
         /\ ClerksTyped /\ (op = "insert" => m \in Machines) => ClerksTyped'
         /\ op # "insert" => \A q \in Clerks : clerk'[q].op = "insert" => clerk'[q] = clerk[q]
<1>. DEFINE c == [op |-> op, table |-> t, holder |-> u, machine |-> m, rows |-> rest]
<1>1. c \in Clerk
  BY DEF Clerk
<1>2. clerk' = [clerk EXCEPT ![p] = c]
  BY DEF Begin
<1>3. c.op = op /\ c.machine = m /\ c.table = t /\ c.holder = u
  OBVIOUS
<1>. HIDE DEF c
<1>4. /\ clerk' \in [Clerks -> Clerk] /\ clerk'[p] = c
      /\ \A q \in Clerks : q # p => clerk'[q] = clerk[q]
  BY <1>1, <1>2
<1>. QED
  BY <1>3, <1>4 DEF ClerksTyped

LEMMA EndTyped ==
  ASSUME clerk \in [Clerks -> Clerk], NEW p \in Clerks, End(p)
  PROVE  /\ clerk' \in [Clerks -> Clerk] /\ clerk'[p] = NoClerk
         /\ \A q \in Clerks : q # p => clerk'[q] = clerk[q]
BY NullsTyped DEF End

LEMMA ClerksEnd ==
  ASSUME ClerksTyped, NEW p \in Clerks, End(p)
  PROVE  ClerksTyped'
BY EndTyped, NullsTyped DEF ClerksTyped

\* Rows keep their instances while those keep their rows.
LEMMA RowsStay ==
  ASSUME RowsTyped, UNCHANGED child,
         \A m \in Machines : machine[m].status # "none" => machine'[m].status # "none"
  PROVE  RowsTyped'
BY DEF RowsTyped

\* Rows that go, or change their status only, leave the others alone.
LEMMA RowsChange ==
  ASSUME RowsTyped, UNCHANGED machine, child' \in [RowIds -> Child],
         \A r \in RowIds : \/ child'[r] = NoChild \/ child'[r] = child[r]
                           \/ child[r] # NoChild /\ child'[r].machine = child[r].machine
  PROVE  RowsTyped'
BY DEF RowsTyped

LEMMA DependentsTypeStep ==
  ASSUME DependentsTypeInv, [DependentsNext]_dependentsVars
  PROVE  DependentsTypeInv'
<1>. USE DependentsConstants
<1>t. MachinesTyped /\ FilesTyped /\ ClerksTyped /\ RowsTyped
  BY TypeParts
<1>0. SUFFICES MachinesTyped' /\ FilesTyped' /\ ClerksTyped' /\ RowsTyped'
  BY DEF DependentsTypeInv, DependentsTypeOK, KeysKnown, MachinesTyped, FilesTyped, ClerksTyped,
         RowsTyped
<1>m. UNCHANGED machine => MachinesTyped'
  BY <1>t DEF MachinesTyped
<1>l. UNCHANGED <<files, dumps>> => FilesTyped'
  BY <1>t DEF FilesTyped
<1>k. UNCHANGED clerk => ClerksTyped'
  BY <1>t DEF ClerksTyped
<1>r. UNCHANGED <<machine, child>> => RowsTyped'
  BY <1>t DEF RowsTyped
<1>1. ASSUME NEW p \in Clerks, NEW u \in Holders, NEW m \in Machines, NEW t \in Tables,
             ReadForChild(p, u, m, t)
      PROVE  MachinesTyped' /\ FilesTyped' /\ ClerksTyped' /\ RowsTyped'
  <2>1. Begin(p, "insert", t, u, m, {}) /\ UNCHANGED <<machine, child, files, dumps>>
    BY <1>1 DEF ReadForChild
  <2>2. ClerksTyped'
    BY <1>t, <2>1, BeginTyped DEF ClerksTyped
  <2>. QED
    BY <1>m, <1>l, <1>r, <2>1, <2>2
<1>2. ASSUME NEW p \in Clerks, NEW r \in RowIds, CommitChild(p, r)
      PROVE  MachinesTyped' /\ FilesTyped' /\ ClerksTyped' /\ RowsTyped'
  <2>. DEFINE c == clerk[p]
              row == [table |-> c.table, holder |-> c.holder, machine |-> c.machine,
                      status |-> FirstStatus(c.table)]
  <2>1. c \in Clerk /\ c.machine \in Machines /\ UNCHANGED <<machine, files, dumps>>
    BY <1>t, <1>2 DEF CommitChild, ClerksTyped
  <2>2. row \in Child /\ row.machine = c.machine
    BY <2>1 DEF Clerk, Child, FirstStatus
  <2>3. CASE /\ machine[c.machine].status # "none"
             /\ child' = [child EXCEPT ![r] = row]
             /\ clerk' = [q \in Clerks |-> IF q = p THEN NoClerk
                                           ELSE [clerk[q] EXCEPT !.rows = @ \ {r}]]
    <3>1. \A q \in Clerks : [clerk[q] EXCEPT !.rows = @ \ {r}] \in Clerk
      BY <1>t DEF ClerksTyped, Clerk
    <3>2. \A q \in Clerks : /\ [clerk[q] EXCEPT !.rows = @ \ {r}].op = clerk[q].op
                            /\ [clerk[q] EXCEPT !.rows = @ \ {r}].machine = clerk[q].machine
      BY <1>t DEF ClerksTyped, Clerk
    <3>3. ClerksTyped'
      BY <1>t, <2>3, <3>1, <3>2, NullsTyped DEF ClerksTyped
    <3>. HIDE DEF row
    <3>4. RowsTyped'
      BY <1>t, <2>1, <2>2, <2>3 DEF RowsTyped
    <3>. QED
      BY <1>m, <1>l, <2>1, <3>3, <3>4
  <2>4. CASE End(p) /\ UNCHANGED child
    BY <1>t, <1>m, <1>l, <1>r, <2>1, <2>4, ClerksEnd
  <2>. QED
    BY <1>2, <2>3, <2>4 DEF CommitChild
<1>3. ASSUME NEW u \in Holders, NEW r \in RowIds, NEW status \in {"on", "off"},
             SwitchChild(u, r, status)
      PROVE  MachinesTyped' /\ FilesTyped' /\ ClerksTyped' /\ RowsTyped'
  <2>. DEFINE row == [child[r] EXCEPT !.status = status]
  <2>1. /\ child' = [child EXCEPT ![r] = row]
        /\ UNCHANGED <<machine, files, dumps, clerk>> /\ child[r].holder = u
    BY <1>3 DEF SwitchChild
  <2>2. child[r] # NoChild
    BY <2>1, NullsTyped
  <2>3. row \in Child /\ row.machine = child[r].machine
    BY <1>t DEF RowsTyped, Child
  <2>. HIDE DEF row
  <2>4. child' \in [RowIds -> Child]
    BY <1>t, <2>1, <2>3 DEF RowsTyped
  <2>5. RowsTyped'
    BY <1>t, <2>1, <2>2, <2>3, <2>4, RowsChange DEF RowsTyped
  <2>. QED
    BY <1>m, <1>l, <1>k, <2>1, <2>5
<1>4. ASSUME NEW u \in Holders, NEW r \in RowIds, DropChild(u, r)
      PROVE  MachinesTyped' /\ FilesTyped' /\ ClerksTyped' /\ RowsTyped'
  <2>1. /\ child' = [child EXCEPT ![r] = NoChild]
        /\ UNCHANGED <<machine, files, dumps, clerk>>
    BY <1>4 DEF DropChild
  <2>2. child' \in [RowIds -> Child]
    BY <1>t, <2>1, NullsTyped DEF RowsTyped
  <2>3. RowsTyped'
    BY <1>t, <2>1, <2>2, RowsChange DEF RowsTyped
  <2>. QED
    BY <1>m, <1>l, <1>k, <2>1, <2>3
<1>5. ASSUME NEW p \in Clerks, NEW r \in RowIds, ReadForReview(p, r)
      PROVE  MachinesTyped' /\ FilesTyped' /\ ClerksTyped' /\ RowsTyped'
  <2>1. /\ Begin(p, "review", "templates", NoHolder, child[r].machine, {r})
        /\ UNCHANGED <<machine, child, files, dumps>>
    BY <1>5 DEF ReadForReview
  <2>2. child[r].machine \in Machines \union {NoMachine} /\ "templates" \in Tables
    BY <1>t DEF RowsTyped, Child, Tables
  <2>3. ClerksTyped'
    BY <1>t, <2>1, <2>2, BeginTyped DEF ClerksTyped
  <2>. QED
    BY <1>m, <1>l, <1>r, <2>1, <2>3
<1>6. ASSUME NEW p \in Clerks, NEW approved \in BOOLEAN, CommitReview(p, approved)
      PROVE  MachinesTyped' /\ FilesTyped' /\ ClerksTyped' /\ RowsTyped'
  <2>. DEFINE live == clerk[p].rows \ {r \in RowIds : child[r] = NoChild}
              word == IF approved THEN "converting" ELSE "rejected"
              next == IF approved /\ live # {} THEN [clerk[p] EXCEPT !.op = "convert"] ELSE NoClerk
  <2>1. /\ child' = [r \in RowIds |-> IF r \notin live THEN child[r]
                                      ELSE [child[r] EXCEPT !.status = word]]
        /\ clerk' = [clerk EXCEPT ![p] = next]
        /\ UNCHANGED <<machine, files, dumps>>
    BY <1>6 DEF CommitReview
  <2>2. word \in {"converting", "rejected"}
    OBVIOUS
  <2>3. \A r \in RowIds : /\ [child[r] EXCEPT !.status = word] \in Child
                          /\ [child[r] EXCEPT !.status = word].machine = child[r].machine
    BY <1>t, <2>2 DEF RowsTyped, Child
  <2>4. \A r \in RowIds : r \in live => child[r] # NoChild
    OBVIOUS
  <2>5. next \in Clerk /\ next.op # "insert"
    BY <1>t, NullsTyped DEF ClerksTyped, Clerk
  <2>. HIDE DEF live, word, next
  <2>6. child' \in [RowIds -> Child]
    BY <1>t, <2>1, <2>3 DEF RowsTyped
  <2>7. RowsTyped'
    BY <1>t, <2>1, <2>3, <2>4, <2>6, RowsChange
  <2>8. ClerksTyped'
    BY <1>t, <2>1, <2>5 DEF ClerksTyped
  <2>. QED
    BY <1>m, <1>l, <2>1, <2>7, <2>8
<1>7. ASSUME NEW p \in Clerks, NEW accepted \in BOOLEAN, Convert(p, accepted)
      PROVE  MachinesTyped' /\ FilesTyped' /\ ClerksTyped' /\ RowsTyped'
  <2>. DEFINE m == clerk[p].machine
              live == clerk[p].rows \ {r \in RowIds : child[r] = NoChild}
  <2>1. End(p) /\ UNCHANGED <<files, dumps>>
    BY <1>7 DEF Convert
  <2>2. m \in Machines \union {NoMachine}
    BY <1>t DEF ClerksTyped, Clerk
  <2>3. CASE accepted
    <3>1. child' = [r \in RowIds |-> child[r]]
      BY <1>7, <2>3 DEF Convert
    <3>2. child' = child
      BY <1>t, <3>1 DEF RowsTyped
    <3>3. CASE RowsOf(m) = {}
      <4>1. machine' = [machine EXCEPT ![m] = NoMachineRow]
        BY <1>7, <2>3, <3>3 DEF Convert
      <4>2. \A r \in RowIds : child[r].machine # m
        BY <3>3 DEF RowsOf
      <4>3. MachinesTyped'
        BY <1>t, <4>1, NullsTyped DEF MachinesTyped
      <4>4. RowsTyped'
        BY <1>t, <3>2, <4>1, <4>2 DEF RowsTyped, MachinesTyped
      <4>. QED
        BY <1>t, <1>l, <2>1, <4>3, <4>4, ClerksEnd
    <3>4. CASE RowsOf(m) # {}
      <4>1. machine' = [machine EXCEPT ![m].guest = "template"]
        BY <1>7, <2>3, <3>4 DEF Convert
      <4>2. MachinesTyped' /\ \A x \in Machines : machine'[x].status = machine[x].status
        BY <1>t, <4>1 DEF MachinesTyped, Machine
      <4>3. RowsTyped'
        BY <1>t, <3>2, <4>2, RowsStay
      <4>. QED
        BY <1>t, <1>l, <2>1, <4>2, <4>3, ClerksEnd
    <3>. QED
      BY <3>3, <3>4
  <2>4. CASE ~accepted
    <3>1. /\ machine' = machine
          /\ child' = [r \in RowIds |-> IF r \notin live THEN child[r]
                                        ELSE [child[r] EXCEPT !.status = "failed"]]
      BY <1>7, <2>4 DEF Convert
    <3>2. \A r \in RowIds : /\ [child[r] EXCEPT !.status = "failed"] \in Child
                            /\ [child[r] EXCEPT !.status = "failed"].machine = child[r].machine
      BY <1>t DEF RowsTyped, Child
    <3>3. \A r \in RowIds : r \in live => child[r] # NoChild
      OBVIOUS
    <3>. HIDE DEF live
    <3>4. child' \in [RowIds -> Child]
      BY <1>t, <3>1, <3>2 DEF RowsTyped
    <3>5. RowsTyped'
      BY <1>t, <3>1, <3>2, <3>3, <3>4, RowsChange
    <3>. QED
      BY <1>t, <1>m, <1>l, <2>1, <3>1, <3>5, ClerksEnd
  <2>. QED
    BY <2>3, <2>4
<1>8. ASSUME NEW p \in Clerks, NEW u \in Holders, NEW m \in Machines, ReadForDump(p, u, m)
      PROVE  MachinesTyped' /\ FilesTyped' /\ ClerksTyped' /\ RowsTyped'
  <2>1. Begin(p, "dump", "none", u, m, {}) /\ UNCHANGED <<machine, child, files, dumps>>
    BY <1>8 DEF ReadForDump
  <2>2. ClerksTyped'
    BY <1>t, <2>1, BeginTyped DEF ClerksTyped
  <2>. QED
    BY <1>m, <1>l, <1>r, <2>1, <2>2
<1>9. ASSUME NEW p \in Clerks, CommitDump(p)
      PROVE  MachinesTyped' /\ FilesTyped' /\ ClerksTyped' /\ RowsTyped'
  <2>1. End(p) /\ UNCHANGED <<machine, child, files>>
    BY <1>9 DEF CommitDump
  <2>2. dumps' \in [Holders -> Nat]
    BY <1>9, <1>t DEF CommitDump, FilesTyped
  <2>. QED
    BY <1>t, <1>m, <1>r, <2>1, <2>2, ClerksEnd DEF FilesTyped
<1>10. ASSUME NEW u \in Holders, NEW done \in BOOLEAN, EndDump(u, done)
       PROVE  MachinesTyped' /\ FilesTyped' /\ ClerksTyped' /\ RowsTyped'
  BY <1>t, <1>m, <1>k, <1>r, <1>10 DEF EndDump, FilesTyped
<1>11. ASSUME NEW u \in Holders, DeleteFile(u)
       PROVE  MachinesTyped' /\ FilesTyped' /\ ClerksTyped' /\ RowsTyped'
  BY <1>t, <1>m, <1>k, <1>r, <1>11 DEF DeleteFile, FilesTyped
<1>12. ASSUME NEW u \in Holders, NEW m \in Machines, Own(u, m)
       PROVE  MachinesTyped' /\ FilesTyped' /\ ClerksTyped' /\ RowsTyped'
  <2>. DEFINE row == [status |-> "held", owner |-> u, guest |-> "up"]
  <2>1. machine' = [machine EXCEPT ![m] = row] /\ UNCHANGED <<child, files, dumps, clerk>>
    BY <1>12 DEF Own
  <2>2. row \in Machine /\ row.status # "none"
    BY DEF Machine
  <2>. HIDE DEF row
  <2>3. MachinesTyped' /\ \A x \in Machines : machine[x].status # "none" => machine'[x].status # "none"
    BY <1>t, <2>1, <2>2 DEF MachinesTyped
  <2>. QED
    BY <1>t, <1>l, <1>k, <2>1, <2>3, RowsStay
<1>13. ASSUME NEW u \in Holders, NEW m \in Machines, GiveAway(m, u)
       PROVE  MachinesTyped' /\ FilesTyped' /\ ClerksTyped' /\ RowsTyped'
  <2>1. machine' = [machine EXCEPT ![m].owner = u] /\ UNCHANGED <<child, files, dumps, clerk>>
    BY <1>13 DEF GiveAway
  <2>2. MachinesTyped' /\ \A x \in Machines : machine'[x].status = machine[x].status
    BY <1>t, <2>1 DEF MachinesTyped, Machine
  <2>. QED
    BY <1>t, <1>l, <1>k, <2>1, <2>2, RowsStay
<1>14. ASSUME NEW m \in Machines, DestroyIdle(m)
       PROVE  MachinesTyped' /\ FilesTyped' /\ ClerksTyped' /\ RowsTyped'
  <2>1. /\ machine' = [machine EXCEPT ![m].status = "destroyed", ![m].guest = "gone"]
        /\ UNCHANGED <<child, files, dumps, clerk>>
    BY <1>14 DEF DestroyIdle
  <2>2. MachinesTyped'
    BY <1>t, <2>1 DEF MachinesTyped, Machine
  <2>3. \A x \in Machines : machine[x].status # "none" => machine'[x].status # "none"
    BY <1>t, <2>1 DEF MachinesTyped, Machine
  <2>. QED
    BY <1>t, <1>l, <1>k, <2>1, <2>2, <2>3, RowsStay
<1>15. ASSUME NEW p \in Clerks, NEW m \in Machines, NEW gone \in BOOLEAN,
              ReadForDelete(p, m, gone)
       PROVE  MachinesTyped' /\ FilesTyped' /\ ClerksTyped' /\ RowsTyped'
  <2>1. /\ machine' = IF gone THEN [machine EXCEPT ![m].guest = "gone"] ELSE machine
        /\ Begin(p, "delete", "none", NoHolder, m, Cleaned(m))
        /\ UNCHANGED <<child, files, dumps>>
    BY <1>15 DEF ReadForDelete
  <2>2. MachinesTyped' /\ \A x \in Machines : machine'[x].status = machine[x].status
    BY <1>t, <2>1 DEF MachinesTyped, Machine
  <2>3. Cleaned(m) \in SUBSET RowIds
    BY DEF Cleaned, RowsOf
  <2>4. ClerksTyped'
    BY <1>t, <2>1, <2>3, BeginTyped DEF ClerksTyped
  <2>. QED
    BY <1>t, <1>l, <2>1, <2>2, <2>4, RowsStay
<1>16. ASSUME NEW p \in Clerks, CommitDelete(p)
       PROVE  MachinesTyped' /\ FilesTyped' /\ ClerksTyped' /\ RowsTyped'
  <2>. DEFINE m == clerk[p].machine
  <2>1. End(p) /\ UNCHANGED <<files, dumps>>
    BY <1>16 DEF CommitDelete
  <2>2. CASE DeleteFits(p)
    <3>1. /\ machine' = [machine EXCEPT ![m] = NoMachineRow]
          /\ child' = [r \in RowIds |-> IF r \in RowsOf(m) THEN NoChild ELSE child[r]]
      BY <1>16, <2>2 DEF CommitDelete
    <3>2. MachinesTyped'
      BY <1>t, <3>1, NullsTyped DEF MachinesTyped
    <3>3. child' \in [RowIds -> Child]
      BY <1>t, <3>1, NullsTyped DEF RowsTyped
    <3>4. \A r \in RowIds : child'[r] # NoChild => child'[r] = child[r] /\ child[r].machine # m
      BY <3>1 DEF RowsOf
    <3>5. RowsTyped'
      BY <1>t, <3>1, <3>3, <3>4 DEF RowsTyped, MachinesTyped
    <3>. QED
      BY <1>t, <1>l, <2>1, <3>2, <3>5, ClerksEnd
  <2>3. CASE ~DeleteFits(p)
    BY <1>t, <1>m, <1>l, <1>r, <1>16, <2>1, <2>3, ClerksEnd DEF CommitDelete
  <2>. QED
    BY <2>2, <2>3
<1>17. ASSUME NEW m \in Machines, Unlink(m)
       PROVE  MachinesTyped' /\ FilesTyped' /\ ClerksTyped' /\ RowsTyped'
  <2>1. /\ machine' = [machine EXCEPT ![m] = NoMachineRow]
        /\ UNCHANGED <<child, files, dumps, clerk>>
        /\ \A r \in RowIds : child[r].machine # m
    BY <1>17 DEF Unlink, RowsOf
  <2>2. MachinesTyped'
    BY <1>t, <2>1, NullsTyped DEF MachinesTyped
  <2>3. RowsTyped'
    BY <1>t, <2>1 DEF RowsTyped, MachinesTyped
  <2>. QED
    BY <1>l, <1>k, <2>1, <2>2, <2>3
<1>18. CASE UNCHANGED dependentsVars
  BY <1>m, <1>l, <1>k, <1>r, <1>18 DEF dependentsVars
<1>. QED
  BY <1>1, <1>2, <1>3, <1>4, <1>5, <1>6, <1>7, <1>8, <1>9, <1>10, <1>11, <1>12, <1>13, <1>14,
     <1>15, <1>16, <1>17, <1>18 DEF DependentsNext

\* Types, and the foreign key on the instance, whatever requests do at once.
THEOREM DependentsTyped == DependentsSpec => []DependentsTypeOK
<1>1. DependentsTypeInv => DependentsTypeOK
  BY DEF DependentsTypeInv
<1>2. DependentsTypeInv /\ [DependentsNext]_dependentsVars => DependentsTypeInv'
  BY DependentsTypeStep
<1>. QED
  BY <1>1, <1>2, DependentsTypeStarts, PTL DEF DependentsSpec

-----------------------------------------------------------------------------
(* The limits *)

LEMMA FiniteParts ==
  ASSUME NEW t \in Limited, NEW u \in Holders
  PROVE  /\ IsFiniteSet(RowsIn(t, u)) /\ IsFiniteSet(Inserting(t, u))
         /\ Cardinality(RowsIn(t, u)) \in Nat /\ Cardinality(Inserting(t, u)) \in Nat
         /\ Cardinality(Clerks) \in Nat
         /\ Cardinality(Inserting(t, u)) <= Cardinality(Clerks)
<1>1. RowsIn(t, u) \in SUBSET RowIds /\ Inserting(t, u) \in SUBSET Clerks
  BY DEF RowsIn, Inserting
<1>2. IsFiniteSet(RowIds) /\ IsFiniteSet(Clerks)
  BY DependentsConstants
<1>3. IsFiniteSet(RowsIn(t, u)) /\ IsFiniteSet(Inserting(t, u))
      /\ Cardinality(Inserting(t, u)) <= Cardinality(Clerks)
  BY <1>1, <1>2, FS_Subset
<1>. QED
  BY <1>2, <1>3, FS_CardinalityType

\* No row and no insertion that was not there before.
LEMMA NothingNew ==
  ASSUME RowsPromised,
         \A r \in RowIds : child'[r].table \in Limited =>
           child[r].table = child'[r].table /\ child[r].holder = child'[r].holder,
         \A p \in Clerks : clerk'[p].op = "insert" =>
           /\ clerk[p].op = "insert"
           /\ clerk[p].table = clerk'[p].table /\ clerk[p].holder = clerk'[p].holder
  PROVE  RowsPromised'
<1>. SUFFICES ASSUME NEW u \in Holders, NEW t \in Limited
              PROVE  Cardinality(RowsIn(t, u)') + Cardinality(Inserting(t, u)')
                       < MaxRows + Cardinality(Clerks)
  BY DEF RowsPromised
<1>1. RowsIn(t, u)' \subseteq RowsIn(t, u) /\ Inserting(t, u)' \subseteq Inserting(t, u)
  BY DEF RowsIn, Inserting
<1>. DEFINE R == RowsIn(t, u)
            I == Inserting(t, u)
            S == RowsIn(t, u)'
            J == Inserting(t, u)'
<1>2. Cardinality(R) + Cardinality(I) < MaxRows + Cardinality(Clerks)
  BY DEF RowsPromised
<1>3. IsFiniteSet(R) /\ IsFiniteSet(I) /\ Cardinality(R) \in Nat /\ Cardinality(I) \in Nat
  BY FiniteParts
<1>4. Cardinality(Clerks) \in Nat /\ MaxRows \in Nat
  BY FiniteParts, DependentsConstants
<1>. HIDE DEF R, I, S, J
<1>5. S \in SUBSET R /\ J \in SUBSET I
  BY <1>1 DEF R, I, S, J
<1>6. IsFiniteSet(S) /\ IsFiniteSet(J) /\ Cardinality(S) <= Cardinality(R)
      /\ Cardinality(J) <= Cardinality(I)
  BY <1>3, <1>5, FS_Subset
<1>7. Cardinality(S) \in Nat /\ Cardinality(J) \in Nat
  BY <1>6, FS_CardinalityType
<1>8. Cardinality(S) + Cardinality(J) < MaxRows + Cardinality(Clerks)
  BY <1>2, <1>3, <1>4, <1>6, <1>7
<1>. QED
  BY <1>8 DEF S, J

LEMMA PromisedStarts == DependentsInit => RowsPromised
<1>. SUFFICES ASSUME DependentsInit, NEW u \in Holders, NEW t \in Limited
              PROVE  Cardinality(RowsIn(t, u)) + Cardinality(Inserting(t, u))
                       < MaxRows + Cardinality(Clerks)
  BY DEF RowsPromised
<1>1. RowsIn(t, u) = {}
  BY NullsTyped DEF DependentsInit, RowsIn, Limited
<1>2. Inserting(t, u) = {}
  BY NullsTyped DEF DependentsInit, Inserting
<1>. QED
  BY <1>1, <1>2, FiniteParts, FS_EmptySet, DependentsConstants

\* A count below the limit promises a row: one request more, and no more of
\* them than there are.
LEMMA CountPromises ==
  ASSUME DependentsTypeInv, RowsPromised, NEW p \in Clerks, NEW w \in Holders, NEW m \in Machines,
         NEW table \in Tables, ReadForChild(p, w, m, table)
  PROVE  RowsPromised'
<1>. SUFFICES ASSUME NEW u \in Holders, NEW t \in Limited
              PROVE  Cardinality(RowsIn(t, u)') + Cardinality(Inserting(t, u)')
                       < MaxRows + Cardinality(Clerks)
  BY DEF RowsPromised
<1>1. clerk \in [Clerks -> Clerk]
  BY TypeParts DEF ClerksTyped
<1>2. /\ clerk'[p].op = "insert" /\ clerk'[p].table = table /\ clerk'[p].holder = w
      /\ \A q \in Clerks : q # p => clerk'[q] = clerk[q]
  BY <1>1, BeginTyped DEF ReadForChild
<1>3. clerk[p].op = "none" /\ UNCHANGED child /\ BelowLimit(table, w)
  BY NullsTyped DEF ReadForChild, Begin
<1>4. RowsIn(t, u)' = RowsIn(t, u)
  BY <1>3 DEF RowsIn
<1>5. CASE t = table /\ u = w
  <2>1. Cardinality(RowsIn(t, u)) < MaxRows
    BY <1>3, <1>5 DEF BelowLimit
  <2>2. Inserting(t, u)' \in SUBSET Clerks
    BY DEF Inserting
  <2>3. IsFiniteSet(Inserting(t, u)') /\ Cardinality(Inserting(t, u)') <= Cardinality(Clerks)
    BY <2>2, FS_Subset, DependentsConstants
  <2>4. Cardinality(Inserting(t, u)') \in Nat
    BY <2>3, FS_CardinalityType
  <2>. QED
    BY <1>4, <2>1, <2>3, <2>4, FiniteParts, DependentsConstants
<1>6. CASE ~(t = table /\ u = w)
  <2>1. Inserting(t, u)' = Inserting(t, u)
    BY <1>2, <1>3, <1>6 DEF Inserting
  <2>. QED
    BY <1>4, <2>1 DEF RowsPromised
<1>. QED
  BY <1>5, <1>6

\* The request that inserts keeps its promise.
LEMMA InsertKeepsPromise ==
  ASSUME DependentsTypeInv, RowsPromised, NEW p \in Clerks, NEW r \in RowIds, CommitChild(p, r)
  PROVE  RowsPromised'
<1>. DEFINE c == clerk[p]
            row == [table |-> c.table, holder |-> c.holder, machine |-> c.machine,
                    status |-> FirstStatus(c.table)]
<1>t. clerk \in [Clerks -> Clerk] /\ child \in [RowIds -> Child]
  BY TypeParts DEF ClerksTyped, RowsTyped
<1>1. c.op = "insert" /\ child[r] = NoChild
  BY DEF CommitChild
<1>2. CASE /\ child' = [child EXCEPT ![r] = row]
           /\ clerk' = [q \in Clerks |-> IF q = p THEN NoClerk
                                         ELSE [clerk[q] EXCEPT !.rows = @ \ {r}]]
  <2>. SUFFICES ASSUME NEW u \in Holders, NEW t \in Limited
                PROVE  Cardinality(RowsIn(t, u)') + Cardinality(Inserting(t, u)')
                         < MaxRows + Cardinality(Clerks)
    BY DEF RowsPromised
  <2>1. clerk'[p] = NoClerk
        /\ \A q \in Clerks : q # p =>
             /\ clerk'[q].op = clerk[q].op /\ clerk'[q].table = clerk[q].table
             /\ clerk'[q].holder = clerk[q].holder
    BY <1>t, <1>2 DEF Clerk
  <2>2. Inserting(t, u)' = Inserting(t, u) \ {p}
    BY <2>1, NullsTyped DEF Inserting
  <2>3. /\ child'[r].table = c.table /\ child'[r].holder = c.holder
        /\ \A s \in RowIds : s # r => child'[s] = child[s]
    BY <1>t, <1>2
  <2>4. /\ Cardinality(RowsIn(t, u)) + Cardinality(Inserting(t, u)) < MaxRows + Cardinality(Clerks)
        /\ IsFiniteSet(RowsIn(t, u)) /\ IsFiniteSet(Inserting(t, u))
        /\ Cardinality(RowsIn(t, u)) \in Nat /\ Cardinality(Inserting(t, u)) \in Nat
        /\ Cardinality(Clerks) \in Nat /\ MaxRows \in Nat
    BY FiniteParts, DependentsConstants DEF RowsPromised
  <2>5. r \notin RowsIn(t, u)
    BY <1>1, NullsTyped DEF RowsIn, Limited
  <2>6. CASE c.table = t /\ c.holder = u
    <3>1. RowsIn(t, u)' = RowsIn(t, u) \union {r}
      BY <2>3, <2>6 DEF RowsIn
    <3>2. p \in Inserting(t, u)
      BY <1>1, <2>6 DEF Inserting
    <3>3. Cardinality(RowsIn(t, u)') = Cardinality(RowsIn(t, u)) + 1
      BY <2>4, <2>5, <3>1, FS_AddElement
    <3>4. Cardinality(Inserting(t, u)') = Cardinality(Inserting(t, u)) - 1
      BY <2>2, <2>4, <3>2, FS_RemoveElement
    <3>. QED
      BY <2>4, <3>3, <3>4
  <2>7. CASE ~(c.table = t /\ c.holder = u)
    <3>1. RowsIn(t, u)' = RowsIn(t, u)
      BY <2>3, <2>5, <2>7 DEF RowsIn
    <3>2. Inserting(t, u)' = Inserting(t, u)
      BY <2>2, <2>7 DEF Inserting
    <3>. QED
      BY <2>4, <3>1, <3>2
  <2>. QED
    BY <2>6, <2>7
<1>3. CASE End(p) /\ UNCHANGED child
  <2>1. \A q \in Clerks : clerk'[q].op = "insert" => clerk'[q] = clerk[q]
    BY <1>t, <1>3, EndTyped, NullsTyped
  <2>. QED
    BY <1>3, <2>1, NothingNew
<1>. QED
  BY <1>2, <1>3 DEF CommitChild

LEMMA PromisedStep ==
  ASSUME DependentsTypeInv, RowsPromised, [DependentsNext]_dependentsVars
  PROVE  RowsPromised'
<1>t. clerk \in [Clerks -> Clerk] /\ child \in [RowIds -> Child]
  BY TypeParts DEF ClerksTyped, RowsTyped
\* What the other steps do to the rows, and to the requests.
<1>n. NoChild.table \notin Limited
  BY NullsTyped DEF Limited
<1>e. ASSUME NEW p \in Clerks, End(p)
      PROVE  \A q \in Clerks : clerk'[q].op = "insert" => clerk'[q] = clerk[q]
  BY <1>t, <1>e, EndTyped, NullsTyped
<1>1. ASSUME NEW u \in Holders, NEW r \in RowIds, NEW status \in {"on", "off"},
             SwitchChild(u, r, status)
      PROVE  RowsPromised'
  <2>1. /\ \A s \in RowIds : child'[s].table = child[s].table /\ child'[s].holder = child[s].holder
        /\ clerk' = clerk
    BY <1>t, <1>1 DEF SwitchChild, Child
  <2>. QED
    BY <2>1, NothingNew
<1>2. ASSUME NEW u \in Holders, NEW r \in RowIds, DropChild(u, r)
      PROVE  RowsPromised'
  <2>1. /\ \A s \in RowIds : child'[s] = NoChild \/ child'[s] = child[s]
        /\ clerk' = clerk
    BY <1>t, <1>2 DEF DropChild
  <2>. QED
    BY <1>n, <2>1, NothingNew
<1>3. ASSUME NEW p \in Clerks, NEW r \in RowIds, ReadForReview(p, r)
      PROVE  RowsPromised'
  <2>1. child[r].machine \in Machines \union {NoMachine} /\ "templates" \in Tables
    BY <1>t DEF Child, Tables
  <2>2. child' = child /\ \A q \in Clerks : clerk'[q].op = "insert" => clerk'[q] = clerk[q]
    BY <1>3, <1>t, <2>1, BeginTyped DEF ReadForReview
  <2>. QED
    BY <2>2, NothingNew
<1>4. ASSUME NEW p \in Clerks, NEW approved \in BOOLEAN, CommitReview(p, approved)
      PROVE  RowsPromised'
  <2>. DEFINE word == IF approved THEN "converting" ELSE "rejected"
  <2>1. \A r \in RowIds : child'[r] = child[r] \/ child'[r] = [child[r] EXCEPT !.status = word]
    BY <1>t, <1>4 DEF CommitReview
  <2>. HIDE DEF word
  <2>2. \A r \in RowIds : child'[r].table = child[r].table /\ child'[r].holder = child[r].holder
    BY <1>t, <2>1 DEF Child
  <2>3. clerk'[p].op # "insert" /\ \A q \in Clerks : q # p => clerk'[q] = clerk[q]
    BY <1>t, <1>4, NullsTyped DEF CommitReview, Clerk
  <2>. QED
    BY <2>2, <2>3, NothingNew
<1>5. ASSUME NEW p \in Clerks, NEW accepted \in BOOLEAN, Convert(p, accepted)
      PROVE  RowsPromised'
  <2>1. \A r \in RowIds : child'[r] = child[r] \/ child'[r] = [child[r] EXCEPT !.status = "failed"]
    BY <1>t, <1>5 DEF Convert
  <2>2. \A r \in RowIds : child'[r].table = child[r].table /\ child'[r].holder = child[r].holder
    BY <1>t, <2>1 DEF Child
  <2>3. \A q \in Clerks : clerk'[q].op = "insert" => clerk'[q] = clerk[q]
    BY <1>e, <1>5 DEF Convert
  <2>. QED
    BY <2>2, <2>3, NothingNew
<1>6. ASSUME NEW p \in Clerks, NEW u \in Holders, NEW m \in Machines, ReadForDump(p, u, m)
      PROVE  RowsPromised'
  <2>1. child' = child /\ \A q \in Clerks : clerk'[q].op = "insert" => clerk'[q] = clerk[q]
    BY <1>6, <1>t, BeginTyped DEF ReadForDump
  <2>. QED
    BY <2>1, NothingNew
<1>7. ASSUME NEW p \in Clerks, CommitDump(p)
      PROVE  RowsPromised'
  <2>1. child' = child /\ \A q \in Clerks : clerk'[q].op = "insert" => clerk'[q] = clerk[q]
    BY <1>7, <1>e DEF CommitDump
  <2>. QED
    BY <2>1, NothingNew
<1>8. ASSUME NEW p \in Clerks, NEW m \in Machines, NEW gone \in BOOLEAN, ReadForDelete(p, m, gone)
      PROVE  RowsPromised'
  <2>1. Cleaned(m) \in SUBSET RowIds
    BY DEF Cleaned, RowsOf
  <2>2. child' = child /\ \A q \in Clerks : clerk'[q].op = "insert" => clerk'[q] = clerk[q]
    BY <1>8, <1>t, <2>1, BeginTyped DEF ReadForDelete
  <2>. QED
    BY <2>2, NothingNew
<1>9. ASSUME NEW p \in Clerks, CommitDelete(p)
      PROVE  RowsPromised'
  <2>1. \A r \in RowIds : child'[r] = NoChild \/ child'[r] = child[r]
    BY <1>9 DEF CommitDelete
  <2>2. \A q \in Clerks : clerk'[q].op = "insert" => clerk'[q] = clerk[q]
    BY <1>9, <1>e DEF CommitDelete
  <2>. QED
    BY <1>n, <2>1, <2>2, NothingNew
\* The steps that touch neither.
<1>10. ASSUME UNCHANGED <<child, clerk>>
       PROVE  RowsPromised'
  BY <1>10, NothingNew
<1>. QED
  BY <1>1, <1>2, <1>3, <1>4, <1>5, <1>6, <1>7, <1>8, <1>9, <1>10, CountPromises, InsertKeepsPromise
  DEF DependentsNext, dependentsVars, EndDump, DeleteFile, Own, GiveAway, DestroyIdle, Unlink

(***************************************************************************)
(* However requests interleave and whatever is given away or deleted, a    *)
(* user's rows in a limited table stay below the limit and the number of   *)
(* requests at work together.                                              *)
(***************************************************************************)
THEOREM LimitsHold == DependentsSpec => []RowsWithinLimit
<1>1. RowsPromised => RowsWithinLimit
  <2>. SUFFICES ASSUME RowsPromised, NEW u \in Holders, NEW t \in Limited
                PROVE  Cardinality(RowsIn(t, u)) < MaxRows + Cardinality(Clerks)
    BY DEF RowsWithinLimit
  <2>1. Cardinality(RowsIn(t, u)) + Cardinality(Inserting(t, u)) < MaxRows + Cardinality(Clerks)
    BY DEF RowsPromised
  <2>. QED
    BY <2>1, FiniteParts, DependentsConstants
<1>2. DependentsTypeInv /\ RowsPromised /\ [DependentsNext]_dependentsVars
        => (DependentsTypeInv /\ RowsPromised)'
  BY DependentsTypeStep, PromisedStep
<1>. QED
  BY <1>1, <1>2, DependentsTypeStarts, PromisedStarts, PTL DEF DependentsSpec

-----------------------------------------------------------------------------
(* Reviews *)

-----------------------------------------------------------------------------
(* Types *)

\* A request that waits for its INSERT names the tier it asks for, and one that
\* is being decided has a row.
DeskKnown ==
    \A p \in Desks :
        /\ desk[p].op = "ask" => (desk[p].ask.kind = "tier" => desk[p].ask.tier # NoTier)
        /\ desk[p].op = "decide" => desk[p].id \in AskIds

ReviewsTypeInv == ReviewsTypeOK /\ DeskKnown

LEMMA NoDeskTyped == NoDesk \in Desk /\ NoDesk.op = "none" /\ NoDesk.id = NoAskId
                     /\ NoAsk \in Ask
BY ReviewsConstants DEF NoDesk, NoAsk, Desk, Ask, Quotas, TierOrNone

\* What a request holds that asks, and one that decides.
AskDesk(new) == [NoDesk EXCEPT !.op = "ask", !.ask = new]
DecideDesk(i) == [NoDesk EXCEPT !.op = "decide", !.id = i]

LEMMA Asking ==
  ASSUME NEW new \in Ask
  PROVE  /\ AskDesk(new) \in Desk
         /\ AskDesk(new).op = "ask" /\ AskDesk(new).ask = new /\ AskDesk(new).id = NoAskId
<1>1. NoDesk \in Desk
  BY NoDeskTyped
<1>2. AskDesk(new) \in Desk
  BY <1>1 DEF AskDesk, Desk
<1>. QED
  BY <1>2 DEF AskDesk, NoDesk

LEMMA Deciding ==
  ASSUME NEW i \in AskIds
  PROVE  DecideDesk(i) \in Desk /\ DecideDesk(i).op = "decide" /\ DecideDesk(i).id = i
<1>1. NoDesk \in Desk
  BY NoDeskTyped
<1>2. DecideDesk(i) \in Desk
  BY <1>1 DEF DecideDesk, Desk
<1>. QED
  BY <1>2 DEF DecideDesk, NoDesk

LEMMA ReviewsTypeStarts == ReviewsInit => ReviewsTypeInv
<1>. SUFFICES ASSUME ReviewsInit PROVE ReviewsTypeInv
  OBVIOUS
<1>1. /\ tiers = {}
      /\ quotaOf = [u \in Askers |-> 1] /\ tierOf = [u \in Askers |-> NoTier]
      /\ granted = [u \in Askers |-> [quota |-> 1, tier |-> NoTier]]
      /\ ask = [i \in AskIds |-> NoAsk] /\ desk = [p \in Desks |-> NoDesk]
      /\ catalog = [i \in Images |-> "none"]
  BY DEF ReviewsInit
<1>2. 1 \in Quotas /\ NoTier \in TierOrNone
  BY ReviewsConstants DEF Quotas, TierOrNone
<1>3. \A i \in AskIds : ask[i] = NoAsk /\ NoAsk.kind = "none"
  BY <1>1 DEF NoAsk
<1>4. ReviewsTypeOK
  BY <1>1, <1>2, <1>3, NoDeskTyped DEF ReviewsTypeOK
<1>5. DeskKnown
  BY <1>1, NoDeskTyped DEF DeskKnown
<1>. QED
  BY <1>4, <1>5 DEF ReviewsTypeInv

LEMMA ReviewsTypeStep == ReviewsTypeInv /\ [ReviewsNext]_reviewsVars => ReviewsTypeInv'
<1>. SUFFICES ASSUME ReviewsTypeInv, [ReviewsNext]_reviewsVars PROVE ReviewsTypeInv'
  OBVIOUS
<1>. USE ReviewsConstants
<1>t. /\ tiers \subseteq Tiers
      /\ quotaOf \in [Askers -> Quotas] /\ tierOf \in [Askers -> tiers \union {NoTier}]
      /\ granted \in [Askers -> [quota : Quotas, tier : TierOrNone]]
      /\ ask \in [AskIds -> Ask] /\ desk \in [Desks -> Desk]
      /\ \A i \in AskIds : ask[i].kind = "tier" => ask[i].tier \in tiers
      /\ catalog \in [Images -> {"none", "active", "inactive"}]
  BY DEF ReviewsTypeInv, ReviewsTypeOK
<1>k. DeskKnown
  BY DEF ReviewsTypeInv
<1>1. ASSUME NEW p \in Desks, NEW u \in Askers, NEW value \in Quotas, ReadForQuota(p, u, value)
      PROVE  ReviewsTypeInv'
  <2>. DEFINE new == [kind |-> "quota", asker |-> u, value |-> value, tier |-> NoTier,
                      status |-> "pending"]
              d == AskDesk(new)
  <2>1. new \in Ask /\ new.kind = "quota"
    BY DEF Ask, TierOrNone
  <2>2. d \in Desk /\ d.op = "ask" /\ d.ask = new
    BY <2>1, Asking
  <2>3. desk' = [desk EXCEPT ![p] = d] /\ UNCHANGED <<tiers, quotaOf, tierOf, granted, ask, catalog>>
    BY <1>1 DEF ReadForQuota, AskDesk
  <2>4. ReviewsTypeOK'
    BY <1>t, <2>2, <2>3 DEF ReviewsTypeOK
  <2>5. DeskKnown'
    BY <1>t, <1>k, <2>1, <2>2, <2>3 DEF DeskKnown
  <2>. QED
    BY <2>4, <2>5 DEF ReviewsTypeInv
<1>2. ASSUME NEW p \in Desks, NEW u \in Askers, NEW t \in Tiers, ReadForTier(p, u, t)
      PROVE  ReviewsTypeInv'
  <2>. DEFINE new == [kind |-> "tier", asker |-> u, value |-> 1, tier |-> t,
                      status |-> "pending"]
              d == AskDesk(new)
  <2>1. new \in Ask /\ new.tier # NoTier
    BY DEF Ask, TierOrNone, Quotas
  <2>2. d \in Desk /\ d.op = "ask" /\ d.ask = new
    BY <2>1, Asking
  <2>3. desk' = [desk EXCEPT ![p] = d] /\ UNCHANGED <<tiers, quotaOf, tierOf, granted, ask, catalog>>
    BY <1>2 DEF ReadForTier, AskDesk
  <2>4. ReviewsTypeOK'
    BY <1>t, <2>2, <2>3 DEF ReviewsTypeOK
  <2>5. DeskKnown'
    BY <1>t, <1>k, <2>1, <2>2, <2>3 DEF DeskKnown
  <2>. QED
    BY <2>4, <2>5 DEF ReviewsTypeInv
<1>3. ASSUME NEW p \in Desks, NEW i \in AskIds, CommitAsk(p, i)
      PROVE  ReviewsTypeInv'
  <2>1. /\ desk[p].op = "ask" /\ desk' = [desk EXCEPT ![p] = NoDesk]
        /\ UNCHANGED <<tiers, quotaOf, tierOf, granted, catalog>>
    BY <1>3 DEF CommitAsk
  <2>2. desk[p].ask \in Ask
    BY <1>t DEF Desk
  <2>3. ask' \in [AskIds -> Ask]
    BY <1>t, <1>3, <2>2 DEF CommitAsk
  <2>4. ASSUME NEW j \in AskIds, ask'[j].kind = "tier" PROVE ask'[j].tier \in tiers
    <3>1. CASE ask'[j] = ask[j]
      BY <1>t, <2>4, <3>1
    <3>2. CASE ask'[j] = desk[p].ask /\ desk[p].ask.tier \in tiers \union {NoTier}
      BY <1>k, <2>1, <2>4, <3>2 DEF DeskKnown
    <3>. QED
      BY <1>3, <1>t, <3>1, <3>2 DEF CommitAsk
  <2>5. ReviewsTypeOK'
    BY <1>t, <2>1, <2>3, <2>4, NoDeskTyped DEF ReviewsTypeOK
  <2>6. DeskKnown'
    BY <1>t, <1>k, <2>1, NoDeskTyped DEF DeskKnown
  <2>. QED
    BY <2>5, <2>6 DEF ReviewsTypeInv
<1>4. ASSUME NEW p \in Desks, NEW i \in AskIds, ReadForDecision(p, i)
      PROVE  ReviewsTypeInv'
  <2>. DEFINE d == DecideDesk(i)
  <2>1. d \in Desk /\ d.op = "decide" /\ d.id = i
    BY Deciding
  <2>2. desk' = [desk EXCEPT ![p] = d] /\ UNCHANGED <<tiers, quotaOf, tierOf, granted, ask, catalog>>
    BY <1>4 DEF ReadForDecision, DecideDesk
  <2>3. ReviewsTypeOK'
    BY <1>t, <2>1, <2>2 DEF ReviewsTypeOK
  <2>4. DeskKnown'
    BY <1>t, <1>k, <2>1, <2>2 DEF DeskKnown
  <2>. QED
    BY <2>3, <2>4 DEF ReviewsTypeInv
<1>5. ASSUME NEW p \in Desks, NEW status \in {"approved", "denied", "pending"},
             CommitDecision(p, status)
      PROVE  ReviewsTypeInv'
  <2>. DEFINE i == desk[p].id
              a == ask[i]
  <2>1. i \in AskIds
    BY <1>5, <1>k DEF CommitDecision, DeskKnown
  <2>2. a \in Ask /\ a.value \in Quotas /\ (a.kind = "tier" => a.tier \in tiers)
    BY <1>t, <2>1 DEF Ask
  <2>. HIDE DEF i, a
  <2>3. /\ ask' = [ask EXCEPT ![i].status = status]
        /\ desk' = [desk EXCEPT ![p] = NoDesk]
        /\ UNCHANGED <<tiers, granted, catalog>>
    BY <1>5 DEF CommitDecision, i
  <2>4. quotaOf' \in [Askers -> Quotas]
    BY <1>5, <1>t, <2>2 DEF CommitDecision, i, a
  <2>5. tierOf' \in [Askers -> tiers \union {NoTier}]
    BY <1>5, <1>t, <2>2 DEF CommitDecision, i, a
  <2>6. ask' = [ask EXCEPT ![i] = [a EXCEPT !.status = status]] /\ [a EXCEPT !.status = status] \in Ask
    BY <2>2, <2>3 DEF a, Ask
  <2>7. \A j \in AskIds : ask'[j].kind = ask[j].kind /\ ask'[j].tier = ask[j].tier
    BY <1>t, <2>3 DEF Ask
  <2>8. ReviewsTypeOK'
    BY <1>t, <2>3, <2>4, <2>5, <2>6, <2>7, NoDeskTyped DEF ReviewsTypeOK
  <2>9. DeskKnown'
    BY <1>t, <1>k, <2>3, NoDeskTyped DEF DeskKnown
  <2>. QED
    BY <2>8, <2>9 DEF ReviewsTypeInv
<1>6. ASSUME NEW u \in Askers, NEW value \in Quotas, SetQuota(u, value)
      PROVE  ReviewsTypeInv'
  BY <1>t, <1>k, <1>6 DEF SetQuota, ReviewsTypeInv, ReviewsTypeOK, DeskKnown
<1>7. ASSUME NEW u \in Askers, NEW t \in TierOrNone, AssignTier(u, t)
      PROVE  ReviewsTypeInv'
  BY <1>t, <1>k, <1>7 DEF AssignTier, ReviewsTypeInv, ReviewsTypeOK, DeskKnown
<1>8. ASSUME NEW t \in Tiers, CreateTier(t)
      PROVE  ReviewsTypeInv'
  BY <1>t, <1>k, <1>8 DEF CreateTier, ReviewsTypeInv, ReviewsTypeOK, DeskKnown
<1>9. ASSUME NEW t \in Tiers, DeleteTier(t)
      PROVE  ReviewsTypeInv'
  <2>1. /\ \A i \in AskIds : ask[i].tier # t
        /\ tiers' = tiers \ {t}
        /\ tierOf' = [u \in Askers |-> IF tierOf[u] = t THEN NoTier ELSE tierOf[u]]
        /\ granted' = [u \in Askers |-> IF tierOf[u] = t THEN [granted[u] EXCEPT !.tier = NoTier]
                                        ELSE granted[u]]
        /\ UNCHANGED <<quotaOf, ask, desk, catalog>>
    BY <1>9 DEF DeleteTier
  <2>2. tierOf' \in [Askers -> tiers' \union {NoTier}]
    BY <1>t, <2>1
  <2>3. granted' \in [Askers -> [quota : Quotas, tier : TierOrNone]]
    BY <1>t, <2>1 DEF TierOrNone
  <2>4. ReviewsTypeOK'
    BY <1>t, <2>1, <2>2, <2>3 DEF ReviewsTypeOK
  <2>. QED
    BY <1>k, <2>1, <2>4 DEF ReviewsTypeInv, DeskKnown
<1>10. ASSUME NEW i \in Images, NEW state \in {"none", "active", "inactive"},
              ChangeCatalog(i, state)
       PROVE  ReviewsTypeInv'
  BY <1>t, <1>k, <1>10 DEF ChangeCatalog, ReviewsTypeInv, ReviewsTypeOK, DeskKnown
<1>11. CASE UNCHANGED reviewsVars
  BY <1>t, <1>k, <1>11 DEF reviewsVars, ReviewsTypeInv, ReviewsTypeOK, DeskKnown
<1>. QED
  BY <1>1, <1>2, <1>3, <1>4, <1>5, <1>6, <1>7, <1>8, <1>9, <1>10, <1>11 DEF ReviewsNext

\* Types, and the foreign keys of tiers, hold however reviews overlap.
THEOREM ReviewsTyped == ReviewsSpec => []ReviewsTypeOK
<1>1. ReviewsTypeInv => ReviewsTypeOK
  BY DEF ReviewsTypeInv
<1>. QED
  BY <1>1, ReviewsTypeStarts, ReviewsTypeStep, PTL DEF ReviewsSpec

-----------------------------------------------------------------------------
(* Reviews *)

\* A request that is being decided has not been, and by one administrator.
OneDecides ==
    /\ \A p \in Desks : desk[p].op = "decide" => ask[desk[p].id].status = "pending"
    /\ \A p, q \in Desks : desk[p].op = "decide" /\ desk[q].id = desk[p].id => q = p

StandInv == ReviewsTypeInv /\ OneDecides /\ ReviewsStand

\* What a user's quota, and a user's tier, stand on.
QuotaStands(u) ==
    \/ quotaOf[u] = granted[u].quota
    \/ \E i \in AskIds : ask[i].kind = "quota" /\ ask[i].asker = u
                           /\ ask[i].status = "approved" /\ ask[i].value = quotaOf[u]
TierStands(u) ==
    \/ tierOf[u] = granted[u].tier
    \/ \E i \in AskIds : ask[i].kind = "tier" /\ ask[i].asker = u
                           /\ ask[i].status = "approved" /\ ask[i].tier = tierOf[u]

LEMMA StandSplit == ReviewsStand <=> \A u \in Askers : QuotaStands(u) /\ TierStands(u)
BY DEF ReviewsStand, QuotaStands, TierStands

LEMMA StandStarts == ReviewsInit => StandInv
<1>1. ReviewsInit => OneDecides
  BY NoDeskTyped, ReviewsConstants DEF ReviewsInit, OneDecides
<1>2. ReviewsInit => ReviewsStand
  <2>. SUFFICES ASSUME ReviewsInit, NEW u \in Askers
                PROVE  quotaOf[u] = granted[u].quota /\ tierOf[u] = granted[u].tier
    BY DEF ReviewsStand
  <2>1. quotaOf[u] = 1 /\ tierOf[u] = NoTier /\ granted[u] = [quota |-> 1, tier |-> NoTier]
    BY DEF ReviewsInit
  <2>. QED
    BY <2>1
<1>. QED
  BY <1>1, <1>2, ReviewsTypeStarts DEF StandInv

LEMMA StandStep ==
  ASSUME ~ReviewsOverlap, StandInv, [ReviewsNext]_reviewsVars
  PROVE  StandInv'
<1>. USE ReviewsConstants
<1>i. ReviewsTypeInv /\ OneDecides /\ ReviewsStand /\ ReviewsTypeInv'
  BY ReviewsTypeStep DEF StandInv
<1>t. /\ quotaOf \in [Askers -> Quotas] /\ tierOf \in [Askers -> tiers \union {NoTier}]
      /\ granted \in [Askers -> [quota : Quotas, tier : TierOrNone]]
      /\ ask \in [AskIds -> Ask] /\ desk \in [Desks -> Desk]
  BY <1>i DEF ReviewsTypeInv, ReviewsTypeOK
<1>d. \A p \in Desks : desk[p].op = "decide" => desk[p].id \in AskIds
  BY <1>i DEF ReviewsTypeInv, DeskKnown
<1>o. \A p, q \in Desks : desk[p].op = "decide" =>
        /\ ask[desk[p].id].status = "pending"
        /\ desk[q].id = desk[p].id => q = p
  BY <1>i DEF OneDecides
<1>1. SUFFICES OneDecides' /\ ReviewsStand'
  BY <1>i DEF StandInv
\* One that only asks, or reads, changes neither rows nor users.
<1>2. ASSUME NEW p \in Desks, NEW d, d.op # "decide", d.id = NoAskId,
             desk' = [desk EXCEPT ![p] = d], ask' = ask
      PROVE  OneDecides'
  BY <1>t, <1>o, <1>d, <1>2 DEF OneDecides
<1>3. ASSUME UNCHANGED <<quotaOf, tierOf, granted, ask>>
      PROVE  ReviewsStand'
  BY <1>i, <1>3 DEF ReviewsStand
<1>4. ASSUME NEW p \in Desks, NEW u \in Askers, NEW value \in Quotas, ReadForQuota(p, u, value)
      PROVE  OneDecides' /\ ReviewsStand'
  <2>. DEFINE new == [kind |-> "quota", asker |-> u, value |-> value, tier |-> NoTier,
                      status |-> "pending"]
              d == AskDesk(new)
  <2>1. desk' = [desk EXCEPT ![p] = d] /\ UNCHANGED <<quotaOf, tierOf, granted, ask>>
    BY <1>4 DEF ReadForQuota, AskDesk
  <2>2. new \in Ask
    BY DEF Ask, TierOrNone, Quotas
  <2>3. d.op # "decide" /\ d.id = NoAskId
    BY <2>2, Asking
  <2>. HIDE DEF d
  <2>. QED
    BY <1>2, <1>3, <2>1, <2>3
<1>5. ASSUME NEW p \in Desks, NEW u \in Askers, NEW t \in Tiers, ReadForTier(p, u, t)
      PROVE  OneDecides' /\ ReviewsStand'
  <2>. DEFINE new == [kind |-> "tier", asker |-> u, value |-> 1, tier |-> t,
                      status |-> "pending"]
              d == AskDesk(new)
  <2>1. desk' = [desk EXCEPT ![p] = d] /\ UNCHANGED <<quotaOf, tierOf, granted, ask>>
    BY <1>5 DEF ReadForTier, AskDesk
  <2>2. new \in Ask
    BY DEF Ask, TierOrNone, Quotas
  <2>3. d.op # "decide" /\ d.id = NoAskId
    BY <2>2, Asking
  <2>. HIDE DEF d
  <2>. QED
    BY <1>2, <1>3, <2>1, <2>3
<1>6. ASSUME NEW p \in Desks, NEW i \in AskIds, CommitAsk(p, i)
      PROVE  OneDecides' /\ ReviewsStand'
  <2>1. /\ ask[i] = NoAsk /\ desk' = [desk EXCEPT ![p] = NoDesk]
        /\ UNCHANGED <<quotaOf, tierOf, granted>>
    BY <1>6 DEF CommitAsk
  <2>2. NoAsk.status = "none"
    BY DEF NoAsk
  <2>3. \A j \in AskIds : ask[j].status # "none" => ask'[j] = ask[j]
    BY <1>6, <1>t, <2>1, <2>2 DEF CommitAsk
  <2>4. OneDecides'
    BY <1>t, <1>o, <1>d, <2>1, <2>3, NoDeskTyped DEF OneDecides
  <2>5. ReviewsStand'
    BY <1>i, <2>1, <2>3 DEF ReviewsStand
  <2>. QED
    BY <2>4, <2>5
<1>7. ASSUME NEW p \in Desks, NEW i \in AskIds, ReadForDecision(p, i)
      PROVE  OneDecides' /\ ReviewsStand'
  <2>. DEFINE d == DecideDesk(i)
  <2>1. desk' = [desk EXCEPT ![p] = d] /\ UNCHANGED <<quotaOf, tierOf, granted, ask>>
    BY <1>7 DEF ReadForDecision, DecideDesk
  <2>2. ask[i].status = "pending" /\ \A q \in Desks : desk[q].id # i
    BY <1>7 DEF ReadForDecision, Undisturbed
  <2>3. d.id = i
    BY Deciding
  <2>. HIDE DEF d
  <2>4. OneDecides'
    BY <1>t, <1>o, <1>d, <2>1, <2>2, <2>3 DEF OneDecides
  <2>. QED
    BY <1>3, <2>1, <2>4
<1>8. ASSUME NEW p \in Desks, NEW status \in {"approved", "denied", "pending"},
             CommitDecision(p, status)
      PROVE  OneDecides' /\ ReviewsStand'
  <2>. DEFINE i == desk[p].id
              a == ask[i]
  <2>1. i \in AskIds /\ a.status = "pending" /\ a \in Ask
    BY <1>8, <1>d, <1>o, <1>t DEF CommitDecision
  <2>2. /\ \A q \in Desks : desk[q].id = i => q = p
        /\ desk[p].op = "decide"
    BY <1>8, <1>o DEF CommitDecision
  <2>. HIDE DEF i, a
  <2>3. /\ ask' = [ask EXCEPT ![i].status = status]
        /\ desk' = [desk EXCEPT ![p] = NoDesk]
        /\ UNCHANGED <<tiers, granted, catalog>>
        /\ quotaOf' = IF status = "approved" /\ a.kind = "quota"
                      THEN [quotaOf EXCEPT ![a.asker] = a.value] ELSE quotaOf
        /\ tierOf' = IF status = "approved" /\ a.kind = "tier"
                     THEN [tierOf EXCEPT ![a.asker] = a.tier] ELSE tierOf
    BY <1>8 DEF CommitDecision, i, a
  <2>4. /\ ask'[i].kind = a.kind /\ ask'[i].asker = a.asker /\ ask'[i].value = a.value
        /\ ask'[i].tier = a.tier /\ ask'[i].status = status
    BY <1>t, <2>1, <2>3 DEF Ask, a
  <2>5. \A j \in AskIds : j # i => ask'[j] = ask[j]
    BY <1>t, <2>3
  <2>6. OneDecides'
    BY <1>t, <1>o, <1>d, <2>2, <2>3, <2>5, NoDeskTyped DEF OneDecides
  <2>7. \A j \in AskIds : ask[j].status = "approved" => ask'[j] = ask[j]
    BY <2>1, <2>5 DEF a
  <2>8. ASSUME NEW u \in Askers PROVE QuotaStands(u)'
    <3>1. CASE u = a.asker /\ status = "approved" /\ a.kind = "quota"
      <4>1. quotaOf'[u] = a.value
        BY <1>t, <2>3, <3>1
      <4>. QED
        BY <2>1, <2>4, <3>1, <4>1 DEF QuotaStands
    <3>2. CASE ~(u = a.asker /\ status = "approved" /\ a.kind = "quota")
      <4>1. quotaOf'[u] = quotaOf[u] /\ granted' = granted
        BY <1>t, <2>3, <3>2
      <4>2. QuotaStands(u)
        BY <1>i, StandSplit
      <4>. QED
        BY <2>7, <4>1, <4>2 DEF QuotaStands
    <3>. QED
      BY <3>1, <3>2
  <2>9. ASSUME NEW u \in Askers PROVE TierStands(u)'
    <3>1. CASE u = a.asker /\ status = "approved" /\ a.kind = "tier"
      <4>1. tierOf'[u] = a.tier
        BY <1>t, <2>3, <3>1
      <4>. QED
        BY <2>1, <2>4, <3>1, <4>1 DEF TierStands
    <3>2. CASE ~(u = a.asker /\ status = "approved" /\ a.kind = "tier")
      <4>1. tierOf'[u] = tierOf[u] /\ granted' = granted
        BY <1>t, <2>3, <3>2
      <4>2. TierStands(u)
        BY <1>i, StandSplit
      <4>. QED
        BY <2>7, <4>1, <4>2 DEF TierStands
    <3>. QED
      BY <3>1, <3>2
  <2>10. ReviewsStand'
    BY <2>8, <2>9 DEF ReviewsStand, QuotaStands, TierStands
  <2>. QED
    BY <2>6, <2>10
<1>9. ASSUME NEW u \in Askers, NEW value \in Quotas, SetQuota(u, value)
      PROVE  OneDecides' /\ ReviewsStand'
  <2>1. \A w \in Askers : /\ granted'[w].tier = granted[w].tier
                         /\ w # u => granted'[w] = granted[w] /\ quotaOf'[w] = quotaOf[w]
    BY <1>9, <1>t DEF SetQuota
  <2>2. granted'[u].quota = value /\ quotaOf'[u] = value
    BY <1>9, <1>t DEF SetQuota
  <2>. QED
    BY <1>9, <1>i, <2>1, <2>2 DEF SetQuota, OneDecides, ReviewsStand
<1>10. ASSUME NEW u \in Askers, NEW t \in TierOrNone, AssignTier(u, t)
       PROVE  OneDecides' /\ ReviewsStand'
  <2>1. \A w \in Askers : /\ granted'[w].quota = granted[w].quota
                         /\ w # u => granted'[w] = granted[w] /\ tierOf'[w] = tierOf[w]
    BY <1>10, <1>t DEF AssignTier
  <2>2. granted'[u].tier = t /\ tierOf'[u] = t
    BY <1>10, <1>t DEF AssignTier
  <2>. QED
    BY <1>10, <1>i, <2>1, <2>2 DEF AssignTier, OneDecides, ReviewsStand
<1>11. ASSUME NEW t \in Tiers, CreateTier(t)
       PROVE  OneDecides' /\ ReviewsStand'
  BY <1>11, <1>i DEF CreateTier, OneDecides, ReviewsStand
<1>12. ASSUME NEW t \in Tiers, DeleteTier(t)
       PROVE  OneDecides' /\ ReviewsStand'
  <2>1. UNCHANGED <<quotaOf, ask, desk>> /\ \A i \in AskIds : ask[i].tier # t
    BY <1>12 DEF DeleteTier
  <2>2. \A u \in Askers :
          /\ granted'[u].quota = granted[u].quota
          /\ tierOf[u] # t => tierOf'[u] = tierOf[u] /\ granted'[u] = granted[u]
          /\ tierOf[u] = t => tierOf'[u] = NoTier /\ granted'[u].tier = NoTier
    BY <1>12, <1>t DEF DeleteTier
  <2>. QED
    BY <1>i, <2>1, <2>2 DEF OneDecides, ReviewsStand
<1>13. ASSUME NEW i \in Images, NEW state \in {"none", "active", "inactive"},
              ChangeCatalog(i, state)
       PROVE  OneDecides' /\ ReviewsStand'
  BY <1>13, <1>i DEF ChangeCatalog, OneDecides, ReviewsStand
<1>14. CASE UNCHANGED reviewsVars
  BY <1>14, <1>i DEF reviewsVars, OneDecides, ReviewsStand
<1>15. [ReviewsNext]_reviewsVars
  BY DEF StandInv
<1>. QED
  BY <1>4, <1>5, <1>6, <1>7, <1>8, <1>9, <1>10, <1>11, <1>12, <1>13, <1>14, <1>15 DEF ReviewsNext

(***************************************************************************)
(* The quota and the tier of a user rest on an administrator's word or on  *)
(* an approval that still stands, as long as one administrator at a time   *)
(* decides a request.                                                      *)
(***************************************************************************)
THEOREM ReviewsHold ==
  ASSUME ~ReviewsOverlap
  PROVE  ReviewsSpec => []ReviewsStand
<1>1. StandInv /\ [ReviewsNext]_reviewsVars => StandInv'
  BY StandStep
<1>2. StandInv => ReviewsStand
  BY DEF StandInv
<1>. QED
  BY <1>1, <1>2, StandStarts, PTL DEF ReviewsSpec

-----------------------------------------------------------------------------
(* Upkeep: types *)

RowFits(r) == r \in ResourceRow /\ (r.status # "none" <=> r.owner # NoOwner)
RowsFit == rows \in [Insts -> ResourceRow] /\ \A i \in Insts : RowFits(rows[i])
EventsHang == open \in [Keys -> 0 .. 2] /\ \A i \in Insts : ~Recorded(i) => open[i] = 0

\* A row that a scan has flushed is locked, so it is there at the commit.
ScansLock ==
    /\ scan \in [Scans -> Scan]
    /\ \A s \in Scans : scan[s].step = "flushed" => \A i \in Repairs(s) : Recorded(i)
TasksTyped == guests \in [Insts -> Guest] /\ limit \in [Owners -> Limits] /\ quota \in QuotaTask

UpkeepInv == RowsFit /\ EventsHang /\ ScansLock /\ TasksTyped

LEMMA UpkeepInvTyped == UpkeepInv => UpkeepTypeOK
BY DEF UpkeepInv, RowsFit, RowFits, EventsHang, ScansLock, TasksTyped, UpkeepTypeOK, Recorded

LEMMA UpkeepNulls ==
    /\ NoResource \in ResourceRow /\ NoResource.status = "none" /\ NoResource.owner = NoOwner
    /\ RowFits(NoResource) /\ NoGuest \in Guest /\ NoGuest.state = "absent"
    /\ NoScan \in Scan /\ NoScan.step = "idle" /\ NoQuotaTask \in QuotaTask
<1>1. PICK n \in Nodes : n = (CHOOSE m \in Nodes : TRUE)
  BY UpkeepConstants
<1>2. /\ NoResource \in ResourceRow /\ NoResource.status = "none" /\ NoResource.owner = NoOwner
      /\ NoResource.node \in Nodes
  BY <1>1, UpkeepConstants DEF NoResource, ResourceRow, Statuses
<1>3. NoGuest \in Guest /\ NoGuest.state = "absent"
  BY <1>2 DEF NoGuest, Guest
<1>4. NoScan \in Scan /\ NoScan.step = "idle"
  BY <1>2, <1>3 DEF NoScan, Scan
<1>5. NoQuotaTask \in QuotaTask
  BY <1>2 DEF NoQuotaTask, QuotaTask
<1>. QED
  BY <1>2, <1>3, <1>4, <1>5 DEF RowFits

LEMMA UpkeepStarts == UpkeepInit => UpkeepInv
<1>. SUFFICES ASSUME UpkeepInit PROVE UpkeepInv
  OBVIOUS
<1>1. RowsFit
  BY UpkeepNulls DEF UpkeepInit, RowsFit
<1>2. EventsHang
  BY DEF UpkeepInit, EventsHang, Keys
<1>3. ScansLock
  BY UpkeepNulls DEF UpkeepInit, ScansLock
<1>4. TasksTyped
  BY UpkeepNulls DEF UpkeepInit, TasksTyped
<1>. QED
  BY <1>1, <1>2, <1>3, <1>4 DEF UpkeepInv

LEMMA RowsRest ==
  ASSUME RowsFit, EventsHang, ScansLock, UNCHANGED <<rows, open, scan>>
  PROVE  RowsFit' /\ EventsHang' /\ ScansLock'
BY DEF RowsFit, EventsHang, ScansLock, Recorded, Repairs, Scanned, Repaired

\* A row is written, and stays a row.
LEMMA RowWritten ==
  ASSUME RowsFit, EventsHang, ScansLock, NEW i \in Insts, NEW r, RowFits(r), r.status # "none",
         rows' = [rows EXCEPT ![i] = r], UNCHANGED <<open, scan>>
  PROVE  RowsFit' /\ EventsHang' /\ ScansLock'
<1>1. rows'[i] = r /\ \A j \in Insts : j # i => rows'[j] = rows[j]
  BY DEF RowsFit
<1>2. RowsFit'
  BY <1>1 DEF RowsFit, RowFits
<1>3. \A j \in Insts : Recorded(j) => Recorded(j)'
  BY <1>1 DEF Recorded
<1>4. EventsHang'
  BY <1>3 DEF EventsHang
<1>5. \A s \in Scans : Repairs(s)' = Repairs(s) /\ Repairs(s) \subseteq Insts
  BY DEF Repairs, Scanned, Repaired
<1>6. ScansLock'
  BY <1>3, <1>5 DEF ScansLock
<1>. QED
  BY <1>2, <1>4, <1>6

LEMMA UpkeepRequestStep ==
  ASSUME UpkeepInv, RequestNext
  PROVE  UpkeepInv'
<1>t. RowsFit /\ EventsHang /\ ScansLock /\ TasksTyped /\ rows \in [Insts -> ResourceRow]
  BY DEF UpkeepInv, RowsFit
<1>r. \A j \in Insts : rows[j] \in ResourceRow /\ RowFits(rows[j])
  BY <1>t DEF RowsFit
<1>1. ASSUME NEW i \in Insts, NEW u \in Owners, NEW n \in Nodes, NEW c \in 1 .. MaxCores,
             Create(i, u, n, c)
      PROVE  UpkeepInv'
  <2>. DEFINE r == [NoResource EXCEPT !.status = "provisioning", !.owner = u, !.node = n, !.cores = c]
  <2>1. rows' = [rows EXCEPT ![i] = r] /\ UNCHANGED <<limit, open, scan, quota>>
    BY <1>1 DEF Create
  <2>2. r \in ResourceRow /\ r.status = "provisioning" /\ r.owner = u
    BY UpkeepNulls DEF ResourceRow, Statuses
  <2>. HIDE DEF r
  <2>3. RowFits(r)
    BY <2>2, UpkeepConstants DEF RowFits
  <2>4. TasksTyped'
    BY <1>1, <1>t, <2>1 DEF Create, TasksTyped, Guest
  <2>. QED
    BY <1>t, <2>1, <2>2, <2>3, <2>4, RowWritten DEF UpkeepInv
<1>2. ASSUME NEW i \in Insts, SyncLive(i)
      PROVE  UpkeepInv'
  <2>. DEFINE r == [rows[i] EXCEPT !.status = guests[i].state]
  <2>1. rows' = [rows EXCEPT ![i] = r] /\ UNCHANGED <<guests, limit, open, scan, quota>>
    BY <1>2 DEF SyncLive
  <2>2. r \in ResourceRow /\ r.status # "none" /\ r.owner = rows[i].owner
    BY <1>2, <1>t, <1>r DEF ResourceRow, Statuses, SyncLive, TasksTyped, Guest
  <2>. HIDE DEF r
  <2>3. RowFits(r)
    BY <1>2, <1>r, <2>2 DEF RowFits, SyncLive, Recorded
  <2>4. TasksTyped'
    BY <1>t, <2>1 DEF TasksTyped
  <2>. QED
    BY <1>t, <2>1, <2>2, <2>3, <2>4, RowWritten DEF UpkeepInv
<1>3. ASSUME UNCHANGED <<rows, open, scan, limit, quota>>, guests' \in [Insts -> Guest]
      PROVE  UpkeepInv'
  BY <1>3, <1>t, RowsRest DEF UpkeepInv, TasksTyped
<1>4. ASSUME NEW i \in Insts, Power(i) \/ Vanish(i) \/ \E n \in Nodes : Migrate(i, n)
      PROVE  UpkeepInv'
  <2>1. guests[i] \in Guest /\ guests \in [Insts -> Guest]
    BY <1>t DEF TasksTyped
  <2>2. ASSUME Power(i) PROVE UpkeepInv'
    <3>. DEFINE g == [guests[i] EXCEPT !.state = IF @ = "running" THEN "stopped" ELSE "running"]
    <3>1. g \in Guest
      BY <2>1 DEF Guest
    <3>2. guests' = [guests EXCEPT ![i] = g] /\ UNCHANGED <<rows, open, scan, limit, quota>>
      BY <2>1, <2>2 DEF Power
    <3>. HIDE DEF g
    <3>. QED
      BY <1>3, <2>1, <3>1, <3>2
  <2>3. ASSUME NEW n \in Nodes, Migrate(i, n) PROVE UpkeepInv'
    <3>. DEFINE g == [guests[i] EXCEPT !.node = n]
    <3>1. g \in Guest
      BY <2>1 DEF Guest
    <3>2. guests' = [guests EXCEPT ![i] = g] /\ UNCHANGED <<rows, open, scan, limit, quota>>
      BY <2>1, <2>3 DEF Migrate
    <3>. HIDE DEF g
    <3>. QED
      BY <1>3, <2>1, <3>1, <3>2
  <2>4. ASSUME Vanish(i) PROVE UpkeepInv'
    BY <1>3, <2>1, <2>4, UpkeepNulls DEF Vanish
  <2>. QED
    BY <1>4, <2>2, <2>3, <2>4
<1>5. ASSUME NEW i \in Insts, IdleDestroy(i)
      PROVE  UpkeepInv'
  <2>. DEFINE r == [rows[i] EXCEPT !.status = "destroyed"]
  <2>1. rows' = [rows EXCEPT ![i] = r] /\ UNCHANGED <<limit, open, scan, quota>>
    BY <1>5 DEF IdleDestroy
  <2>2. r \in ResourceRow /\ r.status = "destroyed" /\ r.owner = rows[i].owner
    BY <1>r DEF ResourceRow, Statuses
  <2>. HIDE DEF r
  <2>3. RowFits(r)
    BY <1>5, <1>r, <2>2 DEF RowFits, IdleDestroy
  <2>4. TasksTyped'
    BY <1>5, <1>t, UpkeepNulls DEF IdleDestroy, TasksTyped
  <2>. QED
    BY <1>t, <2>1, <2>2, <2>3, <2>4, RowWritten DEF UpkeepInv
<1>6. ASSUME NEW i \in Insts, Terminate(i)
      PROVE  UpkeepInv'
  <2>1. /\ rows' = [rows EXCEPT ![i] = NoResource] /\ open' = [open EXCEPT ![i] = 0]
        /\ UNCHANGED <<limit, scan, quota>> /\ RowFree(i)
    BY <1>6 DEF Terminate
  <2>2. /\ rows'[i] = NoResource /\ \A j \in Insts : j # i => rows'[j] = rows[j]
        /\ open'[i] = 0 /\ \A k \in Keys : k # i => open'[k] = open[k]
    BY <1>t, <2>1 DEF EventsHang, Keys
  <2>3. RowsFit'
    BY <1>t, <1>r, <2>1, <2>2, UpkeepNulls DEF RowsFit, RowFits
  <2>4. EventsHang'
    BY <1>t, <2>1, <2>2 DEF EventsHang, Keys, Recorded
  <2>5. \A s \in Scans : Repairs(s)' = Repairs(s) /\ Repairs(s) \subseteq Insts
    BY <2>1 DEF Repairs, Scanned, Repaired
  <2>6. ScansLock'
    BY <1>t, <2>1, <2>2, <2>5 DEF ScansLock, RowFree, WrittenBy, Recorded
  <2>7. TasksTyped'
    BY <1>6, <1>t, UpkeepNulls DEF Terminate, TasksTyped
  <2>. QED
    BY <2>3, <2>4, <2>6, <2>7 DEF UpkeepInv
<1>7. ASSUME NEW i \in Insts, NEW u \in Owners, Transfer(i, u)
      PROVE  UpkeepInv'
  <2>. DEFINE r == [rows[i] EXCEPT !.owner = u]
  <2>1. rows' = [rows EXCEPT ![i] = r] /\ UNCHANGED <<guests, limit, open, scan, quota>>
    BY <1>7 DEF Transfer
  <2>2. r \in ResourceRow /\ r.status = rows[i].status /\ r.owner = u
    BY <1>r DEF ResourceRow
  <2>. HIDE DEF r
  <2>3. RowFits(r) /\ r.status # "none"
    BY <1>7, <2>2, UpkeepConstants DEF RowFits, Transfer, Recorded
  <2>4. TasksTyped'
    BY <1>t, <2>1 DEF TasksTyped
  <2>. QED
    BY <1>t, <2>1, <2>3, <2>4, RowWritten DEF UpkeepInv
<1>8. ASSUME NEW i \in Insts, NEW c \in 1 .. MaxCores, Resize(i, c)
      PROVE  UpkeepInv'
  <2>. DEFINE r == [rows[i] EXCEPT !.cores = c]
  <2>1. rows' = [rows EXCEPT ![i] = r] /\ UNCHANGED <<guests, limit, open, scan, quota>>
    BY <1>8 DEF Resize
  <2>2. r \in ResourceRow /\ r.status = rows[i].status /\ r.owner = rows[i].owner
    BY <1>r DEF ResourceRow
  <2>. HIDE DEF r
  <2>3. RowFits(r) /\ r.status # "none"
    BY <1>8, <1>r, <2>2 DEF RowFits, Resize
  <2>4. TasksTyped'
    BY <1>t, <2>1 DEF TasksTyped
  <2>. QED
    BY <1>t, <2>1, <2>3, <2>4, RowWritten DEF UpkeepInv
<1>9. ASSUME NEW i \in Insts, NEW protected \in BOOLEAN, SetProtected(i, protected)
      PROVE  UpkeepInv'
  <2>. DEFINE r == [rows[i] EXCEPT !.protected = protected]
  <2>1. rows' = [rows EXCEPT ![i] = r] /\ UNCHANGED <<guests, limit, open, scan, quota>>
    BY <1>9 DEF SetProtected
  <2>2. r \in ResourceRow /\ r.status = rows[i].status /\ r.owner = rows[i].owner
    BY <1>r DEF ResourceRow
  <2>. HIDE DEF r
  <2>3. RowFits(r) /\ r.status # "none"
    BY <1>9, <1>r, <2>2 DEF RowFits, SetProtected, Recorded
  <2>4. TasksTyped'
    BY <1>t, <2>1 DEF TasksTyped
  <2>. QED
    BY <1>t, <2>1, <2>3, <2>4, RowWritten DEF UpkeepInv
<1>10. ASSUME NEW u \in Owners, NEW n \in Limits, SetLimit(u, n)
       PROVE  UpkeepInv'
  <2>1. UNCHANGED <<rows, guests, open, scan, quota>> /\ limit' = [limit EXCEPT ![u] = n]
    BY <1>10 DEF SetLimit
  <2>2. TasksTyped'
    BY <1>t, <2>1 DEF TasksTyped
  <2>. QED
    BY <1>t, <2>1, <2>2, RowsRest DEF UpkeepInv
<1>11. ASSUME NEW k \in Keys, CloseEvent(k)
       PROVE  UpkeepInv'
  <2>1. /\ UNCHANGED <<rows, guests, limit, scan, quota>> /\ open[k] > 0
        /\ open' = [open EXCEPT ![k] = open[k] - 1]
    BY <1>11 DEF CloseEvent
  <2>2. EventsHang'
    BY <1>t, <2>1 DEF EventsHang, Recorded, Keys
  <2>3. RowsFit' /\ TasksTyped'
    BY <1>t, <2>1 DEF RowsFit, TasksTyped
  <2>4. ScansLock'
    BY <1>t, <2>1 DEF ScansLock, Recorded, Repairs, Scanned, Repaired
  <2>. QED
    BY <2>2, <2>3, <2>4 DEF UpkeepInv
<1>. QED
  BY <1>1, <1>2, <1>4, <1>5, <1>6, <1>7, <1>8, <1>9, <1>10, <1>11 DEF RequestNext

LEMMA UpkeepScanStep ==
  ASSUME UpkeepInv, NEW s \in Scans, ScanNext(s)
  PROVE  UpkeepInv'
<1>t. /\ RowsFit /\ EventsHang /\ ScansLock /\ TasksTyped /\ rows \in [Insts -> ResourceRow]
      /\ scan \in [Scans -> Scan] /\ scan[s] \in Scan
  BY DEF UpkeepInv, RowsFit, ScansLock
\* A scan that flushes nothing
<1>1. ASSUME NEW c \in Scan, scan' = [scan EXCEPT ![s] = c], c.step # "flushed",
             RowsFit', EventsHang', \A i \in Insts : Recorded(i) => Recorded(i)',
             UNCHANGED <<guests, limit, quota>>
      PROVE  UpkeepInv'
  <2>1. scan' \in [Scans -> Scan] /\ scan'[s] = c /\ \A t \in Scans : t # s => scan'[t] = scan[t]
    BY <1>1, <1>t
  <2>2. \A t \in Scans : t # s => Repairs(t)' = Repairs(t) /\ Repairs(t) \subseteq Insts
    BY <2>1 DEF Repairs, Scanned, Repaired
  <2>3. ScansLock'
    BY <1>1, <1>t, <2>1, <2>2 DEF ScansLock
  <2>4. TasksTyped'
    BY <1>1, <1>t DEF TasksTyped
  <2>. QED
    BY <1>1, <2>3, <2>4 DEF UpkeepInv
<1>2. ASSUME UNCHANGED <<rows, open>>
      PROVE  RowsFit' /\ EventsHang' /\ \A i \in Insts : Recorded(i) => Recorded(i)'
  BY <1>2, <1>t DEF RowsFit, EventsHang, Recorded
<1>3. CASE ListGuests(s)
  <2>. DEFINE c == [scan[s] EXCEPT !.step = "listed", !.seen = guests]
  <2>1. scan' = [scan EXCEPT ![s] = c] /\ UNCHANGED <<rows, guests, limit, open, quota>>
    BY <1>3, <1>t DEF ListGuests
  <2>2. c \in Scan /\ c.step = "listed"
    BY <1>t DEF Scan, TasksTyped
  <2>. HIDE DEF c
  <2>. QED
    BY <1>1, <1>2, <2>1, <2>2
<1>4. CASE SelectRows(s)
  <2>. DEFINE c == [scan[s] EXCEPT !.step = "selected", !.copy = rows]
  <2>1. scan' = [scan EXCEPT ![s] = c] /\ UNCHANGED <<rows, guests, limit, open, quota>>
    BY <1>4, <1>t DEF SelectRows
  <2>2. c \in Scan /\ c.step = "selected"
    BY <1>t DEF Scan
  <2>. HIDE DEF c
  <2>. QED
    BY <1>1, <1>2, <2>1, <2>2
<1>5. CASE FlushRepairs(s)
  <2>. DEFINE c == [scan[s] EXCEPT !.step = "flushed", !.events = open]
  <2>1. scan' = [scan EXCEPT ![s] = c] /\ UNCHANGED <<rows, guests, limit, open, quota>>
    BY <1>5, <1>t DEF FlushRepairs
  <2>2. c \in Scan /\ c.copy = scan[s].copy /\ c.seen = scan[s].seen
    BY <1>t DEF Scan, EventsHang
  <2>. HIDE DEF c
  <2>3. /\ scan' \in [Scans -> Scan] /\ scan'[s] = c
        /\ \A t \in Scans : t # s => scan'[t] = scan[t]
    BY <1>t, <2>1, <2>2
  <2>4. \A t \in Scans : scan'[t].copy = scan[t].copy /\ scan'[t].seen = scan[t].seen
    BY <2>2, <2>3
  <2>5. \A t \in Scans : Repairs(t)' = Repairs(t) /\ Repairs(t) \subseteq Insts
    BY <2>4 DEF Repairs, Scanned, Repaired
  <2>6. \A i \in Repairs(s) : Recorded(i)
    BY <1>5 DEF FlushRepairs
  <2>7. ScansLock'
    BY <1>t, <2>1, <2>3, <2>5, <2>6 DEF ScansLock, Recorded
  <2>8. TasksTyped'
    BY <1>t, <2>1 DEF TasksTyped
  <2>. QED
    BY <1>2, <2>1, <2>7, <2>8 DEF UpkeepInv
<1>6. CASE FlushFailsScan(s)
  <2>1. scan' = [scan EXCEPT ![s] = NoScan] /\ UNCHANGED <<rows, guests, limit, open, quota>>
    BY <1>6 DEF FlushFailsScan
  <2>. QED
    BY <1>1, <1>2, <2>1, UpkeepNulls
<1>7. CASE CommitScan(s)
  <2>1. /\ scan' = [scan EXCEPT ![s] = NoScan] /\ UNCHANGED <<guests, limit, quota>>
        /\ scan[s].step = "flushed"
    BY <1>7 DEF CommitScan
  <2>2. CASE ~EventsFit(s)
    <3>1. UNCHANGED <<rows, open>>
      BY <1>7, <2>2 DEF CommitScan
    <3>. QED
      BY <1>1, <1>2, <2>1, <3>1, UpkeepNulls
  <2>3. CASE EventsFit(s)
    <3>1. ASSUME NEW i \in Insts
          PROVE  RowFits(rows'[i]) /\ (Recorded(i) => Recorded(i)') /\ (Recorded(i)' => Recorded(i))
      <4>1. CASE i \notin Repairs(s)
        <5>1. rows'[i] = rows[i]
          BY <1>7, <2>3, <4>1 DEF CommitScan
        <5>. QED
          BY <1>t, <5>1 DEF RowsFit, Recorded
      <4>2. CASE i \in Repairs(s)
        <5>. DEFINE fixed == Repaired(s, i)
                    status == IF fixed.status # scan[s].copy[i].status THEN fixed.status
                              ELSE rows[i].status
                    r == [rows[i] EXCEPT !.status = status, !.node = fixed.node]
        <5>1. rows'[i] = r
          BY <1>7, <2>3, <4>2 DEF CommitScan
        <5>2. scan[s].copy[i] \in ResourceRow /\ scan[s].seen[i] \in Guest
          BY <1>t DEF Scan
        <5>3. fixed \in ResourceRow /\ (fixed.status = scan[s].copy[i].status \/ fixed.status # "none")
          <6>1. CASE scan[s].seen[i].state = "absent"
            BY <5>2, <6>1 DEF Repaired
          <6>2. CASE scan[s].seen[i].state # "absent"
            BY <5>2, <6>2 DEF Repaired, ResourceRow, Guest, Statuses
          <6>. QED
            BY <6>1, <6>2
        <5>4. Recorded(i)
          BY <1>t, <2>1, <4>2 DEF ScansLock
        <5>5. status \in Statuses
          BY <1>t, <5>3, <5>4 DEF Recorded, ResourceRow
        <5>6. rows[i] \in ResourceRow /\ fixed.node \in Nodes /\ status # "none"
          BY <1>t, <5>3, <5>5 DEF ResourceRow, Statuses
        <5>. HIDE DEF status, fixed
        <5>7. r \in ResourceRow /\ r.status = status /\ r.owner = rows[i].owner
          BY <5>5, <5>6 DEF ResourceRow
        <5>. HIDE DEF r
        <5>. QED
          BY <1>t, <5>1, <5>4, <5>6, <5>7 DEF RowsFit, RowFits, Recorded
      <4>. QED
        BY <4>1, <4>2
    <3>2. RowsFit'
      <4>1. rows' = [i \in Insts |-> rows'[i]]
        BY <1>7, <2>3 DEF CommitScan
      <4>. QED
        BY <3>1, <4>1 DEF RowsFit, RowFits
    <3>3. ASSUME NEW k \in Keys
          PROVE  open'[k] \in 0 .. 2 /\ (k \in Insts /\ ~Recorded(k) => open'[k] = 0)
      <4>1. open[k] \in 0 .. 2 /\ scan[s].events[k] \in 0 .. 2
        BY <1>t DEF EventsHang, Scan
      <4>2. CASE k \notin Found(s)
        <5>1. open'[k] = Less(open[k], scan[s].events[k])
          BY <1>7, <2>3, <4>2 DEF CommitScan
        <5>. QED
          BY <1>t, <4>1, <5>1 DEF Less, EventsHang
      <4>3. CASE k \in Found(s)
        <5>1. k \in Insts => Recorded(k)
          BY <2>3, <4>3 DEF EventsFit
        <5>2. open'[k] = IF scan[s].events[k] = 0 /\ open[k] < 2 THEN open[k] + 1 ELSE open[k]
          BY <1>7, <2>3, <4>3 DEF CommitScan
        <5>. QED
          BY <4>1, <5>1, <5>2
      <4>. QED
        BY <4>2, <4>3
    <3>4. EventsHang'
      <4>1. open' = [k \in Keys |-> open'[k]]
        BY <1>7, <2>3 DEF CommitScan
      <4>2. open' \in [Keys -> 0 .. 2]
        BY <3>3, <4>1
      <4>3. \A i \in Insts : ~Recorded(i)' => open'[i] = 0
        BY <3>1, <3>3 DEF Keys
      <4>. QED
        BY <4>2, <4>3 DEF EventsHang
    <3>. QED
      BY <1>1, <2>1, <3>1, <3>2, <3>4, UpkeepNulls
  <2>. QED
    BY <2>2, <2>3
<1>. QED
  BY <1>3, <1>4, <1>5, <1>6, <1>7 DEF ScanNext

LEMMA UpkeepQuotaStep ==
  ASSUME UpkeepInv, QuotaNext
  PROVE  UpkeepInv'
<1>t. /\ RowsFit /\ EventsHang /\ ScansLock /\ TasksTyped /\ rows \in [Insts -> ResourceRow]
      /\ guests \in [Insts -> Guest] /\ quota \in QuotaTask
  BY DEF UpkeepInv, RowsFit, TasksTyped
<1>r. \A j \in Insts : rows[j] \in ResourceRow /\ RowFits(rows[j])
  BY <1>t DEF RowsFit
<1>1. ASSUME guests' \in [Insts -> Guest], quota' \in QuotaTask, UNCHANGED <<rows, limit, open, scan>>
      PROVE  UpkeepInv'
  BY <1>1, <1>t, RowsRest DEF UpkeepInv, TasksTyped
<1>2. CASE QuotaStart
  <2>. DEFINE todo == {rows[i].owner : i \in {j \in Insts : rows[j].status = "running"}}
              q == [NoQuotaTask EXCEPT !.step = "next", !.todo = todo]
  <2>1. quota' = q /\ UNCHANGED <<rows, guests, limit, open, scan>>
    BY <1>2 DEF QuotaStart
  <2>2. todo \subseteq Owners
    BY <1>r DEF RowFits, ResourceRow
  <2>. HIDE DEF todo
  <2>3. q \in QuotaTask
    BY <2>2, UpkeepNulls DEF QuotaTask
  <2>. QED
    BY <1>1, <1>t, <2>1, <2>3
<1>3. ASSUME NEW u \in Owners, ReadOwner(u) PROVE UpkeepInv'
  <2>. DEFINE copy == [i \in Insts |-> IF rows[i].owner = u THEN rows[i] ELSE NoResource]
              q == [quota EXCEPT !.step = "read", !.owner = u, !.todo = @ \ {u},
                                 !.flushed = quota.halted, !.copy = copy]
  <2>1. quota' = q /\ UNCHANGED <<rows, guests, limit, open, scan>>
    BY <1>3 DEF ReadOwner
  <2>2. copy \in [Insts -> ResourceRow]
    BY <1>r, UpkeepNulls
  <2>. HIDE DEF copy
  <2>3. q \in QuotaTask
    BY <1>t, <2>2 DEF QuotaTask
  <2>. QED
    BY <1>1, <1>t, <2>1, <2>3
<1>4. CASE HaltOwner
  <2>1. PICK halted \in SUBSET Asked : \E down \in SUBSET halted : Halt(halted, down)
    BY <1>4 DEF HaltOwner
  <2>2. PICK down \in SUBSET halted : Halt(halted, down)
    BY <2>1
  <2>3. halted \subseteq Insts
    BY <2>1 DEF Asked, ToHalt
  <2>4. guests' \in [Insts -> Guest]
    <3>1. \A i \in Insts : [guests[i] EXCEPT !.state = "stopped"] \in Guest /\ guests[i] \in Guest
      BY <1>t DEF Guest
    <3>2. guests' = [i \in Insts |-> IF i \in down THEN [guests[i] EXCEPT !.state = "stopped"]
                                     ELSE guests[i]]
      BY <2>2 DEF Halt
    <3>. QED
      BY <3>1, <3>2
  <2>. DEFINE none == [i \in Insts |-> NoResource]
              q == [quota EXCEPT !.step = "next", !.owner = NoOwner, !.copy = none,
                                 !.halted = @ \union halted]
  <2>5. quota' = q /\ UNCHANGED <<rows, limit, open, scan>>
    BY <2>2 DEF Halt
  <2>6. none \in [Insts -> ResourceRow]
    BY UpkeepNulls
  <2>. HIDE DEF none
  <2>7. q \in QuotaTask
    BY <1>t, <2>3, <2>6 DEF QuotaTask
  <2>. QED
    BY <1>1, <2>4, <2>5, <2>7
<1>5. CASE CommitQuota
  <2>1. quota' = NoQuotaTask /\ UNCHANGED <<guests, limit, open, scan>>
    BY <1>5 DEF CommitQuota
  <2>2. CASE \E i \in quota.halted : ~Recorded(i)
    <3>1. UNCHANGED rows
      BY <1>5, <2>2 DEF CommitQuota
    <3>. QED
      BY <1>1, <1>t, <2>1, <3>1, UpkeepNulls
  <2>3. CASE \A i \in quota.halted : Recorded(i)
    <3>1. rows' = [i \in Insts |-> IF i \in quota.halted THEN [rows[i] EXCEPT !.status = "stopped"]
                                   ELSE rows[i]]
      BY <1>5, <2>3 DEF CommitQuota
    <3>2. ASSUME NEW i \in Insts
          PROVE  RowFits(rows'[i]) /\ (Recorded(i) <=> Recorded(i)')
      <4>1. CASE i \in quota.halted
        <5>. DEFINE r == [rows[i] EXCEPT !.status = "stopped"]
        <5>1. r \in ResourceRow /\ r.status = "stopped" /\ r.owner = rows[i].owner
          BY <1>r DEF ResourceRow, Statuses
        <5>2. rows'[i] = r
          BY <3>1, <4>1
        <5>. HIDE DEF r
        <5>. QED
          BY <1>r, <2>3, <4>1, <5>1, <5>2 DEF RowFits, Recorded
      <4>2. CASE i \notin quota.halted
        BY <1>r, <3>1, <4>2 DEF Recorded
      <4>. QED
        BY <4>1, <4>2
    <3>3. RowsFit'
      BY <3>1, <3>2 DEF RowsFit, RowFits
    <3>4. EventsHang'
      BY <1>t, <2>1, <3>2 DEF EventsHang
    <3>5. \A s \in Scans : Repairs(s)' = Repairs(s) /\ Repairs(s) \subseteq Insts
      BY <2>1 DEF Repairs, Scanned, Repaired
    <3>6. ScansLock'
      BY <1>t, <2>1, <3>2, <3>5 DEF ScansLock
    <3>7. TasksTyped'
      BY <1>t, <2>1, UpkeepNulls DEF TasksTyped
    <3>. QED
      BY <3>3, <3>4, <3>6, <3>7 DEF UpkeepInv
  <2>. QED
    BY <2>2, <2>3
<1>. QED
  BY <1>2, <1>3, <1>4, <1>5 DEF QuotaNext

LEMMA UpkeepStep == UpkeepInv /\ [UpkeepNext]_upkeepVars => UpkeepInv'
<1>. SUFFICES ASSUME UpkeepInv, [UpkeepNext]_upkeepVars PROVE UpkeepInv'
  OBVIOUS
<1>1. CASE UNCHANGED upkeepVars
  BY <1>1, RowsRest DEF UpkeepInv, TasksTyped, upkeepVars
<1>2. CASE UpkeepNext
  BY <1>2, UpkeepRequestStep, UpkeepScanStep, UpkeepQuotaStep DEF UpkeepNext
<1>. QED
  BY <1>1, <1>2

-----------------------------------------------------------------------------
(* Caches: types *)

CallFits(c) ==
    /\ c \in [step : CallSteps, key : CacheKeys, value : {c.value}]
    /\ c.step \in {"got", "nodes"} => c.value \in Views(c.key)
    /\ c.step = "nodes" => c.key = "cluster_status"
PowerTyped ==
    /\ power \in PowerStates /\ node \in NodeStates /\ reachable \in BOOLEAN
    /\ snapshots \subseteq Snaps /\ pveTask \in PveTask
    /\ pveTask.op = "create" => pveTask.snap \in Snaps
CacheTyped ==
    /\ cache = [k \in CacheKeys |-> cache[k]]
    /\ \A k \in CacheKeys : cache[k] = Absent \/ cache[k] \in Views(k)
CallsTyped == call = [p \in Readers |-> call[p]] /\ \A p \in Readers : CallFits(call[p])

CachesInv == PowerTyped /\ CacheTyped /\ CallsTyped

LEMMA CachesInvTyped == CachesInv => CachesTypeOK
BY DEF CachesInv, PowerTyped, CacheTyped, CallsTyped, CallFits, CachesTypeOK

LEMMA CachesStarts == CachesInit => CachesInv
<1>. SUFFICES ASSUME CachesInit PROVE CachesInv
  OBVIOUS
<1>1. PowerTyped
  BY DEF CachesInit, PowerTyped, PowerStates, NodeStates, PveTask, NoPveTask
<1>2. CacheTyped
  BY DEF CachesInit, CacheTyped
<1>3. CallFits(NoCall)
  BY DEF CallFits, NoCall, CallSteps, CacheKeys
<1>4. CallsTyped
  BY <1>3 DEF CachesInit, CallsTyped
<1>. QED
  BY <1>1, <1>2, <1>4 DEF CachesInv

LEMMA ActualTyped ==
  ASSUME PowerTyped, NEW k \in CacheKeys
  PROVE  Actual[k] \in Views(k) /\ (k \in DOMAIN Fallback => Fallback[k] \in Views(k))
<1>1. IsFiniteSet(Snaps) /\ IsFiniteSet(snapshots) /\ Cardinality(snapshots) <= Cardinality(Snaps)
  BY CachesConstants, FS_Subset DEF PowerTyped
<1>2. Cardinality(snapshots) \in 0 .. Cardinality(Snaps) /\ 0 \in 0 .. Cardinality(Snaps)
  BY <1>1, FS_CardinalityType
<1>3. CASE k = "vm_status"
  BY <1>3 DEF Actual, Fallback, Views, PowerTyped, CacheKeys
<1>4. CASE k = "cluster_resources"
  BY <1>4 DEF Actual, Fallback, Views, PowerTyped, CacheKeys
<1>5. CASE k \in {"nodes", "cluster_status"}
  BY <1>5 DEF Actual, Fallback, Views, PowerTyped, CacheKeys
<1>6. CASE k = "snapshots"
  BY <1>6 DEF Actual, Fallback, Views, PowerTyped, CacheKeys
<1>7. CASE k = "backup_counts"
  BY <1>2, <1>7 DEF Actual, Fallback, Views, CacheKeys
<1>. QED
  BY <1>3, <1>4, <1>5, <1>6, <1>7 DEF CacheKeys

LEMMA CallChanges ==
  ASSUME CallsTyped, NEW p \in Readers, NEW c, CallFits(c), call' = [call EXCEPT ![p] = c]
  PROVE  CallsTyped'
<1>1. call' = [q \in Readers |-> IF q = p THEN c ELSE call[q]]
  BY DEF CallsTyped
<1>. QED
  BY <1>1 DEF CallsTyped, CallFits

LEMMA CacheChanges ==
  ASSUME CacheTyped, NEW k \in CacheKeys, NEW v, v = Absent \/ v \in Views(k),
         cache' = [cache EXCEPT ![k] = v]
  PROVE  CacheTyped'
<1>1. cache' = [l \in CacheKeys |-> IF l = k THEN v ELSE cache[l]]
  BY DEF CacheTyped
<1>. QED
  BY <1>1 DEF CacheTyped, Views

LEMMA NoCallFits == CallFits(NoCall) /\ NoCall.step = "idle"
BY DEF CallFits, NoCall, CallSteps, CacheKeys

LEMMA CallMade ==
  ASSUME NEW k \in CacheKeys, NEW step \in {"missed", "drop"}
  PROVE  CallFits([NoCall EXCEPT !.step = step, !.key = k])
<1>. DEFINE c == [NoCall EXCEPT !.step = step, !.key = k]
<1>1. c \in [step : CallSteps, key : CacheKeys, value : {Absent}] /\ c.step = step
  BY DEF NoCall, CallSteps
<1>. HIDE DEF c
<1>2. CallFits(c)
  BY <1>1 DEF CallFits
<1>. QED
  BY <1>2 DEF c

\* A call goes on.
LEMMA CallGoes ==
  ASSUME NEW c, CallFits(c), NEW step \in {"got", "nodes"}, NEW v \in Views(c.key),
         step = "nodes" => c.key = "cluster_status"
  PROVE  CallFits([c EXCEPT !.step = step, !.value = v])
<1>. DEFINE d == [c EXCEPT !.step = step, !.value = v]
<1>1. /\ d \in [step : CallSteps, key : CacheKeys, value : {v}]
      /\ d.step = step /\ d.key = c.key /\ d.value = v
  BY DEF CallFits, CallSteps
<1>. HIDE DEF d
<1>. QED
  BY <1>1 DEF CallFits

LEMMA CachesStep == CachesInv /\ [CachesNext]_cachesVars => CachesInv'
<1>. SUFFICES ASSUME CachesInv, [CachesNext]_cachesVars PROVE CachesInv'
  OBVIOUS
<1>t. PowerTyped /\ CacheTyped /\ CallsTyped /\ \A p \in Readers : CallFits(call[p])
  BY DEF CachesInv, CallsTyped
<1>1. ASSUME UNCHANGED Cluster PROVE PowerTyped'
  BY <1>1, <1>t DEF PowerTyped, Cluster
<1>2. ASSUME UNCHANGED cache PROVE CacheTyped'
  BY <1>2, <1>t DEF CacheTyped, Views
<1>3. ASSUME UNCHANGED call PROVE CallsTyped'
  BY <1>3, <1>t DEF CallsTyped, CallFits, Views
<1>4. ASSUME NEW p \in Readers, NEW k \in CacheKeys, Miss(p, k) \/ Warm(p, k)
      PROVE  CachesInv'
  <2>1. /\ call' = [call EXCEPT ![p] = [NoCall EXCEPT !.step = "missed", !.key = k]]
        /\ UNCHANGED <<Cluster, cache>>
    BY <1>4 DEF Miss, Warm
  <2>. QED
    BY <1>1, <1>2, <1>t, <2>1, CallMade, CallChanges DEF CachesInv
<1>5. ASSUME NEW p \in Readers, Produce(p)
      PROVE  CachesInv'
  <2>. DEFINE k == call[p].key
              c == IF reachable THEN [call[p] EXCEPT !.step = "got", !.value = Actual[k]]
                   ELSE IF k \in DOMAIN Fallback
                        THEN [call[p] EXCEPT !.step = "got", !.value = Fallback[k]] ELSE NoCall
  <2>1. call' = [call EXCEPT ![p] = c] /\ UNCHANGED <<Cluster, cache>>
    BY <1>5, <1>t DEF Produce, CallsTyped
  <2>2. k \in CacheKeys
    BY <1>t DEF CallFits
  <2>3. ASSUME NEW v \in Views(k) PROVE CallFits([call[p] EXCEPT !.step = "got", !.value = v])
    BY <1>t, <2>3, CallGoes
  <2>4. CallFits(c)
    BY <1>t, <2>2, <2>3, ActualTyped, NoCallFits
  <2>. HIDE DEF c
  <2>. QED
    BY <1>1, <1>2, <1>t, <2>1, <2>4, CallChanges DEF CachesInv
<1>6. ASSUME NEW p \in Readers, ReadNodes(p)
      PROVE  CachesInv'
  <2>. DEFINE v == IF reachable THEN Actual["nodes"] ELSE Fallback["nodes"]
              c == IF cache["nodes"] # Absent
                   THEN [call[p] EXCEPT !.step = "got", !.value = cache["nodes"]]
                   ELSE [call[p] EXCEPT !.step = "nodes", !.value = v]
  <2>1. /\ call' = [call EXCEPT ![p] = c] /\ UNCHANGED <<Cluster, cache>>
        /\ call[p].key = "cluster_status"
    BY <1>6, <1>t DEF ReadNodes, CallsTyped
  <2>2. "nodes" \in CacheKeys /\ Views("nodes") = Views("cluster_status") /\ "nodes" \in DOMAIN Fallback
    BY DEF CacheKeys, Views, Fallback
  <2>3. v \in Views("nodes") /\ (cache["nodes"] # Absent => cache["nodes"] \in Views("nodes"))
    BY <1>t, <2>2, ActualTyped DEF CacheTyped
  <2>. HIDE DEF v
  <2>4. CallFits(c)
    BY <1>t, <2>1, <2>2, <2>3, CallGoes
  <2>. HIDE DEF c
  <2>. QED
    BY <1>1, <1>2, <1>t, <2>1, <2>4, CallChanges DEF CachesInv
<1>7. ASSUME NEW p \in Readers, StoreNodes(p)
      PROVE  CachesInv'
  <2>1. /\ cache' = [cache EXCEPT !["nodes"] = call[p].value] \/ cache' = cache
        /\ call' = [call EXCEPT ![p].step = "got"] /\ call[p].step = "nodes" /\ UNCHANGED Cluster
    BY <1>7 DEF StoreNodes
  <2>2. "nodes" \in CacheKeys /\ Views("nodes") = Views("cluster_status")
    BY DEF CacheKeys, Views
  <2>3. call[p].value \in Views("nodes")
    BY <1>t, <2>1, <2>2 DEF CallFits
  <2>4. CacheTyped'
    BY <1>2, <1>t, <2>1, <2>2, <2>3, CacheChanges
  <2>. DEFINE c == [call[p] EXCEPT !.step = "got"]
  <2>5. call' = [call EXCEPT ![p] = c]
    BY <1>t, <2>1 DEF CallsTyped
  <2>6. CallFits(c)
    <3>1. /\ c \in [step : CallSteps, key : CacheKeys, value : {call[p].value}]
          /\ c.step = "got" /\ c.key = call[p].key /\ c.value = call[p].value
      BY <1>t DEF CallFits, CallSteps
    <3>. HIDE DEF c
    <3>. QED
      BY <1>t, <2>1, <3>1 DEF CallFits
  <2>. HIDE DEF c
  <2>. QED
    BY <1>1, <1>t, <2>1, <2>4, <2>5, <2>6, CallChanges DEF CachesInv
<1>8. ASSUME NEW p \in Readers, Store(p) \/ Drop(p)
      PROVE  CachesInv'
  <2>1. call' = [call EXCEPT ![p] = NoCall] /\ UNCHANGED Cluster /\ call[p].key \in CacheKeys
    BY <1>8, <1>t DEF Store, Drop, CallFits
  <2>2. \/ cache' = [cache EXCEPT ![call[p].key] = call[p].value] /\ call[p].value \in Views(call[p].key)
        \/ cache' = [cache EXCEPT ![call[p].key] = Absent]
        \/ cache' = cache
    BY <1>8, <1>t DEF Store, Drop, CallFits
  <2>3. CacheTyped'
    BY <1>2, <1>t, <2>1, <2>2, CacheChanges
  <2>. QED
    BY <1>1, <1>t, <2>1, <2>3, NoCallFits, CallChanges DEF CachesInv
<1>9. ASSUME NEW p \in Readers, Cut(p)
      PROVE  CachesInv'
  BY <1>1, <1>2, <1>9, <1>t, NoCallFits, CallChanges DEF CachesInv, Cut
<1>10. ASSUME NEW p \in Readers, AskPower(p)
       PROVE  CachesInv'
  <2>1. /\ call' = [call EXCEPT ![p] = [NoCall EXCEPT !.step = "drop", !.key = "vm_status"]]
        /\ UNCHANGED <<Cluster, cache>> /\ "vm_status" \in CacheKeys
    BY <1>10 DEF AskPower, CacheKeys
  <2>. QED
    BY <1>1, <1>2, <1>t, <2>1, CallMade, CallChanges DEF CachesInv
<1>11. ASSUME NEW p \in Readers, NEW op \in {"create", "delete", "rollback"}, NEW s \in Snaps,
              NEW drops \in BOOLEAN, StartTask(p, op, s, drops)
       PROVE  CachesInv'
  <2>1. /\ pveTask' = [op |-> op, snap |-> s]
        /\ UNCHANGED <<power, node, snapshots, reachable, cache>> /\ "snapshots" \in CacheKeys
        /\ \/ call' = [call EXCEPT ![p] = [NoCall EXCEPT !.step = "drop", !.key = "snapshots"]]
           \/ call' = call
    BY <1>11 DEF StartTask, CacheKeys
  <2>2. PowerTyped'
    BY <1>t, <2>1 DEF PowerTyped, PveTask
  <2>3. CallsTyped'
    BY <1>3, <1>t, <2>1, CallMade, CallChanges
  <2>. QED
    BY <1>2, <2>1, <2>2, <2>3 DEF CachesInv
<1>12. ASSUME NEW k \in CacheKeys, Outlive(k)
       PROVE  CachesInv'
  BY <1>1, <1>3, <1>12, <1>t, CacheChanges DEF CachesInv, Outlive
<1>13. CASE Turn \/ Fail
  <2>1. UNCHANGED <<cache, call>> /\ PowerTyped'
    BY <1>13, <1>t DEF Turn, Fail, PowerTyped
  <2>. QED
    BY <1>2, <1>3, <2>1 DEF CachesInv
<1>14. CASE EndTask
  <2>1. snapshots' \subseteq Snaps
    <3>1. snapshots \subseteq Snaps /\ (pveTask.op = "create" => pveTask.snap \in Snaps)
      BY <1>t DEF PowerTyped
    <3>2. CASE pveTask.op = "create"
      BY <1>14, <3>1, <3>2 DEF EndTask
    <3>3. CASE pveTask.op = "delete"
      BY <1>14, <3>1, <3>3 DEF EndTask
    <3>4. CASE pveTask.op \notin {"create", "delete"}
      <4>1. snapshots' = snapshots
        BY <1>14, <3>4 DEF EndTask
      <4>. QED
        BY <3>1, <4>1
    <3>. QED
      BY <3>2, <3>3, <3>4
  <2>2. UNCHANGED <<node, reachable, cache, call>> /\ power' \in PowerStates /\ pveTask' \in PveTask
    BY <1>14, <1>t DEF EndTask, PowerTyped, PveTask, NoPveTask
  <2>3. pveTask'.op # "create"
    BY <1>14 DEF EndTask, NoPveTask
  <2>4. PowerTyped'
    BY <1>t, <2>1, <2>2, <2>3 DEF PowerTyped
  <2>. QED
    BY <1>2, <1>3, <2>2, <2>4 DEF CachesInv
<1>15. CASE UNCHANGED cachesVars
  BY <1>1, <1>2, <1>3, <1>15 DEF CachesInv, cachesVars, Cluster
<1>. QED
  BY <1>4, <1>5, <1>6, <1>7, <1>8, <1>9, <1>10, <1>11, <1>12, <1>13, <1>14, <1>15 DEF CachesNext

-----------------------------------------------------------------------------
(* Registry: types *)

LEMMA HasLeast ==
  ASSUME NEW S \in SUBSET Nat, S # {}
  PROVE  \E i \in S : \A j \in S : i <= j
<1>. DEFINE below == {p \in Nat \X Nat : p[1] < p[2]}
<1>1. IsWellFoundedOn(below, Nat)
  BY NatLessThanWellFounded DEF OpToRel
<1>2. PICK i \in S : \A j \in S : ~(<<j, i>> \in below)
  <2>. HIDE DEF below
  <2>. QED
    BY <1>1, WFMin
<1>3. \A j \in S : j \in Nat /\ i \in Nat /\ ~(j < i)
  BY <1>2
<1>. QED
  BY <1>3

LEMMA HasFirst ==
  ASSUME NEW n \in Nat, NEW S \in SUBSET (1 .. n), S # {}
  PROVE  First(S) \in S /\ \A j \in S : First(S) <= j
<1>1. S \subseteq Nat
  OBVIOUS
<1>2. \E i \in S : \A j \in S : i <= j
  BY <1>1, HasLeast
<1>. QED
  BY <1>2 DEF First

LEMMA HasLast ==
  ASSUME NEW n \in Nat, NEW S \in SUBSET (1 .. n), S # {}
  PROVE  Last(S) \in S /\ \A j \in S : j <= Last(S)
<1>. DEFINE D == {d \in 0 .. n : n - d \in S}
<1>1. D \subseteq Nat
  OBVIOUS
<1>2. \A i \in S : n - i \in D
  <2>. SUFFICES ASSUME NEW i \in S PROVE n - i \in D
    OBVIOUS
  <2>1. i \in 1 .. n
    OBVIOUS
  <2>2. n - i \in 0 .. n /\ n - (n - i) = i
    BY <2>1
  <2>. QED
    BY <2>2
<1>3. PICK d \in D : \A e \in D : d <= e
  <2>1. D # {}
    BY <1>2
  <2>. HIDE DEF D
  <2>. QED
    BY <1>1, <2>1, HasLeast
<1>4. n - d \in S
  BY <1>3
<1>5. ASSUME NEW j \in S PROVE j <= n - d
  <2>1. d <= n - j /\ d \in 0 .. n /\ j \in 1 .. n
    BY <1>2, <1>3
  <2>. QED
    BY <2>1
<1>. QED
  BY <1>4, <1>5 DEF Last

LEMMA FillTyped ==
  ASSUME NEW clients \in Clients, NEW table \in Seq(Connection)
  PROVE  Fill(clients, table) \in Clients
<1>. DEFINE pve == OfKind(table, "pve")
            pbs == OfKind(table, "pbs")
            At(S, c) == {i \in S : table[i].name = c}
            For(c) == {i \in pbs : table[i].of = c}
            Host(S, c, h) == IF S = {} THEN h ELSE table[Last(S)].host
            d == IF clients.default # NoCluster \/ pve = {} THEN clients.default
                 ELSE table[First(pve)].name
<1>1. /\ Len(table) \in Nat /\ DOMAIN table = 1 .. Len(table)
      /\ \A i \in 1 .. Len(table) : table[i] \in Connection
  OBVIOUS
<1>2. pve \subseteq 1 .. Len(table) /\ pbs \subseteq 1 .. Len(table)
  BY <1>1 DEF OfKind, Decrypted
<1>. HIDE DEF pve, pbs
<1>3. \A c \in Clusters :
        /\ (IF At(pve, c) = {} THEN clients.pve[c] ELSE table[Last(At(pve, c))].host)
             \in Hosts \union {NoHost}
        /\ (IF For(c) = {} THEN clients.pbs[c] ELSE table[Last(For(c))].host) \in Hosts \union {NoHost}
  <2>1. ASSUME NEW S \in SUBSET (1 .. Len(table)), S # {} PROVE table[Last(S)].host \in Hosts
    BY <1>1, <2>1, HasLast DEF Connection
  <2>2. \A c \in Clusters : clients.pve[c] \in Hosts \union {NoHost}
                            /\ clients.pbs[c] \in Hosts \union {NoHost}
    BY DEF Clients
  <2>. QED
    BY <1>2, <2>1, <2>2
<1>4. d \in Clusters \union {NoCluster}
  <2>1. CASE clients.default # NoCluster \/ pve = {}
    BY <2>1 DEF Clients
  <2>2. CASE ~(clients.default # NoCluster \/ pve = {})
    BY <1>1, <1>2, <2>2, HasFirst DEF Connection
  <2>. QED
    BY <2>1, <2>2
<1>5. clients.known \subseteq Clusters
  BY DEF Clients
<1>6. Fill(clients, table).default = d
  BY DEF Fill, pve
<1>. DEFINE pves == [c \in Clusters |-> IF At(pve, c) = {} THEN clients.pve[c]
                                    ELSE table[Last(At(pve, c))].host]
            pbss == [c \in Clusters |-> IF For(c) = {} THEN clients.pbs[c] ELSE table[Last(For(c))].host]
            knows == clients.known \union
                  {c \in Clusters : \E i \in For(c) :
                       clients.pve[c] # NoHost \/ \E j \in At(pve, c) : j < i}
<1>7. Fill(clients, table) = [pve |-> pves, pbs |-> pbss, known |-> knows, default |-> d]
  BY DEF Fill, pve, pbs
<1>8. /\ pves \in [Clusters -> Hosts \union {NoHost}] /\ pbss \in [Clusters -> Hosts \union {NoHost}]
      /\ knows \subseteq Clusters
  BY <1>3, <1>5
<1>. HIDE DEF pves, pbss, knows, d
<1>. QED
  BY <1>4, <1>7, <1>8 DEF Clients

RowsKnown ==
    /\ conns \in Seq(Connection)
    /\ \A i, j \in DOMAIN conns : conns[i].name = conns[j].name => i = j

RegistryTables == RowsKnown /\ registry \in Clients /\ worker \in Clients /\ load \in [Loads -> Load]
LEMMA RegistrySplit == RegistryTypeOK <=> RegistryTables
BY DEF RegistryTypeOK, RegistryTables, RowsKnown

LEMMA RegistryNulls == NoClients \in Clients /\ NoLoad \in Load /\ NoLoad.step = "idle"
<1>1. NoClients \in Clients
  BY DEF NoClients, Clients
<1>2. NoLoad \in Load /\ NoLoad.step = "idle"
  BY DEF NoLoad, Load
<1>. QED
  BY <1>1, <1>2

LEMMA RegistryStarts == RegistryInit => RegistryTypeOK
<1>. SUFFICES ASSUME RegistryInit PROVE RegistryTypeOK
  OBVIOUS
<1>1. RowsKnown
  BY DEF RegistryInit, RowsKnown
<1>. QED
  BY <1>1, RegistryNulls, RegistrySplit DEF RegistryInit, RegistryTables

LEMMA RowsCreated ==
  ASSUME RowsKnown, NEW row \in Connection, row.name \notin NamesIn(conns),
         conns' = Append(conns, row)
  PROVE  RowsKnown'
<1>1. /\ conns' \in Seq(Connection) /\ Len(conns') = Len(conns) + 1 /\ Len(conns) \in Nat
      /\ \A i \in 1 .. Len(conns) : conns'[i] = conns[i]
      /\ conns'[Len(conns) + 1] = row
  BY DEF RowsKnown
<1>2. DOMAIN conns = 1 .. Len(conns) /\ DOMAIN conns' = 1 .. Len(conns) + 1
  BY <1>1 DEF RowsKnown
<1>3. \A i \in 1 .. Len(conns) : conns[i].name # row.name
  BY <1>2 DEF NamesIn
<1>. QED
  BY <1>1, <1>2, <1>3 DEF RowsKnown

LEMMA RowUpdated ==
  ASSUME RowsKnown, NEW i \in DOMAIN conns, NEW row \in Connection,
         row.name \notin NamesIn(conns) \ {conns[i].name}, conns' = [conns EXCEPT ![i] = row]
  PROVE  RowsKnown'
<1>1. /\ conns' \in Seq(Connection) /\ DOMAIN conns' = DOMAIN conns /\ conns'[i] = row
      /\ \A j \in DOMAIN conns : j # i => conns'[j] = conns[j]
  BY DEF RowsKnown
<1>2. \A j \in DOMAIN conns : j # i => conns[j].name # row.name
  BY DEF RowsKnown, NamesIn
<1>. QED
  BY <1>1, <1>2 DEF RowsKnown

LEMMA RowGone ==
  ASSUME RowsKnown, NEW i \in DOMAIN conns, RowRemoved(i)
  PROVE  /\ RowsKnown' /\ Len(conns') = Len(conns) - 1 /\ Len(conns) \in Nat
         /\ \A j \in DOMAIN conns' : \E k \in DOMAIN conns : conns'[j] = conns[k]
<1>1. Len(conns) \in Nat /\ DOMAIN conns = 1 .. Len(conns) /\ i \in 1 .. Len(conns)
      /\ \A j \in 1 .. Len(conns) : conns[j] \in Connection
  BY DEF RowsKnown
<1>2. Len(conns) - 1 \in Nat
  BY <1>1
<1>3. conns' = [j \in 1 .. Len(conns) - 1 |-> IF j < i THEN conns[j] ELSE conns[j + 1]]
  BY DEF RowRemoved
<1>4. /\ conns' \in Seq(Connection) /\ Len(conns') = Len(conns) - 1
      /\ DOMAIN conns' = 1 .. Len(conns) - 1
  BY <1>1, <1>2, <1>3, IsASeq
<1>5. \A j, k \in 1 .. Len(conns) - 1 : conns'[j].name = conns'[k].name => j = k
  BY <1>1, <1>3 DEF RowsKnown
<1>6. ASSUME NEW j \in DOMAIN conns'
      PROVE  \E k \in DOMAIN conns : conns'[j] = conns[k]
  BY <1>1, <1>3, <1>4
<1>. QED
  BY <1>1, <1>4, <1>5, <1>6 DEF RowsKnown

LEMMA RegistryStep == RegistryTypeOK /\ [RegistryNext]_registryVars => RegistryTypeOK'
<1>. SUFFICES ASSUME RegistryTables, [RegistryNext]_registryVars PROVE RegistryTables'
  BY RegistrySplit DEF RegistryTypeOK, RegistryTables, RowsKnown
<1>t. RowsKnown /\ registry \in Clients /\ worker \in Clients /\ load \in [Loads -> Load]
      /\ conns \in Seq(Connection) /\ \A l \in Loads : load[l] \in Load
  BY DEF RegistryTables, RowsKnown
<1>u. ASSUME UNCHANGED conns PROVE RowsKnown'
  BY <1>u, <1>t DEF RowsKnown
<1>s. ASSUME NEW l \in Loads, NEW step \in {"committed", "cleared"}
      PROVE  [load EXCEPT ![l].step = step] \in [Loads -> Load]
  <2>1. [load[l] EXCEPT !.step = step] \in Load
    BY <1>t DEF Load
  <2>. QED
    BY <1>t, <2>1
<1>1. ASSUME NEW l \in Loads, NEW row \in Connection, CreateConnection(l, row)
      PROVE  RegistryTables'
  BY <1>1, <1>t, <1>s, RowsCreated DEF CreateConnection, Committed, RegistryTables
<1>2. ASSUME NEW l \in Loads, NEW row \in Connection, NEW i \in DOMAIN conns,
             UpdateConnection(l, i, row)
      PROVE  RegistryTables'
  BY <1>2, <1>t, <1>s, RowUpdated DEF UpdateConnection, Committed, RegistryTables
<1>3. ASSUME NEW l \in Loads, NEW i \in DOMAIN conns, DeleteConnection(l, i)
      PROVE  RegistryTables'
  BY <1>3, <1>t, <1>s, RowGone DEF DeleteConnection, Committed, RegistryTables
<1>4. ASSUME NEW l \in Loads, ClearClients(l) \/ LoadForDrift(l)
      PROVE  RegistryTables'
  BY <1>4, <1>t, <1>u, <1>s, RegistryNulls DEF ClearClients, LoadForDrift, RegistryTables
<1>5. ASSUME NEW l \in Loads, ReadConnections(l)
      PROVE  RegistryTables'
  <2>1. [step |-> "read", rows |-> conns] \in Load
    BY <1>t DEF Load
  <2>. QED
    BY <1>5, <1>t, <1>u, <2>1 DEF ReadConnections, RegistryTables
<1>6. ASSUME NEW l \in Loads, FillClients(l)
      PROVE  RegistryTables'
  <2>1. load[l].rows \in Seq(Connection)
    BY <1>t DEF Load
  <2>. QED
    BY <1>6, <1>t, <1>u, <2>1, FillTyped, RegistryNulls DEF FillClients, RegistryTables
<1>7. ASSUME NEW l \in Loads, LoadFails(l)
      PROVE  RegistryTables'
  BY <1>7, <1>t, <1>u, RegistryNulls DEF LoadFails, RegistryTables
<1>8. CASE RestartApi \/ LoadForTask \/ RestartWorker
  BY <1>8, <1>t, <1>u, FillTyped, RegistryNulls
  DEF RestartApi, LoadForTask, RestartWorker, RegistryTables
<1>9. CASE UNCHANGED registryVars
  BY <1>9, <1>t, <1>u DEF registryVars, RegistryTables
<1>. QED
  BY <1>1, <1>2, <1>3, <1>4, <1>5, <1>6, <1>7, <1>8, <1>9 DEF RegistryNext

\* Connections keep unique names and every process well-typed clients, always.
THEOREM RegistryTyped == RegistrySpec => []RegistryTypeOK
<1>1. RegistryInit => RegistryTypeOK
  BY RegistryStarts
<1>2. RegistryTypeOK /\ [RegistryNext]_registryVars => RegistryTypeOK'
  BY RegistryStep
<1>. QED
  BY <1>1, <1>2, PTL DEF RegistrySpec

-----------------------------------------------------------------------------
(* Registry: what is loaded *)

\* What RegistryKnown says of a table and a registry.
Mirrors(clients, table) ==
    LET pve == {i \in DOMAIN table : table[i].active /\ table[i].kind = "pve"} IN
    /\ \A i \in pve : clients.pve[table[i].name] = table[i].host
                      /\ Resolve(clients, table[i].name) = table[i].name
    /\ \A c \in Clusters : (\A i \in pve : table[i].name # c) => clients.pve[c] = NoHost
    /\ clients.default = IF pve = {} THEN NoCluster ELSE table[First(pve)].name

AllIdle == \A l \in Loads : load[l] = NoLoad
Readable(table) == \A i \in DOMAIN table : table[i].secret

LEMMA FillMirrors ==
  ASSUME RowsKnown, Readable(conns)
  PROVE  Mirrors(Fill(NoClients, conns), conns)
<1>. DEFINE pve == {i \in DOMAIN conns : conns[i].active /\ conns[i].kind = "pve"}
            At(c) == {i \in pve : conns[i].name = c}
            filled == Fill(NoClients, conns)
<1>1. /\ Len(conns) \in Nat /\ DOMAIN conns = 1 .. Len(conns)
      /\ \A i \in 1 .. Len(conns) : conns[i] \in Connection /\ conns[i].secret
  BY DEF RowsKnown, Readable
<1>2. \A i \in DOMAIN conns : 1 .. i \subseteq DOMAIN conns
  BY <1>1
<1>3. OfKind(conns, "pve") = pve
  BY <1>1, <1>2 DEF OfKind, Decrypted
<1>4. pve \subseteq 1 .. Len(conns)
  BY <1>1
<1>5. \A c \in Clusters : filled.pve[c] = IF At(c) = {} THEN NoHost ELSE conns[Last(At(c))].host
  <2>. HIDE DEF pve
  <2>. QED
    BY <1>3 DEF Fill, NoClients
<1>6. filled.default = IF pve = {} THEN NoCluster ELSE conns[First(pve)].name
  <2>. HIDE DEF pve
  <2>. QED
    BY <1>3 DEF Fill, NoClients
<1>7. ASSUME NEW i \in pve
      PROVE  filled.pve[conns[i].name] = conns[i].host /\ conns[i].name \in Clusters
             /\ conns[i].host # NoHost
  <2>1. conns[i].name \in Clusters /\ conns[i].host \in Hosts
    BY <1>1, <1>4 DEF Connection
  <2>2. At(conns[i].name) = {i}
    BY <1>4, <1>1 DEF RowsKnown
  <2>3. Last({i}) = i
    BY <1>1, <1>4 DEF Last
  <2>. HIDE DEF At, filled, pve
  <2>4. filled.pve[conns[i].name] = conns[i].host
    BY <1>5, <2>1, <2>2, <2>3
  <2>. QED
    BY <2>1, <2>4, RegistryConstants
<1>8. \A c \in Clusters : (\A i \in pve : conns[i].name # c) => filled.pve[c] = NoHost
  <2>. HIDE DEF filled, pve
  <2>. QED
    BY <1>5
<1>. HIDE DEF filled
<1>9. Mirrors(filled, conns)
  BY <1>6, <1>7, <1>8 DEF Mirrors, Resolve
<1>. QED
  BY <1>9 DEF filled

\* One load at a time, each from an empty registry and a table that stands
\* still until the load has ended.
KnownInv ==
    /\ RegistryTypeOK /\ Readable(conns)
    /\ \A k, l \in Loads : load[k] # NoLoad /\ load[l] # NoLoad => k = l
    /\ \A l \in Loads : load[l].step \in {"cleared", "read"} => registry = NoClients
    /\ \A l \in Loads : load[l].step = "read" => load[l].rows = conns
    /\ AllIdle => Mirrors(registry, conns)

LEMMA KnownStarts == RegistryInit => KnownInv
<1>. SUFFICES ASSUME RegistryInit PROVE KnownInv
  OBVIOUS
<1>1. RegistryTypeOK /\ \A l \in Loads : load[l] = NoLoad
  BY RegistryStarts DEF RegistryInit
<1>2. Readable(conns)
  BY DEF RegistryInit, Readable
<1>3. Mirrors(registry, conns)
  BY DEF RegistryInit, Mirrors, NoClients
<1>. QED
  BY <1>1, <1>2, <1>3, RegistryNulls DEF KnownInv

LEMMA KnownStep ==
  ASSUME RegFaults = {}
  PROVE  KnownInv /\ [RegistryNext]_registryVars => KnownInv'
<1>. SUFFICES ASSUME KnownInv, [RegistryNext]_registryVars PROVE KnownInv'
  OBVIOUS
<1>t. /\ RegistryTypeOK' /\ RegistryTypeOK /\ RowsKnown /\ load \in [Loads -> Load]
      /\ Readable(conns) /\ \A l \in Loads : load[l] \in Load
  BY RegistryStep, RegistrySplit DEF KnownInv, RegistryTables
<1>m. ASSUME NEW l \in Loads, MayLoad(l) PROVE AllIdle
  BY <1>m DEF MayLoad, AllIdle
\* A load begins, or goes on.
<1>1. ASSUME NEW l \in Loads, NEW r \in Load, r.step # "idle", load' = [load EXCEPT ![l] = r],
             load[l] # NoLoad \/ AllIdle, Readable(conns'),
             r.step \in {"cleared", "read"} => registry' = NoClients,
             r.step = "read" => r.rows = conns'
      PROVE  KnownInv'
  <2>1. load'[l] = r /\ r # NoLoad /\ \A k \in Loads : k # l => load'[k] = load[k]
    BY <1>1, <1>t, RegistryNulls
  <2>2. \A k \in Loads : k # l => load[k] = NoLoad
    BY <1>1 DEF KnownInv, AllIdle
  <2>3. ~AllIdle'
    BY <2>1 DEF AllIdle
  <2>. QED
    BY <1>1, <1>t, <2>1, <2>2, <2>3, RegistryNulls DEF KnownInv
<1>2. ASSUME NEW l \in Loads, NEW row \in Connection,
             CreateConnection(l, row) \/ \E i \in DOMAIN conns : UpdateConnection(l, i, row)
      PROVE  KnownInv'
  <2>. DEFINE r == [load[l] EXCEPT !.step = "committed"]
  <2>1. AllIdle /\ load' = [load EXCEPT ![l] = r]
    BY <1>2, <1>m, <1>t DEF CreateConnection, UpdateConnection, Committed
  <2>2. r \in Load /\ r.step = "committed"
    BY <1>t DEF Load
  <2>3. Readable(conns')
    <3>1. CASE CreateConnection(l, row)
      <4>1. conns' = Append(conns, row) /\ row.secret
        BY <3>1 DEF CreateConnection
      <4>. QED
        BY <1>t, <4>1 DEF RowsKnown, Readable
    <3>2. ASSUME NEW i \in DOMAIN conns, UpdateConnection(l, i, row) PROVE Readable(conns')
      <4>1. conns' = [conns EXCEPT ![i] = row] /\ row.secret
        BY <1>t, <3>2 DEF UpdateConnection, Readable
      <4>. QED
        BY <1>t, <4>1 DEF RowsKnown, Readable
    <3>. QED
      BY <1>2, <3>1, <3>2
  <2>. HIDE DEF r
  <2>. QED
    BY <1>1, <2>1, <2>2, <2>3
<1>3. ASSUME NEW l \in Loads, NEW i \in DOMAIN conns, DeleteConnection(l, i)
      PROVE  KnownInv'
  <2>. DEFINE r == [load[l] EXCEPT !.step = "committed"]
  <2>1. AllIdle /\ load' = [load EXCEPT ![l] = r] /\ RowRemoved(i)
    BY <1>3, <1>m, <1>t DEF DeleteConnection, Committed
  <2>2. r \in Load /\ r.step = "committed"
    BY <1>t DEF Load
  <2>3. Readable(conns')
    BY <1>t, <2>1, RowGone DEF Readable
  <2>. HIDE DEF r
  <2>. QED
    BY <1>1, <2>1, <2>2, <2>3
<1>4. ASSUME NEW l \in Loads, ClearClients(l) \/ LoadForDrift(l)
      PROVE  KnownInv'
  <2>. DEFINE r == [load[l] EXCEPT !.step = "cleared"]
  <2>1. /\ load[l] # NoLoad \/ AllIdle
        /\ load' = [load EXCEPT ![l] = r] /\ registry' = NoClients /\ conns' = conns
    BY <1>4, <1>m, <1>t, RegistryNulls DEF ClearClients, LoadForDrift
  <2>2. r \in Load /\ r.step = "cleared"
    BY <1>t DEF Load
  <2>. HIDE DEF r
  <2>. QED
    BY <1>1, <1>t, <2>1, <2>2
<1>5. ASSUME NEW l \in Loads, ReadConnections(l)
      PROVE  KnownInv'
  <2>. DEFINE r == [step |-> "read", rows |-> conns]
  <2>1. /\ load[l] # NoLoad
        /\ load' = [load EXCEPT ![l] = r] /\ registry' = NoClients /\ conns' = conns
    BY <1>5, RegistryNulls DEF ReadConnections, KnownInv
  <2>2. r \in Load /\ r.step = "read" /\ r.rows = conns
    BY <1>t DEF Load, RowsKnown
  <2>. HIDE DEF r
  <2>. QED
    BY <1>1, <1>t, <2>1, <2>2
<1>6. ASSUME AllIdle', UNCHANGED conns, registry' = Fill(NoClients, conns)
      PROVE  KnownInv'
  <2>1. Mirrors(registry', conns')
    BY <1>6, <1>t, FillMirrors
  <2>. QED
    BY <1>6, <1>t, <2>1, RegistryNulls DEF KnownInv, AllIdle
<1>7. ASSUME NEW l \in Loads, FillClients(l)
      PROVE  KnownInv'
  <2>1. load[l] # NoLoad /\ load[l].step = "read"
    BY <1>7, RegistryNulls DEF FillClients
  <2>2. registry = NoClients /\ load[l].rows = conns /\ \A k \in Loads : k # l => load[k] = NoLoad
    BY <2>1 DEF KnownInv
  <2>3. AllIdle'
    BY <1>7, <1>t, <2>2 DEF FillClients, AllIdle
  <2>. QED
    BY <1>6, <1>7, <2>2, <2>3 DEF FillClients
<1>8. CASE RestartApi
  BY <1>6, <1>8 DEF RestartApi, AllIdle
<1>9. CASE LoadForTask \/ RestartWorker \/ UNCHANGED registryVars
  <2>1. UNCHANGED <<conns, registry, load>>
    BY <1>9 DEF LoadForTask, RestartWorker, registryVars
  <2>. QED
    BY <1>t, <2>1 DEF KnownInv, AllIdle
<1>10. ASSUME NEW l \in Loads, LoadFails(l) PROVE FALSE
  BY <1>10 DEF LoadFails
<1>. QED
  BY <1>2, <1>3, <1>4, <1>5, <1>7, <1>8, <1>9, <1>10 DEF RegistryNext

\* One load at a time, none of which fails: between the changes the registry
\* mirrors the table of connections.
THEOREM RegistryFollows ==
  ASSUME RegFaults = {}
  PROVE  RegistrySpec => []RegistryKnown
<1>1. RegistryInit => KnownInv
  BY KnownStarts
<1>2. KnownInv /\ [RegistryNext]_registryVars => KnownInv'
  BY KnownStep
<1>3. KnownInv => RegistryKnown
  BY DEF KnownInv, RegistryKnown, Mirrors, AllIdle
<1>. QED
  BY <1>1, <1>2, <1>3, PTL DEF RegistrySpec

-----------------------------------------------------------------------------
(* Upkeep and Caches: types *)

\* Rows and guests, the repairs of the scan, the quota task: a row is owned as
\* long as it is there, and no event hangs on a row that is gone.
THEOREM UpkeepTyped == UpkeepInit /\ [][UpkeepNext]_upkeepVars => []UpkeepTypeOK
<1>1. UpkeepInit => UpkeepInv
  BY UpkeepStarts
<1>2. UpkeepInv /\ [UpkeepNext]_upkeepVars => UpkeepInv'
  BY UpkeepStep
<1>3. UpkeepInv => UpkeepTypeOK
  BY UpkeepInvTyped
<1>. QED
  BY <1>1, <1>2, <1>3, PTL

\* What is cached under a key is a value of that key's producer.
THEOREM CachesTyped == CachesInit /\ [][CachesNext]_cachesVars => []CachesTypeOK
<1>1. CachesInit => CachesInv
  BY CachesStarts
<1>2. CachesInv /\ [CachesNext]_cachesVars => CachesInv'
  BY CachesStep
<1>3. CachesInv => CachesTypeOK
  BY CachesInvTyped
<1>. QED
  BY <1>1, <1>2, <1>3, PTL

-----------------------------------------------------------------------------
(* All of them *)

PlatformInv ==
    /\ UpkeepInv /\ CachesInv /\ DependentsTypeInv /\ RegistryTypeOK /\ ReviewsTypeInv
    /\ part \in Parts

\* A part moves one component and leaves the others alone.
LEMMA PlatformStep == PlatformInv /\ [PlatformNext]_platformVars => PlatformInv'
<1>. SUFFICES ASSUME PlatformInv, [PlatformNext]_platformVars PROVE PlatformInv'
  OBVIOUS
<1>1. [UpkeepNext]_upkeepVars
  BY DEF PlatformNext, UpkeepParts, CachesParts, DependentsParts, RegistryParts, ReviewsParts,
         platformVars
<1>2. [CachesNext]_cachesVars
  BY DEF PlatformNext, UpkeepParts, CachesParts, DependentsParts, RegistryParts, ReviewsParts,
         platformVars
<1>3. [DependentsNext]_dependentsVars
  BY DEF PlatformNext, UpkeepParts, CachesParts, DependentsParts, RegistryParts, ReviewsParts,
         platformVars
<1>4. [RegistryNext]_registryVars
  BY DEF PlatformNext, UpkeepParts, CachesParts, DependentsParts, RegistryParts, ReviewsParts,
         platformVars
<1>5. [ReviewsNext]_reviewsVars
  BY DEF PlatformNext, UpkeepParts, CachesParts, DependentsParts, RegistryParts, ReviewsParts,
         platformVars
<1>6. part' = part
  BY DEF PlatformNext, UpkeepParts, CachesParts, DependentsParts, RegistryParts, ReviewsParts,
         platformVars
<1>. QED
  BY <1>1, <1>2, <1>3, <1>4, <1>5, <1>6, UpkeepStep, CachesStep, DependentsTypeStep, RegistryStep,
     ReviewsTypeStep DEF PlatformInv

\* The type invariant of the run, for any number of everything.
THEOREM PlatformTyped == PlatformSpec => []PlatformTypeOK
<1>1. PlatformInit => PlatformInv
  BY UpkeepStarts, CachesStarts, DependentsTypeStarts, RegistryStarts, ReviewsTypeStarts
  DEF PlatformInit, PlatformInv
<1>2. PlatformInv /\ [PlatformNext]_platformVars => PlatformInv'
  BY PlatformStep
<1>3. PlatformInv => PlatformTypeOK
  BY UpkeepInvTyped, CachesInvTyped DEF PlatformInv, PlatformTypeOK, DependentsTypeInv, ReviewsTypeInv
<1>. QED
  BY <1>1, <1>2, <1>3, PTL DEF PlatformSpec
===============================================================================
