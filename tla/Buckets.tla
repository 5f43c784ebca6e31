-------------------------------- MODULE Buckets --------------------------------
(***************************************************************************)
(* Object storage: the storage_buckets table with its counters, kept       *)
(* beside the S3 store (routers/storage.py, services/storage_service.py).  *)
(*                                                                         *)
(* A handler reads the bucket's row, calls S3, and commits counters        *)
(* computed from the row it read.  Settings, policies and shares are keys  *)
(* of one JSON column, tags, read and written as a whole.                  *)
(***************************************************************************)
EXTENDS Integers, FiniteSetsExt, Actors

CONSTANTS
    Names,         \* bucket names; a row is known by its unique name
    ObjectKeys, ObjectSizes, BucketProcs,
    MaxBuckets,    \* max_buckets of a user's quota
    MaxStorage,    \* max_storage_gb of the quota
    MaxInteger,    \* the largest value of an INTEGER column
    MoveOntoItself,   \* whether an object is moved to its own key
    NoName, NoKey

ASSUME BucketConstants ==
    /\ ObjectSizes \subseteq Nat \ {0} /\ IsFiniteSet(ObjectKeys)
    /\ MaxBuckets \in Nat /\ MaxStorage \in Nat /\ MaxInteger \in Nat
    /\ NoName \notin Names /\ NoKey \notin ObjectKeys
    /\ MoveOntoItself \in BOOLEAN

VARIABLES
    bucket,   \* storage_buckets
    s3,       \* the store: what is there, the size of each object (0: none)
    breq,     \* requests of the API
    owed,     \* history: objects that an answered request has put, and that no
              \* later request asked to delete
    upset     \* history: names on which two requests overlapped, a request
              \* failed, or a presigned URL or a purge worked

historyVars == <<owed, upset>>
bucketVars == <<bucket, s3, breq, historyVars>>

Settings == {"tags", "policy", "shares"}
Bucket == [owner : Users \union {NoUser}, count : 0 .. MaxInteger, size : 0 .. MaxInteger,
           tags : SUBSET Settings]
NoBucket == [owner |-> NoUser, count |-> 0, size |-> 0, tags |-> {}]
Stored == [there : BOOLEAN, object : [ObjectKeys -> ObjectSizes \union {0}]]
NotStored == [there |-> FALSE, object |-> [k \in ObjectKeys |-> 0]]

BucketOps == {"create", "delete", "upload", "remove", "copy", "move", "settings"}
BucketRequest ==
    [op : BucketOps \union {"none"}, step : {"read", "copied", "done"}, user : Users \union {NoUser},
     name : Names \union {NoName}, row : Bucket,        \* the bucket and the row read
     to : Names \union {NoName}, toRow : Bucket,        \* of a copy or move: the destination
     key : ObjectKeys \union {NoKey}, toKey : ObjectKeys \union {NoKey},
     size : ObjectSizes \union {0}, force : BOOLEAN, tags : SUBSET Settings]
BucketFree == [op |-> "none", step |-> "read", user |-> NoUser, name |-> NoName, row |-> NoBucket,
               to |-> NoName, toRow |-> NoBucket, key |-> NoKey, toKey |-> NoKey,
               size |-> 0, force |-> FALSE, tags |-> {}]

Owned(n) == bucket[n].owner # NoUser
BucketsOf(u) == {n \in Names : bucket[n].owner = u}

BucketsTypeOK ==
    /\ bucket \in [Names -> Bucket]
    /\ \A n \in Names : ~Owned(n) => bucket[n] = NoBucket
    /\ s3 \in [Names -> Stored]
    /\ \A n \in Names : ~s3[n].there => s3[n] = NotStored
    /\ breq \in [BucketProcs -> BucketRequest]
    /\ owed \subseteq Names \X ObjectKeys
    /\ upset \subseteq Names

BucketsInit ==
    /\ bucket = [n \in Names |-> NoBucket]
    /\ s3 = [n \in Names |-> NotStored]
    /\ breq = [p \in BucketProcs |-> BucketFree]
    /\ owed = {}
    /\ upset = {}

-----------------------------------------------------------------------------
BucketUsed(n) == \E p \in BucketProcs : n \in {breq[p].name, breq[p].to}

BucketBegin(p, r) ==
    /\ breq[p] = BucketFree
    /\ breq' = [breq EXCEPT ![p] = r]
    /\ upset' = upset \union {n \in {r.name, r.to} \intersect Names : BucketUsed(n)}
BucketEnd(p) == breq' = [breq EXCEPT ![p] = BucketFree]
Does(p, op, step) == breq[p].op = op /\ breq[p].step = step
Ask(op, u, n) == [BucketFree EXCEPT !.op = op, !.user = u, !.name = n, !.row = bucket[n]]
Done(p) == breq' = [breq EXCEPT ![p].step = "done"]

Less(m, n) == IF m > n THEN m - n ELSE 0
ObjectsIn(n) == {k \in ObjectKeys : s3[n].object[k] > 0}

\* The columns that differ from the row that was read are written.
Counters(n, row, new) ==
    [bucket[n] EXCEPT !.count = IF new.count # row.count THEN new.count ELSE @,
                      !.size = IF new.size # row.size THEN new.size ELSE @]
Adds(row, size) == [row EXCEPT !.count = @ + 1, !.size = @ + size]

\* A row that is gone is not written, nor a value that INTEGER does not hold.
Writable(n, new) == Owned(n) /\ new.size <= MaxInteger /\ new.count <= MaxInteger

NamesOf(p) == {breq[p].name, breq[p].to} \intersect Names

\* The request commits these rows and answers, or fails.
Answer(p, ok, rows, kept) ==
    /\ IF ok THEN bucket' = rows /\ owed' = owed \union kept /\ UNCHANGED upset
       ELSE upset' = upset \union NamesOf(p) /\ UNCHANGED <<bucket, owed>>
    /\ BucketEnd(p)
    /\ UNCHANGED s3

\* S3 refuses a call, or the API stops between two steps.
Abandon(p) ==
    /\ breq[p] # BucketFree
    /\ BucketEnd(p)
    /\ upset' = upset \union NamesOf(p)
    /\ UNCHANGED <<bucket, s3, owed>>

-----------------------------------------------------------------------------
(* Buckets *)

ReadForCreate(p, u, n) ==
    /\ ~Owned(n)
    /\ Cardinality(BucketsOf(u)) < MaxBuckets
    /\ BucketBegin(p, [BucketFree EXCEPT !.op = "create", !.user = u, !.name = n])
    /\ UNCHANGED <<bucket, s3, owed>>

\* A bucket that exists already is taken as it is.
CreateStored(p) ==
    /\ Does(p, "create", "read")
    /\ s3' = [s3 EXCEPT ![breq[p].name].there = TRUE]
    /\ Done(p)
    /\ UNCHANGED <<bucket, historyVars>>

\* The name is unique.
CommitCreateBucket(p) ==
    LET r == breq[p] IN
    /\ Does(p, "create", "done")
    /\ Answer(p, ~Owned(r.name), [bucket EXCEPT ![r.name].owner = r.user], {})

ReadForDelete(p, n, force) ==
    /\ Owned(n)
    /\ bucket[n].count = 0 \/ force
    /\ BucketBegin(p, [Ask("delete", bucket[n].owner, n) EXCEPT !.force = force])
    /\ owed' = IF force THEN {o \in owed : o[1] # n} ELSE owed
    /\ UNCHANGED <<bucket, s3>>

\* Mutant: the objects go, whatever the request says.
RemoveStoredAlways(p) ==
    /\ Does(p, "delete", "read")
    /\ s3' = [s3 EXCEPT ![breq[p].name] = NotStored]
    /\ Done(p)
    /\ UNCHANGED <<bucket, historyVars>>

\* storage_service.delete_bucket: S3 refuses a bucket that is missing, or one
\* with objects unless force has deleted them.
RemoveStored(p) ==
    LET n == breq[p].name IN
    /\ Does(p, "delete", "read")
    /\ IF s3[n].there /\ (ObjectsIn(n) = {} \/ breq[p].force)
       THEN s3' = [s3 EXCEPT ![n] = NotStored] /\ Done(p)
       ELSE BucketEnd(p) /\ UNCHANGED s3
    /\ UNCHANGED <<bucket, historyVars>>

CommitDelete(p) ==
    LET n == breq[p].name IN
    /\ Does(p, "delete", "done")
    /\ bucket' = [bucket EXCEPT ![n] = NoBucket]
    /\ owed' = IF n \in upset THEN {o \in owed : o[1] # n} ELSE owed
    /\ upset' = IF s3[n].there \/ \E q \in BucketProcs \ {p} : n \in {breq[q].name, breq[q].to}
                THEN upset ELSE upset \ {n}
    /\ BucketEnd(p)
    /\ UNCHANGED s3

\* purge_user: the rows only, the buckets stay in S3
PurgeBuckets(u) ==
    /\ BucketsOf(u) # {}
    /\ bucket' = [n \in Names |-> IF n \in BucketsOf(u) THEN NoBucket ELSE bucket[n]]
    /\ upset' = upset \union BucketsOf(u)
    /\ UNCHANGED <<s3, breq, owed>>

-----------------------------------------------------------------------------
(* Objects *)

\* One bucket is compared with the user's whole quota, before the upload.
ReadForUpload(p, n, k, size) ==
    /\ Owned(n) /\ bucket[n].size < MaxStorage
    /\ BucketBegin(p, [Ask("upload", bucket[n].owner, n) EXCEPT !.key = k, !.size = size])
    /\ UNCHANGED <<bucket, s3, owed>>

Put(n, k, size) == s3' = [s3 EXCEPT ![n].object[k] = size]

PutUpload(p) ==
    LET r == breq[p] IN
    /\ Does(p, "upload", "read") /\ s3[r.name].there
    /\ Put(r.name, r.key, r.size)
    /\ Done(p)
    /\ UNCHANGED <<bucket, historyVars>>

CommitUpload(p) ==
    LET r == breq[p] IN
    /\ Does(p, "upload", "done")
    /\ LET new == Adds(r.row, r.size) IN
       Answer(p, Writable(r.name, new), [bucket EXCEPT ![r.name] = Counters(r.name, r.row, new)],
              {<<r.name, r.key>>})

\* Keys that are not there are deleted as well.
ReadForRemove(p, n, k) ==
    /\ Owned(n)
    /\ BucketBegin(p, [Ask("remove", bucket[n].owner, n) EXCEPT !.key = k])
    /\ owed' = owed \ {<<n, k>>}
    /\ UNCHANGED <<bucket, s3>>

RemoveObject(p) ==
    /\ Does(p, "remove", "read") /\ s3[breq[p].name].there
    /\ Put(breq[p].name, breq[p].key, 0)
    /\ Done(p)
    /\ UNCHANGED <<bucket, historyVars>>

\* The count goes down, the size does not.
CommitRemove(p) ==
    LET r == breq[p] IN
    /\ Does(p, "remove", "done")
    /\ LET new == [r.row EXCEPT !.count = Less(@, 1)] IN
       Answer(p, Writable(r.name, new), [bucket EXCEPT ![r.name] = Counters(r.name, r.row, new)], {})

ReadForCopy(p, op, n, m, k, j) ==
    /\ Owned(n) /\ bucket[m].owner = bucket[n].owner
    /\ s3[n].there /\ k \in ObjectsIn(n)
    /\ op = "move" => MoveOntoItself \/ <<n, k>> # <<m, j>>
    /\ BucketBegin(p, [Ask(op, bucket[n].owner, n) EXCEPT !.key = k, !.to = m, !.toRow = bucket[m],
                                                          !.toKey = j, !.size = s3[n].object[k]])
    /\ owed' = IF op = "move" THEN owed \ {<<n, k>>} ELSE owed
    /\ UNCHANGED <<bucket, s3>>

PutCopy(p) ==
    LET r == breq[p] IN
    /\ r.op \in {"copy", "move"} /\ r.step = "read" /\ s3[r.to].there
    /\ Put(r.to, r.toKey, r.size)
    /\ breq' = [breq EXCEPT ![p].step = "copied"]
    /\ UNCHANGED <<bucket, historyVars>>

DeleteSource(p) ==
    LET r == breq[p] IN
    /\ Does(p, "move", "copied") /\ s3[r.name].there
    /\ Put(r.name, r.key, 0)
    /\ Done(p)
    /\ UNCHANGED <<bucket, historyVars>>

\* Mutant: a copy into another bucket does not count there.
CommitCopyUncounted(p) ==
    /\ Does(p, "copy", "copied")
    /\ Answer(p, TRUE, bucket, {<<breq[p].to, breq[p].toKey>>})

CommitCopy(p) ==
    LET r == breq[p] IN
    /\ Does(p, "copy", "copied")
    /\ LET new == Adds(r.toRow, r.size) IN
       Answer(p, Writable(r.to, new), [bucket EXCEPT ![r.to] = Counters(r.to, r.toRow, new)],
              {<<r.to, r.toKey>>})

\* The counters change only between two buckets.
CommitMove(p) ==
    LET r == breq[p] IN
    LET less == [r.row EXCEPT !.count = Less(@, 1), !.size = Less(@, r.size)] IN
    LET more == Adds(r.toRow, r.size) IN
    /\ Does(p, "move", "done")
    /\ IF r.name = r.to THEN Answer(p, TRUE, bucket, {<<r.to, r.toKey>>})
       ELSE Answer(p, Writable(r.name, less) /\ Writable(r.to, more),
                   [bucket EXCEPT ![r.name] = Counters(r.name, r.row, less),
                                  ![r.to] = Counters(r.to, r.toRow, more)],
                   {<<r.to, r.toKey>>})

Presigned(n, k) ==
    /\ s3[n].there
    /\ \E size \in ObjectSizes \union {0} : Put(n, k, size)
    /\ upset' = upset \union {n}
    /\ UNCHANGED <<bucket, breq, owed>>

-----------------------------------------------------------------------------
(* Settings: policy, shares, encryption, metadata and user tags *)

ReadForSettings(p, n) ==
    /\ Owned(n)
    /\ \/ \E s \in Settings :
            \E tags \in {bucket[n].tags \union {s}, bucket[n].tags \ {s}} :
               BucketBegin(p, [Ask("settings", bucket[n].owner, n) EXCEPT !.tags = tags])
       \* update_bucket replaces the column
       \/ BucketBegin(p, [Ask("settings", bucket[n].owner, n) EXCEPT !.tags = {"tags"}])
    /\ UNCHANGED <<bucket, s3, owed>>

CommitSettings(p) ==
    LET r == breq[p] IN
    /\ Does(p, "settings", "read")
    /\ Answer(p, Owned(r.name), [bucket EXCEPT ![r.name].tags = r.tags], {})

-----------------------------------------------------------------------------
BucketsNext ==
    \/ \E p \in BucketProcs :
         \/ CreateStored(p) \/ CommitCreateBucket(p) \/ RemoveStored(p) \/ CommitDelete(p)
         \/ PutUpload(p) \/ CommitUpload(p) \/ RemoveObject(p) \/ CommitRemove(p)
         \/ PutCopy(p) \/ DeleteSource(p) \/ CommitCopy(p) \/ CommitMove(p)
         \/ CommitSettings(p) \/ Abandon(p)
         \/ \E n \in Names :
              \/ ReadForSettings(p, n)
              \/ \E u \in Users : ReadForCreate(p, u, n)
              \/ \E force \in BOOLEAN : ReadForDelete(p, n, force)
              \/ \E k \in ObjectKeys :
                   \/ ReadForRemove(p, n, k)
                   \/ \E size \in ObjectSizes : ReadForUpload(p, n, k, size)
                   \/ \E op \in {"copy", "move"}, m \in Names, j \in ObjectKeys :
                        ReadForCopy(p, op, n, m, k, j)
    \/ \E u \in Users : PurgeBuckets(u)
    \/ \E n \in Names, k \in ObjectKeys : Presigned(n, k)

BucketsSpec == BucketsInit /\ [][BucketsNext]_bucketVars

-----------------------------------------------------------------------------
(* Properties *)

Settled(n) == Owned(n) /\ n \notin upset /\ ~BucketUsed(n)

\* The function sums over ObjectKeys.
SizeOf(n) == FoldSet(LAMBDA k, total : total + s3[n].object[k], 0, ObjectKeys)

(***************************************************************************)
(* The size a bucket is charged with covers what is stored in it, although *)
(* overwritten and deleted objects still count, moves write two rows, and  *)
(* the counters are computed from the row read before the call to S3; on   *)
(* buckets whose requests came one after the other and succeeded.          *)
(***************************************************************************)
SizeCharged == \A n \in Names : Settled(n) => bucket[n].size >= SizeOf(n)

(***************************************************************************)
(* An object whose upload, copy or move was answered is in the store until *)
(* a request asks to delete it: the object count, which deletions of keys  *)
(* that are not there drive to zero, lets no DELETE of the bucket without  *)
(* force take it along.                                                    *)
(***************************************************************************)
AnsweredKept ==
    \A o \in owed : o[1] \notin upset /\ ~BucketUsed(o[1]) => o[2] \in ObjectsIn(o[1])
===============================================================================
