------------------------------ MODULE ObjectApi -----------------------------
(***************************************************************************)
(* S3 and WebDAV requests on objects, from the credentials to the version  *)
(* they change (mediahub-server s3_http_object.rs, s3_http_copy.rs,        *)
(* s3_http_tagging.rs, s3_http_object_version_lock.rs, s3_http_support.rs, *)
(* s3_http_multipart.rs, s3_http_core.rs, webdav.rs, webdav_fs.rs and the  *)
(* S3ObjectService).                                                       *)
(*                                                                         *)
(* One request may need several authorisations: a PUT with tags, an ACL, a *)
(* retention and a hold needs five, a copy one for its source as well, and *)
(* one more for the tags once the source has been read.  Each of them reads*)
(* the caller's identity policy and the bucket's policy anew, with the     *)
(* requests and console operations of BucketApi in between.                *)
(*                                                                         *)
(* Every bucket holds one object, as its active versions.  A write reads   *)
(* the bucket and the object before the transaction that commits it, as in *)
(* ObjectVersions; marks, stamps and payloads are left to that module.     *)
(***************************************************************************)
EXTENDS BucketApi

CONSTANTS
    Contested,       \* the bucket names that requests address; the others are sources of copies
    Tasks,           \* object requests that can be in flight together
    Forms,           \* the object requests of this instance
    DavForms,        \* and the WebDAV methods
    KeyPermissions,  \* [AccessKeys -> SUBSET Permissions], fixed when a key is issued
    FirstVersions,   \* what a bucket's object may look like at the start
    MaxTasks         \* bound on the object requests among the MaxSteps

VARIABLES
    task,     \* [Tasks -> Task]
    objects,  \* [Names -> Object]: the versions of the bucket's object, by number
    uploads,  \* the open multipart uploads
    started   \* object requests started

objectVars == <<task, objects, uploads, started>>
allVars == <<vars, objectVars>>

-----------------------------------------------------------------------------
Permissions == {"media:read", "media:upload", "media:delete", "bucket:manage"}

NoRetention == [mode |-> Absent, until |-> 0]
\* what a bucket's default retention gives a new version
DefaultRetention == [mode |-> "governance", until |-> 2]

Version(no, null, marker, tags, retention, hold) ==
    [no |-> no, null |-> null, marker |-> marker, tags |-> tags,
     retention |-> retention, hold |-> hold]

\* last numbers the versions; 0 says that the key has no row
NoObject == [last |-> 0, versions |-> {}]

\* A request: its operation, what its headers and body ask for, whether it names
\* a version (exact), and how many entries of a batch follow this one (left).
Form(op) ==
    [op |-> op, tags |-> FALSE, acl |-> FALSE, retention |-> NoRetention, hold |-> FALSE,
     exact |-> FALSE, bypass |-> FALSE, left |-> 0]

ObjectOps == {"Put", "Copy", "CreateUpload", "UploadPart", "UploadPartCopy", "CompleteUpload",
              "AbortUpload", "ListParts", "Get", "Delete", "GetTags", "PutTags", "DeleteTags",
              "GetAcl", "PutAcl", "GetRetention", "PutRetention", "GetHold", "PutHold"}
DavOps == {"DavPut", "DavCreate", "DavGet", "DavList", "DavMkdir", "DavDelete", "DavRmdir",
           "DavCopy", "DavMove", "DavMkcol", "DavRmcol"}

Retention == {NoRetention} \cup [mode : {"governance", "compliance"}, until : Nat]

ObjectVersion == [no : Nat, null : BOOLEAN, marker : BOOLEAN, tags : BOOLEAN,
                  retention : Retention, hold : BOOLEAN]

ObjectForm == [op : ObjectOps \cup DavOps \cup {Absent}, tags : BOOLEAN, acl : BOOLEAN,
               retention : Retention, hold : BOOLEAN, exact : BOOLEAN, bypass : BOOLEAN, left : Nat]

\* A WebDAV method has no headers for tags, locks or versions.
ASSUME ObjectAssumption ==
    /\ KeyPermissions \in [AccessKeys -> SUBSET Permissions]
    /\ MaxTasks \in Nat /\ Contested \subseteq Names /\ IsFiniteSet(Tasks)
    /\ \A f \in Forms : /\ f \in ObjectForm /\ f.op \in ObjectOps
                        /\ f.op = "CompleteUpload" => f = Form(f.op)
    /\ \A f \in DavForms : f.op \in DavOps /\ f = Form(f.op)
    /\ \A v \in FirstVersions : /\ v \in ObjectVersion /\ v.no = 1
                                /\ v.null => v.retention = NoRetention /\ ~v.hold

IdleTask ==
    [pc |-> "idle", form |-> Form(Absent), by |-> Absent, ip |-> Absent, name |-> Absent,
     src |-> Absent, on |-> "target", todo |-> <<>>, decision |-> Absent, app |-> Absent,
     id |-> 0, srcApp |-> Absent, tags |-> FALSE, granted |-> {},
     null |-> FALSE, last |-> 0, replaced |-> {}]

Task ==
    [pc : {"idle", "signed", "identified", "granted", "prepared", "streaming", "bucketRead",
           "objectRead", "committing", "dav"},
     form : ObjectForm, by : AccessKeys \cup {Absent}, ip : {c.ip : c \in Clients} \cup {Absent},
     name : Names \cup {Absent}, src : Names \cup {Absent}, on : {"target", "source", "late"},
     todo : Seq(AllActions), decision : Decisions \cup {Absent}, app : Apps \cup {Absent},
     id : Nat, srcApp : Apps \cup {Absent}, tags : BOOLEAN, granted : SUBSET (AllActions \X Apps),
     null : BOOLEAN, last : Nat, replaced : SUBSET Nat]

Object == [last : Nat, versions : SUBSET ObjectVersion]

Upload == [app : Apps \cup {Absent}, id : Nat, name : Names, tags : BOOLEAN]

ObjectTypes ==
    /\ task \in [Tasks -> Task]
    /\ objects \in [Names -> Object]
    /\ uploads \subseteq Upload

Also(required, action) == IF required THEN <<action>> ELSE <<>>

\* authorize_s3_put_object_target
WantedByPut(f) ==
    <<"PutObject">> \o Also(f.tags, "PutObjectTagging") \o Also(f.acl, "PutObjectAcl")
    \o Also(f.retention /= NoRetention, "PutObjectRetention")
    \o Also(f.hold, "PutObjectLegalHold")

\* authorize_s3_signed_delete_request
WantedByDelete(f) ==
    <<IF f.exact THEN "DeleteObjectVersion" ELSE "DeleteObject">>
    \o Also(f.bypass, "BypassGovernanceRetention")

\* The actions a request must be allowed on its target, in the order of the checks;
\* for a subresource S3ObjectSubresourcePolicyOperation::policy_action
Wanted(f) ==
    LET either(plain, versioned) == <<IF f.exact THEN versioned ELSE plain>> IN
    CASE f.op \in {"Put", "Copy", "CreateUpload"} -> WantedByPut(f)
      [] f.op = "Delete" -> WantedByDelete(f)
      [] f.op = "Get" -> either("GetObject", "GetObjectVersion")
      [] f.op = "GetTags" -> either("GetObjectTagging", "GetObjectVersionTagging")
      [] f.op = "PutTags" -> either("PutObjectTagging", "PutObjectVersionTagging")
      [] f.op = "DeleteTags" -> either("DeleteObjectTagging", "DeleteObjectVersionTagging")
      [] f.op = "GetAcl" -> either("GetObjectAcl", "GetObjectVersionAcl")
      [] f.op = "PutAcl" -> either("PutObjectAcl", "PutObjectVersionAcl")
      [] f.op = "GetRetention" -> <<"GetObjectRetention">>
      [] f.op = "PutRetention" -> <<"PutObjectRetention">>
                                  \o Also(f.bypass, "BypassGovernanceRetention")
      [] f.op = "GetHold" -> <<"GetObjectLegalHold">>
      [] f.op = "PutHold" -> <<"PutObjectLegalHold">>
      [] f.op \in {"UploadPart", "UploadPartCopy", "CompleteUpload"} -> <<"PutObject">>
      [] f.op = "ListParts" -> <<"ListMultipartUploadParts">>
      [] f.op = "AbortUpload" -> <<"AbortMultipartUpload">>

CopyOps == {"Copy", "UploadPartCopy"}

\* A bucket with one version: one with Object Lock, or, if it is a null version, a
\* bucket that was never versioned
Stocked(id, v) == [NewBucket(Founder, id, ~v.null) EXCEPT !.used = TRUE]

\* The buckets of BucketApi, or stocked ones.  A name that is not contested belongs
\* to a stocked bucket from the start.
ObjectInit ==
    /\ \E v \in FirstVersions, full \in SUBSET Contested :
          /\ objects = [n \in Names |-> IF n \in full \cup (Names \ Contested)
                                        THEN [last |-> 1, versions |-> {v}] ELSE NoObject]
          /\ \E taken \in SUBSET (Contested \ full), d \in DOMAIN PolicyDocs \cup {Absent} :
                /\ \A n \in Contested : d \in ValidPolicies(n) \cup {Absent}
                /\ buckets = [n \in Names |->
                      CASE n \notin Contested -> Stocked(2, v)
                        [] n \in full -> [Stocked(1, v) EXCEPT !.policy = d]
                        [] n \in taken -> [NewBucket(Founder, 1, FALSE) EXCEPT !.policy = d]
                        [] OTHER -> NoBucket]
    /\ Quiet
    /\ task = [t \in Tasks |-> IdleTask]
    /\ uploads = {}
    /\ started = 0

-----------------------------------------------------------------------------
(***************************************************************************)
(* Authentication and authorisation.                                       *)
(***************************************************************************)
Resume(t, r) == task' = [task EXCEPT ![t] = r]
Goes(t, r) == Resume(t, r) /\ UNCHANGED <<vars, objects, uploads, started>>
Done(t) == Goes(t, IdleTask)

\* within the bounds of the instance
Free(t) == task[t].pc = "idle" /\ steps < MaxSteps /\ started < MaxTasks

Begin(t, client) ==
    /\ Step /\ started' = started + 1
    /\ Signed(client) => Verified(client.by)
    /\ UNCHANGED <<buckets, keys, apps, req, objects, uploads>>

\* authenticate_s3_application.  Only a plain read may come without a signature.
ArriveObject(t, f, n, src, client) ==
    LET signed == Signed(client) IN
    /\ signed \/ f.op = "Get"
    /\ src = n \/ f.op \in CopyOps
    /\ Begin(t, client)
    /\ Resume(t, [IdleTask EXCEPT !.pc = IF signed THEN "signed" ELSE "identified",
                     !.form = f, !.by = client.by, !.ip = client.ip, !.name = n, !.src = src,
                     !.todo = Wanted(f), !.tags = f.tags,
                     !.decision = IF signed THEN Absent ELSE "ImplicitDeny"])

\* A batch goes on with its next entry, which is authorised from the start.
NextEntry(t) ==
    LET r == task[t] IN
    Resume(t, IF r.form.left = 0 THEN IdleTask
              ELSE [IdleTask EXCEPT !.pc = "signed", !.by = r.by, !.ip = r.ip, !.name = r.name,
                       !.src = r.src, !.form = [r.form EXCEPT !.left = r.form.left - 1],
                       !.todo = Wanted(r.form)])

\* AccessDenied is an error of one entry; a bucket that is not there ends a batch.
Denied(t, b) ==
    /\ IF b.app = Absent THEN Resume(t, IdleTask) ELSE NextEntry(t)
    /\ UNCHANGED <<vars, objects, uploads, started>>

JudgedName(r) == IF r.on = "source" THEN r.src ELSE r.name
Judged(r) == [r EXCEPT !.name = JudgedName(r)]

\* load_s3_signed_policy_principal for the next action to check
Identify(t) ==
    LET r == task[t] IN
    /\ r.pc = "signed"
    /\ IF keys[r.by].state = "none" THEN Denied(t, buckets[JudgedName(r)])
       ELSE /\ Resume(t, [r EXCEPT !.pc = "identified",
                             !.decision = IdentityDecision(Judged(r), Head(r.todo))])
            /\ UNCHANGED <<vars, objects, uploads, started>>

\* ensure_same_s3_put_object_target, ensure_same_s3_multipart_bucket, and the
\* comparison of authorize_s3_signed_delete_request.  The bypass of a retention
\* update is not compared.
SameTarget(r, b) ==
    \/ r.app = Absent \/ r.on = "source"
    \/ r.form.op \in {"Put", "Copy", "CreateUpload"} /\ b.app = r.app /\ b.id = r.id
    \/ r.form.op = "Delete" /\ b.app = r.app
    \/ r.form.op = "PutRetention"

\* The request once an action has been allowed on bucket b
Granted(r, b) ==
    LET action == Head(r.todo)
        target == r.on /= "source"
        last == Len(r.todo) = 1
        toSource == last /\ r.on = "target" /\ r.form.op \in CopyOps
    IN  [r EXCEPT !.pc = IF last /\ ~toSource THEN "granted" ELSE "signed",
                  !.on = IF toSource THEN "source" ELSE r.on,
                  !.todo = IF toSource THEN <<"GetObject">> ELSE Tail(r.todo),
                  !.app = IF r.app = Absent THEN b.app ELSE r.app,
                  !.id = IF r.app = Absent THEN b.id ELSE r.id,
                  !.srcApp = IF target THEN r.srcApp ELSE b.app,
                  !.granted = IF target THEN r.granted \cup {<<action, b.app>>} ELSE r.granted]

\* authorize_s3_policy_principal_request
Grant(t) ==
    LET r == task[t]
        b == buckets[JudgedName(r)]
        allowed == /\ b.app /= Absent
                   /\ Authorize(r.decision, Document(b.policy), b.app, JudgedName(r),
                                PolicyRequest(Judged(r), Head(r.todo))) = "Allowed"
    IN
    /\ r.pc = "identified"
    /\ IF ~allowed THEN Denied(t, b)
       ELSE /\ Resume(t, IF SameTarget(r, b) THEN Granted(r, b) ELSE IdleTask)
            /\ UNCHANGED <<vars, objects, uploads, started>>

Ready(t, ops) == task[t].pc = "granted" /\ task[t].form.op \in ops

-----------------------------------------------------------------------------
(***************************************************************************)
(* The versions of one object.                                             *)
(***************************************************************************)
Head_(o) == CHOOSE v \in o.versions : \A w \in o.versions : w.no <= v.no
Visible(o) == o.versions /= {} /\ ~Head_(o).marker

Keep(o, rows) == [o EXCEPT !.versions = rows]
Opaque(o) == {v \in o.versions : ~v.null}
AppendTo(o, v) == [last |-> o.last + 1, versions |-> o.versions \cup {v}]

\* A null version replaces the active null version, any other one is added.
Publish(o, v) == AppendTo(IF v.null THEN Keep(o, Opaque(o)) ELSE o, v)

Locked(v, bypass) ==
    v.hold \/ v.retention.mode = "compliance" \/ (v.retention.mode = "governance" /\ ~bypass)

\* delete_s3_object without a version id
DeletedHead(o, b, bypass) ==
    LET marker == Version(o.last + 1, b.versioning /= "Enabled", TRUE, FALSE, NoRetention, FALSE)
        nullLocked == \E v \in o.versions \ Opaque(o) : Locked(v, bypass)
    IN
    IF o.last = 0 THEN o
    ELSE IF b.versioning = "Enabled" THEN AppendTo(o, marker)
    ELSE IF nullLocked THEN o
    ELSE IF b.versioning = "Suspended" THEN Publish(o, marker) ELSE Keep(o, Opaque(o))

\* ... and with one
DeletedVersion(o, v, bypass) == IF Locked(v, bypass) THEN o ELSE Keep(o, o.versions \ {v})

\* with_retention_update: compliance is never weakened, governance with a bypass
RetentionAccepted(old, new, bypass) ==
    /\ old.mode = "compliance" => new.mode = "compliance" /\ new.until >= old.until
    /\ old.mode = "governance" => new.until >= old.until \/ bypass

\* The version a subresource request addresses: the head, or the one it names.
Addressed(r) ==
    LET o == objects[r.name] IN
    {v \in o.versions : ~v.marker /\ (r.form.exact \/ v = Head_(o))}

-----------------------------------------------------------------------------
(***************************************************************************)
(* PutObject, CopyObject and the WebDAV PUT and COPY.                      *)
(***************************************************************************)
LockRequested(f) == f.retention /= NoRetention \/ f.hold

\* ensure_put_object_lock_bucket
EnsureLockBucket(t) ==
    LET r == task[t] IN
    /\ Ready(t, {"Put"}) /\ LockRequested(r.form)
    /\ IF Found(r) /\ buckets[r.name].lock
       THEN /\ Resume(t, [r EXCEPT !.pc = "prepared"])
            /\ UNCHANGED <<vars, objects, uploads, started>>
       ELSE Done(t)

\* authorize_s3_copy_source settled the application the source is looked up in.
SourceFound(r) == buckets[r.src].app /= Absent /\ buckets[r.src].app = r.srcApp

\* Seeded fault: the copied tags are written without their own check.
CopyTagsUnchecked(t) ==
    LET r == task[t] IN
    /\ Ready(t, {"Copy"}) /\ r.on = "source"
    /\ IF SourceFound(r) /\ Visible(objects[r.src])
       THEN /\ Resume(t, [r EXCEPT !.pc = "prepared",
                             !.tags = @ \/ Head_(objects[r.src]).tags])
            /\ UNCHANGED <<vars, objects, uploads, started>>
       ELSE Done(t)

\* s3_copy_object reads its source.  Tags that come with it and were not asked for
\* need PutObjectTagging on the target, checked only now.
ReadCopySource(t) ==
    LET r == task[t]
        copied == ~r.form.tags /\ Head_(objects[r.src]).tags
    IN
    /\ Ready(t, {"Copy"}) /\ r.on = "source"
    /\ IF SourceFound(r) /\ Visible(objects[r.src])
       THEN /\ Resume(t, IF copied
                  THEN [r EXCEPT !.pc = "signed", !.on = "late", !.tags = TRUE,
                                 !.todo = <<"PutObjectTagging">>]
                  ELSE [r EXCEPT !.pc = "prepared"])
            /\ UNCHANGED <<vars, objects, uploads, started>>
       ELSE Done(t)

\* validate_s3_copy_source_conditions and parse_s3_copy_source_range, with the source
\* at hand: its ETag, date or size is not what the headers ask for
RefuseSource(t) ==
    LET r == task[t] IN
    /\ Ready(t, CopyOps) /\ r.on = "source"
    /\ SourceFound(r) /\ Visible(objects[r.src])
    /\ Done(t)

\* An S3 PUT without Object Lock headers needs no further look at the bucket.
PutMayBegin(r) ==
    /\ r.form.op = "Put"
    /\ r.pc = "prepared" \/ (r.pc = "granted" /\ ~LockRequested(r.form))

\* A copy has read its source, and its late check has passed.
CopyMayBegin(r) ==
    /\ r.form.op = "Copy"
    /\ r.pc = "prepared" \/ (r.pc = "granted" /\ r.on = "late")

\* The flush of an open WebDAV file, and the WebDAV copy
DavFlushes(r) == r.form.op \in {"DavPut", "DavCreate"} /\ r.pc = "prepared"
DavCopies(r) == r.form.op = "DavCopy" /\ r.pc = "prepared"

\* begin_put finds the bucket by application and name, and its intent keeps the
\* bucket from being deleted
BeginPut(t) ==
    LET r == task[t] IN
    /\ PutMayBegin(r) \/ CopyMayBegin(r) \/ DavFlushes(r) \/ DavCopies(r)
    /\ IF Found(r)
       THEN /\ buckets' = [buckets EXCEPT ![r.name].used = TRUE]
            /\ Resume(t, [r EXCEPT !.pc = "streaming"])
            /\ UNCHANGED <<keys, apps, req, steps, objects, uploads, started>>
       ELSE Done(t)

\* freeze_postgres_object_lock
FrozenRetention(b, requested) ==
    IF ~b.lock THEN NoRetention
    ELSE IF requested = NoRetention /\ b.retention /= Absent THEN DefaultRetention ELSE requested

\* The numbers of the object's null version; at most one
Nulls(o) == {v.no : v \in o.versions \ Opaque(o)}

\* prepare_claimed_upload_commit, for a PUT and for a completed upload: the bucket,
\* the object and its versions are read one after the other, before the transaction.
ReadBucket(t) ==
    LET r == task[t]
        b == buckets[r.name]
    IN
    /\ r.pc = "streaming"
    /\ IF LockRequested(r.form) => b.lock
       THEN Goes(t, [r EXCEPT !.pc = "bucketRead", !.null = b.versioning /= "Enabled"])
       ELSE Done(t)

\* The generation to append to; a key without a row has no versions to read.
ReadObject(t) ==
    LET r == task[t]
        last == objects[r.name].last
    IN
    /\ r.pc = "bucketRead"
    /\ Goes(t, [r EXCEPT !.pc = IF r.null /\ last /= 0 THEN "objectRead" ELSE "committing",
                         !.last = last])

ReadVersions(t) ==
    LET r == task[t] IN
    /\ r.pc = "objectRead"
    /\ Goes(t, [r EXCEPT !.pc = "committing", !.replaced = Nulls(objects[r.name])])

\* An object whose last version was deleted for good has no head to append to.
Accepts(n) == objects[n].last = 0 \/ objects[n].versions /= {}

\* What the transaction compares with the reads: the generation, the null version it
\* replaces, and Object Lock for what the headers ask.  Neither the versioning nor the
\* lock of the replaced version is looked at again.
StillPrepared(r) ==
    /\ Accepts(r.name) /\ objects[r.name].last = r.last
    /\ r.null => Nulls(objects[r.name]) = r.replaced
    /\ LockRequested(r.form) => buckets[r.name].lock

NewVersion(r) ==
    Version(objects[r.name].last + 1, r.null, FALSE, r.tags,
            FrozenRetention(buckets[r.name], r.form.retention), r.form.hold)

Committed(r) == [objects EXCEPT ![r.name] = Publish(objects[r.name], NewVersion(r))]

\* Seeded fault: the transaction takes the reads for granted.
CommitUnchecked(t) ==
    LET r == task[t] IN
    /\ r.pc = "committing" /\ r.form.op /= "CompleteUpload"
    /\ objects' = IF Accepts(r.name) THEN Committed(r) ELSE objects
    /\ Resume(t, IdleTask)
    /\ UNCHANGED <<vars, uploads, started>>

\* complete_put: commit_upload_intent, or abort_staged_put when it refuses
Commit(t) ==
    LET r == task[t] IN
    /\ r.pc = "committing" /\ r.form.op /= "CompleteUpload"
    /\ objects' = IF StillPrepared(r) THEN Committed(r) ELSE objects
    /\ Resume(t, IdleTask)
    /\ UNCHANGED <<vars, uploads, started>>

\* The body was cut short, its digest does not match, or a later call fails.
AbortPut(t) ==
    /\ task[t].pc \in {"streaming", "bucketRead", "objectRead", "committing"}
    /\ Done(t)

-----------------------------------------------------------------------------
(***************************************************************************)
(* The other operations on objects.                                        *)
(***************************************************************************)
DeleteOne(t) ==
    LET r == task[t]
        o == objects[r.name]
    IN
    /\ Ready(t, {"Delete", "DavDelete"})
    /\ \/ /\ Found(r) /\ r.form.exact
          /\ \E v \in o.versions :
                objects' = [objects EXCEPT ![r.name] = DeletedVersion(o, v, r.form.bypass)]
       \/ /\ Found(r) /\ ~r.form.exact
          /\ objects' = [objects EXCEPT ![r.name] = DeletedHead(o, buckets[r.name], r.form.bypass)]
       \/ /\ ~Found(r) \/ (r.form.exact /\ o.versions = {})
          /\ UNCHANGED objects
    /\ NextEntry(t)
    /\ UNCHANGED <<vars, uploads, started>>

\* A reader resolves the version again, by application and name.
ReadVersion(t) == Ready(t, {"Get"}) /\ Done(t)
ReadTags(t) == Ready(t, {"GetTags"}) /\ Done(t)
ReadLock(t) == Ready(t, {"GetRetention", "GetHold"}) /\ Done(t)
ReadAcl(t) == Ready(t, {"GetAcl"}) /\ Done(t)
\* PutObjectAcl only compares the ACL with the bucket's visibility.
CompareAcl(t) == Ready(t, {"PutAcl"}) /\ Done(t)

\* The versions the request may change.
Candidates(t) == IF Found(task[t]) THEN Addressed(task[t]) ELSE {}
Lockable(t) == IF buckets[task[t].name].lock THEN Candidates(t) ELSE {}

\* One version is changed in place, or the request fails: amended gives the new
\* form of each version that may be.
Amend(t, amended) ==
    /\ IF DOMAIN amended = {} THEN UNCHANGED objects
       ELSE \E v \in DOMAIN amended :
                objects' = [objects EXCEPT ![task[t].name] =
                    Keep(objects[task[t].name], (objects[task[t].name].versions \ {v}) \cup {amended[v]})]
    /\ Resume(t, IdleTask)
    /\ UNCHANGED <<vars, uploads, started>>

\* replace_s3_object_tagging
ReplaceTags(t) ==
    /\ Ready(t, {"PutTags", "DeleteTags"})
    /\ Amend(t, [v \in Candidates(t) |-> [v EXCEPT !.tags = task[t].form.op = "PutTags"]])

\* put_s3_object_lock
PutRetention(t) ==
    LET f == task[t].form
        accepted == {v \in Lockable(t) : RetentionAccepted(v.retention, f.retention, f.bypass)}
    IN  /\ Ready(t, {"PutRetention"})
        /\ Amend(t, [v \in accepted |-> [v EXCEPT !.retention = f.retention]])

PutHold(t) ==
    /\ Ready(t, {"PutHold"})
    /\ Amend(t, [v \in Lockable(t) |-> [v EXCEPT !.hold = task[t].form.hold]])

-----------------------------------------------------------------------------
(***************************************************************************)
(* Multipart uploads, as far as authorisation is concerned; their parts    *)
(* and their completion are in Multipart.                                  *)
(***************************************************************************)
\* The row refers to the bucket that was authorised, which must still exist.
CreateUpload(t) ==
    LET r == task[t] IN
    /\ Ready(t, {"CreateUpload"})
    /\ IF Found(r) /\ buckets[r.name].id = r.id
       THEN /\ uploads' = uploads \cup {[app |-> r.app, id |-> r.id, name |-> r.name, tags |-> r.tags]}
            /\ buckets' = [buckets EXCEPT ![r.name].used = TRUE]
            /\ Resume(t, IdleTask)
            /\ UNCHANGED <<keys, apps, req, steps, objects, started>>
       ELSE Done(t)

\* find_s3_multipart_upload: the upload id belongs to the authorised bucket and key
Mine(r, u) == u.app = r.app /\ u.id = r.id /\ u.name = r.name
FindUpload(r) == {u \in uploads : Mine(r, u)}

UploadPart(t) == Ready(t, {"UploadPart"}) /\ Done(t)
UploadPartCopy(t) == Ready(t, {"UploadPartCopy"}) /\ task[t].on = "source" /\ Done(t)
ListParts(t) == Ready(t, {"ListParts"}) /\ Done(t)

AbortUpload(t) ==
    LET r == task[t] IN
    /\ Ready(t, {"AbortUpload"})
    /\ IF FindUpload(r) = {} THEN Done(t)
       ELSE \E u \in FindUpload(r) :
            /\ uploads' = uploads \ {u}
            /\ Resume(t, IdleTask)
            /\ UNCHANGED <<vars, objects, started>>

\* claim_multipart_completion; the intent of a completion takes the upload's tags
ClaimCompletion(t) ==
    LET r == task[t] IN
    /\ Ready(t, {"CompleteUpload"})
    /\ IF FindUpload(r) = {} THEN Done(t)
       ELSE \E u \in FindUpload(r) : Goes(t, [r EXCEPT !.pc = "streaming", !.tags = u.tags])

\* commit_multipart_object_version.  Once the lease of the claim has lapsed, another
\* completion or an abort may have ended the upload.
CompleteUpload(t) ==
    LET r == task[t]
        u == [app |-> r.app, id |-> r.id, name |-> r.name, tags |-> r.tags]
    IN
    /\ r.pc = "committing" /\ r.form.op = "CompleteUpload"
    /\ IF u \in uploads /\ StillPrepared(r)
       THEN /\ objects' = Committed(r)
            /\ uploads' = uploads \ {u}
       ELSE UNCHANGED <<objects, uploads>>
    /\ Resume(t, IdleTask)
    /\ UNCHANGED <<vars, started>>

-----------------------------------------------------------------------------
(***************************************************************************)
(* WebDAV.  A key's permissions decide, within its own application; bucket *)
(* and identity policies are not consulted.                                *)
(***************************************************************************)
\* require and require_any: from each of these sets one permission is needed
DavRequired(op) ==
    CASE op \in {"DavPut", "DavCreate", "DavMkdir"} -> {{"media:upload"}}
      [] op = "DavGet" -> {{"media:read"}}
      [] op = "DavList" -> {{"media:read", "media:upload"}}
      [] op \in {"DavDelete", "DavRmdir"} -> {{"media:delete"}}
      [] op = "DavCopy" -> {{"media:read"}, {"media:upload"}}
      [] op = "DavMove" -> {{"media:read"}, {"media:upload"}, {"media:delete"}}
      [] OTHER -> {{"bucket:manage"}}

Allows(k, op) == \A any \in DavRequired(op) : KeyPermissions[k] \cap any /= {}

\* DavResource::parse: a path begins with the application of the credentials, any
\* other one is not found
DavResource(k) == KeyApp[k]

\* authenticate: the credentials, permissions included, serve the whole request
DavArrive(t, f, n, src, client) ==
    LET own == DavResource(client.by) IN
    /\ client.by /= Absent /\ Allows(client.by, f.op)
    /\ IF f.op = "DavCopy" THEN src /= n ELSE src = n
    /\ Begin(t, client)
    /\ Resume(t, [IdleTask EXCEPT !.pc = "dav", !.form = f, !.by = client.by, !.name = n,
                     !.src = src, !.app = own, !.srcApp = own,
                     !.granted = {<<"PutObject", own>> : p \in KeyPermissions[client.by] \cap {"media:upload"}}
                         \cup {<<"DeleteObject", own>> : p \in KeyPermissions[client.by] \cap {"media:delete"}}])

Dav(t, ops) == task[t].pc = "dav" /\ task[t].form.op \in ops

\* The reads before a change; the change itself does not repeat them.
DavProceeds(t, ok, pc) == IF ok THEN Goes(t, [task[t] EXCEPT !.pc = pc]) ELSE Done(t)

\* open for writing; create_new refuses a key that is visible now, and the put of
\* the flush does not look again
DavOpen(t) ==
    LET r == task[t] IN
    /\ Dav(t, {"DavPut", "DavCreate"})
    /\ DavProceeds(t, Found(r) /\ (r.form.op = "DavCreate" => ~Visible(objects[r.name])), "prepared")

\* copy: the destination bucket is found, then the source is read; tags are not copied
DavCopySource(t) ==
    LET r == task[t] IN
    /\ Dav(t, {"DavCopy"})
    /\ DavProceeds(t, Found(r) /\ SourceFound(r) /\ Visible(objects[r.src]), "prepared")

\* remove_file: a key that is not visible is an error
DavRemoveFile(t) ==
    LET r == task[t] IN
    /\ Dav(t, {"DavDelete"})
    /\ DavProceeds(t, Found(r) /\ Visible(objects[r.name]), "granted")

\* read_dir before remove_dir: a bucket with entries is kept
DavReadDir(t) ==
    LET r == task[t] IN
    /\ Dav(t, {"DavRmcol"})
    /\ DavProceeds(t, Found(r) /\ ~Visible(objects[r.name]), "granted")

DavRemoveDir(t) ==
    LET r == task[t] IN
    /\ Ready(t, {"DavRmcol"})
    /\ buckets' = IF Found(r) /\ ~buckets[r.name].used
                  THEN [buckets EXCEPT ![r.name] = NoBucket] ELSE buckets
    /\ Resume(t, IdleTask)
    /\ UNCHANGED <<keys, apps, req, steps, objects, uploads, started>>

Remembered == {task[t].id : t \in Tasks} \cup {u.id : u \in uploads}

\* create_dir on a bucket
DavCreateDir(t) ==
    LET r == task[t] IN
    /\ Dav(t, {"DavMkcol"})
    /\ buckets' = IF buckets[r.name].app = Absent /\ r.app \in apps
                  THEN [buckets EXCEPT ![r.name] = NewBucket(r.app, FreshId(Remembered), FALSE)]
                  ELSE buckets
    /\ Resume(t, IdleTask)
    /\ UNCHANGED <<keys, apps, req, steps, objects, uploads, started>>

\* Directories are prefixes, so creating or removing one below a bucket changes
\* nothing; rename is not implemented.
DavRead(t) == Dav(t, {"DavGet"}) /\ Done(t)
DavList(t) == Dav(t, {"DavList"}) /\ Done(t)
DavPrefix(t) == Dav(t, {"DavMkdir", "DavRmdir"}) /\ Done(t)
DavRename(t) == Dav(t, {"DavMove"}) /\ Done(t)

-----------------------------------------------------------------------------
Authorise(t) == Identify(t) \/ Grant(t)
\* s3_put_object: an ACL, a part, a copy or the object itself
ObjectPut(t) ==
    \/ CompareAcl(t) \/ UploadPart(t) \/ UploadPartCopy(t)
    \/ ReadCopySource(t) \/ RefuseSource(t) \/ EnsureLockBucket(t)
    \/ BeginPut(t) \/ ReadBucket(t) \/ ReadObject(t) \/ ReadVersions(t) \/ Commit(t) \/ AbortPut(t)
\* s3_post_object starts and completes an upload; the same row is ended by an abort
ObjectPost(t) == CreateUpload(t) \/ ClaimCompletion(t) \/ CompleteUpload(t) \/ AbortUpload(t)
Look(t) == ReadVersion(t) \/ ReadTags(t) \/ ReadLock(t) \/ ReadAcl(t) \/ ListParts(t)
Operate(t) == DeleteOne(t) \/ ReplaceTags(t) \/ PutRetention(t) \/ PutHold(t)
WebDav(t) == DavOpen(t) \/ DavCopySource(t) \/ DavRemoveFile(t) \/ DavReadDir(t)
             \/ DavRemoveDir(t) \/ DavCreateDir(t)
             \/ DavRead(t) \/ DavList(t) \/ DavPrefix(t) \/ DavRename(t)

ObjectStep ==
    \/ \E t \in Tasks : Free(t) /\ \E f \in Forms, n \in Contested, src \in Names, c \in Clients :
           ArriveObject(t, f, n, src, c)
    \/ \E t \in Tasks : Free(t) /\ \E f \in DavForms, n \in Contested, src \in Names, c \in Clients :
           DavArrive(t, f, n, src, c)
    \/ \E t \in Tasks : Authorise(t) \/ ObjectPut(t) \/ Look(t) \/ Operate(t) \/ ObjectPost(t) \/ WebDav(t)

\* The requests of BucketApi and the console, in between.
BucketStep ==
    \/ \E q \in Requests : Waiting(q) /\ \E n \in Contested, op \in Operations, c \in Clients : Arrive(q, n, op, c)
    \/ \E q \in Requests : LoadIdentity(q) \/ Resolve(q) \/ AuthorizeRequest(q)
    \/ \E q \in Requests : CreateBucket(q, "CreateBucket", Remembered)
    \/ \E q \in Requests : FindForDelete(q) \/ DeleteBucket(q)
    \/ \E q \in Requests : PutPolicy(q) \/ PutVersioning(q) \/ PutObjectLock(q)
    \/ \E k \in AccessKeys : RevokeKey(k) \/ DeleteIdentityPolicy(k)
    \/ \E k \in AccessKeys, d \in DOMAIN IdentityDocs : PutIdentityPolicy(k, d)
    \/ \E a \in Apps : DeleteApplication(a)

ObjectNext == ObjectStep \/ (BucketStep /\ UNCHANGED objectVars)

ObjectSpec == ObjectInit /\ [][ObjectNext]_allVars

-----------------------------------------------------------------------------
(***************************************************************************)
(* What a change of an object takes, whoever makes it: a set of            *)
(* alternatives, of each of which one action must have been granted.       *)
(***************************************************************************)
Added(old, new) == {v \in new.versions : v.no > old.last}
Removed(old, new) == {v \in old.versions : \A w \in new.versions : w.no /= v.no}
Amended(old, new) == {x \in old.versions \X new.versions : x[1].no = x[2].no /\ x[1] /= x[2]}

Needs(old, new, byUpload, replaced) ==
    {{"PutObject"} : v \in {w \in Added(old, new) : ~w.marker}}
    \cup {{"PutObjectTagging"} : v \in {w \in Added(old, new) : w.tags /\ ~byUpload}}
    \cup {{"PutObjectRetention"} : v \in {w \in Added(old, new) :
                                             w.retention \notin {NoRetention, DefaultRetention}}}
    \cup {{"PutObjectLegalHold"} : v \in {w \in Added(old, new) : w.hold}}
    \cup {{"DeleteObject"} : v \in {w \in Added(old, new) : w.marker}}
    \cup {{"DeleteObject", "DeleteObjectVersion", "PutObject"} : v \in Removed(old, new)}
    \cup {{"BypassGovernanceRetention"} :
             v \in {w \in Removed(old, new) : w.retention /= NoRetention /\ w.no \notin replaced}}
    \cup {{"PutObjectTagging", "PutObjectVersionTagging"} :
             p \in {x \in Amended(old, new) : ~x[1].tags /\ x[2].tags}}
    \cup {{"DeleteObjectTagging", "DeleteObjectVersionTagging", "PutObjectTagging",
           "PutObjectVersionTagging"} : p \in {x \in Amended(old, new) : x[1].tags /\ ~x[2].tags}}
    \cup {{"PutObjectRetention"} : p \in {x \in Amended(old, new) : x[1].retention /= x[2].retention}}
    \cup {{"PutObjectLegalHold"} : p \in {x \in Amended(old, new) : x[1].hold /= x[2].hold}}

MayDo(r, owner, needs) == \A any \in needs : \E a \in any : <<a, owner>> \in r.granted

\* authorize_s3_put_object_target, authorize_s3_copy_source, authorize_s3_object_subresource,
\* authorize_s3_signed_delete_request and the WebDAV permissions: whatever changes about an
\* object (a version appears, with tags, a retention or a hold; it is hidden, removed, also
\* against its retention, or amended), the tenant who owns the bucket at that moment had granted
\* every action this takes to the request that did it, however policies, keys and the name's
\* owner changed between its checks.  The tags of a completed upload were checked when it was
\* created.  A PUT that had read the bucket while it was not versioned replaces the very null
\* version it found then, even if Object Lock and a retention on that version came in between
\* (s3_repository.rs 2885-2944 and 3225-3290 look at the generation and the null version only):
\* for that version, and no other, it needs no bypass.
ChangesAreGranted ==
    [][\A t \in Tasks : task'[t] /= task[t] =>
          LET r == task[t] IN
          /\ \A n \in Names : objects'[n] /= objects[n] =>
                MayDo(r, buckets[n].app,
                      Needs(objects[n], objects'[n], r.form.op = "CompleteUpload", r.replaced))
          /\ \A u \in uploads' \ uploads :
                MayDo(r, buckets[u.name].app,
                      {{"PutObject"}} \cup (IF u.tags THEN {{"PutObjectTagging"}} ELSE {}))]_allVars
=============================================================================
