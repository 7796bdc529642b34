----------------------------- MODULE BucketApi ------------------------------
(***************************************************************************)
(* S3 requests on buckets, from the signature to the row they change       *)
(* (mediahub-server s3_http_core.rs, s3_http_configuration.rs,             *)
(* s3_http_bucket_metadata.rs, s3_http_policy.rs, s3_http_object_lock.rs,  *)
(* s3_data_authorization.rs, s3_http_cors_runtime.rs, access_keys.rs and   *)
(* their PostgreSQL repositories).                                         *)
(*                                                                         *)
(* A request makes several independent database reads: the access key, the *)
(* key's identity policy (once for every action it must be allowed), the   *)
(* bucket with its policy, and at last the row it reads or changes.        *)
(* Nothing is locked between them, so keys are revoked, policies replaced, *)
(* buckets deleted and their names taken by another tenant in between.     *)
(***************************************************************************)
EXTENDS Policies, FiniteSets, TLC

CONSTANTS
    Apps,          \* applications: the tenants, each with its own account id
    AccessKeys,    \* access keys that may be issued
    KeyApp,        \* [AccessKeys -> Apps]
    Names,         \* bucket names, unique over all tenants
    ObjectKey,     \* the object key that object requests address
    PolicyDocs,    \* bucket policy documents, name -> statements, some malformed
    IdentityDocs,  \* identity policy documents, name -> statements
    CorsDocs,      \* CORS documents, name -> rules, some malformed
    Clients,       \* callers [by, ip]: an access key (or Absent) and an address
    Operations,    \* the operations the requests of this instance use
    BrowserOps,    \* those a browser sends with a preflight
    Founder,       \* the tenant whose bucket may exist at the start
    Issued,        \* the keys that exist at the start
    FirstPolicy,   \* their identity policy
    Requests,      \* requests that can be in flight together
    MaxSteps       \* bound on requests plus console operations started

VARIABLES
    buckets,  \* [Names -> Bucket]: the rows of the table, by global name
    keys,     \* [AccessKeys -> [state, policy]]
    apps,     \* the applications that exist
    req,      \* [Requests -> Request]
    steps     \* requests and console operations started

vars == <<buckets, keys, apps, req, steps>>

-----------------------------------------------------------------------------
NoBucket == [app |-> Absent, id |-> 0, policy |-> Absent, policyRev |-> 0,
             cors |-> Absent, corsRev |-> 0, tags |-> Absent, tagsRev |-> 0,
             versioning |-> "Unversioned", lock |-> FALSE, retention |-> Absent,
             lifecycle |-> Absent, rev |-> 0, used |-> FALSE]

\* S3Bucket::new: Object Lock brings versioning with it
NewBucket(app, id, lock) ==
    [NoBucket EXCEPT !.app = app, !.id = id, !.lock = lock,
                     !.versioning = IF lock THEN "Enabled" ELSE "Unversioned"]

\* the Origin header of a browser, and the headers it asks for
Origins == {"site"}
Headers == {{}, {"h"}}

NoKey == [state |-> "none", policy |-> Absent]

Idle == [pc |-> "idle", op |-> Absent, by |-> Absent, ip |-> Absent, name |-> Absent,
         todo |-> <<>>, decision |-> Absent, app |-> Absent, id |-> 0,
         flight |-> <<0, 0>>, origin |-> Absent, cors |-> FALSE, strayed |-> Absent]

\* The action a request is judged by: what its method and its subresource say,
\* one classifier for each method.  Deleting CORS or tags needs the Put action.
GetAction ==
    [GetLocation |-> "GetBucketLocation", GetVersioning |-> "GetBucketVersioning",
     GetLifecycle |-> "GetLifecycleConfiguration", GetCors |-> "GetBucketCors",
     GetObjectLock |-> "GetBucketObjectLockConfiguration",
     GetTagging |-> "GetBucketTagging", GetPolicy |-> "GetBucketPolicy",
     GetPolicyStatus |-> "GetBucketPolicyStatus"]
PutAction ==
    [CreateLockedBucket |-> "CreateBucket", PutVersioning |-> "PutBucketVersioning",
     PutLifecycle |-> "PutLifecycleConfiguration", PutCors |-> "PutBucketCors",
     PutObjectLock |-> "PutBucketObjectLockConfiguration",
     PutTagging |-> "PutBucketTagging", PutPolicy |-> "PutBucketPolicy"]
DeleteAction ==
    [DeleteLifecycle |-> "DeleteLifecycleConfiguration", DeleteCors |-> "PutBucketCors",
     DeleteTagging |-> "PutBucketTagging", DeletePolicy |-> "DeleteBucketPolicy"]
BucketAction ==
    GetAction @@ PutAction @@ DeleteAction
    @@ [ListBuckets |-> "ListAllMyBuckets", HeadBucket |-> "ListBucket"]
ActionOf(op) == IF op \in DOMAIN BucketAction THEN BucketAction[op] ELSE op

AccountOps == {"ListBuckets", "CreateBucket", "CreateLockedBucket"}

ASSUME ApiAssumption ==
    /\ KeyApp \in [AccessKeys -> Apps]
    /\ Absent \notin Apps \cup AccessKeys \cup Names \cup DOMAIN PolicyDocs
                     \cup DOMAIN IdentityDocs \cup DOMAIN CorsDocs
    /\ Founder \in Apps /\ Issued \subseteq AccessKeys /\ FirstPolicy \in DOMAIN IdentityDocs
    /\ BrowserOps \subseteq Operations \ AccountOps /\ MaxSteps \in Nat
    /\ IsFiniteSet(Requests) /\ IsFiniteSet(Names)
    /\ \A c \in Clients : c.by \in AccessKeys \cup {Absent}
    /\ \A op \in Operations : ActionOf(op) \in AllActions
    /\ \A d \in DOMAIN CorsDocs : DOMAIN CorsDocs[d] \subseteq Nat \ {0}

\* The ARN of a user stands for the access key the user is named after, so it
\* carries the account of that key.
ASSUME PrincipalAssumption ==
    \A d \in DOMAIN PolicyDocs : \A s \in PolicyDocs[d] :
        /\ s.principal.neg \in BOOLEAN
        /\ \A p \in s.principal.of : p.kind \notin {"any", "account"} =>
               p.arn /= Absent /\ (p.arn \in AccessKeys => KeyApp[p.arn] = p.account)
        /\ \A c \in s.conditions : c.key = "PrincipalArn" =>
               \A v \in c.values : v.exact => \A k \in v.denotes \cap AccessKeys : KeyApp[k] = v.account

OwnerOps == {"GetPolicy", "GetPolicyStatus", "PutPolicy", "DeletePolicy"}
\* The handlers that accept a request without any SigV4 material.
AnonymousOps == {"HeadBucket", "GetLocation", "GetVersioning", "GetLifecycle",
                 "GetObjectLock", "GetCors", "GetTagging", "GetObject"}
ReadOps == AnonymousOps \cup {"ListBuckets", "GetPolicy", "GetPolicyStatus"}
Method(op) == IF op \in ReadOps THEN "GET" ELSE "PUT"

\* The identity checks of a request, in order; each one reads the policy again.
Checks(op) ==
    IF op = "CreateLockedBucket"
    THEN <<"CreateBucket", "PutBucketObjectLockConfiguration", "PutBucketVersioning">>
    ELSE <<ActionOf(op)>>

\* What a policy sees of a request.  A signed caller is the IAM user named
\* after its access key.
PolicyRequest(r, action) ==
    LET signed == r.by /= Absent IN
    [action |-> action, bucket |-> r.name,
     key |-> IF Scope(action) = "Object" THEN ObjectKey ELSE Absent,
     account |-> IF signed THEN KeyApp[r.by] ELSE Absent,
     bounded |-> TRUE,
     context |-> [k \in ConditionKeys |->
         CASE k \in {"PrincipalArn", "UserId"} -> r.by
           [] k = "SourceIp" -> r.ip
           [] k = "SecureTransport" -> "false"
           [] OTHER -> Absent]]

Document(name) == IF name = Absent THEN {} ELSE PolicyDocs[name]
Rules(name) == IF name = Absent THEN <<>> ELSE CorsDocs[name]

ValidPolicies(n) == {d \in DOMAIN PolicyDocs : Parses(PolicyDocs[d], "bucket", n)}
ValidIdentities == {d \in DOMAIN IdentityDocs : Parses(IdentityDocs[d], "identity", Absent)}
ValidCorsDocs == {d \in DOMAIN CorsDocs : ValidCors(CorsDocs[d])}

Bucket ==
    [app : Apps \cup {Absent}, id : Nat, policy : DOMAIN PolicyDocs \cup {Absent}, policyRev : Nat,
     cors : DOMAIN CorsDocs \cup {Absent}, corsRev : Nat, tags : {"tags", Absent}, tagsRev : Nat,
     versioning : {"Unversioned", "Enabled", "Suspended"}, lock : BOOLEAN,
     retention : {"retention", Absent}, lifecycle : {"rules", Absent}, rev : Nat, used : BOOLEAN]

Key == [state : {"none", "active", "revoked"}, policy : DOMAIN IdentityDocs \cup {Absent}]

Decisions == {"Allow", "ImplicitDeny", "ExplicitDeny"}

Request ==
    [pc : {"idle", "preflighted", "signed", "identified", "admitted", "deleting"},
     op : Operations \cup {Absent}, by : AccessKeys \cup {Absent},
     ip : {c.ip : c \in Clients} \cup {Absent}, name : Names \cup {Absent},
     todo : Seq(AllActions), decision : Decisions \cup {Absent}, app : Apps \cup {Absent},
     id : Nat, flight : Nat \X Nat, origin : Origins \cup {Absent}, cors : BOOLEAN,
     strayed : Apps \cup {Absent}]

BucketTypes ==
    /\ buckets \in [Names -> Bucket]
    /\ keys \in [AccessKeys -> Key]
    /\ apps \subseteq Apps
    /\ req \in [Requests -> Request]

\* The keys hold their first policy, and nothing is in flight.
Quiet ==
    /\ keys = [k \in AccessKeys |-> IF k \in Issued THEN [state |-> "active", policy |-> FirstPolicy]
                                              ELSE NoKey]
    /\ apps = Apps
    /\ req = [q \in Requests |-> Idle]
    /\ steps = 0

\* Every name is free, or taken by a bucket without objects.
Init ==
    /\ \E taken \in SUBSET Names : \E first \in [taken -> DOMAIN PolicyDocs \cup {Absent}] :
          /\ \A n \in taken : first[n] \in ValidPolicies(n) \cup {Absent}
          /\ buckets = [n \in Names |-> IF n \in taken
                THEN [NewBucket(Founder, 1, FALSE) EXCEPT !.policy = first[n]] ELSE NoBucket]
    /\ Quiet

-----------------------------------------------------------------------------
Step == steps < MaxSteps /\ steps' = steps + 1

\* The end of a request that reached a row of application app (Absent: none).
\* strayed records, for TenantFence, an application it was not authorised for.
Ended(q, app) ==
    req' = [req EXCEPT ![q] = [Idle EXCEPT !.strayed = IF app = req[q].app THEN Absent ELSE app]]
Refused(q) == Ended(q, Absent)

\* resolve_s3_cors_bucket_application: the rules of the bucket of that name,
\* whoever owns it; none without a bucket or without a CORS document
CorsRules(n) == IF buckets[n].app = Absent THEN <<>> ELSE Rules(buckets[n].cors)

\* s3_options_for_bucket: a browser asks before it sends the request
Options(q, n, op, origin, headers) ==
    LET b == buckets[n] IN
    /\ req[q].pc = "idle" /\ Step
    /\ Preflight(CorsRules(n), origin, Method(op), headers)
    /\ req' = [req EXCEPT ![q] = [Idle EXCEPT !.pc = "preflighted", !.op = op,
                                  !.name = n, !.origin = origin,
                                  !.flight = <<b.id, b.corsRev>>]]
    /\ UNCHANGED <<buckets, keys, apps>>

\* ParsedSigV4: the request carries a signature of the secret of the key it names;
\* any other signature is refused before anything else happens
Signed(client) == client.by \in AccessKeys

\* load_s3_authentication refuses a key that is revoked, expired or without its
\* application
Verified(k) == keys[k].state = "active" /\ KeyApp[k] \in apps

Waiting(q) == req[q].pc \in {"idle", "preflighted"}

\* The first thing that happens to a request: the CORS middleware settles the
\* response headers from the rules as they are now, then the handler verifies
\* the signature with an access key that is neither revoked nor expired.
Arrive(q, n, op, client) ==
    LET by == client.by IN
    /\ \/ req[q].pc = "idle" /\ Step
       \/ req[q].pc = "preflighted" /\ <<req[q].op, req[q].name>> = <<op, n>> /\ UNCHANGED steps
    /\ IF Signed(client) THEN Verified(by) ELSE op \in AnonymousOps
    /\ req' = [req EXCEPT ![q] =
          [Idle EXCEPT !.pc = IF by = Absent THEN "identified" ELSE "signed",
                       !.op = op, !.by = by, !.ip = client.ip, !.name = n,
                       !.todo = IF by = Absent THEN <<>> ELSE Checks(op),
                       !.decision = IF by = Absent THEN "ImplicitDeny" ELSE Absent,
                       !.cors = ActualRequest(CorsRules(n), req[q].origin, Method(op))]]
    /\ UNCHANGED <<buckets, keys, apps>>

IdentityDecision(r, action) ==
    IF keys[r.by].policy = Absent THEN "ImplicitDeny"
    ELSE EvaluateIdentityPolicy(IdentityDocs[keys[r.by].policy], PolicyRequest(r, action))

\* authorize_s3_signed_identity_bucket_request: the identity policy itself must
\* allow the action
NeedsAllow(op) == op \in AccountOps \cup OwnerOps

\* load_s3_signed_policy_principal, in the three ways its callers use it: an
\* account or owner operation needs an Allow here, any other one goes on.  A key
\* that has vanished fails closed; one that was revoked meanwhile does not.
LoadIdentity(q) ==
    LET r == req[q]
        d == IdentityDecision(r, Head(r.todo))
        next == CASE Len(r.todo) > 1 -> "signed"
                  [] r.op \in AccountOps -> "admitted"
                  [] OTHER -> "identified"
    IN
    /\ r.pc = "signed"
    /\ IF keys[r.by].state = "none" \/ (NeedsAllow(r.op) /\ d /= "Allow")
       THEN Refused(q)
       ELSE req' = [req EXCEPT ![q] =
               [r EXCEPT !.pc = next, !.todo = Tail(r.todo), !.decision = d,
                         !.app = IF next = "admitted" THEN KeyApp[r.by] ELSE Absent]]
    /\ UNCHANGED <<buckets, keys, apps, steps>>

\* The application that is settled here decides which row the request may touch.
Admit(r, b) == [r EXCEPT !.pc = "admitted", !.app = b.app, !.id = b.id]

\* authorize_s3_signed_owner_bucket_request: the policy of a bucket is managed by
\* its owner alone, whatever the policy says
Resolve(q) ==
    LET r == req[q]  b == buckets[r.name] IN
    /\ r.pc = "identified" /\ r.op \in OwnerOps
    /\ IF b.app = KeyApp[r.by]
       THEN req' = [req EXCEPT ![q] = Admit(r, b)]
       ELSE Refused(q)
    /\ UNCHANGED <<buckets, keys, apps, steps>>

\* authorize_s3_policy_principal_request
AuthorizeRequest(q) ==
    LET r == req[q]  b == buckets[r.name] IN
    /\ r.pc = "identified" /\ r.op \notin OwnerOps
    /\ IF /\ b.app /= Absent
          /\ Authorize(r.decision, Document(b.policy), b.app, r.name,
                       PolicyRequest(r, ActionOf(r.op))) = "Allowed"
       THEN req' = [req EXCEPT ![q] = Admit(r, b)]
       ELSE Refused(q)
    /\ UNCHANGED <<buckets, keys, apps, steps>>
-----------------------------------------------------------------------------
(***************************************************************************)
(* The operations of an admitted request.  A row is found by application   *)
(* and name, never by the id that was authorised.                          *)
(***************************************************************************)
Admitted(q, op) == req[q].pc = "admitted" /\ req[q].op = op

\* Seeded fault: WHERE name = $2.
FoundByName(r) == buckets[r.name].app /= Absent

\* WHERE application_id = $1 AND name = $2
Found(r) == buckets[r.name].app /= Absent /\ buckets[r.name].app = r.app

Write(q, b) ==
    /\ buckets' = [buckets EXCEPT ![req[q].name] = b]
    /\ Ended(q, buckets[req[q].name].app)
    /\ UNCHANGED <<keys, apps, steps>>

Fail(q) == Refused(q) /\ UNCHANGED <<buckets, keys, apps, steps>>

\* UPDATE ... WHERE application_id AND name: no row, no effect
Update(q, op, b) ==
    /\ Admitted(q, op)
    /\ IF Found(req[q]) THEN Write(q, b) ELSE Fail(q)

Row(q) == buckets[req[q].name]

\* BucketS3Configuration: the revision counts changes, not requests
Revised(old, new) == IF new = old THEN old ELSE [new EXCEPT !.rev = old.rev + 1]

\* A UUID that nothing refers to any more may be drawn again.
FreshId(remembered) ==
    LET known == {req[q].id : q \in Requests} \cup {req[q].flight[1] : q \in Requests}
                 \cup {buckets[n].id : n \in Names} \cup remembered
    IN  CHOOSE i \in 1 .. Cardinality(known) + 1 : i \notin known /\ \A j \in 1 .. i - 1 : j \in known

\* s3_create_bucket: the name is looked up first, but it is UNIQUE in the table,
\* so the insert decides; remembered are ids that others still refer to
CreateBucket(q, op, remembered) ==
    LET r == req[q] IN
    /\ Admitted(q, op)
    /\ IF buckets[r.name].app = Absent /\ r.app \in apps
       THEN /\ buckets' = [buckets EXCEPT ![r.name] =
                              NewBucket(r.app, FreshId(remembered), op = "CreateLockedBucket")]
            /\ Ended(q, r.app)
            /\ UNCHANGED <<keys, apps, steps>>
       ELSE Fail(q)

\* s3_delete_bucket, first half: the row must still be the one authorised
FindForDelete(q) ==
    /\ Admitted(q, "DeleteBucket")
    /\ IF Found(req[q]) /\ Row(q).id = req[q].id
       THEN req' = [req EXCEPT ![q].pc = "deleting"] /\ UNCHANGED <<buckets, keys, apps, steps>>
       ELSE Fail(q)

\* ... second half: delete_s3_bucket looks the row up again, by name, and
\* refuses a bucket that ever held anything
DeleteBucket(q) ==
    /\ req[q].pc = "deleting"
    /\ IF Found(req[q]) /\ ~Row(q).used THEN Write(q, NoBucket) ELSE Fail(q)

\* A reader looks the row up again, by application and name.
Read(q, op) ==
    /\ Admitted(q, op)
    /\ Ended(q, IF Found(req[q]) THEN Row(q).app ELSE Absent)
    /\ UNCHANGED <<buckets, keys, apps, steps>>

ListBuckets(q) == Read(q, "ListBuckets")
GetBucketLocation(q) == Read(q, "GetLocation")
GetBucketVersioning(q) == Read(q, "GetVersioning")
GetBucketLifecycle(q) == Read(q, "GetLifecycle")
GetBucketObjectLock(q) == Read(q, "GetObjectLock")
GetBucketCors(q) == Read(q, "GetCors")
GetBucketTagging(q) == Read(q, "GetTagging")
GetObject(q) == Read(q, "GetObject")

\* HeadBucket alone compares the id with the one that was authorised.
HeadBucket(q) ==
    /\ Admitted(q, "HeadBucket")
    /\ Ended(q, IF Found(req[q]) /\ Row(q).id = req[q].id THEN Row(q).app ELSE Absent)
    /\ UNCHANGED <<buckets, keys, apps, steps>>

\* GetBucketPolicy and GetBucketPolicyStatus read the policy by its name alone.
ReadPolicy(q, op) ==
    /\ Admitted(q, op)
    /\ Ended(q, Row(q).app)
    /\ UNCHANGED <<buckets, keys, apps, steps>>

GetBucketPolicy(q) == ReadPolicy(q, "GetPolicy")
GetBucketPolicyStatus(q) == ReadPolicy(q, "GetPolicyStatus")

-----------------------------------------------------------------------------
(***************************************************************************)
(* The row after each change.  Policy, CORS and tags count every write,    *)
(* whether it changes anything or not; the configuration counts changes.   *)
(***************************************************************************)
WithPolicy(b, d) == [b EXCEPT !.policy = d, !.policyRev = b.policyRev + 1]
WithoutPolicy(b) == [b EXCEPT !.policy = Absent, !.policyRev = b.policyRev + 1]
WithCors(b, d) == [b EXCEPT !.cors = d, !.corsRev = b.corsRev + 1]
WithoutCors(b) == [b EXCEPT !.cors = Absent, !.corsRev = b.corsRev + 1]
WithTags(b, t) == [b EXCEPT !.tags = t, !.tagsRev = b.tagsRev + 1]
WithoutTags(b) == [b EXCEPT !.tags = Absent, !.tagsRev = b.tagsRev + 1]
WithLifecycle(b, rules) == Revised(b, [b EXCEPT !.lifecycle = rules])
WithVersioning(b, status) == Revised(b, [b EXCEPT !.versioning = status])

\* replace_object_lock_configuration: irreversible, and versioning comes with it
WithObjectLock(b, retention) ==
    Revised(b, [b EXCEPT !.lock = TRUE, !.versioning = "Enabled", !.retention = retention])

\* transition_versioning: never back to Unversioned, never suspended under lock
MayTransition(b, status) ==
    \/ b.versioning = status
    \/ status = "Suspended" => b.versioning = "Enabled" /\ ~b.lock

\* What the parser of each PUT body can make of it.
Malformed == "malformed"
VersioningBodies == {"Enabled", "Suspended", Malformed}
LifecycleBodies == {"rules", Malformed}
TaggingBodies == {"tags", Malformed}
ObjectLockBodies == {Absent, "retention", Malformed}

\* The body is parsed once the request is authorised; one that does not parse,
\* or whose Content-MD5 differs, changes nothing.
Replace(q, op, body, b) ==
    /\ Admitted(q, op)
    /\ IF body = Malformed THEN Fail(q) ELSE Update(q, op, b)

\* A policy is parsed before the request is authorised, so only a valid one gets here.
PutPolicy(q) == Admitted(q, "PutPolicy") /\ \E d \in ValidPolicies(req[q].name) :
    Update(q, "PutPolicy", WithPolicy(Row(q), d))
DeletePolicy(q) == Update(q, "DeletePolicy", WithoutPolicy(Row(q)))
PutCors(q) == \E d \in DOMAIN CorsDocs :
    Replace(q, "PutCors", IF d \in ValidCorsDocs THEN d ELSE Malformed, WithCors(Row(q), d))
DeleteCors(q) == Update(q, "DeleteCors", WithoutCors(Row(q)))
PutTagging(q) == \E t \in TaggingBodies : Replace(q, "PutTagging", t, WithTags(Row(q), t))
DeleteTagging(q) == Update(q, "DeleteTagging", WithoutTags(Row(q)))

PutVersioning(q) == Admitted(q, "PutVersioning") /\ \E s \in VersioningBodies :
    IF MayTransition(Row(q), s)
    THEN Replace(q, "PutVersioning", s, WithVersioning(Row(q), s)) ELSE Fail(q)

PutLifecycle(q) == \E r \in LifecycleBodies :
    Replace(q, "PutLifecycle", r, WithLifecycle(Row(q), r))
DeleteLifecycle(q) == Update(q, "DeleteLifecycle", WithLifecycle(Row(q), Absent))
PutObjectLock(q) == \E d \in ObjectLockBodies :
    Replace(q, "PutObjectLock", d, WithObjectLock(Row(q), d))

\* An object row is never removed, so the bucket stays in use.
PutObject(q) == Update(q, "PutObject", [Row(q) EXCEPT !.used = TRUE])

-----------------------------------------------------------------------------
(***************************************************************************)
(* The console: keys, their policies, and the end of an application.       *)
(***************************************************************************)
IssueKey(k) ==
    /\ keys[k].state = "none" /\ KeyApp[k] \in apps /\ Step
    /\ keys' = [keys EXCEPT ![k] = [state |-> "active", policy |-> Absent]]
    /\ UNCHANGED <<buckets, apps, req>>

\* revoke_access_key, or the expiry of the key
RevokeKey(k) ==
    /\ keys[k].state = "active" /\ Step
    /\ keys' = [keys EXCEPT ![k].state = "revoked"]
    /\ UNCHANGED <<buckets, apps, req>>

\* put_access_key_s3_policy refuses a key it saw revoked; the UPDATE does not look
PutIdentityPolicy(k, d) ==
    /\ keys[k].state /= "none" /\ d \in ValidIdentities /\ Step
    /\ keys' = [keys EXCEPT ![k].policy = d]
    /\ UNCHANGED <<buckets, apps, req>>

DeleteIdentityPolicy(k) ==
    /\ keys[k].state /= "none" /\ keys[k].policy /= Absent /\ Step
    /\ keys' = [keys EXCEPT ![k].policy = Absent]
    /\ UNCHANGED <<buckets, apps, req>>

\* delete_application_for_user: its keys and buckets go in one transaction, which
\* a bucket with objects makes fail
DeleteApplication(a) ==
    /\ a \in apps /\ Step
    /\ \A n \in Names : buckets[n].app = a => ~buckets[n].used
    /\ apps' = apps \ {a}
    /\ keys' = [k \in AccessKeys |-> IF KeyApp[k] = a THEN NoKey ELSE keys[k]]
    /\ buckets' = [n \in Names |-> IF buckets[n].app = a THEN NoBucket ELSE buckets[n]]
    /\ UNCHANGED req

\* s3_bucket_get, s3_bucket_put and s3_bucket_delete hand the request to the
\* handler of its operation.
BucketGet(q) ==
    \/ GetBucketLocation(q) \/ GetBucketVersioning(q) \/ GetBucketLifecycle(q)
    \/ GetBucketCors(q) \/ GetBucketTagging(q) \/ GetBucketObjectLock(q)
    \/ GetBucketPolicy(q) \/ GetBucketPolicyStatus(q)
BucketPut(q) ==
    \/ \E op \in {"CreateBucket", "CreateLockedBucket"} : CreateBucket(q, op, {})
    \/ PutPolicy(q) \/ PutCors(q) \/ PutTagging(q)
    \/ PutVersioning(q) \/ PutLifecycle(q) \/ PutObjectLock(q)
BucketDelete(q) ==
    \/ FindForDelete(q) \/ DeleteBucket(q)
    \/ DeletePolicy(q) \/ DeleteCors(q) \/ DeleteTagging(q) \/ DeleteLifecycle(q)

Next ==
    \/ \E q \in Requests : req[q].pc = "idle" /\ \E n \in Names, op \in BrowserOps, o \in Origins, h \in Headers :
           Options(q, n, op, o, h)
    \/ \E q \in Requests : Waiting(q) /\ \E n \in Names, op \in Operations, c \in Clients : Arrive(q, n, op, c)
    \/ \E q \in Requests : LoadIdentity(q) \/ Resolve(q) \/ AuthorizeRequest(q)
    \/ \E q \in Requests : BucketGet(q) \/ BucketPut(q) \/ BucketDelete(q)
    \/ \E q \in Requests : ListBuckets(q) \/ HeadBucket(q) \/ GetObject(q) \/ PutObject(q)
    \/ \E k \in AccessKeys : IssueKey(k) \/ RevokeKey(k) \/ DeleteIdentityPolicy(k)
    \/ \E k \in AccessKeys, d \in DOMAIN IdentityDocs : PutIdentityPolicy(k, d)
    \/ \E a \in Apps : DeleteApplication(a)

Spec == Init /\ [][Next]_vars

-----------------------------------------------------------------------------
Outsider(r, owner) == r.by = Absent \/ KeyApp[r.by] /= owner

\* The Allow that admits the request is pinned to exact source addresses.
Pinned(r, doc) ==
    \E s \in doc : /\ s.effect = "Allow"
                   /\ StatementMatches(s, "bucket", PolicyRequest(r, ActionOf(r.op)))
                   /\ \E c \in s.conditions : RestrictsToExactIps(c)

\* S3BucketPolicy::policy_status against evaluate: whenever a caller from outside
\* the owner's account is admitted to a bucket, GetBucketPolicyStatus of that
\* moment says "public", or the caller came from an address the policy pins.
OutsidersOnlyIfPublic ==
    [][\A q \in Requests :
          LET r == req[q]  b == buckets[r.name] IN
          r.pc = "identified" /\ req'[q].pc = "admitted" /\ Outsider(r, b.app) =>
              IsPublic(Document(b.policy), b.app) \/ Pinned(r, Document(b.policy))]_vars

\* A request reads or changes a row of the application it was authorised for,
\* even when the bucket was deleted and its name taken by another tenant between
\* the authorisation and the statement that touches the row.  The two readers of
\* a bucket policy, which look it up by name alone, are the exception.
TenantFence ==
    [][\A q \in Requests :
          req[q].pc \in {"admitted", "deleting"} /\ req[q].op \notin {"GetPolicy", "GetPolicyStatus"}
          /\ req'[q] /= req[q] => req'[q].strayed = Absent]_vars

\* s3_options_for_bucket against s3_cors_response_middleware: a browser whose
\* preflight succeeded gets its CORS headers on the request itself, as long as
\* the bucket's CORS document has not been written in between.
PreflightIsKept ==
    [][\A q \in Requests :
          LET r == req[q]  b == buckets[r.name] IN
          r.pc = "preflighted" /\ r.flight = <<b.id, b.corsRev>> /\ req'[q].pc /= "preflighted"
          => req'[q].cors]_vars
=============================================================================
