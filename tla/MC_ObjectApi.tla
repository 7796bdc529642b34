---------------------------- MODULE MC_ObjectApi ----------------------------
(* Two tenants, one key each, a bucket name they compete for, and a bucket to copy from. *)
EXTENDS ObjectApi

MC_KeyApp == [k \in {"keyA", "keyB"} |-> IF k = "keyB" THEN "B" ELSE "A"]
MC_KeyPermissions == [k \in {"keyA", "keyB"} |->
    IF k = "keyA" THEN Permissions ELSE Permissions \ {"media:delete", "bucket:manage"}]
MC_Clients == {[by |-> "keyA", ip |-> "near"], [by |-> "keyB", ip |-> "far"]}

Only(S) == [neg |-> FALSE, of |-> S]
Anyone == [kind |-> "any", account |-> Absent, arn |-> Absent]
Arns == {[star |-> FALSE, bucket |-> n, slash |-> s, denotes |->
            {[bucket |-> n, key |-> IF s THEN "k" ELSE Absent]}] : n \in {"b"}, s \in BOOLEAN}
Star == [star |-> TRUE, bucket |-> Absent, slash |-> FALSE,
         denotes |-> [bucket : {"b", "c", Absent}, key : {"k", Absent}]]

\* everything to everyone but tags, and nothing
MC_PolicyDocs ==
    [open |-> {[effect |-> "Allow", principal |-> Only({Anyone}), conditions |-> {},
                actions |-> Only({BucketActions \cup ObjectActions}), resources |-> Only(Arns)]},
     untagged |-> {[effect |-> "Allow", principal |-> Only({Anyone}), conditions |-> {},
                actions |-> Only({ObjectActions \ {"PutObjectTagging", "BypassGovernanceRetention"}}),
                resources |-> Only(Arns)]}]

Allow(actions) == [effect |-> "Allow", principal |-> Only({}), actions |-> Only({actions}),
                   resources |-> Only({Star}), conditions |-> {}]
MC_IdentityDocs == [admin |-> {Allow(AllActions)}, writer |-> {Allow(AllActions \ {"PutObjectTagging"})}]

MC_CorsDocs == <<>>

Governance == [mode |-> "governance", until |-> 2]
Short == [mode |-> "governance", until |-> 1]
MC_FirstVersions == {Version(1, FALSE, FALSE, TRUE, Governance, FALSE)}

MC_Forms ==
    {Form("Put"), [Form("Put") EXCEPT !.tags = TRUE, !.acl = TRUE],
     [Form("Put") EXCEPT !.retention = Short, !.hold = TRUE],
     Form("Copy"), [Form("Copy") EXCEPT !.tags = TRUE], Form("Get"),
     Form("Delete"), [Form("Delete") EXCEPT !.exact = TRUE, !.bypass = TRUE, !.left = 1],
     Form("GetTags"), Form("PutTags"), [Form("DeleteTags") EXCEPT !.exact = TRUE],
     Form("GetAcl"), Form("PutAcl"), Form("GetRetention"), Form("GetHold"),
     [Form("PutRetention") EXCEPT !.retention = Short, !.bypass = TRUE],
     [Form("PutHold") EXCEPT !.hold = TRUE],
     [Form("CreateUpload") EXCEPT !.tags = TRUE], Form("UploadPart"), Form("UploadPartCopy"),
     Form("ListParts"), Form("AbortUpload"), Form("CompleteUpload")}

MC_DavForms == {Form(op) : op \in {"DavPut", "DavCreate", "DavGet", "DavList", "DavMkdir", "DavDelete",
                    "DavRmdir", "DavCopy", "DavMove", "DavMkcol", "DavRmcol"}}

(* The instance has two halves, told apart by the version of the source bucket "c", which  *)
(* nobody changes.  In the first, one object request at a time, of any form, meets         *)
(* everything else.  In the second, a tenant's bucket was never versioned, and two object  *)
(* requests at a time meet the configuration of versioning and Object Lock: writes that    *)
(* were prepared before it.                                                                *)
MC_BothVersions == MC_FirstVersions \cup {Version(1, TRUE, FALSE, FALSE, NoRetention, FALSE)}

MC_StaleForms == {Form("Put"), [Form("PutRetention") EXCEPT !.retention = Governance],
                  [Form("Delete") EXCEPT !.exact = TRUE], Form("CreateUpload"), Form("CompleteUpload")}
MC_BothForms == MC_Forms \cup MC_StaleForms

NeverVersioned == objects["c"].versions /= MC_FirstVersions

MC_Init ==
    /\ ObjectInit
    /\ NeverVersioned => objects["b"] /= NoObject /\ buckets["b"].policy = Absent

\* In the second half, tenant B and the console do nothing.
Arriving == IF NeverVersioned THEN Tasks ELSE {t \in {"t1"} : started < 2 /\ steps < 3}
ArrivingForms == IF NeverVersioned THEN MC_StaleForms ELSE MC_Forms
ArrivingDav == IF NeverVersioned THEN {} ELSE MC_DavForms
Callers == {c \in Clients : NeverVersioned => c.by = "keyA"}

Configures ==
    /\ UNCHANGED <<keys, apps>>
    /\ req'["q"].by \in {Absent, "keyA"}
    /\ req'["q"].op \in {Absent, "PutVersioning", "PutObjectLock"}

\* ObjectNext, with the requests of each half
MC_Next ==
    \/ \E t \in Arriving : Free(t) /\ \E f \in ArrivingForms, src \in Names, c \in Callers :
           ArriveObject(t, f, "b", src, c)
    \/ \E t \in Arriving : Free(t) /\ \E f \in ArrivingDav, src \in Names, c \in Callers :
           DavArrive(t, f, "b", src, c)
    \/ \E t \in Tasks : Authorise(t) \/ ObjectPut(t) \/ Look(t) \/ Operate(t) \/ ObjectPost(t) \/ WebDav(t)
    \/ /\ BucketStep /\ UNCHANGED objectVars
       /\ IF NeverVersioned THEN Configures ELSE steps' <= 3

MC_Spec == MC_Init /\ [][MC_Next]_allVars
=============================================================================
