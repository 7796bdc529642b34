------------------------------ MODULE Policies ------------------------------
(***************************************************************************)
(* Bucket policies, identity policies and CORS rules as pure operators     *)
(* (mediahub-core s3_policy.rs and s3_cors.rs, mediahub-app                *)
(* s3_authorization.rs, mediahub-server s3_cors_runtime.rs).               *)
(*                                                                         *)
(* A pattern is represented by what it denotes: an action pattern is the   *)
(* set of actions it matches, a resource pattern the set of resources, a   *)
(* condition value the set of strings.  The glob matcher, the CIDR         *)
(* arithmetic and the JSON syntax disappear in that representation; which  *)
(* patterns a document may combine, and what a combination permits, stays. *)
(***************************************************************************)
EXTENDS Naturals, Sequences

Absent == "absent"

AccountActions == {"ListAllMyBuckets", "CreateBucket"}

BucketActions ==
    {"ListBucket", "ListBucketVersions", "ListBucketMultipartUploads",
     "GetBucketLocation", "GetBucketVersioning", "PutBucketVersioning",
     "GetLifecycleConfiguration", "PutLifecycleConfiguration",
     "DeleteLifecycleConfiguration", "GetBucketObjectLockConfiguration",
     "PutBucketObjectLockConfiguration", "GetBucketCors", "PutBucketCors",
     "GetBucketTagging", "PutBucketTagging", "GetBucketPolicy",
     "GetBucketPolicyStatus", "PutBucketPolicy", "DeleteBucketPolicy",
     "DeleteBucket"}

ObjectActions ==
    {"GetObject", "GetObjectVersion", "GetObjectAcl", "GetObjectVersionAcl",
     "PutObjectAcl", "PutObjectVersionAcl", "PutObject", "DeleteObject",
     "DeleteObjectVersion", "GetObjectTagging", "GetObjectVersionTagging",
     "PutObjectTagging", "PutObjectVersionTagging", "DeleteObjectTagging",
     "DeleteObjectVersionTagging", "GetObjectRetention", "PutObjectRetention",
     "GetObjectLegalHold", "PutObjectLegalHold", "BypassGovernanceRetention",
     "AbortMultipartUpload", "ListMultipartUploadParts"}

AllActions == AccountActions \cup BucketActions \cup ObjectActions

Scope(a) == CASE a \in AccountActions -> "Account"
              [] a \in BucketActions -> "Bucket"
              [] OTHER -> "Object"

\* kind is "bucket" or "identity": a bucket policy cannot speak of an account
SupportedActions(kind) ==
    IF kind = "bucket" THEN BucketActions \cup ObjectActions ELSE AllActions

-----------------------------------------------------------------------------
(***************************************************************************)
(* Documents.  A clause is [neg, of]: Action or NotAction, and so on, over *)
(* a non-empty set of patterns.                                            *)
(*   principal  [kind: any | account | root | arn, account, arn]           *)
(*   action     a set of actions                                           *)
(*   resource   [star, bucket, slash, denotes]: star is the pattern "*",   *)
(*              bucket the literal bucket name it starts with (Absent when *)
(*              that part has a wildcard), slash says it has a key part    *)
(*   condition  [op, key, values], a value [denotes, exact, account]: exact*)
(*              is a string without wildcards or a /32 or /128 network,    *)
(*              account the account of a principal ARN                     *)
(***************************************************************************)
StringKeys == {"PrincipalArn", "UserId", "Prefix", "Delimiter", "VersionId"}
ConditionKeys == StringKeys \cup {"SecureTransport", "SourceIp", "MaxKeys"}
NegativeOps == {"StringNotEquals", "StringNotLike", "NotIpAddress"}

\* The keys a condition operator may test.
KeysOf(op) ==
    CASE op \in {"StringEquals", "StringNotEquals", "StringLike", "StringNotLike"} -> StringKeys
      [] op = "Bool" -> {"SecureTransport"}
      [] op \in {"IpAddress", "NotIpAddress"} -> {"SourceIp"}
      [] op = "NumericLessThanEquals" -> {"MaxKeys"}
      [] OTHER -> ConditionKeys

\* glob_matches, on a pattern given as the set of strings it denotes
Glob(pattern, v) == v \in pattern

\* IpNetwork::contains
InNetwork(network, address) == address \in network.denotes

Covered(patterns) == UNION patterns

\* validate_action_patterns
ValidActions(c, kind) ==
    /\ \A p \in c.of : p \cap SupportedActions(kind) /= {}
    /\ c.neg => ~ (SupportedActions(kind) \subseteq Covered(c.of))

\* validate_resources: a bucket policy names its own bucket literally
ValidResources(c, kind, target) ==
    kind = "bucket" => \A p \in c.of : ~p.star /\ p.bucket = target

ScopeOfPattern(p) == CASE p.star -> {"Account", "Bucket", "Object"}
                       [] p.slash -> {"Object"}
                       [] OTHER -> {"Bucket"}

\* resource_clause_scopes.  A NotResource of a bucket policy is given the scopes
\* of the patterns it excludes.
ScopesOf(c, kind) ==
    IF c.neg /\ kind = "identity"
    THEN IF \E p \in c.of : p.star THEN {} ELSE {"Account", "Bucket", "Object"}
    ELSE UNION {ScopeOfPattern(p) : p \in c.of}

ActionMatches(c, a) == (\E p \in c.of : Glob(p, a)) /= c.neg

\* validate_action_resource_compatibility
Compatible(s, kind) ==
    \E a \in SupportedActions(kind) :
        ActionMatches(s.actions, a) /\ Scope(a) \in ScopesOf(s.resources, kind)

ValidCondition(c) ==
    /\ c.key \in KeysOf(c.op)
    /\ c.values /= {}
    /\ c.op \in {"Bool", "Null"} => \E v \in c.values : c.values = {v}

\* parse_statement
ValidStatement(s, kind, target) ==
    /\ kind = "bucket" => s.principal.of /= {}
    /\ s.actions.of /= {} /\ ValidActions(s.actions, kind)
    /\ s.resources.of /= {} /\ ValidResources(s.resources, kind, target)
    /\ Compatible(s, kind)
    /\ \A c \in s.conditions : ValidCondition(c)

\* S3BucketPolicy::parse and S3IdentityPolicy::parse; a document is a set of
\* statements, whose order evaluation does not see
Parses(doc, kind, target) ==
    doc /= {} /\ \A s \in doc : ValidStatement(s, kind, target)

-----------------------------------------------------------------------------
(***************************************************************************)
(* Evaluation of a request [action, bucket, key, account, bounded,         *)
(* context]: account and key may be Absent, bounded says that every string *)
(* is within the policy limits, context maps a condition key to its value. *)
(***************************************************************************)
WellFormed(r) ==
    /\ r.bounded
    /\ Scope(r.action) = "Object" <=> r.key /= Absent

ResourceOf(r) == [bucket |-> IF Scope(r.action) = "Account" THEN Absent ELSE r.bucket,
                  key |-> r.key]

Is(p, r) == CASE p.kind = "any" -> TRUE
              [] p.kind = "account" -> r.account = p.account
              [] p.kind = "root" -> \/ r.account = p.account
                                    \/ r.context["PrincipalArn"] = p.arn
              [] OTHER -> r.context["PrincipalArn"] = p.arn

PrincipalMatches(c, r) == (\E p \in c.of : Is(p, r)) /= c.neg

ResourceMatches(c, r) == (\E p \in c.of : Glob(p.denotes, ResourceOf(r))) /= c.neg

ValueMatches(k, x, v) == IF k = "SourceIp" THEN InNetwork(x, v) ELSE Glob(x.denotes, v)

\* S3PolicyCondition::matches: a positive test needs the key, a negative one
\* is satisfied by its absence
ConditionMatches(c, r) ==
    LET v == r.context[c.key]
        any == \E x \in c.values : ValueMatches(c.key, x, v)
    IN
    CASE c.op = "Null" -> (v = Absent) = (\E x \in c.values : Glob(x.denotes, "true"))
      [] c.op \in NegativeOps -> v = Absent \/ ~any
      [] OTHER -> v /= Absent /\ any

StatementMatches(s, kind, r) ==
    /\ kind = "bucket" => PrincipalMatches(s.principal, r)
    /\ ActionMatches(s.actions, r.action)
    /\ ResourceMatches(s.resources, r)
    /\ \A c \in s.conditions : ConditionMatches(c, r)

\* evaluate_statements: a matching Deny wins over every Allow
EvaluateStatements(doc, kind, r) ==
    LET effects == {s.effect : s \in {t \in doc : StatementMatches(t, kind, r)}} IN
    IF "Deny" \in effects THEN "ExplicitDeny"
    ELSE IF "Allow" \in effects THEN "Allow" ELSE "ImplicitDeny"

\* S3BucketPolicy::evaluate; target is the bucket the policy is attached to
EvaluateBucketPolicy(doc, target, r) ==
    IF r.bucket = target /\ WellFormed(r) /\ Scope(r.action) /= "Account"
    THEN EvaluateStatements(doc, "bucket", r) ELSE "ImplicitDeny"

\* S3IdentityPolicy::evaluate
EvaluateIdentityPolicy(doc, r) ==
    IF WellFormed(r) THEN EvaluateStatements(doc, "identity", r) ELSE "ImplicitDeny"

-----------------------------------------------------------------------------
(***************************************************************************)
(* policy_status: does GetBucketPolicyStatus call the policy public?       *)
(***************************************************************************)
MatchesNobody(c) == c.neg /\ \E p \in c.of : p.kind = "any"

PrincipalIsTrusted(p, owner) == p.kind /= "any" /\ p.account = owner

\* Seeded fault: one trusted principal is enough.
ClauseTrustedBySome(c, owner) == ~c.neg /\ \E p \in c.of : PrincipalIsTrusted(p, owner)

\* principal_clause_is_trusted
ClauseIsTrusted(c, owner) == ~c.neg /\ \A p \in c.of : PrincipalIsTrusted(p, owner)

RestrictsToTrusted(c, owner) ==
    /\ c.key = "PrincipalArn" /\ c.op \in {"StringEquals", "StringLike"}
    /\ \A v \in c.values : v.exact /\ v.account = owner

RestrictsToExactIps(c) ==
    c.key = "SourceIp" /\ c.op = "IpAddress" /\ \A v \in c.values : v.exact

MayGrantPublicAccess(s, owner) ==
    /\ ~ MatchesNobody(s.principal)
    /\ ~ ClauseIsTrusted(s.principal, owner)
    /\ ~ \E c \in s.conditions : RestrictsToTrusted(c, owner)
    /\ ~ \E c \in s.conditions : RestrictsToExactIps(c)

IsPublic(doc, owner) ==
    \E s \in doc : s.effect = "Allow" /\ MayGrantPublicAccess(s, owner)

-----------------------------------------------------------------------------
(***************************************************************************)
(* S3AuthorizationService::authorize, after the bucket has been found:     *)
(* decision is the caller's identity decision, doc the bucket's policy ({} *)
(* when it has none), owner the bucket's account.                          *)
(***************************************************************************)
Authorize(decision, doc, owner, target, r) ==
    LET bucket == IF doc = {} THEN "ImplicitDeny" ELSE EvaluateBucketPolicy(doc, target, r)
        \* a persisted document that no longer parses stops the request
        unreadable == doc /= {} /\ ~ Parses(doc, "bucket", target)
        admitted == CASE r.account = Absent -> bucket = "Allow"
                      [] r.account = owner -> "Allow" \in {decision, bucket}
                      [] OTHER -> decision = "Allow" /\ bucket = "Allow"
    IN  IF decision = "ExplicitDeny" THEN "ExplicitDeny"
        ELSE IF ~ WellFormed(r) \/ unreadable THEN "ImplicitDeny"
        ELSE IF bucket = "ExplicitDeny" THEN "ExplicitDeny"
        ELSE IF admitted THEN "Allowed" ELSE "ImplicitDeny"

-----------------------------------------------------------------------------
(***************************************************************************)
(* CORS.  A configuration is a sequence of rules [origins, methods,        *)
(* headers], each the set of values its patterns denote.                   *)
(***************************************************************************)
ValidRule(rule) == rule.origins /= {} /\ rule.methods /= {}

ValidCors(rules) ==
    /\ rules /= <<>>
    /\ \A i \in DOMAIN rules : ValidRule(rules[i])
    /\ \A i, j \in DOMAIN rules : rules[i] = rules[j] => i = j

\* find_matching_rule: the first rule that fits, 0 when none does
MatchingRule(rules, origin, method, headers) ==
    LET fits == {i \in DOMAIN rules : /\ origin \in rules[i].origins
                                      /\ method \in rules[i].methods
                                      /\ headers \subseteq rules[i].headers}
    IN  IF fits = {} THEN 0 ELSE CHOOSE i \in fits : \A j \in fits : i <= j

Preflight(rules, origin, method, headers) == MatchingRule(rules, origin, method, headers) /= 0

\* Seeded fault: the first rule that knows the origin decides alone.
FirstOriginDecides(rules, origin, method) ==
    LET known == {i \in DOMAIN rules : origin \in rules[i].origins}
    IN  known /= {} /\ method \in rules[CHOOSE i \in known : \A j \in known : i <= j].methods

\* evaluate_s3_cors_actual_request: the headers were settled by the preflight
ActualRequest(rules, origin, method) == MatchingRule(rules, origin, method, {}) /= 0
=============================================================================
