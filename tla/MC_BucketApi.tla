---------------------------- MODULE MC_BucketApi ----------------------------
(* Two tenants with one key each and one bucket name they compete for. *)
EXTENDS BucketApi, TLC

MC_KeyApp == [k \in {"keyA", "keyB", "spare"} |-> IF k = "keyB" THEN "B" ELSE "A"]

MC_Clients == {[by |-> "keyA", ip |-> "near"], [by |-> "keyB", ip |-> "far"],
               [by |-> Absent, ip |-> "near"]}

Anyone == [kind |-> "any", account |-> Absent, arn |-> Absent]
AccountOf(a) == [kind |-> "account", account |-> a, arn |-> Absent]
User(a, k) == [kind |-> "arn", account |-> a, arn |-> k]
BucketArn == [star |-> FALSE, bucket |-> "b", slash |-> FALSE,
              denotes |-> {[bucket |-> "b", key |-> Absent]}]
ObjectArns == [star |-> FALSE, bucket |-> "b", slash |-> TRUE,
               denotes |-> {[bucket |-> "b", key |-> "k"]}]
Star == [star |-> TRUE, bucket |-> Absent, slash |-> FALSE,
         denotes |-> [bucket : {"b", Absent}, key : {"k", Absent}]]
Only(S) == [neg |-> FALSE, of |-> S]
AllBut(S) == [neg |-> TRUE, of |-> S]
Ip(exact, S) == [denotes |-> S, exact |-> exact, account |-> Absent]
Arn(k, a) == [denotes |-> {k}, exact |-> TRUE, account |-> a]

Statement(effect, who, actions, where, conditions) ==
    [effect |-> effect, principal |-> who, actions |-> Only({actions}),
     resources |-> Only(where), conditions |-> conditions]
Everywhere == {BucketArn, ObjectArns}
Anything == BucketActions \cup ObjectActions

MC_PolicyDocs ==
    [partners |-> {Statement("Allow", Only({AccountOf("A"), AccountOf("B")}), Anything, Everywhere, {})},
     strangers |-> {Statement("Allow", AllBut({User("A", "keyA")}), Anything, Everywhere, {}),
                    Statement("Deny", Only({Anyone}), {"GetObject"}, {ObjectArns},
                        {[op |-> "NotIpAddress", key |-> "SourceIp", values |-> {Ip(FALSE, {"near"})}]})},
     pinned |-> {Statement("Allow", Only({Anyone}), Anything, Everywhere,
                    {[op |-> "IpAddress", key |-> "SourceIp", values |-> {Ip(TRUE, {"near"})}]}),
                 Statement("Allow", Only({Anyone}), Anything, Everywhere,
                    {[op |-> "StringEquals", key |-> "PrincipalArn", values |-> {Arn("keyA", "A")}]})},
     \* an object action on the bucket itself: refused by the parser
     mismatch |-> {Statement("Allow", Only({Anyone}), {"GetObject"}, {BucketArn}, {})}]

Grant(actions) == [effect |-> "Allow", principal |-> Only({}), actions |-> Only({actions}),
                   resources |-> Only({Star}), conditions |-> {}]
MC_IdentityDocs ==
    [admin |-> {Grant(AllActions)},
     guard |-> {Grant(AllActions),
                [Grant({"DeleteBucket", "PutBucketVersioning"}) EXCEPT !.effect = "Deny"]}]

Rule(methods, headers) == [origins |-> {"site"}, methods |-> methods, headers |-> headers]
MC_CorsDocs == [split |-> <<Rule({"GET"}, {}), Rule({"PUT", "GET"}, {"h"})>>,
                twice |-> <<Rule({"GET"}, {}), Rule({"GET"}, {})>>]

MC_Operations ==
    {"ListBuckets", "CreateBucket", "CreateLockedBucket", "DeleteBucket", "HeadBucket",
     "GetPolicy", "PutPolicy", "DeletePolicy", "PutCors", "DeleteCors", "PutTagging",
     "DeleteTagging", "PutVersioning", "PutLifecycle", "DeleteLifecycle", "PutObjectLock",
     "GetObject", "PutObject",
     "GetLocation", "GetVersioning", "GetLifecycle", "GetObjectLock", "GetCors", "GetTagging",
     "GetPolicyStatus"}

CONSTANTS q1, q2
MC_Requests == {q1, q2}
Interchangeable == Permutations(MC_Requests)
=============================================================================
