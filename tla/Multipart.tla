----------------------------- MODULE Multipart -----------------------------
(***************************************************************************)
(* One S3 multipart upload: its row in s3_multipart_uploads, its rows in   *)
(* s3_multipart_parts, the UploadPart and CompleteMultipartUpload handlers *)
(* that race on them, abort, expiry and the lifecycle rule that aborts     *)
(* incomplete uploads.                                                     *)
(*                                                                         *)
(* Every completion attempt has its own completion token and, unless it    *)
(* takes over an attached one, its own upload intent; both, and the lease, *)
(* are named after the attempt.  The lease of the upload and the lease of  *)
(* the intent end at the same lease_until, and an intent inherits the      *)
(* expires_at of its upload, so one flag each stands for these deadlines.  *)
(* A payload is known by the part uploads it is made of.  The GC queue is  *)
(* the set of keys handed to it, which may be deleted at any later moment  *)
(* (StorageGc shows how).                                                  *)
(***************************************************************************)
EXTENDS Naturals, SequencesExt, Sums

CONSTANTS
    Puts,         \* UploadPart requests
    PartNumber,   \* part number of each
    Tag,          \* ETag of each: the MD5 of its body
    Size,         \* size of each body
    Completers,   \* CompleteMultipartUpload requests
    MinPart,      \* MIN_S3_MULTIPART_PART_BYTES
    MaxUpload,    \* max_object_size of the bucket
    Quota,        \* quota_bytes of the application
    None

Numbers == {PartNumber[p] : p \in Puts}
Tags == {Tag[p] : p \in Puts}

ASSUME PartAssumption ==
    /\ IsFiniteSet(Puts) /\ IsFiniteSet(Completers)
    /\ PartNumber \in [Puts -> Nat]
    /\ Size \in [Puts -> Nat]
    /\ \A p, q \in Puts : Tag[p] = Tag[q] => Size[p] = Size[q]
ASSUME LimitAssumption == MinPart \in Nat /\ MaxUpload \in Nat /\ Quota \in Nat
ASSUME NoneAssumption == None \notin Puts \cup Completers

VARIABLES
    upload,     \* the s3_multipart_uploads row
    parts,      \* the s3_multipart_parts rows: the upload each number holds
    putter,     \* where each UploadPart handler is
    completer,  \* where each CompleteMultipartUpload handler is
    intent,     \* the s3_upload_intents row of each completion attempt
    expired,    \* expires_at <= now
    lapsed,     \* attempts whose lease_until <= now
    blobs,      \* keys present in the object store
    queued,     \* keys handed to the GC queue
    reserved,   \* applications.reserved_bytes
    used        \* applications.used_bytes

storeVars == <<blobs, queued>>
ledger == <<reserved, used>>
time == <<expired, lapsed>>
vars == <<upload, parts, putter, completer, intent, time, storeVars, ledger>>

(* Storage keys                                                            *)
Part(p) == <<"part", p>>
Temporary(c) == <<"staging", c>>
Final(c) == <<"objects", c>>
Keys == ({"part"} \X Puts) \cup ({"staging", "objects"} \X Completers)

(* A manifest names a tag for each part number it selects; the sources are *)
(* the part uploads that the rows hold for those numbers                   *)
Partial(S) == UNION {[D -> S] : D \in SUBSET Numbers}
NoParts == [n \in {} |-> None]

Upload ==
    [state : {"pending", "completing", "completed", "aborted"},
     token : Completers \cup {None},
     manifest : Partial(Tags),
     attached : Completers \cup {None},
     version : Completers \cup {None}]

Intent ==
    [state : {"none", "staging", "ready", "committing", "committed", "aborted", "expired"},
     token : Completers \cup {None},
     sources : Partial(Puts)]

PutterSteps == {"start", "streamed", "discarding", "acknowledged", "refused", "stopped"}

CompleterSteps ==
    {"start", "claimed", "begun", "composed", "ready", "attaching", "attached",
     "promoted", "prepared", "aborting", "releasing", "acknowledged", "refused", "stopped"}

(* using: the intent to commit; seen: leases that had ended at the claim's *)
(* now; stamped: committed_at lies before the end of the lease             *)
Completer ==
    [step : CompleterSteps, sources : Partial(Puts), using : Completers \cup {None},
     seen : SUBSET Completers, stamped : BOOLEAN]

IdleCompleter ==
    [step |-> "start", sources |-> NoParts, using |-> None, seen |-> {}, stamped |-> FALSE]

Stored == {n \in Numbers : parts[n] # None}

TypeOK ==
    /\ upload \in Upload
    /\ parts \in [Numbers -> Puts \cup {None}]
    /\ \A n \in Stored : PartNumber[parts[n]] = n
    /\ putter \in [Puts -> PutterSteps]
    /\ completer \in [Completers -> Completer]
    /\ intent \in [Completers -> Intent]
    /\ expired \in BOOLEAN /\ lapsed \subseteq Completers
    /\ blobs \subseteq Keys /\ queued \subseteq Keys
    /\ reserved \in Nat /\ used \in Nat
    /\ upload.token # None <=> upload.state = "completing"
    /\ \A c \in Completers : intent[c].token # None <=> intent[c].state = "committing"

Bytes(sources) == SumOver([n \in DOMAIN sources |-> Size[sources[n]]], DOMAIN sources)
StoredBytes == Bytes([n \in Stored |-> parts[n]])
StoredKeys == {Part(parts[n]) : n \in Stored}

(* The values of f by ascending part number                                *)
InOrder(f) ==
    LET numbers == SetToSortSeq(DOMAIN f, <)
    IN  [i \in DOMAIN numbers |-> f[numbers[i]]]

(* multipart_entity_tag: the digest of the parts' digests and their count; *)
(* the part numbers only give the order                                    *)
EntityTag(sources) == InOrder([n \in DOMAIN sources |-> Tag[sources[n]]])

(* Seeded fault: the manifest's tags are not compared with the parts.      *)
ValidNumbers(manifest) == manifest # NoParts /\ DOMAIN manifest \subseteq Stored

(* validate_manifest                                                       *)
Valid(manifest) ==
    /\ manifest # NoParts
    /\ \A n \in DOMAIN manifest : n \in Stored /\ Tag[parts[n]] = manifest[n]

Selected(manifest) == [n \in DOMAIN manifest |-> parts[n]]

Open(c) == intent[c].state \in {"staging", "ready", "committing"}
Ended == upload.state \in {"completed", "aborted"}

-----------------------------------------------------------------------------
(* Ending an upload *)

(* Seeded fault: the reservation is returned whatever the intent's state.  *)
AbortAttachedTwice(keys) ==
    LET c == upload.attached
    IN  /\ intent[c].state # "committed"
        /\ queued' = queued \cup keys \cup {Temporary(c), Final(c)}
        /\ intent' = [intent EXCEPT ![c] = [@ EXCEPT !.state = "aborted", !.token = None]]
        /\ reserved' = IF reserved >= Bytes(intent[c].sources)
                       THEN reserved - Bytes(intent[c].sources) ELSE 0

(* abort_locked_attached_intent: both keys of the attached intent and the  *)
(* given keys go to the GC queue, and its reservation is returned unless   *)
(* the reaper of intents already did                                       *)
AbortAttached(keys) ==
    LET c == upload.attached
    IN  /\ intent[c].state # "committed"
        /\ queued' = queued \cup keys \cup {Temporary(c), Final(c)}
        /\ IF Open(c)
           THEN /\ intent' = [intent EXCEPT ![c] = [@ EXCEPT !.state = "aborted", !.token = None]]
                /\ reserved' = reserved - Bytes(intent[c].sources)
           ELSE UNCHANGED <<intent, reserved>>

(* abort_upload_and_enqueue_cleanup                                        *)
AbortUpload ==
    /\ upload' = [upload EXCEPT !.state = "aborted", !.token = None, !.manifest = NoParts]
    /\ IF upload.attached = None
       THEN queued' = queued \cup StoredKeys /\ UNCHANGED <<intent, reserved>>
       ELSE AbortAttached(StoredKeys)

LeaseLive == upload.state = "completing" /\ upload.token \notin lapsed

(* abort_multipart_upload                                                  *)
Abort ==
    /\ upload.state = "pending"
    /\ AbortUpload
    /\ UNCHANGED <<parts, putter, completer, time, blobs, used>>

(* Seeded fault: an upload left completing is never expired.               *)
ExpirableOnlyPending == expired /\ upload.state = "pending"

Expirable == expired /\ ~Ended /\ ~LeaseLive

(* expire_multipart_uploads, for this row                                  *)
Expire ==
    /\ Expirable
    /\ AbortUpload
    /\ UNCHANGED <<parts, putter, completer, time, blobs, used>>

(* execute_multipart_abort of the bucket's lifecycle rule                  *)
LifecycleAbort ==
    /\ ~Ended /\ ~LeaseLive
    /\ AbortUpload
    /\ UNCHANGED <<parts, putter, completer, time, blobs, used>>

-----------------------------------------------------------------------------
(* UploadPart *)

PutGoto(p, step) == putter' = [putter EXCEPT ![p] = step]

StreamPart(p) ==
    /\ putter[p] = "start"
    /\ blobs' = blobs \cup {Part(p)}
    /\ PutGoto(p, "streamed")
    /\ UNCHANGED <<upload, parts, completer, intent, time, queued, ledger>>

(* Bad digest, bad signature or no permission: the payload is deleted, as  *)
(* well as it goes                                                         *)
RejectPart(p, deleted) ==
    /\ putter[p] = "streamed"
    /\ blobs' = IF deleted THEN blobs \ {Part(p)} ELSE blobs
    /\ PutGoto(p, "refused")
    /\ UNCHANGED <<upload, parts, completer, intent, time, queued, ledger>>

FitsUpload(p) ==
    LET old == parts[PartNumber[p]]
    IN  StoredBytes - (IF old = None THEN 0 ELSE Size[old]) + Size[p] <= MaxUpload

(* Seeded fault: the upload that is replaced is forgotten.                 *)
ReplacedForgotten(p) == {}

Replaced(p) == {Part(q) : q \in {parts[PartNumber[p]]} \ {None, p}}

(* put_multipart_part stores the row and hands the replaced payload to the *)
(* GC.  When the answer of the database is lost the handler takes it for a *)
(* failure.                                                                *)
StorePart(p, heard) ==
    /\ putter[p] = "streamed"
    /\ upload.state = "pending" /\ ~expired /\ FitsUpload(p)
    /\ parts' = [parts EXCEPT ![PartNumber[p]] = p]
    /\ queued' = queued \cup Replaced(p)
    /\ PutGoto(p, IF heard THEN "acknowledged" ELSE "discarding")
    /\ UNCHANGED <<upload, completer, intent, time, blobs, ledger>>

(* The upload is not pending, is past its deadline or would become too     *)
(* large, or the bucket or the database cannot be read                     *)
RefusePart(p) ==
    /\ putter[p] = "streamed"
    /\ PutGoto(p, "discarding")
    /\ UNCHANGED <<upload, parts, completer, intent, time, storeVars, ledger>>

(* put_multipart_part meets the deadline first and ends the upload         *)
ExpireByPart(p) ==
    /\ putter[p] = "streamed"
    /\ upload.state = "pending" /\ expired
    /\ AbortUpload
    /\ PutGoto(p, "discarding")
    /\ UNCHANGED <<parts, completer, time, blobs, used>>

(* persist_multipart_temporary_gc                                          *)
DiscardPart(p) ==
    /\ putter[p] = "discarding"
    /\ queued' = queued \cup {Part(p)}
    /\ PutGoto(p, "refused")
    /\ UNCHANGED <<upload, parts, completer, intent, time, blobs, ledger>>

CrashPutter(p) ==
    /\ putter[p] \in {"streamed", "discarding"}
    /\ PutGoto(p, "stopped")
    /\ UNCHANGED <<upload, parts, completer, intent, time, storeVars, ledger>>

-----------------------------------------------------------------------------
(* CompleteMultipartUpload *)

Goto(c, step) == completer' = [completer EXCEPT ![c].step = step]

(* The answer is sent; what the handler knew is gone                       *)
Answer(c, step) == completer' = [completer EXCEPT ![c] = [IdleCompleter EXCEPT !.step = step]]

Using(c) == completer[c].using
Sources(c) == completer[c].sources

(* All parts but the last have the minimal size                            *)
SizesAccepted(sources) ==
    \A n \in DOMAIN sources : n = Max(DOMAIN sources) \/ Size[sources[n]] >= MinPart

(* claim_multipart_completion: a new claim, or the takeover of one whose   *)
(* lease has ended; an attached intent stays attached                      *)
ClaimCompletion(c, manifest) ==
    /\ completer[c].step = "start"
    /\ ~Ended /\ ~LeaseLive /\ ~expired /\ Valid(manifest)
    /\ upload' = [upload EXCEPT !.state = "completing", !.token = c, !.manifest = manifest]
    /\ completer' = [completer EXCEPT ![c] =
         [step |-> "claimed", sources |-> Selected(manifest), using |-> upload.attached,
          seen |-> lapsed, stamped |-> FALSE]]
    /\ UNCHANGED <<parts, putter, intent, time, storeVars, ledger>>

(* The upload has ended, another claim is live or the manifest is invalid  *)
AnswerClaim(c, manifest) ==
    /\ completer[c].step = "start"
    /\ Ended \/ LeaseLive \/ (~expired /\ ~Valid(manifest))
    /\ Answer(c, IF upload.state = "completed" THEN "acknowledged" ELSE "refused")
    /\ UNCHANGED <<upload, parts, putter, intent, time, storeVars, ledger>>

(* claim_multipart_completion meets the deadline first                     *)
ExpireByClaim(c) ==
    /\ completer[c].step = "start"
    /\ expired /\ ~Ended /\ ~LeaseLive
    /\ AbortUpload
    /\ Answer(c, "refused")
    /\ UNCHANGED <<parts, putter, time, blobs, used>>

(* claim_existing_multipart_intent compares with the now of the claim      *)
Resumable(c, d) ==
    \/ intent[d].state = "ready"
    \/ intent[d].state = "committing" /\ intent[d].token \in completer[c].seen

TakeOver(c) ==
    LET d == Using(c)
    IN  /\ completer[c].step = "claimed"
        /\ d # None
        /\ SizesAccepted(Sources(c))
        /\ Resumable(c, d)
        /\ Bytes(intent[d].sources) = Bytes(Sources(c))
        /\ EntityTag(intent[d].sources) = EntityTag(Sources(c))
        /\ intent' = [intent EXCEPT ![d] = [@ EXCEPT !.state = "committing", !.token = c]]
        /\ Goto(c, "attaching")
        /\ UNCHANGED <<upload, parts, putter, time, storeVars, ledger>>

(* begin_put for the whole object, with the deadline of the upload         *)
BeginPut(c) ==
    /\ completer[c].step = "claimed"
    /\ Using(c) = None
    /\ SizesAccepted(Sources(c))
    /\ Quota - used - reserved >= Bytes(Sources(c))
    /\ intent' = [intent EXCEPT ![c] =
         [state |-> "staging", token |-> None, sources |-> Sources(c)]]
    /\ reserved' = reserved + Bytes(Sources(c))
    /\ completer' = [completer EXCEPT ![c] = [@ EXCEPT !.step = "begun", !.using = c]]
    /\ UNCHANGED <<upload, parts, putter, time, storeVars, used>>

(* Sizes or quota refuse the completion, or begin_put fails                *)
RefuseBegin(c) ==
    /\ completer[c].step = "claimed"
    /\ Using(c) = None
    /\ Goto(c, "releasing")
    /\ UNCHANGED <<upload, parts, putter, intent, time, storeVars, ledger>>

(* compose_temporary reads every selected part                             *)
Compose(c) ==
    /\ completer[c].step = "begun"
    /\ \A n \in DOMAIN Sources(c) : Part(Sources(c)[n]) \in blobs
    /\ blobs' = blobs \cup {Temporary(c)}
    /\ Goto(c, "composed")
    /\ UNCHANGED <<upload, parts, putter, intent, time, queued, ledger>>

CompleteStaging(c) ==
    /\ completer[c].step = "composed"
    /\ intent[c].state = "staging" /\ ~expired
    /\ intent' = [intent EXCEPT ![c].state = "ready"]
    /\ Goto(c, "ready")
    /\ UNCHANGED <<upload, parts, putter, time, storeVars, ledger>>

(* claim_upload_intent with the completion token and its lease             *)
ClaimIntent(c) ==
    /\ completer[c].step = "ready"
    /\ intent[c].state = "ready" /\ ~expired /\ c \notin lapsed
    /\ intent' = [intent EXCEPT ![c] = [@ EXCEPT !.state = "committing", !.token = c]]
    /\ Goto(c, "attaching")
    /\ UNCHANGED <<upload, parts, putter, time, storeVars, ledger>>

(* One of the three fails                                                  *)
FailStaging(c) ==
    /\ completer[c].step \in {"begun", "composed", "ready"}
    /\ Goto(c, "aborting")
    /\ UNCHANGED <<upload, parts, putter, intent, time, storeVars, ledger>>

(* abort_s3_staged_put, best effort                                        *)
AbortStaged(c) ==
    /\ completer[c].step = "aborting"
    /\ IF intent[c].state \in {"staging", "ready"}
       THEN /\ queued' = queued \cup {Temporary(c), Final(c)}
            /\ intent' = [intent EXCEPT ![c].state = "aborted"]
            /\ reserved' = reserved - Bytes(intent[c].sources)
       ELSE UNCHANGED <<queued, intent, reserved>>
    /\ Goto(c, "releasing")
    /\ UNCHANGED <<upload, parts, putter, time, blobs, used>>

(* validate_completion_owner and owns_claim                                *)
OwnsClaim(c) == upload.state = "completing" /\ upload.token = c /\ c \notin lapsed

(* The attached intent may be aborted by the owner of the completion       *)
AttachedIsOwn(c) ==
    upload.attached # None =>
        LET attached == intent[upload.attached]
        IN  /\ attached.state # "committed"
            /\ attached.state = "committing" => attached.token = c

(* release_multipart_completion, best effort                               *)
Release(c) ==
    /\ completer[c].step = "releasing"
    /\ IF OwnsClaim(c) /\ AttachedIsOwn(c)
       THEN /\ upload' = [upload EXCEPT !.state = "pending", !.token = None,
                                        !.manifest = NoParts, !.attached = None]
            /\ IF upload.attached = None
               THEN UNCHANGED <<queued, intent, reserved>>
               ELSE AbortAttached({})
       ELSE UNCHANGED <<upload, queued, intent, reserved>>
    /\ Answer(c, "refused")
    /\ UNCHANGED <<parts, putter, time, blobs, used>>

(* attach_multipart_upload_intent                                          *)
Attach(c) ==
    LET d == Using(c)
    IN  /\ completer[c].step = "attaching"
        /\ OwnsClaim(c)
        /\ Valid(upload.manifest)
        /\ intent[d].state = "committing" /\ intent[d].token = c
        /\ Bytes(intent[d].sources) = Bytes(Selected(upload.manifest))
        /\ upload.attached \in {None, d}
        /\ upload' = [upload EXCEPT !.attached = d]
        /\ Goto(c, "attached")
        /\ UNCHANGED <<parts, putter, intent, time, storeVars, ledger>>

(* promote: the final key is there already, or the payload is linked to it *)
Promote(c, cleaned) ==
    LET d == Using(c)
    IN  /\ completer[c].step = "attached"
        /\ \/ Final(d) \in blobs /\ ~cleaned /\ blobs' = blobs
           \/ /\ Final(d) \notin blobs /\ Temporary(d) \in blobs
              /\ blobs' = (IF cleaned THEN blobs \ {Temporary(d)} ELSE blobs) \cup {Final(d)}
        /\ Goto(c, "promoted")
        /\ UNCHANGED <<upload, parts, putter, intent, time, queued, ledger>>

(* The payload is not linked: the intent's lease is returned if still own  *)
PromotionFails(c) ==
    LET d == Using(c)
    IN  /\ completer[c].step = "attached"
        /\ Final(d) \notin blobs
        /\ intent' = IF intent[d].token = c /\ c \notin lapsed /\ ~expired
                     THEN [intent EXCEPT ![d] = [@ EXCEPT !.state = "ready", !.token = None]]
                     ELSE intent
        /\ Answer(c, "refused")
        /\ UNCHANGED <<upload, parts, putter, time, storeVars, ledger>>

(* Nobody knows whether it is linked                                       *)
PromotionUncertain(c, linked) ==
    /\ completer[c].step = "attached"
    /\ linked => Temporary(Using(c)) \in blobs
    /\ blobs' = IF linked THEN blobs \cup {Final(Using(c))} ELSE blobs
    /\ Answer(c, "refused")
    /\ UNCHANGED <<upload, parts, putter, intent, time, queued, ledger>>

(* prepare_claimed_upload_commit: the facts of the intent, the probe of    *)
(* the final key and the time stamp                                        *)
Prepare(c) ==
    LET d == Using(c)
    IN  /\ completer[c].step = "promoted"
        /\ EntityTag(intent[d].sources) = EntityTag(Sources(c))
        /\ Final(d) \in blobs
        /\ completer' = [completer EXCEPT ![c] =
             [@ EXCEPT !.step = "prepared", !.stamped = c \notin lapsed]]
        /\ UNCHANGED <<upload, parts, putter, intent, time, storeVars, ledger>>

(* What the commit transaction recomputes from the rows                    *)
FactsHold(c) ==
    /\ upload.attached = Using(c)
    /\ DOMAIN upload.manifest \subseteq Stored /\ upload.manifest # NoParts
    /\ EntityTag(Selected(upload.manifest)) = EntityTag(Sources(c))
    /\ Bytes(intent[Using(c)].sources) = Bytes(Selected(upload.manifest))

CommitAllowed(c) ==
    /\ completer[c].stamped
    /\ upload.state = "completing" /\ upload.token = c
    /\ intent[Using(c)].state = "committing" /\ intent[Using(c)].token = c

(* Seeded fault: a row whose lease has ended meanwhile is not updated and  *)
(* the transaction commits all the same.                                   *)
CompletedRowIfLive(c) ==
    IF c \in lapsed THEN upload
    ELSE [upload EXCEPT !.state = "completed", !.token = None, !.version = Using(c)]

CompletedRow(c) ==
    [upload EXCEPT !.state = "completed", !.token = None, !.version = Using(c)]

(* commit_multipart_object_version: the version, the ledger, the intent,   *)
(* the GC tasks and the upload in one transaction                          *)
Commit(c, heard) ==
    LET d == Using(c)
    IN  /\ completer[c].step = "prepared"
        /\ FactsHold(c)
        /\ CommitAllowed(c)
        /\ reserved' = reserved - Bytes(intent[d].sources)
        /\ used' = used + Bytes(intent[d].sources)
        /\ intent' = [intent EXCEPT ![d] = [@ EXCEPT !.state = "committed", !.token = None]]
        /\ queued' = queued \cup StoredKeys \cup {Temporary(d)}
        /\ upload' = CompletedRow(c)
        /\ Answer(c, IF heard THEN "acknowledged" ELSE "refused")
        /\ UNCHANGED <<parts, putter, time, blobs>>

(* The attempt that took over has committed the same version               *)
ReplayCommit(c) ==
    /\ completer[c].step = "prepared"
    /\ FactsHold(c)
    /\ upload.state = "completed" /\ upload.version = Using(c)
    /\ Answer(c, "acknowledged")
    /\ UNCHANGED <<upload, parts, putter, intent, time, storeVars, ledger>>

(* A check fails, the history refuses the version or the database does not *)
(* answer: the handler leaves everything to the next attempt               *)
GiveUp(c) ==
    /\ \/ completer[c].step = "claimed" /\ Using(c) # None
       \/ completer[c].step \in {"attaching", "promoted", "prepared"}
    /\ Answer(c, "refused")
    /\ UNCHANGED <<upload, parts, putter, intent, time, storeVars, ledger>>

CrashCompleter(c) ==
    /\ completer[c].step \notin {"start", "acknowledged", "refused", "stopped"}
    /\ Answer(c, "stopped")
    /\ UNCHANGED <<upload, parts, putter, intent, time, storeVars, ledger>>

-----------------------------------------------------------------------------
(* Background *)

(* expire_upload_intents, for the intent of one attempt                    *)
ExpireIntent(c) ==
    /\ expired
    /\ \/ intent[c].state \in {"staging", "ready"}
       \/ intent[c].state = "committing" /\ intent[c].token \in lapsed
    /\ queued' = queued \cup {Temporary(c), Final(c)}
    /\ intent' = [intent EXCEPT ![c] = [@ EXCEPT !.state = "expired", !.token = None]]
    /\ reserved' = reserved - Bytes(intent[c].sources)
    /\ UNCHANGED <<upload, parts, putter, completer, time, blobs, used>>

(* The cleanup worker                                                      *)
Sweep(k) ==
    /\ k \in queued \cap blobs
    /\ blobs' = blobs \ {k}
    /\ UNCHANGED <<upload, parts, putter, completer, intent, time, queued, ledger>>

Holds(c) ==
    upload.token = c \/ Using(c) # None \/ \E d \in Completers : intent[d].token = c

LeaseEnds(c) ==
    /\ c \notin lapsed /\ Holds(c)
    /\ lapsed' = lapsed \cup {c}
    /\ UNCHANGED <<upload, parts, putter, completer, intent, expired, storeVars, ledger>>

DeadlinePasses ==
    /\ ~expired
    /\ expired' = TRUE
    /\ UNCHANGED <<upload, parts, putter, completer, intent, lapsed, storeVars, ledger>>

-----------------------------------------------------------------------------

Init ==
    /\ upload = [state |-> "pending", token |-> None, manifest |-> NoParts,
                 attached |-> None, version |-> None]
    /\ parts = [n \in Numbers |-> None]
    /\ putter = [p \in Puts |-> "start"]
    /\ completer = [c \in Completers |-> IdleCompleter]
    /\ intent = [c \in Completers |-> [state |-> "none", token |-> None, sources |-> NoParts]]
    /\ expired = FALSE /\ lapsed = {}
    /\ blobs = {} /\ queued = {}
    /\ reserved = 0 /\ used = 0

PutterStep(p) ==
    \/ StreamPart(p) \/ RefusePart(p) \/ ExpireByPart(p) \/ DiscardPart(p) \/ CrashPutter(p)
    \/ \E deleted \in BOOLEAN : RejectPart(p, deleted)
    \/ \E heard \in BOOLEAN : StorePart(p, heard)

CompleterStep(c) ==
    \/ \E manifest \in Partial(Tags) : ClaimCompletion(c, manifest) \/ AnswerClaim(c, manifest)
    \/ ExpireByClaim(c) \/ TakeOver(c)
    \/ BeginPut(c) \/ RefuseBegin(c)
    \/ Compose(c) \/ CompleteStaging(c) \/ ClaimIntent(c) \/ FailStaging(c)
    \/ AbortStaged(c) \/ Release(c)
    \/ Attach(c)
    \/ \E cleaned \in BOOLEAN : Promote(c, cleaned)
    \/ PromotionFails(c)
    \/ \E linked \in BOOLEAN : PromotionUncertain(c, linked)
    \/ Prepare(c)
    \/ \E heard \in BOOLEAN : Commit(c, heard)
    \/ ReplayCommit(c) \/ GiveUp(c) \/ CrashCompleter(c)

Next ==
    \/ \E p \in Puts : PutterStep(p)
    \/ \E c \in Completers : CompleterStep(c) \/ ExpireIntent(c) \/ LeaseEnds(c)
    \/ Abort \/ Expire \/ LifecycleAbort \/ DeadlinePasses
    \/ \E k \in Keys : Sweep(k)

(* Time passes, and both reapers run for ever in every process; nothing is *)
(* assumed of clients, handlers or lifecycle rules                         *)
Fairness ==
    /\ WF_vars(DeadlinePasses) /\ WF_vars(Expire)
    /\ \A c \in Completers : WF_vars(LeaseEnds(c)) /\ WF_vars(ExpireIntent(c))

Spec == Init /\ [][Next]_vars /\ Fairness

-----------------------------------------------------------------------------
(* The object that a completed upload published is there, whole, and made  *)
(* of the parts that the manifest names, whichever attempt composed,       *)
(* promoted or committed it.                                               *)
CompletedIsWhole ==
    upload.state = "completed" =>
        /\ Final(upload.version) \in blobs
        /\ LET sources == intent[upload.version].sources
           IN  InOrder(upload.manifest) = InOrder([n \in DOMAIN sources |-> Tag[sources[n]]])

(* An upload publishes one version at most, and does so exactly when it    *)
(* becomes completed, before any attempt is told of success; so the expiry *)
(* batch never meets a committed intent, which would make it fail for      *)
(* every upload in it.                                                     *)
OneVersion ==
    \A c \in Completers :
        /\ intent[c].state = "committed" <=> upload.state = "completed" /\ upload.version = c
        /\ completer[c].step = "acknowledged" => upload.state = "completed"

(* The ledger counts each open intent and the published version once,      *)
(* however many of the four ways to end an intent race.                    *)
LedgerExact ==
    /\ reserved = SumOver([c \in Completers |-> Bytes(intent[c].sources)],
                          {c \in Completers : Open(c)})
    /\ used = IF upload.version = None THEN 0 ELSE Bytes(intent[upload.version].sources)

(* A part that was acknowledged can be read until it is replaced or the    *)
(* upload ends, and none is lost from sight: it is a row of the open       *)
(* upload, or the GC queue has its key.  No failed completion, replacement *)
(* or cleanup takes it away early or forgets it.                           *)
AcknowledgedPartsKept ==
    /\ \A n \in Stored :
         ~Ended /\ putter[parts[n]] = "acknowledged" => Part(parts[n]) \in blobs
    /\ \A p \in Puts : putter[p] = "acknowledged" =>
         Part(p) \in queued \/ (~Ended /\ parts[PartNumber[p]] = p)

(* Every upload ends, and no reservation outlives it for ever, however its *)
(* attempts crash.                                                         *)
Settles == <>[](Ended /\ \A c \in Completers : ~Open(c))
=============================================================================
