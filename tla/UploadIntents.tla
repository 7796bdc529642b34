--------------------------- MODULE UploadIntents ---------------------------
(***************************************************************************)
(* The upload plane: one PUT handler per upload intent (S3 PutObject, Copy *)
(* and the WebDAV writes share this path), the rows of s3_upload_intents,  *)
(* the quota ledger, the object store, the reaper of expired intents and   *)
(* the storage GC queue of StorageGc.                                      *)
(*                                                                         *)
(* The version history is seen through what VersionLifecycle promises: the *)
(* commit transaction publishes the intent's payload and may retire the    *)
(* null version it replaces, or is refused.  The lease and the expiry of   *)
(* an intent are flags that time may turn at any moment.                   *)
(***************************************************************************)
EXTENDS StorageGc, Sums

CONSTANTS
    Intents,  \* PUT requests, their upload intents and proposed versions
    Size,     \* expected_size_bytes of each
    Quota,    \* quota_bytes of a new application
    Quotas    \* what the administrator may set it to

ASSUME SizeAssumption == Size \in [Intents -> Nat]
ASSUME IntentAssumption == IsFiniteSet(Intents) /\ None \notin Intents
ASSUME QuotaAssumption == Quota \in Nat /\ Quotas \subseteq Nat

(* The deterministic keys an intent reserves                               *)
Temporary(i) == <<"staging", i>>
Final(i) == <<"objects", i>>

ASSUME KeyAssumption ==
    \A i \in Intents : {Temporary(i), Final(i)} \subseteq StorageKeys

VARIABLES
    intent,    \* s3_upload_intents rows
    handler,   \* where each PUT handler is
    version,   \* history of the proposed version: absent, active, retired
    reserved,  \* applications.reserved_bytes
    used,      \* applications.used_bytes
    quota      \* applications.quota_bytes

intentVars == <<intent, handler, version, reserved, used, quota>>
vars == <<gcVars, intentVars>>

IntentStates ==
    {"none", "staging", "ready", "committing", "committed", "aborted", "expired"}

(* expired: expires_at <= now; leased: lease_until > now                   *)
Intent == [state : IntentStates, expired : BOOLEAN, leased : BOOLEAN]

(* stamped: the handler's committed_at lies before the end of its lease    *)
HandlerSteps ==
    {"start", "streaming", "streamed", "ready", "claimed", "promoted", "prepared",
     "failing", "acknowledged", "refused", "stopped"}

Handler == [step : HandlerSteps, stamped : BOOLEAN]

TypeOK ==
    /\ GcTypeOK
    /\ intent \in [Intents -> Intent]
    /\ handler \in [Intents -> Handler]
    /\ version \in [Intents -> {"absent", "active", "retired"}]
    /\ \A i \in Intents : intent[i].leased => intent[i].state = "committing"
    /\ reserved \in Nat /\ used \in Nat /\ quota \in Quotas \cup {Quota}

Open(i) == intent[i].state \in {"staging", "ready", "committing"}

Goto(i, step) == handler' = [handler EXCEPT ![i].step = step]

SetState(i, state) == intent' = [intent EXCEPT ![i] = [@ EXCEPT !.state = state, !.leased = FALSE]]

(* The conditional updates of applications.reserved_bytes and used_bytes;  *)
(* released is what a replaced version gives back                          *)
ReserveQuota(i) ==
    /\ quota - used - reserved >= Size[i]
    /\ reserved' = reserved + Size[i]

ReleaseQuota(i) ==
    /\ reserved >= Size[i]
    /\ reserved' = reserved - Size[i]

TransferQuota(i, released) ==
    /\ reserved >= Size[i] /\ used >= released
    /\ reserved' = reserved - Size[i]
    /\ used' = used + Size[i] - released

-----------------------------------------------------------------------------
(* The PUT handler up to the staged payload *)

(* Seeded fault: the quota check forgets the bytes of the open intents.    *)
BeginPutUnreserved(i) ==
    /\ handler[i].step = "start"
    /\ IF quota - used >= Size[i]
       THEN /\ intent' = [intent EXCEPT ![i] =
                 [state |-> "staging", expired |-> FALSE, leased |-> FALSE]]
            /\ reserved' = reserved + Size[i]
            /\ Goto(i, "streaming")
       ELSE /\ Goto(i, "refused")
            /\ UNCHANGED <<intent, reserved>>
    /\ UNCHANGED <<gcVars, version, used>>

(* begin_put: the intent and its reservation, before any byte is read      *)
BeginPut(i) ==
    /\ handler[i].step = "start"
    /\ \/ /\ ReserveQuota(i)
          /\ intent' = [intent EXCEPT ![i] =
                 [state |-> "staging", expired |-> FALSE, leased |-> FALSE]]
          /\ Goto(i, "streaming")
       \/ /\ quota - used - reserved < Size[i]
          /\ Goto(i, "refused")
          /\ UNCHANGED <<intent, reserved>>
    /\ UNCHANGED <<gcVars, version, used>>

(* put_temporary_stream: the payload appears whole or not at all           *)
Stream(i) ==
    /\ handler[i].step = "streaming"
    /\ blobs' = blobs \cup {Temporary(i)}
    /\ Goto(i, "streamed")
    /\ UNCHANGED <<gc, worker, intent, version, reserved, used>>

(* the body fails, or the digest or the signature does not match           *)
RejectBody(i) ==
    /\ handler[i].step \in {"streaming", "streamed"}
    /\ Goto(i, "failing")
    /\ UNCHANGED <<gcVars, intent, version, reserved, used>>

(* complete_upload_intent_staging                                          *)
CompleteStaging(i) ==
    /\ handler[i].step = "streamed"
    /\ IF intent[i].state = "staging" /\ ~intent[i].expired
       THEN SetState(i, "ready") /\ Goto(i, "ready")
       ELSE Goto(i, "failing") /\ UNCHANGED intent
    /\ UNCHANGED <<gcVars, version, reserved, used>>

(* claim_upload_intent                                                     *)
ClaimIntent(i) ==
    /\ handler[i].step = "ready"
    /\ IF /\ ~intent[i].expired
          /\ \/ intent[i].state = "ready"
             \/ intent[i].state = "committing" /\ ~intent[i].leased
       THEN /\ intent' = [intent EXCEPT ![i] = [@ EXCEPT !.state = "committing", !.leased = TRUE]]
            /\ Goto(i, "claimed")
       ELSE Goto(i, "failing") /\ UNCHANGED intent
    /\ UNCHANGED <<gcVars, version, reserved, used>>

-----------------------------------------------------------------------------
(* Promotion and commit *)

(* promote succeeds: the final key was already there, or commit_temporary  *)
(* linked it; cleaned says whether the temporary key was then removed.     *)
Promote(i, cleaned) ==
    /\ handler[i].step = "claimed"
    /\ \/ Final(i) \in blobs /\ ~cleaned /\ blobs' = blobs
       \/ /\ Final(i) \notin blobs /\ Temporary(i) \in blobs
          /\ blobs' = (IF cleaned THEN blobs \ {Temporary(i)} ELSE blobs) \cup {Final(i)}
    /\ Goto(i, "promoted")
    /\ UNCHANGED <<gc, worker, intent, version, reserved, used>>

(* commit_temporary fails and the final key is known to be absent: the     *)
(* lease is released if it is still the handler's                          *)
PromotionFails(i) ==
    /\ handler[i].step = "claimed"
    /\ Final(i) \notin blobs
    /\ IF intent[i].state = "committing" /\ intent[i].leased /\ ~intent[i].expired
       THEN SetState(i, "ready") ELSE UNCHANGED intent
    /\ Goto(i, "failing")
    /\ UNCHANGED <<gcVars, version, reserved, used>>

(* commit_temporary or a probe fails and nobody knows what happened        *)
PromotionUncertain(i, linked) ==
    /\ handler[i].step = "claimed"
    /\ linked => Temporary(i) \in blobs
    /\ blobs' = IF linked THEN blobs \cup {Final(i)} ELSE blobs
    /\ Goto(i, "failing")
    /\ UNCHANGED <<gc, worker, intent, version, reserved, used>>

(* prepare_claimed_upload_commit: the reads of the history, the probe of   *)
(* the final key, and the time stamp that the commit's lease check uses    *)
Prepare(i) ==
    /\ handler[i].step = "promoted"
    /\ handler' = [handler EXCEPT ![i] =
         IF Final(i) \in blobs
         THEN [step |-> "prepared", stamped |-> intent[i].leased]
         ELSE [step |-> "failing", stamped |-> FALSE]]
    /\ UNCHANGED <<gcVars, intent, version, reserved, used>>

CommitAllowed(i) == intent[i].state = "committing" /\ handler[i].stamped

Replaceable(i) == {j \in Intents \ {i} : version[j] = "active"}

Bytes(old) == IF old = None THEN 0 ELSE Size[old]

(* commit_upload_intent, with old the null version it replaces, if any.    *)
(* The handler may lose the answer of the database and take it for a       *)
(* failure.                                                                *)
CommitIntent(i, old, heard) ==
    /\ handler[i].step = "prepared"
    /\ CommitAllowed(i)
    /\ version' = [j \in Intents |->
         IF j = i THEN "active" ELSE IF j = old THEN "retired" ELSE version[j]]
    /\ gc' = IF old = None THEN gc ELSE Enqueued({Final(old)}, FALSE)
    /\ TransferQuota(i, Bytes(old))
    /\ SetState(i, "committed")
    /\ Goto(i, IF heard THEN "acknowledged" ELSE "failing")
    /\ UNCHANGED <<blobs, worker>>

(* Refused by the fence, by the history or by the database                 *)
CommitRefused(i) ==
    /\ handler[i].step = "prepared"
    /\ Goto(i, "failing")
    /\ UNCHANGED <<gcVars, intent, version, reserved, used>>

-----------------------------------------------------------------------------
(* Cleaning up *)

(* Seeded fault: the reservation is not given back.                        *)
AbandonReserved(i, state) ==
    /\ gc' = Enqueued({Temporary(i), Final(i)}, TRUE)
    /\ SetState(i, state)
    /\ reserved' = reserved

(* Seeded fault: only the staging key is handed to the GC.                 *)
AbandonStaging(i, state) ==
    /\ gc' = Enqueued({Temporary(i)}, TRUE)
    /\ SetState(i, state)
    /\ ReleaseQuota(i)

(* The end of an intent without a version: both keys are handed to the GC  *)
Abandon(i, state) ==
    /\ gc' = Enqueued({Temporary(i), Final(i)}, TRUE)
    /\ SetState(i, state)
    /\ ReleaseQuota(i)

(* Seeded fault: the abort also undoes an intent whose commit succeeded.   *)
AbortPutCommitted(i) ==
    /\ handler[i].step = "failing"
    /\ IF intent[i].state \in {"staging", "ready", "committed"}
       THEN /\ gc' = Enqueued({Temporary(i), Final(i)}, TRUE)
            /\ UNCHANGED <<intent, reserved>>
       ELSE UNCHANGED <<gc, intent, reserved>>
    /\ Goto(i, "refused")
    /\ UNCHANGED <<blobs, worker, version, used>>

(* abort_staged_put, best effort: it only acts on staging and ready        *)
AbortPut(i) ==
    /\ handler[i].step = "failing"
    /\ IF intent[i].state \in {"staging", "ready"} /\ reserved >= Size[i]
       THEN Abandon(i, "aborted") ELSE UNCHANGED <<gc, intent, reserved>>
    /\ Goto(i, "refused")
    /\ UNCHANGED <<blobs, worker, version, used>>

(* The process stops                                                       *)
CrashHandler(i) ==
    /\ handler[i].step \notin {"start", "acknowledged", "refused", "stopped"}
    /\ Goto(i, "stopped")
    /\ UNCHANGED <<gcVars, intent, version, reserved, used>>

(* Seeded fault: an intent whose handler died while committing is skipped. *)
ExpirableUncommitted(i) ==
    intent[i].expired /\ intent[i].state \in {"staging", "ready"}

(* expire_upload_intents, for one of the rows it selects                   *)
Expirable(i) ==
    /\ intent[i].expired
    /\ \/ intent[i].state \in {"staging", "ready"}
       \/ intent[i].state = "committing" /\ ~intent[i].leased

ExpireIntent(i) ==
    /\ Expirable(i)
    /\ reserved >= Size[i]
    /\ Abandon(i, "expired")
    /\ UNCHANGED <<blobs, worker, handler, version, used>>

(* A DELETE retires the version (see ObjectVersions)                       *)
DeleteVersion(i) ==
    /\ version[i] = "active"
    /\ gc[Final(i)].state = "none"
    /\ used >= Size[i]
    /\ version' = [version EXCEPT ![i] = "retired"]
    /\ gc' = Enqueued({Final(i)}, FALSE)
    /\ used' = used - Size[i]
    /\ UNCHANGED <<blobs, worker, intent, handler, reserved>>

(* lease_until or expires_at passes                                        *)
IntentTimePasses(i) ==
    /\ Open(i)
    /\ \/ intent[i].leased /\ intent' = [intent EXCEPT ![i].leased = FALSE]
       \/ ~intent[i].expired /\ intent' = [intent EXCEPT ![i].expired = TRUE]
    /\ UNCHANGED <<gcVars, handler, version, reserved, used>>

(* update_application_quota: never below what is used and reserved         *)
UpdateQuota(bytes) ==
    /\ bytes # quota
    /\ bytes >= used + reserved
    /\ quota' = bytes
    /\ UNCHANGED <<gcVars, intent, handler, version, reserved, used>>

-----------------------------------------------------------------------------

Init ==
    /\ GcInit
    /\ blobs = {}
    /\ intent = [i \in Intents |-> [state |-> "none", expired |-> FALSE, leased |-> FALSE]]
    /\ handler = [i \in Intents |-> [step |-> "start", stamped |-> FALSE]]
    /\ version = [i \in Intents |-> "absent"]
    /\ reserved = 0
    /\ used = 0
    /\ quota = Quota

HandlerStep(i) ==
    \/ BeginPut(i) \/ Stream(i) \/ RejectBody(i) \/ CompleteStaging(i) \/ ClaimIntent(i)
    \/ \E cleaned \in BOOLEAN : Promote(i, cleaned)
    \/ PromotionFails(i)
    \/ \E linked \in BOOLEAN : PromotionUncertain(i, linked)
    \/ Prepare(i)
    \/ \E old \in Replaceable(i) \cup {None}, heard \in BOOLEAN : CommitIntent(i, old, heard)
    \/ CommitRefused(i)
    \/ AbortPut(i)

Next ==
    \/ /\ \E i \in Intents : \/ HandlerStep(i) \/ CrashHandler(i) \/ ExpireIntent(i)
                             \/ DeleteVersion(i) \/ IntentTimePasses(i)
       /\ UNCHANGED quota
    \/ \E bytes \in Quotas : UpdateQuota(bytes)
    \/ GcNext /\ UNCHANGED intentVars

(* Time passes and the reaper runs every five seconds in every process;    *)
(* nothing is assumed of the handlers, which clients control               *)
Fairness ==
    /\ \A i \in Intents : WF_vars(ExpireIntent(i) /\ UNCHANGED quota)
                          /\ WF_vars(IntentTimePasses(i) /\ UNCHANGED quota)
    /\ WF_vars(\E w \in Workers : Process(w) /\ UNCHANGED intentVars)
    /\ \A k \in StorageKeys : WF_vars(TaskTimePasses(k) /\ UNCHANGED intentVars)

Spec == Init /\ [][Next]_vars /\ Fairness

-----------------------------------------------------------------------------
(* A version that the history shows has its payload in the object store,   *)
(* whatever crashes, expires, is retried or is deleted around it.          *)
ActivePayloadPresent ==
    \A i \in Intents : version[i] = "active" => Final(i) \in blobs

(* The bytes of open intents are reserved and those of active versions are *)
(* used, once each: no path forgets a reservation or returns one twice,    *)
(* so no ledger update is ever refused for underflow.                      *)
LedgerExact ==
    /\ reserved = SumOver(Size, {i \in Intents : Open(i)})
    /\ used = SumOver(Size, {i \in Intents : version[i] = "active"})

(* Reserving before the upload keeps the application inside its quota,     *)
(* however PUTs, replacements and DELETEs interleave with each other and   *)
(* with an administrator that lowers it.                                   *)
WithinQuota == used + reserved <= quota

(* Every reservation is given back or turned into a version.               *)
EveryIntentEnds == \A i \in Intents : Open(i) ~> ~Open(i)

(* The payloads of an abandoned intent or of a retired version; a final    *)
(* key promoted without removing its temporary one has no task for it      *)
Orphan(i, k) ==
    \/ k \in {Temporary(i), Final(i)} /\ intent[i].state \in {"aborted", "expired"}
    \/ k = Final(i) /\ version[i] = "retired"

(* An orphan payload is eventually removed, or its deletion has finished:  *)
(* left to the operator in the dead letters, or completed before a slow    *)
(* handler wrote the payload, which nothing then looks for again.          *)
OrphansMeetTheQueue ==
    \A i \in Intents : \A k \in StorageKeys :
        k \in blobs /\ Orphan(i, k)
            ~> k \notin blobs \/ gc[k].state \in {"completed", "dead_letter"}

(* The history that the upload plane sees is the one that VersionLifecycle *)
(* promises: whatever expires, is aborted or cleaned up meanwhile, a       *)
(* payload is published once, retired at most once, and the task for its   *)
(* final key appears in the step that retires it.                          *)
Lifecycle == INSTANCE VersionLifecycle WITH
    Payloads <- Intents,
    status <- version,
    scheduled <- {i \in Intents : version[i] # "absent" /\ gc[Final(i)].state # "none"}

LifecycleSpec == Lifecycle!Spec
=============================================================================
