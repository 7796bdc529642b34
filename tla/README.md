# MediaHub verification

MediaHub is an S3-compatible media and object gateway: a Rust server in front of
PostgreSQL and an object store (a local directory or an S3 bucket).  This
directory holds TLA+ models of its protocols, the TLC configurations that check
them on small instances, and TLAPS proofs of the most important results for
instances of any size.

```
tlc -config MC_ObjectVersions.cfg MC_ObjectVersions     one run (see "Runs")
tlapm ObjectVersions_proofs.tla                         the proofs of one module, one to twenty minutes
```

`PROJECT.json` is the index: every component, run, seeded fault, hazard and
theorem, and for each modelling definition the source lines it stands for.

## 1. The system

### Parts, their state and their operations

| part | state | operations |
| --- | --- | --- |
| Object version history (`s3_repository.rs`, `s3_object_service.rs`) | `buckets` (versioning, Object Lock), `objects` (head, generation), `object_versions` (state, null id, marker, noncurrent time, lock columns) | PUT commit, exact DELETE, DELETE with a marker or of the null version, versioning and lock configuration, retention, legal hold |
| Upload intents and quota (same files; PutObject, Copy and WebDAV handlers) | `s3_upload_intents` (state, lease, expiry, keys), `applications.used_bytes` and `reserved_bytes`, staging and final payloads | begin, stream, complete staging, claim, promote, prepare, commit, abort, expire |
| Storage GC (`s3_repository.rs`, `workers.rs`) | `storage_gc_tasks` (state, not-before, lease, attempts) | enqueue, claim batch, delete, complete, fail, dead-letter |
| Multipart uploads (`multipart_*.rs`, `s3_http_multipart.rs`) | `s3_multipart_uploads` (state, completion token and lease, manifest, attached intent), `s3_multipart_parts`, part payloads | create, upload part, claim completion, take over, attach, commit, release, abort, expire |
| Bucket lifecycle rules (`s3_lifecycle.rs`) | rules with a revision, the worker's cursor | evaluate, execute one decision in a transaction |
| Upload sessions and media (`upload.rs`, `upload_session.rs`, `handlers_upload.rs`) | `media` (state, upload lease), `upload_sessions`, quota, payloads | reserve, stream, promote, commit, roll back; create, fill, complete, cancel, expire; reconcile stale uploads; delete |
| Batch jobs and idempotency keys (`async_job.rs`, `idempotency.rs`, `handlers_jobs.rs`) | `async_jobs` (state, lease, attempts, counters), item results, `idempotency_keys` | create, claim, run an item, record, complete, fail, cancel; claim, complete and expire a key |
| Outbox and webhooks (`outbox.rs`, `webhook.rs`) | `outbox_events`, `webhook_deliveries`, `webhook_endpoints` | publish, materialise, claim, POST, acknowledge, retry, dead-letter, replay |
| Policies and CORS (`s3_policy.rs`, `s3_cors.rs`) | documents of buckets and of access keys | validate, evaluate, tell the public status |
| S3 front end (`s3_http_*.rs`, `s3_data_authorization.rs`) | requests under way | classify, authenticate, authorise, read or change one row |
| WebDAV front end (`webdav*.rs`) | requests under way | permissions of a key; files, collections, copy, move |
| Listing (`s3_repository.rs`, `s3_list.rs`) | a client's marker | one page of objects, versions or uploads |
| Control plane (`control_*.rs`, `administration.rs`, `handlers_auth.rs`, `access_keys.rs`) | `users`, `sessions`, `one_time_tokens`, `applications`, `access_keys`, `audit_logs` | register, verify, reset, log in and out, revoke, bootstrap, suspend, release, issue keys |
| Object store adapters, image variants, media delivery, console, configuration | files or S3 objects; variant rows | see "Not modelled" |

### How they interact

A PUT handler reserves quota and inserts an intent in one transaction, streams
the body to a *staging* key that only this intent uses, marks the intent
`ready`, claims it under a 120 second lease (`committing`), promotes the payload
to its *final* key, reads the bucket, the head and the active versions in three
separate queries, and finally runs one transaction that re-checks what it read,
publishes the version, moves the bytes from reserved to used, retires the null
version it replaces and inserts a GC task for the retired payload.  On any error
it makes one best-effort attempt to abort the intent.

A multipart completion runs on top of that.  It claims the upload for five
minutes under a fresh completion token, begins an intent for the whole object,
composes the staging payload from the parts, claims the intent with the same
token and lease, attaches it to the upload, and from then on leaves every failure
to the next attempt, which takes the attached intent over once the lease has
ended.  Its commit publishes the version, moves the bytes, completes intent and
upload, and hands the parts to the GC in one transaction.

The older media API has its own two ways to store an object: an upload whose
media row is leased to the handler that streams it, and an upload session, whose
client sends the bytes to a prepared target and asks for completion.

Before any of this, an S3 request is authenticated with an access key and
authorised once for every action it implies.  Each authorisation reads the key's
identity policy and the bucket with its policy anew, and nothing is locked until
the statement that reads or changes the row, which finds it by application and
name.  The console changes keys, policies and applications meanwhile.

In every server process worker loops run every two seconds (jobs), every five
(storage GC and intents; webhooks) and every 30 (multipart expiry, lifecycle
rules, stale uploads, sessions, deletions).  Handlers and workers of several processes share
nothing but the database and the object store.

### What is hard

* The reads of a PUT are not in its transaction; correctness rests on what the
  transaction compares again.
* Five paths retire a version; each must move the head, set or clear
  `became_noncurrent_at`, return the bytes, and schedule the payload once.
* Time stamps are taken before the row locks, so they reach the rows out of order.
* Deadlines, leases and the progress of a handler are independent; a handler can
  crash, stall past its lease, or lose the answer of its commit.
* An attempt that lost its claim of a multipart upload goes on composing,
  promoting and committing while parts are replaced and another attempt owns it.
* A lifecycle decision, a batch item, a webhook attempt and a listing page are all
  computed from rows that may be different when the result is applied.
* A session, a policy, a key or the owner of a bucket name may change between the
  check of a request and its effect.
* A promotion on S3 is up to three requests: the parts of a multipart copy, its
  completion, and a second copy that brings the content type.  Cleanup and
  reconciliation run in between.

The `hazards` of `PROJECT.json` give each of these at its source line with the
properties that would catch it going wrong.

### What makes each part correct

* History: the head is the newest active version; noncurrent marks, the unique
  null version, generations and GC tasks agree with the rows; Object Lock is
  bypassed by nothing but a PUT prepared before the lock.
* Upload plane: a visible version has its payload; the ledger is exact and within
  quota; every reservation ends; an orphan payload meets a GC task.
* Multipart: at most one version, made of exactly the parts its manifest names;
  acknowledged parts stay readable while they count; everything ends.
* Lifecycle: nothing is removed that is not due, or is locked, at the moment of
  removal, whatever the scan saw.
* Media: the object of an active row is there; failed sessions leave nothing but what
  a copy completed too late leaves; the ledger is exact; everything settles.
* Jobs: counters equal the results; a retried execution repeats no effect; every
  job settles.
* Webhooks: a delivery marked delivered was received; a completed event was
  received by every endpoint that still has a delivery; no delivery waits for ever.
* Access: the public status of a bucket never understates who gets in; no request
  reaches a row of a tenant that did not authorise it; every change of an object
  was granted by the bucket's owner of that moment, except that a stale PUT replaces
  the null version it had found; a preflight is honoured.
* Accounts: an administrator remains; the audit trail explains every status; a
  reset or suspension ends every session that was there.
* Listing: what was listable all along is returned, once.

## 2. Modules

| module | models | composed with |
| --- | --- | --- |
| `ObjectVersions` | the history of one bucket; PUT as three reads and a transaction, four kinds of DELETE, configuration, retention, legal hold, clock | implements `VersionLifecycle` |
| `VersionLifecycle` | abstract promise of the history about payloads: published once, retired at most once, scheduled for deletion in the step that retires | - |
| `BucketLifecycle` | rule evaluation and the lifecycle worker | extends `ObjectVersions`: clients and worker write the same rows |
| `StorageGc` | the deletion queue and its workers | extended by `UploadIntents` |
| `UploadIntents` | PUT handlers, intents, ledger, object store, reaper; sees the history through the steps of `VersionLifecycle` | extends `StorageGc`, implements `VersionLifecycle` |
| `Multipart` | one multipart upload: part uploads, completion attempts with their intents, abort, both reapers, ledger, object store | stands alone: keeps the intents of its own attempts and sees the GC as a queue of keys |
| `MediaUploads` | direct uploads and upload sessions on both backends, with their workers | - |
| `AsyncJobs` | batch jobs, synchronous batches with idempotency keys, the media rows they change | - |
| `Webhooks` | outbox events, deliveries, endpoints, delivery workers | - |
| `Policies` | policy documents and CORS rules as pure operators | used by `BucketApi` |
| `BucketApi` | bucket requests from signature to row; access keys and applications of the console | extends `Policies` |
| `ObjectApi` | object requests of S3 and WebDAV, with all their authorisations | extends `BucketApi`: bucket requests and console operations run in between |
| `Accounts` | users, sessions, tokens, applications, the administrator | - |
| `Listing` | paged listings under concurrent writers | - |
| `Sums` | the sum over the rows of a table, as the ledgers use it | extended by the modules that keep a ledger |
| `ObjectVersions_proofs` | the proofs about `ObjectVersions` and `BucketLifecycle` | extends both and `Sums_proofs` |
| `UploadIntents_proofs`, `Multipart_proofs` | the proofs about the upload plane and about multipart uploads | extend their module and `Sums_proofs` |
| `MediaUploads_proofs`, `AsyncJobs_proofs` | the proofs about these modules | extend them |
| `ControlPlane_proofs` | the proofs about `Webhooks` and `Accounts` | extends both |
| `FrontEnd_proofs` | the proofs about `BucketApi`, `ObjectApi` and `Listing` | extends `ObjectApi`, `Listing` and `Sums_proofs` |
| `Sums_proofs` | how a sum changes with its rows | extends `Sums` |
| `MC_*` | constants of the TLC instances | extend the above |

Operators commented "Seeded fault" are wrong variants of the definition that
follows them.  They are used by no specification; each one is substituted for its
definition to confirm that a property notices (`mutants` in `PROJECT.json`).

### ObjectVersions and the code

* `bucket`, `objects`, `versions`, `gcTasks`, `used` are the rows of the tables;
  one bucket suffices, as no transaction touches two.  `versions[v].state` merges
  the column `state` with `superseded_at` (a superseded row stays `committed` in
  the column); `noncurrent` says that `became_noncurrent_at` is set.
* `put[p]` is what `PreparedS3ObjectVersionCommit` carries.  `ReadBucket`,
  `ReadObject` and `ReadVersions` are the three queries of
  `prepare_claimed_upload_commit_with_object_lock`; `Commit` and `CommitFails` are
  `commit_object_version_in_transaction`, whose row lock on the object makes it
  one step.  `CommitAccepts` collects its checks: the frozen lock, Create or
  Append, the generation, the null version, the head, the time checks of the
  table and the underflow check of the ledger.
* `DeleteVersion`, `DeleteEnabled`, `DeleteSuspended`, `DeleteUnversioned` are the
  four branches of the delete transactions, with the stamp `at` any earlier
  reading of the clock.
* `SetVersioning`, `ReplaceObjectLock`, `PutRetention`, `PutLegalHold` are the
  configuration transactions with their transition rules.

### BucketLifecycle and the code

* `worker` is what `S3LifecycleService::run_batch` has read so far: the clock, the
  bucket row with its rules, one candidate of one action of one enabled rule.
  `execute_s3_lifecycle` is one step, and reads revision, rule, target, age and
  locks again.
* `since` is `became_noncurrent_at`, which `ObjectVersions` keeps only as a mark.
* Ages are whole days that end at midnight (`Midnight`, `OlderThan`), as in
  `lifecycle_days_cutoff`.

### UploadIntents and StorageGc and the code

* Deadlines are flags (`due`, `live`, `expired`, `leased`) that time may turn at
  any moment, which covers every relation between the configured durations.
  `handler[i].stamped` records that the handler took its `committed_at` while the
  lease was live: that stamp, not the time of the transaction, is what the
  commit compares with `lease_until`.
* Object store calls are atomic effects; a failing call may have had its effect
  or not (`PromotionUncertain`, `Delete` with `ok = FALSE`).
* `CommitIntent` with `heard = FALSE` is a commit whose answer is lost.
* `CrashHandler` and `CrashWorker` stop a process between any two steps.
* A lease token is a fresh UUID per claim; the attempt number stands for it.
* The quota of the application may be changed at any time (`Quotas`).

### Multipart and the code

* `upload` and `parts` are the rows of one upload; no transaction touches two,
  except the expiry batch, which treats its rows one after the other.  The
  initial state is the state after `create_multipart_upload`.
* A completion attempt names its completion token, its lease and the intent it
  begins.  `intent[c]` is the row in `s3_upload_intents`; its token is the attempt
  that holds it, which after a takeover is not `c`.
* The handler passes one `lease_until` to the claim of the upload and to the claim
  of the intent, so `lapsed` is one set for both; and it begins the intent with
  the upload's `expires_at`, so `expired` is one flag for both.
* `completer[c].seen` are the leases that had ended when the attempt made its claim.
  `claim_existing_multipart_intent` compares with that earlier `now`, and the model
  with it: a lease that ends meanwhile does not count as ended.
* `StorePart` and `Commit` with `heard = FALSE` are transactions whose answer is
  lost.  The UploadPart handler then hands the key of the stored part to the GC;
  hence the properties about parts speak of acknowledged ones.
* A payload is known by the part uploads it was composed from (`sources`); an
  entity tag is the sequence of the parts' tags, which is what the digest of the
  digests and its count tell apart.
* `AbortUpload` is the helper that abort, expiry, the lifecycle rule and the two
  handlers that meet the deadline share.  `AbortAttached` is its part for an
  attached intent, and also that of `Release`.
* `queued` are the keys handed to the GC; `Sweep` may delete one at any later moment.
* `StagedSpec` of `MC_Multipart` begins with a part uploaded and acknowledged, a
  state that `Spec` reaches in a few steps, to spend the states on completion.

### MediaUploads and the code

* `proc[p].pc` is the place a handler or a worker has reached; every statement that
  changes a row or an object is a step of its own.  All ids want the same object
  key, which is what makes the uploads compete.
* The token of a media row is its upload lease; a worker takes a row over when the
  lease has ended, also from a handler that is only slow (`LeaseLost`).
* `promote_temporary` of the S3 adapter is `CopyParts`, `CompleteCopy` and
  `RepairCopy`, for uploads and for sessions.  The completion never replaces an object;
  the repair copies over whatever is there.  Between the two the final object is
  `bare`: the right bytes without their content type.  A handler of an upload stops
  between them when its lease is gone (`Overtaken`); a handler of a session has no
  lease.  On the local backend a promotion is a hard link (`Promote`), and a session
  has none (`Finalize`).
* Reconciliation asks for size and content type (`HeadFinal`), reads the bytes
  (`Checksum`), and only then keeps or discards the object.
* `late` records, for the properties, what two exceptions of the code leave behind: a
  session's final object that was installed when its source was gone already, and
  an upload's that a worker discarded after losing its lease.
* On the local backend the content goes through `put_upload_content`, on S3 through
  a presigned URL that ignores what has become of the session (`PutPresigned`).
* `leaked` counts the reservations whose request died before the row existed:
  `upload.rs` reserves in a transaction of its own, and nothing returns them.

### AsyncJobs and the code

* `worker` holds the loops of `run_async_job_worker` and the handlers of
  synchronous batches (`Callers`); both run `execute_batch_action`, which reads the
  media row in one statement and writes it in another with the revision it read.
* Results live in the worker until the transaction that completes the job.
* `value` of a medium is who set it and when: a job's new value is anchored to the
  creation of the job, so a second attempt computes the same one.
* A key is claimed, completed only by the claim that is in progress, and removed by
  its expiry.  `targets`, chosen in the initial state, says which batches clients
  ask for.

### Webhooks and the code

* The acknowledgement is two statements under READ COMMITTED: it decides whether
  the event is complete on what others have committed, and commits in a later
  step; two overlapping ones may both find the other open.
* `received` is the receiver's side: since the last replay, and ever.
* A crash and an attempt that outlives its lease are bounded together (`MaxFaults`);
  the lease of 30 s is longer than the 25 s an attempt may take, so the second
  needs a stalled process.

### Policies, BucketApi and ObjectApi and the code

* A policy document is its set of statements; patterns of actions, resources and
  addresses are the sets they denote, with the facts about the pattern's text that
  the code looks at (a star, an exact address, the account in an ARN).
* A request (`req[q]`, `task[t]`) is its place among the reads the handler makes.
  `LoadIdentity` reads the identity policy once per action, `Resolve` and
  `AuthorizeRequest` the bucket with its policy, and the operation finds its row by
  application and name (`Found`), never by the id that was authorised, except where
  the handler compares it (`FindForDelete`, `SameTarget`).
* `strayed` and `granted` are recorded for the properties: the application whose row
  a request reached without its authorisation, and the actions it was granted.
* The CORS middleware and the handler read the bucket separately; the model reads
  the rules when the request arrives.
* In `ObjectApi` a bucket holds one object as its active versions.  A PUT, a copy and
  a completed upload read the bucket, the object and its null version in three steps
  (`ReadBucket`, `ReadObject`, `ReadVersions`); their transaction (`Commit`,
  `CompleteUpload`) compares again what `StillPrepared` names: the generation, the null
  version, and Object Lock if the headers ask for it.  It compares neither the
  versioning nor the lock of the version it replaces.  Marks, stamps, tasks and
  payloads are the subject of `ObjectVersions`.
* WebDAV asks for permissions of the access key and consults no policy; the model
  does the same.

### Accounts and the code

* A handler checks the session, checks it again with its CSRF token, and only then
  calls the repository, which asks nothing of the session any more; each is a step.
* `since` counts the resets and suspensions of a user; a session remembers the
  count of its insertion.  Both are recorded for `SessionsEndTogether`.
* Tokens and sessions expire at any moment.

### Listing and the code

* A key is its place in the C collation, and `Folder` the place of the common
  prefix it falls under; the assumptions say that a prefix precedes its keys.
* A page is the query with its limit, the rows folded into prefixes, and the marker
  of the last row; between pages others write and delete.
* A null version is found by the id `null` whichever version carries it.

## 3. Runs

| run | instance | distinct states | shows |
| --- | --- | --- | --- |
| `object_versions` | 1 key, 3 PUTs, 1 marker, a governance retention, 2 times | 567 899 | the invariants of the history, `OpaqueVersionsSurvivePuts`, refinement of `VersionLifecycle` |
| `bucket_lifecycle` | 1 key, 2 PUTs, 1 marker, 2 compliance retentions, a rule set, times before and after a day | 385 198 | a stale lifecycle decision removes nothing that is not due or is locked; the history stays consistent; Object Lock holds |
| `upload_ledger` | 3 intents of sizes 1, 2, 2, quota 2 or 3, queue not drained | 2 646 854 | exact ledger, quota |
| `upload_gc` | 1 intent, 2 workers, 2 attempts | 201 535 | payload present, orphans meet a task, every intent ends |
| `multipart` | a stored part that is replaced, 2 completion attempts with any manifests | 571 716 | one version, made of its manifest; acknowledged parts kept; exact ledger; everything ends |
| `media_uploads` | 1 direct upload, 1 session, 2 clients, 1 worker, both backends, 1 fault | 277 725 | payload kept, failed sessions leave nothing but late copies, exact ledger, everything settles |
| `async_jobs` | a job over two media, or a job and a synchronous batch over one; 2 workers, 2 requests, 2 attempts, 1 edit | 438 887 | results match the job, retries repeat nothing, every job settles |
| `webhooks` | 1 event, 2 endpoints, 2 workers, 2 attempts, 1 replay, 1 fault | 263 977 | delivered means received, done means served, every delivery ends |
| `access` | 2 tenants, 3 keys, 1 bucket name, 2 requests, 25 operations, 3 started | 1 195 222 | outsiders only if public, tenants kept apart, preflight honoured |
| `object_access` | 2 tenants, 2 keys, a contested and a source bucket, 1 bucket and 1 object request at a time, 34 forms; and 2 object requests at a time, 3 in all, on a bucket with a null version that is put under versioning and Object Lock | 1 229 746 | whatever changes was granted; of the versions with a retention, a stale PUT removes only the one it had found |
| `accounts` | 2 users, 2 handlers, 3 tokens, 2 sessions | 1 219 149 | the audit trail explains, sessions end together |
| `listing` | 3 keys, 2 of them under one prefix, 3 uploads, pages of 0, 1 and 2, 4 changes | 1 055 019 | what lasts is listed once |

Why the bounds are enough.  Requests on different keys touch disjoint rows
except for the ledger, so one key gives every interleaving of row updates.
Three PUTs are needed for a version that is replaced while a third request still
holds it; the marker is replaced, promoted and removed among them.  The
lifecycle run needs a version that becomes due between the scan and the execution,
or is replaced, locked or no longer covered then: two PUTs, a marker, two
retentions and three revisions give each.  Two attempts cover a retry and an
exhausted task, job or delivery; two workers a lease takeover.  Quota 3 with sizes
1, 2, 2 makes two PUTs fit and three not.  The full queue and several intents
together exceed TLC's reach, so `upload_gc` takes one intent with the draining
queue and `upload_ledger` three intents without it: a payload belongs to one
intent, and the queue handles keys independently.  For multipart uploads, two
uploads of one part number give a replacement, and two attempts a takeover whose
predecessor is still running.  One fault in `media_uploads` and `webhooks` is a crash
or a lost lease at any point; the second worker or client is what it meets.  The safety
properties of `MediaUploads` hold with two workers and two faults too (1 719 396 states up
to symmetry), where a worker discards after its lease what another one committed;
liveness is out of reach there.  `MC_ObjectApi` joins two instances in one run: requests
of every form one at a time, and few forms two at a time, because a stale PUT needs a
second request that places a retention, and both configuration changes, between its reads
and its commit.  In
`access` three started operations let a bucket be authorised, deleted and created by
another tenant under one request; the documents of `MC_BucketApi` are chosen so that
negated principals, a pinned address and a condition on the caller each decide a
case.  In
`async_jobs` a key is claimed once; with a second claim after its expiry the two
invariants hold too (3 835 988 states), but liveness is out of reach.  In `listing`
four changes suffice to delete and write again the entry a
marker names.

Named bounds that are not in the code: `MaxRevision` (configuration changes),
`MaxFaults` (crashes and lost leases), `MaxReplays`, `MaxEdits`, `MaxClaims` (claims of one
idempotency key), `MaxSteps` and `MaxTasks` (requests started), `MaxPasswords`,
`MaxApps`, `MaxAudit`, `MaxChanges`.  Elsewhere each request acts once and no counter
is capped.

`CHECK_DEADLOCK FALSE` everywhere: when all requests have been made and all tasks
are finished the system rests.

Symmetry permutes PUTs, markers, requests or accounts that differ in nothing; no
liveness property is checked under symmetry.

**Fairness.**  Time passes, so the flags of deadlines, leases and retry times are
weakly fair to turn.  The worker loops run for ever in every server process,
restarts included, so their steps are weakly fair: `Process` and `ExpireIntent` of
the upload plane, `Expire` and `ExpireIntent` of multipart, `Work` of jobs and
webhooks, `ClaimStale`, `ExpireDue` and `PurgePayload` of media.  In `MediaUploads` a
handler that was started also goes on, unless it crashes: its calls time out.
Nothing else is assumed of clients and handlers, and deletions, deliveries and
items may fail every time.

### Where code and documents differ

Found while modelling; the properties are stated so that they hold of the code
and name the exception where there is one.

* Once a DELETE leaves an unversioned object without a current version, the key
  cannot be written again: the commit takes the remaining row for a corrupted
  object (`s3_repository.rs:3249`).  Tombstones keep the unique key for ever.
* Of concurrent PUTs of one key in an Enabled bucket the later one is refused with
  a conflict, where `docs/mediahub-s3-modification-plan.md:903` keeps both.
* A PUT prepared before Object Lock was enabled replaces a null version that is
  locked by the time of the commit (plan, line 931).
  `LockedVersionsLeaveOnlyByStalePut` says that this is the only way, and
  `ChangesAreGranted` that it needs no `BypassGovernanceRetention`, for the version it
  found and for no other.
* `abort_upload` of the S3 adapter says that it never has multipart state to abort
  (`adapter-s3/src/lib.rs:825`), and the port that it removes uncommitted objects
  (`ports.rs:188`).  The promotion of a session is a multipart copy: with its parts
  copied before the cleanup and completed after it, the final object of the failed
  session is there again, and nothing refers to it.
  `FailedSessionsLeaveNothing` says that nothing else is left.
* A reconciliation worker discards an object without asking whether it still holds the
  lease (`workers.rs:475`).  One that looked at the object between its copy and the
  repair may remove it after another worker found it whole and committed it.
  `PayloadKept` names this exception.
* An upload that ends after its intent expired and its GC task finished leaves a
  staging payload that nothing will delete: there is one task per key, and it is
  finished.  `OrphansMeetTheQueue` allows exactly this.  The payload of a part that
  lands after the abort has the same fate.
* `docs/sub2api-async-image-storage.md:106` says that UploadPart reserves quota; the
  code reserves nothing until the completion.
* In a Suspended bucket an expired null delete marker is never removed by the
  lifecycle rule: `hide_exact_deleted_version` takes it for a null version to supersede
  (`s3_repository.rs:1430`), and the update finds no row.
* A lifecycle rule with a date whose midnight precedes `created_at` of its target
  violates a table check; the batch fails, and as the cursor only moves on success
  (`workers.rs:90-104`) it fails again.
* `put_upload_content` re-reads its session after the bytes are stored; one that
  straddles the completion deletes the payload of the completed media
  (`handlers_upload.rs:362-403`).  `PayloadKept` names this exception.
* A direct upload whose request dies between `reserve_quota` and `create_uploading`
  leaves its reservation for ever (`leaked` in `MediaUploads`).
* A job whose last attempt loses its lease stays `running` for ever (`Spent` in
  `AsyncJobs`).  An idempotency key whose request died stays in progress until it
  expires.
* Two overlapping acknowledgements of one webhook event may each see the other
  delivery open, and the event stays open although all are delivered.
* `GetBucketPolicy` and `GetBucketPolicyStatus` read the policy by the bucket's name
  alone after the owner check; `TenantFence` excepts them.
* `delete_s3_bucket` refuses every bucket that ever held an object, also an emptied
  one; `scripts/s3-compat/S3Compat.Clients.ps1:1015` expects success.
* A session inserted by a login that checked the password before a reset or a
  suspension survives it; `SessionsEndTogether` speaks of the insertion.  A user who
  deletes the last application cannot log in again, nor be suspended.
* `ListObjectVersions`: a marker version deleted between pages is answered with
  InvalidArgument, and a null version replaced between pages makes versions repeat;
  a `start-after` inside a common prefix skips the prefix.  `ListedOnce` excepts them.
* The authorisation to bypass governance of PutObjectRetention is not compared with
  the target of the other authorisations; `ChangesAreGranted` leaves it out.  WebDAV's
  check for `create_new` and its PUT are not atomic.

## 4. Proofs

Every safety property that a passing run checks, invariant or action property, is also
a theorem, for every value of the constants; so are two refinements, and one invariant
without a run of its own (`AdminRemains`).  Only liveness rests on the model checker
alone.  A theorem `Spec => []P` follows from an inductive
invariant `IInv`: the initial states satisfy it, every action keeps it, and it implies
`P`.  Each part of an `IInv` was first checked by TLC on the instance of the run.

| module | theorems | inductive invariant |
| --- | --- | --- |
| `ObjectVersions_proofs` | `TypeCorrect`, `HeadCorrect`, `NoncurrentCorrect`, `UniqueConstraintsHold`, `TasksCorrect`, `BytesCorrect`; the action properties `LockedVersionsProtected`, `ComplianceKept`, `OpaqueVersionsKept`; `LifecycleRefinement`: `Spec => LifecycleSpec` | `HistoryInv` (`HistoryInvariant`), with `LedgerInv` for the bytes |
| the same, of `BucketLifecycle` | `HistoryStaysConsistent`; the action properties `ExpiryIsDue`, `HeadChangeIsDue`, `LocksHoldAgainstLifecycle`, `ComplianceHoldsAgainstLifecycle` | `LifecycleInv` (`LifecycleInvariant`) |
| `UploadIntents_proofs` | `PayloadsStay`, `LedgerStaysExact`, `QuotaHolds`; `PlaneRefinement`: `Spec => LifecycleSpec` | `UploadInv` (`UploadInvariant`) |
| `Multipart_proofs` | `PartsAreKept`, `PublishedIsWhole`, `PublishesOnce`, `MultipartLedgerExact` | `MultipartInv` (`MultipartInvariant`) |
| `MediaUploads_proofs` | `MediaLedgerExact`, `FailuresLeaveNothing`, and the action property `PayloadsKept` | `MediaInv` (`MediaInvariant`) |
| `AsyncJobs_proofs` | `JobTypes`, `ResultsMatchJobs`, `ReplaysRepeatNothing` | `JobsInv` (`JobsInvariant`) |
| `ControlPlane_proofs`, of `Webhooks` | `DeliveredWasReceived`, `CompletedWasServed` | `DeliveryInv` (`DeliveryInvariant`) |
| the same, of `Accounts` | `AdminAlwaysRemains`, `AuditIsComplete`, `SessionsAreEnded` | `AccountInv` (`AccountInvariant`) |
| `FrontEnd_proofs`, of `BucketApi` | the action properties `TenantIsFenced`, `PreflightHolds`, `OutsidersOnlyIfPolicyIsPublic` | `BucketInv` (`BucketInvariant`) |
| the same, of `ObjectApi` | the action property `ChangesHaveGrants` | `ObjectInv` (`ObjectInvariant`) |
| the same, of `Listing` | `WalkIsComplete` | `ListingInv` (`ListingInvariant`) |
| `Sums_proofs` | `SumChanges` | - |

**Assumptions.**  The named assumptions of the modules and nothing else: ids of
different kinds are disjoint and differ from NULL, sizes, times, limits and quotas
are natural numbers, documents have their shape, a day is not empty.  Where rows are
counted or added up they are finitely many: the ids of `ObjectVersions`, the intents,
the part uploads and completion attempts of a multipart upload, the ids and processes
of `MediaUploads`, the media of a batch, the bucket names and requests of the front
end, the keys of a listing.  A table is finite, so this loses nothing.  Everything
else may be infinite: access keys, tenants, documents, endpoints, workers, users, jobs.

Three assumptions say more than a shape.  `PrincipalAssumption`: the ARN of a caller is
made of its account and its access key (`load_s3_signed_policy_principal`), so a
document that names it names that account.  `ListingAssumption`: no key is equal to
the prefix of another one (the key `photos/` itself is left out).  `ObjectAssumption`: a
WebDAV request asks for no tags, locks or versions, and a completion of an upload for
nothing of its own, as neither has headers for them; and the object that a bucket starts
with has no lock if its version is a null version, as such a bucket was never versioned.

### The invariants, and why they are needed

**ObjectVersions.**  The checked invariants are not inductive alone.  `HistoryInv`
adds:

* `HeadIsMaximal`, the form of `HeadIsNewest` without CHOOSE, so that steps are
  reasoned about relationally; `MaximalIsNewest` brings the CHOOSE back.
* `RowsWellFormed`: a present row belongs to a key and an absent one to none, so
  an absent id is never mistaken for a version of the object.
* `NoObjectNoHistory`: an object that does not exist has generation 0.  It makes
  the Create branch of the commit (which compares no generation) safe.
* `PutsWellFormed`: an uncommitted PUT's version id is absent, and what it
  prepared to replace is set only for a null version of an existing object.
* `UnversionedIsNull`: while the bucket is Unversioned, every version and every
  PUT in flight is null; so the Unversioned DELETE, which sets the head to NULL
  without looking for another version, really empties the object.  It holds
  because no configuration step returns to Unversioned.

`RowsPublished` and `RowsRetired` treat the two ways the rows change (publish at the
next generation, retire and promote) once for all actions that do so; one lemma per
action (`CommitKeeps`, `DeleteVersionKeeps`, ...) checks that the action's guard
provides what these need.  For `Commit` that is `CommitReplaces`: although its reads
are stale, generation and null version are compared again, so the replaced version
is the active null version of the object.  `ActiveRows` classifies what a step can do
to an active version; the action properties follow from it, and the refinement from
`CommitImplements` and `RetiringImplements`.  Promotion needs that a non-empty set of
active versions has a newest one: `MaxExists`, as generations are bounded by the
object's counter.  `LedgerInv` adds to the sum that the row of a PUT is never a delete
marker: without it the bytes that a commit adds need not be those that a later step
returns.

**BucketLifecycle.**  `LifecycleInv` is the history's invariant and `WorkerReads`:
what the worker holds has the shape of something read, and its clock is no later than
now, so that what was due then is due still (`DueStaysDue`).  The rules, the head and the locks may
have changed since, so `ExpiryIsDue` and `HeadChangeIsDue` rest on what
`execute_s3_lifecycle` compares in its own transaction.  The two Object Lock properties
are proved again for the composed specification: the worker's steps retire versions
too.  Only data versions can be locked (`MarkersUnlocked`), which is why a marker may
be removed although nobody looks at its locks.

**UploadIntents.**  The payload of an active version stays because a final key gets
a task only when its intent is aborted or expired, or its version retired
(`TasksAreForTheDead`); because a cleanup worker deletes only what has a task, also
after its lease is gone (`ClaimsHaveTasks`); and because a handler that promoted the
payload keeps it while its intent is open (`PreparedHasPayload`), so that a commit,
which changes nothing in the object store, finds it.  Lost leases need no part of
the invariant: a worker that lost its lease may still delete, and only dead keys.
`PlaneRefinement` closes the circle with the history: `UploadIntents` sees versions only
through the steps of `VersionLifecycle`, which `ObjectVersions` implements, and it
implements them too, with its own queue: a final key of a version has a task if and
only if the version is retired.  (No run checks this one; TLC agrees on the instances
of both runs.)

**Multipart.**  What a completion attempt relies on (`Relies`) must survive another
attempt that took it over: an intent of its own is begun once, and at the end the
payload under its final key has the entity tag of the attempt's parts, unless the key
was handed to the GC.  A final key is queued only for a dead intent (`QueuedIsDead`),
and a dead intent commits nothing.  Parts are safe because a row's part was stored
before it became a row and a replaced or ended one only then reaches the queue
(`UnstoredIsSafe`, `RowsNotQueued`).  `OneVersion` needs `UploadRow`: the version is set
in the transaction that completes the upload.

**MediaUploads.**  `Linked` says, for every place a handler or worker can have
reached, what it still knows of rows and objects (`UploadPlaced`, `SessionPlaced`).
The tokens carry the argument: nobody shares one (`TokensDiffer`), none is newer than
the row's, and the one handler and the workers that hold an older token can neither
commit nor return quota.  The two objects of an upload are the same bytes
(`UploadRow`), so a repair copy that comes late changes no content; a worker commits
what it found whole (`FoundWhole`), which stays so as long as the row carries its token,
unless a worker of an older token discarded the object (`late`).  For sessions,
cleaning up begins after the end of the session and of every URL that can write it, and
takes the staged object before the final one.  A promotion under way then finds its
source gone and installs nothing, except a multipart copy that had its parts already:
`SessionRow` says that every final object without a source belongs to a session that
is due, and `late` that this copy is the only one to appear after the cleanup.
`PayloadsKept` is an action property: it names the two steps that may remove the
object of an active row.

**AsyncJobs.**  `Matches` tells, row by row, what the state of a job says of its
items and counters.  For `ReplaySafe` three parts work together.  `ValueAnnounced`: the
value of an active medium is the one announced last.  `ValuesFromUpdates`: a batch
whose value a medium has is one that updates, so that a batch that deletes never
follows itself.  `ReadsFresh`: while a medium has the revision that a worker has read,
it does not have the worker's value, because the read answered without a write if it
did, and any change in between makes a new revision.  The last holds only because a
job's value does not depend on the attempt.

**Webhooks.**  A worker that still owns the lease token of a delivery it saw
accepted knows that no replay came in between (`AcceptedIsReceived`); between the two
statements of the acknowledgement the row lock keeps the token (`CommittingOwns`), and
what it found about the other deliveries of the event cannot become wrong
(`LastIsLast`).

**Accounts.**  The three properties, `AdminRemains` with them, are almost inductive together; they need only
that a handler on its way to the repository names rows that exist (`Bound`).  The
last administrator is safe because the transaction that suspends counts the active
ones itself.

**BucketApi.**  A request reads a key, then a bucket, then acts on a row it finds by
application and name; `BucketInv` says what survives in between.  A row has an id
exactly when it has an owner (`WellKept`), and a step either changes it under the same
identity, removes it unless it was used, or draws an id that no request in flight holds
(`RowMoves`).  An admitted request has strayed nowhere (`WellSent`).  So an operation
(`OpDone`) meets a row of the application that admitted it or none, although the name
may have changed hands; `FindForDelete` compares the id, and an id never comes back.
`FlightKept` ties a preflight to the revision of the rules it was judged by: while that
revision stands, so does the rule that matched, and the request itself asks for no more
than its preflight (`PreflightFits`).  `OutsidersOnlyIfPolicyIsPublic` is about
documents: each principal and each condition that `policy_status` trusts is matched by
nobody from another account (`OutsiderIsNotTrusted`); that is where
`PrincipalAssumption` is used.

**ObjectApi.**  `ObjectInv` follows a request through its checks.  `Required` says what
a form must have been granted before it changes anything, and `TaskKept` that each
such action was granted by the application the request is bound to, or is still on
its list.  Grants name that application: once the first check has bound a request,
a check that meets another owner of the name refuses it.  Between the last check and
the write the bucket may only be deleted if nobody has written to it; a write that
begins marks it as used (`BeginPut`), and so does an open upload (`UploadKept`), hence
the owner at the commit is the owner who granted.  An unused bucket is empty
(`ObjectKept`), so a delete that finds something finds a used bucket.  Tags of a copy
source are checked late, after the source was read: until then the request
does not know of them, and from then on the check is on its list.  The lemmas `PublishRow`,
`RemoveRows` and `AmendRow` say what a change of the rows needs (`NeedsMet`), and one
lemma per operation that it holds this (`TaskDone`).  Removing a
version against its retention takes a grant of its own, and a PUT asks for none.  It
may remove one all the same: what it prepared before versioning and Object Lock were
switched on it still replaces (`CommittedKept`).  The property grants it this version
alone, and its commit touches no other because it compares the null version with the
one it had read (`StillPrepared`).  From the intent to the commit (`Writing`) the bucket
is in use, so its owner stays; the three reads in between are `ReadsDone`.

**Listing.**  `ListingInv` puts the marker between what was returned and what is still
to come.  Every item that lasted was returned or lies ahead (`NothingMissed`), and what
was returned lies behind (`NothingRepeated`).  A marker is a name; what it means depends
on the rows of the moment, as a null version is named `null` whatever its generation.
`Coming` therefore says that a row lies ahead for every generation the next page
may find under the name.  A page ends with its largest row (`PageOfRows`), and the rows
after it, folded or not, are after the marker made of it (`AheadOfLast`, `BehindLast`):
for folded rows this is where the assumption that a prefix precedes its keys is needed.
Versions may repeat, since a null version can be replaced by a newer one between two
pages; the property excepts them.

### Sums without induction

The ledgers are sums over sets of rows, and the prover has no induction over
data.  `Sums_proofs` shows what is needed without it: if some part of a finite set had
no function that adds up over all its parts, there would be such a part that is
minimal for inclusion (the orderings of the library are well founded, and the lemma
used takes no operator); take one member out of it, and there is one.  In the same way the
fold of the community module, which takes the members in the order of CHOOSE, agrees
with every function that adds up.  `SumChanges` is the result: the empty sum is 0, a
member adds its number when it enters and takes it away when it leaves, and none is
larger than the whole.  The upload plane, multipart and the object history use it through `SumOver`;
`MediaUploads` counts with `Cardinality` and the library's theorems.

### Only model-checked

Liveness: `OrphansMeetTheQueue`, `EveryIntentEnds`, `Settles`, `EveryJobSettles`,
`EveryDeliveryEnds`, `EverythingSettles`.  The prover handles neither fairness nor
ENABLED.

## 5. Plan

Done: all modules of section 2 with their runs, and the proofs of section 4.
What is left:

1. The local object store's commit protocol with crashes, refining the atomic calls
   assumed here.
2. `ObjectApi` as an abstraction of `ObjectVersions`: both read before they commit, and
   the first keeps of the history what authorisation tells apart.  That it is an
   abstraction is argued by the lines both translate, not stated as a refinement.

## 6. Not modelled

* Syntax: header, XML and JSON parsing and rendering, the SigV4 arithmetic (a
  signature is right or the request is refused), what ranges and conditional
  headers say (a copy may be refused for them), WebDAV paths, locks and properties.
* The inside of the object store adapters: a put, a promotion, a composition and a
  delete are one effect each, with the failures their callers see.  The exception is the
  promotion of `MediaUploads` on S3, request by request.  `UploadIntents` and `Multipart`
  keep it as one effect that may have happened or not when it fails: a final key there
  belongs to one intent and one content, so a second copy changes nothing, and a copy
  completed after the key's task leaves the orphan that `OrphansMeetTheQueue` allows.
* Image variants: one worker claims a variant under a lease as the modelled workers
  do, and its key derives from the digest of the source, so that a repeated
  generation writes the same bytes; the codecs are pixel processing.  Nothing
  deletes the payload of a variant.
* Media delivery, signed URLs and short links: reads of one row, and single inserts.
* Idempotency keys of bucket and session creation, which are completed in the
  transaction that inserts the row.
* Copy sources that name a version, quota plans, rate limits, e-mail, the limit on
  open multipart uploads.
* The in-memory repositories (test doubles), the web console, the OpenAPI document,
  scripts, configuration and system update; `webdav_auth.rs`, `webdav_file.rs` and
  `webdav_support.rs` are not part of the build.

The database is assumed to provide its isolation and the row locks that the queries
ask for; the object store is modelled by the calls the code makes.
