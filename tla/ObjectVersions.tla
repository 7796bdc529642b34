--------------------------- MODULE ObjectVersions ---------------------------
(***************************************************************************)
(* The version history of one S3 bucket: the `buckets`, `objects`,         *)
(* `object_versions` and `storage_gc_tasks` rows that a PUT, a DELETE and  *)
(* the Object Lock operations of the gateway change.                       *)
(*                                                                         *)
(* A PUT reads the bucket, the object head and the active versions one     *)
(* after the other, outside any transaction                                *)
(* (prepare_claimed_upload_commit_with_object_lock), and publishes what it *)
(* prepared in one transaction (commit_object_version_in_transaction), so  *)
(* that any other operation may run between the four steps.  A DELETE and  *)
(* an Object Lock update are one transaction each, stamped with a time the *)
(* service read before the transaction started.                            *)
(***************************************************************************)
EXTENDS Integers, FiniteSets, Sums

CONSTANTS
    Keys,               \* object keys of the bucket
    Puts,               \* PUT requests; each one is also the version id it proposes
    Markers,            \* delete-marker ids that DELETE commands carry
    Size,               \* bytes of the payload of each PUT
    Retentions,         \* retentions a client may ask for
    DefaultRetentions,  \* default retention rules of the bucket
    Times,              \* values of the clock
    None                \* the SQL NULL

Ids == Puts \cup Markers

ASSUME IdAssumption ==
    /\ Puts \cap Markers = {}
    /\ None \notin Ids
ASSUME FiniteAssumption == IsFiniteSet(Ids)  \* a table has finitely many rows
ASSUME KeyAssumption == None \notin Keys
ASSUME SizeAssumption == Size \in [Puts -> Nat]
ASSUME TimeAssumption == Times \subseteq Nat /\ 0 \in Times
ASSUME RetentionAssumption ==
    /\ Retentions \subseteq [mode : {"governance", "compliance"}, until : Nat]
    /\ DefaultRetentions \subseteq [mode : {"governance", "compliance"}, days : Nat \ {0}]

VARIABLES
    bucket,    \* S3 configuration of the bucket row
    objects,   \* logical objects: head pointer and generation counter
    versions,  \* version rows, data versions and delete markers
    put,       \* what each PUT handler has read so far
    gcTasks,   \* storage_gc_tasks rows written for version payloads
    used,      \* applications.used_bytes
    now        \* the clock

vars == <<bucket, objects, versions, put, gcTasks, used, now>>

-----------------------------------------------------------------------------
(* Rows *)

VersioningStatus == {"unversioned", "enabled", "suspended"}

NoRetention == [mode |-> "none", until |-> 0]

RetentionRow == [mode : {"none", "governance", "compliance"}, until : Nat]

Bucket ==
    [versioning : VersioningStatus, lock : BOOLEAN,
     default : DefaultRetentions \cup {None}]

Object == [exists : BOOLEAN, current : Ids \cup {None}, generation : Nat]

(* One row of object_versions.  state merges the column of that name with  *)
(* superseded_at; noncurrent says that became_noncurrent_at is set.        *)
Version ==
    [state : {"absent", "committed", "deleting", "superseded"},
     key : Keys \cup {None}, generation : Nat, null : BOOLEAN,
     marker : BOOLEAN, noncurrent : BOOLEAN, created : Nat,
     retention : RetentionRow, hold : BOOLEAN]

AbsentVersion ==
    [state |-> "absent", key |-> None, generation |-> 0, null |-> FALSE,
     marker |-> FALSE, noncurrent |-> FALSE, created |-> 0,
     retention |-> NoRetention, hold |-> FALSE]

PutSteps ==
    {"idle", "bucketRead", "objectRead", "prepared", "committed", "failed"}

(* The local state of a PUT between its reads and its transaction: what    *)
(* PreparedS3ObjectVersionCommit carries.                                  *)
Put ==
    [step : PutSteps, key : Keys \cup {None}, null : BOOLEAN,
     exists : BOOLEAN, generation : Nat, replaced : Ids \cup {None},
     retention : Retentions \cup {NoRetention}, hold : BOOLEAN, at : Nat]

IdlePut ==
    [step |-> "idle", key |-> None, null |-> FALSE, exists |-> FALSE,
     generation |-> 0, replaced |-> None, retention |-> NoRetention,
     hold |-> FALSE, at |-> 0]

GcReasons == {"explicit_delete", "replaced_null_version", "lifecycle_expiration"}

TypeOK ==
    /\ bucket \in Bucket
    /\ objects \in [Keys -> Object]
    /\ versions \in [Ids -> Version]
    /\ put \in [Puts -> Put]
    /\ gcTasks \subseteq [version : Puts, reason : GcReasons]
    /\ used \in Nat
    /\ now \in Times

-----------------------------------------------------------------------------
(* Queries on the history *)

Active(v) == versions[v].state = "committed"

ActiveOf(k) == {v \in Ids : Active(v) /\ versions[v].key = k}

(* Seeded fault: replaces the current version, whatever its id.            *)
ActiveNullIsHead(k) == objects[k].current

(* lock_active_null_version and the searches for is_null_version           *)
ActiveNull(k) ==
    LET nulls == {v \in ActiveOf(k) : versions[v].null}
    IN  IF nulls = {} THEN None ELSE CHOOSE v \in nulls : TRUE

(* The member of S with the highest generation, the max_by_key of the      *)
(* exact DELETE.                                                           *)
NewestOf(S) ==
    IF S = {} THEN None
    ELSE CHOOSE v \in S : \A w \in S : versions[w].generation <= versions[v].generation

PayloadSize(v) == IF v \in Puts THEN Size[v] ELSE 0

(* What a retired version gives back to the quota                          *)
Released(old) == IF old = None THEN 0 ELSE PayloadSize(old)

(* Seeded fault: the legal hold is not consulted.                          *)
DeleteLockedByRetention(v, at, bypass) ==
    /\ versions[v].retention.until > at
    /\ \/ versions[v].retention.mode = "compliance"
       \/ versions[v].retention.mode = "governance" /\ ~bypass

(* delete_lock_reason_at: does Object Lock refuse to delete v at that time *)
DeleteLocked(v, at, bypass) ==
    \/ versions[v].hold
    \/ /\ versions[v].retention.until > at
       /\ \/ versions[v].retention.mode = "compliance"
          \/ versions[v].retention.mode = "governance" /\ ~bypass

(* object_versions_noncurrent_time_check and its superseded_at twin        *)
NotBeforeCreation(v, at) == at >= versions[v].created

(* mark_current_version_noncurrent can update the current row, if any      *)
CanMarkNoncurrent(k, at) ==
    LET head == objects[k].current
    IN  head # None => ~versions[head].noncurrent /\ NotBeforeCreation(head, at)

(* SUPERSEDE_ACTIVE_NULL_VERSION_SQL needs became_noncurrent_at to be set, *)
(* which mark_current_version_noncurrent does when v is the head           *)
CanSupersede(k, v, at) ==
    /\ versions[v].noncurrent \/ objects[k].current = v
    /\ NotBeforeCreation(v, at)

(* insert_storage_gc_task does nothing when the payload already has a task,*)
(* and its callers then require that task to have the same reason          *)
CanSchedule(v, reason) ==
    \A t \in gcTasks : t.version = v => t.reason = reason

(* Seeded fault: the version is retired without a task for its payload.    *)
ScheduleNothing(v, reason) == gcTasks

Schedule(v, reason) ==
    IF v \in Puts THEN gcTasks \cup {[version |-> v, reason |-> reason]} ELSE gcTasks

-----------------------------------------------------------------------------
(* Bucket configuration *)

CanTransitionTo(from, to) ==
    <<from, to>> \in {<<"unversioned", "enabled">>, <<"enabled", "suspended">>,
                      <<"suspended", "enabled">>}

SetVersioning(status) ==
    /\ bucket.lock => status = "enabled"
    /\ CanTransitionTo(bucket.versioning, status)
    /\ bucket' = [bucket EXCEPT !.versioning = status]
    /\ UNCHANGED <<objects, versions, put, gcTasks, used, now>>

(* replace_object_lock_configuration: irreversible, forces Enabled         *)
ReplaceObjectLock(default) ==
    /\ bucket # [versioning |-> "enabled", lock |-> TRUE, default |-> default]
    /\ bucket' = [versioning |-> "enabled", lock |-> TRUE, default |-> default]
    /\ UNCHANGED <<objects, versions, put, gcTasks, used, now>>

-----------------------------------------------------------------------------
(* PUT: three reads, then one transaction *)

Requested(p) == put[p].retention # NoRetention \/ put[p].hold

ReadBucket(p, k, retention, hold) ==
    /\ put[p].step = "idle"
    /\ put' = [put EXCEPT ![p] =
         IF (retention # NoRetention \/ hold) /\ ~bucket.lock
         THEN [IdlePut EXCEPT !.step = "failed"]
         ELSE [IdlePut EXCEPT !.step = "bucketRead", !.key = k,
                              !.null = bucket.versioning # "enabled",
                              !.retention = retention, !.hold = hold]]
    /\ UNCHANGED <<bucket, objects, versions, gcTasks, used, now>>

ReadObject(p) ==
    /\ put[p].step = "bucketRead"
    /\ put' = [put EXCEPT ![p].step = "objectRead",
                          ![p].exists = objects[put[p].key].exists,
                          ![p].generation = objects[put[p].key].generation]
    /\ UNCHANGED <<bucket, objects, versions, gcTasks, used, now>>

(* The list of active versions is read only when the new version will be a *)
(* null version; the commit is stamped last.                               *)
ReadVersions(p) ==
    /\ put[p].step = "objectRead"
    /\ put' = [put EXCEPT
         ![p].step = "prepared", ![p].at = now,
         ![p].replaced = IF put[p].null /\ put[p].exists
                         THEN ActiveNull(put[p].key) ELSE None]
    /\ UNCHANGED <<bucket, objects, versions, gcTasks, used, now>>

(* freeze_postgres_object_lock                                             *)
FrozenRetention(p) ==
    IF ~bucket.lock THEN NoRetention
    ELSE IF put[p].retention # NoRetention THEN put[p].retention
    ELSE IF bucket.default # None
         THEN [mode |-> bucket.default.mode, until |-> put[p].at + bucket.default.days]
         ELSE NoRetention

FreezeAccepts(p) ==
    /\ Requested(p) => bucket.lock
    /\ FrozenRetention(p) # NoRetention => FrozenRetention(p).until > put[p].at

(* The checks of the Create and Append targets, in the transaction.        *)
CreateAccepts(p) == ~put[p].exists /\ ~objects[put[p].key].exists

HasHead(k) == objects[k].current # None

(* Seeded fault: the head generation is not compared again.                *)
SnapshotIgnoresGeneration(p) ==
    /\ put[p].exists
    /\ put[p].null => ActiveNull(put[p].key) = put[p].replaced

SnapshotMatches(p) ==
    LET k == put[p].key
    IN  /\ put[p].exists
        /\ objects[k].generation = put[p].generation
        /\ put[p].null => ActiveNull(k) = put[p].replaced

AppendAccepts(p) ==
    LET k == put[p].key
        old == put[p].replaced
    IN  /\ SnapshotMatches(p)
        /\ HasHead(k)
        /\ CanMarkNoncurrent(k, put[p].at)
        /\ old # None => /\ CanSupersede(k, old, put[p].at)
                         /\ CanSchedule(old, "replaced_null_version")
                         /\ used >= PayloadSize(old)

CommitAccepts(p) == FreezeAccepts(p) /\ (CreateAccepts(p) \/ AppendAccepts(p))

NewVersion(p) ==
    [state |-> "committed", key |-> put[p].key,
     generation |-> put[p].generation + 1, null |-> put[p].null,
     marker |-> FALSE, noncurrent |-> FALSE, created |-> put[p].at,
     retention |-> FrozenRetention(p), hold |-> put[p].hold]

(* Seeded fault: the old head is not marked noncurrent.                    *)
PublishedUnmarked(k, new, row, old) ==
    [v \in Ids |->
        IF v = new THEN row
        ELSE [versions[v] EXCEPT !.state = IF v = old THEN "superseded" ELSE @]]

(* The rows once new is the head of k: the old head is noncurrent and old, *)
(* a null version that new replaces, is superseded.                        *)
Published(k, new, row, old) ==
    [v \in Ids |->
        IF v = new THEN row
        ELSE [versions[v] EXCEPT
                !.noncurrent = @ \/ v = objects[k].current,
                !.state = IF v = old THEN "superseded" ELSE @]]

Commit(p) ==
    LET k == put[p].key
        old == put[p].replaced
    IN  /\ put[p].step = "prepared"
        /\ CommitAccepts(p)
        /\ versions' = Published(k, p, NewVersion(p), old)
        /\ objects' = [objects EXCEPT ![k] =
             [exists |-> TRUE, current |-> p, generation |-> put[p].generation + 1]]
        /\ gcTasks' = IF old = None THEN gcTasks
                      ELSE Schedule(old, "replaced_null_version")
        /\ used' = used + Size[p] - Released(old)
        /\ put' = [put EXCEPT ![p] = [IdlePut EXCEPT !.step = "committed", !.key = k]]
        /\ UNCHANGED <<bucket, now>>

(* The transaction rolls back and the handler answers with the error.      *)
CommitFails(p) ==
    /\ put[p].step = "prepared"
    /\ ~CommitAccepts(p)
    /\ put' = [put EXCEPT ![p] = [IdlePut EXCEPT !.step = "failed"]]
    /\ UNCHANGED <<bucket, objects, versions, gcTasks, used, now>>

-----------------------------------------------------------------------------
(* DELETE: one transaction, stamped with an earlier reading of the clock *)

Stamps == {t \in Times : t <= now}

(* Seeded fault: a state outside object_versions_state_check.              *)
HiddenStateUnknown(v) == "deleted"

(* Seeded fault: the version keeps its state.                              *)
HiddenStateKept(v) == versions[v].state

(* hide_exact_deleted_version                                              *)
HiddenState(v) == IF versions[v].null THEN "superseded" ELSE "deleting"

DeleteVersion(k, v, at, bypass) ==
    LET isCurrent == objects[k].current = v
        next == NewestOf(ActiveOf(k) \ {v})
    IN  /\ v \in ActiveOf(k)
        /\ ~DeleteLocked(v, at, bypass)
        /\ isCurrent => CanMarkNoncurrent(k, at)
        /\ versions[v].null => CanSupersede(k, v, at)
        /\ CanSchedule(v, "explicit_delete")
        /\ used >= PayloadSize(v)
        /\ versions' = [w \in Ids |->
             CASE w = v -> [versions[v] EXCEPT !.state = HiddenState(v),
                                               !.noncurrent = @ \/ isCurrent]
               [] isCurrent /\ w = next -> [versions[w] EXCEPT !.noncurrent = FALSE]
               [] OTHER -> versions[w]]
        /\ objects' = IF isCurrent THEN [objects EXCEPT ![k].current = next] ELSE objects
        /\ gcTasks' = Schedule(v, "explicit_delete")
        /\ used' = used - PayloadSize(v)
        /\ UNCHANGED <<bucket, put, now>>

NewMarker(k, null, at) ==
    [state |-> "committed", key |-> k, generation |-> objects[k].generation + 1,
     null |-> null, marker |-> TRUE, noncurrent |-> FALSE, created |-> at,
     retention |-> NoRetention, hold |-> FALSE]

(* Seeded fault: the head pointer stays on the old version.                *)
AdvanceOnlyGeneration(k, m) ==
    objects' = [objects EXCEPT ![k].generation = @ + 1]

(* advance_object_to_delete_marker                                         *)
AdvanceTo(k, m) ==
    objects' = [objects EXCEPT ![k].current = m, ![k].generation = @ + 1]

DeleteEnabled(k, m, at) ==
    /\ bucket.versioning = "enabled"
    /\ objects[k].exists
    /\ versions[m].state = "absent"
    /\ CanMarkNoncurrent(k, at)
    /\ versions' = Published(k, m, NewMarker(k, FALSE, at), None)
    /\ AdvanceTo(k, m)
    /\ UNCHANGED <<bucket, put, gcTasks, used, now>>

DeleteSuspended(k, m, at, bypass) ==
    LET old == ActiveNull(k)
    IN  /\ bucket.versioning = "suspended"
        /\ objects[k].exists
        /\ versions[m].state = "absent"
        /\ CanMarkNoncurrent(k, at)
        /\ old # None => /\ ~DeleteLocked(old, at, bypass)
                         /\ CanSupersede(k, old, at)
                         /\ CanSchedule(old, "explicit_delete")
                         /\ used >= PayloadSize(old)
        /\ versions' = Published(k, m, NewMarker(k, TRUE, at), old)
        /\ AdvanceTo(k, m)
        /\ gcTasks' = IF old = None THEN gcTasks ELSE Schedule(old, "explicit_delete")
        /\ used' = used - Released(old)
        /\ UNCHANGED <<bucket, put, now>>

(* The object row stays, with no current version; without an active null   *)
(* version the DELETE is a no-op.                                          *)
DeleteUnversioned(k, at, bypass) ==
    LET old == ActiveNull(k)
    IN  /\ bucket.versioning = "unversioned"
        /\ objects[k].exists
        /\ old # None
        /\ ~DeleteLocked(old, at, bypass)
        /\ CanMarkNoncurrent(k, at)
        /\ CanSupersede(k, old, at)
        /\ CanSchedule(old, "explicit_delete")
        /\ used >= PayloadSize(old)
        /\ versions' = [v \in Ids |->
             [versions[v] EXCEPT !.noncurrent = @ \/ v = objects[k].current,
                                 !.state = IF v = old THEN "superseded" ELSE @]]
        /\ objects' = [objects EXCEPT ![k].current = None]
        /\ gcTasks' = Schedule(old, "explicit_delete")
        /\ used' = used - PayloadSize(old)
        /\ UNCHANGED <<bucket, put, now>>

-----------------------------------------------------------------------------
(* Object Lock on one version *)

(* Seeded fault: the governance bypass also opens compliance mode.         *)
RetentionBypassed(current, retention, at, bypass) ==
    /\ retention.until > at
    /\ current.until > at => retention.until >= current.until \/ bypass

(* with_retention_update: the new retention is accepted over the current   *)
RetentionAccepted(current, retention, at, bypass) ==
    /\ retention.until > at
    /\ current.until > at =>
         /\ current.mode = "compliance" =>
              retention.mode = "compliance" /\ retention.until >= current.until
         /\ current.mode = "governance" =>
              retention.until >= current.until \/ bypass

PutRetention(v, retention, at, bypass) ==
    /\ bucket.lock
    /\ Active(v) /\ ~versions[v].marker
    /\ RetentionAccepted(versions[v].retention, retention, at, bypass)
    /\ versions' = [versions EXCEPT ![v].retention = retention]
    /\ UNCHANGED <<bucket, objects, put, gcTasks, used, now>>

PutLegalHold(v, hold) ==
    /\ bucket.lock
    /\ Active(v) /\ ~versions[v].marker
    /\ versions' = [versions EXCEPT ![v].hold = hold]
    /\ UNCHANGED <<bucket, objects, put, gcTasks, used, now>>

-----------------------------------------------------------------------------

Tick ==
    /\ now' \in {t \in Times : t > now}
    /\ UNCHANGED <<bucket, objects, versions, put, gcTasks, used>>

(* A bucket is created Unversioned, or Enabled with Object Lock            *)
Init ==
    /\ bucket \in {[versioning |-> "unversioned", lock |-> FALSE, default |-> None],
                   [versioning |-> "enabled", lock |-> TRUE, default |-> None]}
    /\ objects = [k \in Keys |-> [exists |-> FALSE, current |-> None, generation |-> 0]]
    /\ versions = [v \in Ids |-> AbsentVersion]
    /\ put = [p \in Puts |-> IdlePut]
    /\ gcTasks = {}
    /\ used = 0
    /\ now = 0

ConfigureNext ==
    \/ \E status \in VersioningStatus : SetVersioning(status)
    \/ \E default \in DefaultRetentions \cup {None} : ReplaceObjectLock(default)

PutNext(p) ==
    \/ \E k \in Keys, retention \in Retentions \cup {NoRetention}, hold \in BOOLEAN :
         ReadBucket(p, k, retention, hold)
    \/ ReadObject(p)
    \/ ReadVersions(p)
    \/ Commit(p)
    \/ CommitFails(p)

DeleteNext(k, at) ==
    \/ \E v \in Ids, bypass \in BOOLEAN : DeleteVersion(k, v, at, bypass)
    \/ \E m \in Markers : DeleteEnabled(k, m, at)
    \/ \E m \in Markers, bypass \in BOOLEAN : DeleteSuspended(k, m, at, bypass)
    \/ \E bypass \in BOOLEAN : DeleteUnversioned(k, at, bypass)

LockNext(v) ==
    \/ \E retention \in Retentions, at \in Stamps, bypass \in BOOLEAN :
         PutRetention(v, retention, at, bypass)
    \/ \E hold \in BOOLEAN : PutLegalHold(v, hold)

Next ==
    \/ ConfigureNext
    \/ \E p \in Puts : PutNext(p)
    \/ \E k \in Keys, at \in Stamps : DeleteNext(k, at)
    \/ \E v \in Puts : LockNext(v)
    \/ Tick

Spec == Init /\ [][Next]_vars

-----------------------------------------------------------------------------
(* What the history promises *)

(* The head pointer of an object is its newest active version, and is NULL *)
(* only when no version is active: a PUT, a DELETE or an exact DELETE that *)
(* promotes the next version never leaves a stale head.                    *)
HeadIsNewest ==
    \A k \in Keys : objects[k].current = NewestOf(ActiveOf(k))

(* became_noncurrent_at is set on exactly the active versions that are not *)
(* the head: the lifecycle executor and the supersede statement rely on it.*)
NoncurrentMarksHistory ==
    \A v \in Ids : Active(v) =>
        (versions[v].noncurrent <=> objects[versions[v].key].current # v)

(* At most one active version of an object answers to the id "null", so    *)
(* the unique index on active external ids never rejects a write.          *)
OneActiveNull ==
    \A v, w \in Ids :
        /\ Active(v) /\ Active(w)
        /\ versions[v].null /\ versions[w].null
        /\ versions[v].key = versions[w].key
        => v = w

(* No two versions of an object share a generation, and none is ahead of   *)
(* the object's counter: the UNIQUE (object_id, generation) constraint     *)
(* never rejects a write either.                                           *)
GenerationsOrdered ==
    \A v \in Ids : versions[v].state # "absent" =>
        /\ versions[v].generation \in 1..objects[versions[v].key].generation
        /\ \A w \in Ids \ {v} :
             versions[w].key = versions[v].key =>
                 versions[w].generation # versions[v].generation

(* The payload of a version has a GC task exactly when the version has     *)
(* left the history: no active payload is scheduled for deletion, no       *)
(* retired one is forgotten, and a payload never has two tasks.            *)
GcTasksExact ==
    /\ \A v \in Puts :
         (\E t \in gcTasks : t.version = v)
             <=> versions[v].state \in {"deleting", "superseded"}
    /\ \A t, u \in gcTasks : t.version = u.version => t = u

(* used_bytes is the number of bytes of the active data versions: every    *)
(* path that retires a version gives its bytes back once, so no release    *)
(* underflows and no deleted payload keeps consuming quota.                *)
UsedBytesExact == used = SumOver([v \in Ids |-> PayloadSize(v)], {v \in Ids : Active(v)})

(* Object Lock holds on v now, whatever bypass a caller has                *)
Protected(v) ==
    /\ Active(v)
    /\ \/ versions[v].hold
       \/ /\ versions[v].retention.mode = "compliance"
          /\ versions[v].retention.until > now

(* A version that Object Lock protects is never removed, except by a PUT   *)
(* that prepared to replace it while it was still a plain null version.    *)
LockedVersionsLeaveOnlyByStalePut ==
    [][\A v \in Ids : Protected(v) /\ ~Active(v)' =>
          \E p \in Puts : /\ put[p].step = "prepared" /\ put[p].replaced = v
                          /\ put'[p].step = "committed"]_vars

(* Compliance retention in force is never shortened, downgraded or removed *)
(* while its version is in the history.                                    *)
ComplianceNeverWeakens ==
    [][\A v \in Ids :
          LET r == versions[v].retention
          IN  Active(v) /\ Active(v)' /\ r.mode = "compliance" /\ r.until > now =>
                 /\ versions'[v].retention.mode = "compliance"
                 /\ versions'[v].retention.until >= r.until]_vars

(* An opaque data version leaves the history only through an exact DELETE: *)
(* the head of its object falls back to an older version or none, and no   *)
(* newer version takes its place in the same step.                         *)
OpaqueVersionsSurvivePuts ==
    [][\A v \in Ids : Active(v) /\ ~versions[v].null /\ ~Active(v)' =>
          \A k \in Keys : objects'[k].generation = objects[k].generation]_vars

(* The history implements the abstract life of a payload: published once,  *)
(* retired at most once, scheduled for deletion in the step that retires   *)
(* it, under every order of PUTs, DELETEs and configuration changes.       *)
Lifecycle == INSTANCE VersionLifecycle WITH
    Payloads <- Puts,
    status <- [p \in Puts |->
        IF versions[p].state = "absent" THEN "absent"
        ELSE IF Active(p) THEN "active" ELSE "retired"],
    scheduled <- {t.version : t \in gcTasks}

LifecycleSpec == Lifecycle!Spec

=============================================================================
