-------------------------- MODULE BucketLifecycle --------------------------
(***************************************************************************)
(* The S3 lifecycle worker over the version history of ObjectVersions.     *)
(*                                                                         *)
(* S3LifecycleService::run_batch works on what it reads, one query after   *)
(* the other: the clock, the bucket row with its rules, one candidate of   *)
(* one action of one enabled rule.  Only execute_s3_lifecycle runs in a    *)
(* transaction, and it trusts nothing it was handed: the configuration     *)
(* revision, the rule, the target, its age and its locks are read again.   *)
(* PUTs, DELETEs, Object Lock updates and configuration changes happen at  *)
(* any point in between.  AbortIncompleteMultipartUpload is in Multipart.  *)
(***************************************************************************)
EXTENDS ObjectVersions

CONSTANTS
    RuleSets,    \* rule sets a PutBucketLifecycleConfiguration may install
    Day,         \* clock units from one midnight to the next
    MaxRevision  \* bound on configuration changes

ASSUME DayAssumption == Day \in Nat \ {0}

VARIABLES
    rules,     \* buckets.s3_lifecycle_configuration; {} is the SQL NULL
    revision,  \* buckets.s3_configuration_revision
    since,     \* became_noncurrent_at of each noncurrent version, else 0
    worker     \* what the lifecycle worker has read so far

lifecycleVars == <<rules, revision, since, worker>>
allVars == <<vars, lifecycleVars>>

-----------------------------------------------------------------------------
(* Rules *)

(* A rule covers the keys under its prefix.  n is the days or the date of  *)
(* its Expiration, noncurrent the NoncurrentDays, 0 when it has none.      *)
Rule ==
    [keys : SUBSET Keys, enabled : BOOLEAN,
     expiration : {"none", "days", "date", "marker"}, n : Nat, noncurrent : Nat]

(* S3LifecycleRule::validate: a rule does something, after at least a day  *)
ValidRule(r) ==
    /\ r.expiration = "days" => r.n > 0
    /\ r.expiration # "none" \/ r.noncurrent > 0

ASSUME RuleAssumption ==
    \A set \in RuleSets : set \subseteq Rule /\ \A r \in set : ValidRule(r)

(* lifecycle_action_time: the start of the day of the evaluation           *)
Midnight(at) == at - (at % Day)

(* lifecycle_days_cutoff: S3 counts whole days that end at midnight        *)
OlderThan(time, days, at) == time < Midnight(at) - days * Day

Applies(r, k) == r.enabled /\ k \in r.keys

(* lifecycle_rule_is_current_due, for a current version created at time    *)
CurrentDue(r, k, time, at) ==
    /\ Applies(r, k)
    /\ \/ r.expiration = "days" /\ OlderThan(time, r.n, at)
       \/ r.expiration = "date" /\ r.n <= at

(* lifecycle_rule_is_noncurrent_due                                        *)
NoncurrentDue(r, k, time, at) ==
    Applies(r, k) /\ r.noncurrent > 0 /\ OlderThan(time, r.noncurrent, at)

(* lifecycle_rule_removes_expired_marker_at                                *)
MarkerDue(r, k, time, at) ==
    \/ Applies(r, k) /\ r.expiration = "marker"
    \/ CurrentDue(r, k, time, at)

(* rule_scan_actions.  select_scan_action walks through the actions of the *)
(* enabled rules, one per round, so that each one gets its turn.           *)
ScanActions(r) ==
    {a \in {"current", "marker", "noncurrent"} :
        /\ r.enabled
        /\ a = "current" => r.expiration \in {"days", "date"}
        /\ a = "marker" => r.expiration # "none"
        /\ a = "noncurrent" => r.noncurrent > 0}

-----------------------------------------------------------------------------
(* The worker *)

IdleWorker ==
    [step |-> "idle", at |-> 0, revision |-> 0, rules |-> {}, rule |-> None,
     action |-> "none", target |-> None, stamp |-> 0]

Worker ==
    [step : {"idle", "listed", "scanned"}, at : Nat, revision : Nat,
     rules : RuleSets \cup {{}}, rule : (UNION RuleSets) \cup {None},
     action : {"none", "current", "marker", "noncurrent"},
     target : Ids \cup {None}, stamp : Nat]

(* run_batch reads the clock, then list_s3_lifecycle_buckets the bucket    *)
ListBucket(at) ==
    /\ worker.step = "idle"
    /\ rules # {}
    /\ worker' = [IdleWorker EXCEPT !.step = "listed", !.at = at,
                                    !.revision = revision, !.rules = rules]
    /\ UNCHANGED <<vars, rules, revision, since>>

IsOnlyVersion(v) == ActiveOf(versions[v].key) = {v}

(* The three candidate queries.  Only the noncurrent one leaves out the    *)
(* versions that Object Lock protects.                                     *)
Candidates(r, action) ==
    {v \in Ids :
        LET k == versions[v].key
            head == objects[k].current = v
        IN  /\ Active(v)
            /\ CASE action = "current" ->
                      ~versions[v].marker /\ head
                      /\ CurrentDue(r, k, versions[v].created, worker.at)
                 [] action = "noncurrent" ->
                      ~versions[v].marker /\ ~head /\ versions[v].noncurrent
                      /\ NoncurrentDue(r, k, since[v], worker.at)
                      /\ ~DeleteLocked(v, worker.at, FALSE)
                 [] action = "marker" ->
                      versions[v].marker /\ head /\ IsOnlyVersion(v)
                      /\ MarkerDue(r, k, versions[v].created, worker.at)}

(* scan_action: the first candidate becomes the target of the command,     *)
(* with the time that the execution will compare                           *)
ScanAction(r, action) ==
    /\ worker.step = "listed"
    /\ r \in worker.rules /\ action \in ScanActions(r)
    /\ \E v \in Candidates(r, action) :
         worker' = [worker EXCEPT !.step = "scanned", !.rule = r, !.action = action,
             !.target = v,
             !.stamp = IF action = "noncurrent" THEN since[v] ELSE versions[v].created]
    /\ UNCHANGED <<vars, rules, revision, since>>

(* The selected action finds nothing, or no rule of the bucket is enabled  *)
ScanNothing ==
    /\ worker.step = "listed"
    /\ \/ \A r \in worker.rules : ScanActions(r) = {}
       \/ \E r \in worker.rules : \E action \in ScanActions(r) :
            Candidates(r, action) = {}
    /\ worker' = IdleWorker
    /\ UNCHANGED <<vars, rules, revision, since>>

-----------------------------------------------------------------------------
(* execute_s3_lifecycle *)

Target == worker.target
TargetKey == versions[Target].key

(* lock_lifecycle_bucket: the configuration is the one that was scanned    *)
Fenced(w) == w.revision = revision /\ w.rule \in rules

(* Seeded fault: the target may have been overwritten since the scan.      *)
CurrentEligibleAsScanned(w) ==
    /\ Active(w.target) /\ ~versions[w.target].marker
    /\ versions[w.target].created = w.stamp
    /\ CurrentDue(w.rule, versions[w.target].key, w.stamp, w.at)

CurrentEligible(w) ==
    /\ objects[versions[w.target].key].current = w.target
    /\ Active(w.target) /\ ~versions[w.target].marker
    /\ versions[w.target].created = w.stamp
    /\ CurrentDue(w.rule, versions[w.target].key, w.stamp, w.at)

(* Seeded fault: the age that the scan saw is trusted.                     *)
NoncurrentEligibleAsScanned(w) ==
    /\ objects[versions[w.target].key].current # w.target
    /\ Active(w.target) /\ ~versions[w.target].marker
    /\ NoncurrentDue(w.rule, versions[w.target].key, w.stamp, w.at)

NoncurrentEligible(w) ==
    /\ objects[versions[w.target].key].current # w.target
    /\ Active(w.target) /\ ~versions[w.target].marker
    /\ versions[w.target].noncurrent /\ since[w.target] = w.stamp
    /\ NoncurrentDue(w.rule, versions[w.target].key, w.stamp, w.at)

(* has_other_active_version is asked again under the object's row lock     *)
MarkerEligible(w) ==
    /\ objects[versions[w.target].key].current = w.target
    /\ Active(w.target) /\ versions[w.target].marker
    /\ MarkerDue(w.rule, versions[w.target].key, versions[w.target].created, w.at)
    /\ IsOnlyVersion(w.target)

(* The data version can be retired: no lock, GC task and bytes in order    *)
CanRetire(v, at) ==
    /\ ~DeleteLocked(v, at, FALSE)
    /\ CanSchedule(v, "lifecycle_expiration")
    /\ used >= PayloadSize(v)

(* Seeded fault: the payload of an expired version is forgotten.           *)
ScheduleNoneExpired(v) == UNCHANGED gcTasks

(* enqueue_lifecycle_gc                                                    *)
ScheduleExpired(v) == gcTasks' = Schedule(v, "lifecycle_expiration")

Finished == worker' = IdleWorker /\ UNCHANGED <<bucket, put, now, rules, revision>>

(* became_noncurrent_at after the step, which stamps it with at            *)
Stamped(at) ==
    since' = [v \in Ids |->
        IF ~Active(v)' \/ ~versions'[v].noncurrent THEN 0
        ELSE IF versions[v].noncurrent THEN since[v] ELSE at]

(* Enabled: an opaque marker hides the version, as of the last midnight    *)
ExpiresEnabled ==
    /\ worker.action = "current" /\ Fenced(worker) /\ CurrentEligible(worker)
    /\ bucket.versioning = "enabled"
    /\ CanMarkNoncurrent(TargetKey, Midnight(worker.at))

ExpireCurrentEnabled(m) ==
    /\ ExpiresEnabled
    /\ versions[m].state = "absent"
    /\ versions' = Published(TargetKey, m,
                             NewMarker(TargetKey, FALSE, Midnight(worker.at)), None)
    /\ AdvanceTo(TargetKey, m)
    /\ Stamped(Midnight(worker.at))
    /\ UNCHANGED <<gcTasks, used>>
    /\ Finished

(* Suspended: a null marker replaces the active null version, the target   *)
(* or an older one, which must not be locked                               *)
ExpiresSuspended ==
    LET old == ActiveNull(TargetKey)
    IN  /\ worker.action = "current" /\ Fenced(worker) /\ CurrentEligible(worker)
        /\ bucket.versioning = "suspended"
        /\ CanMarkNoncurrent(TargetKey, Midnight(worker.at))
        /\ old # None => CanRetire(old, worker.at) /\ CanSupersede(TargetKey, old, worker.at)

ExpireCurrentSuspended(m) ==
    LET old == ActiveNull(TargetKey)
    IN  /\ ExpiresSuspended
        /\ versions[m].state = "absent"
        /\ versions' = Published(TargetKey, m,
                                 NewMarker(TargetKey, TRUE, Midnight(worker.at)), old)
        /\ AdvanceTo(TargetKey, m)
        /\ IF old = None THEN UNCHANGED gcTasks ELSE ScheduleExpired(old)
        /\ used' = used - Released(old)
        /\ Stamped(Midnight(worker.at))
        /\ Finished

(* Unversioned: the null version is removed and the object has no head     *)
ExpiresUnversioned ==
    /\ worker.action = "current" /\ Fenced(worker) /\ CurrentEligible(worker)
    /\ bucket.versioning = "unversioned"
    /\ versions[Target].null
    /\ CanRetire(Target, worker.at)
    /\ CanMarkNoncurrent(TargetKey, worker.at)

ExpireCurrentUnversioned ==
    /\ ExpiresUnversioned
    /\ versions' = [versions EXCEPT ![Target].state = "superseded",
                                    ![Target].noncurrent = TRUE]
    /\ objects' = [objects EXCEPT ![TargetKey].current = None]
    /\ ScheduleExpired(Target)
    /\ used' = used - PayloadSize(Target)
    /\ Stamped(worker.at)
    /\ Finished

ExpiresNoncurrent ==
    /\ worker.action = "noncurrent" /\ Fenced(worker) /\ NoncurrentEligible(worker)
    /\ CanRetire(Target, worker.at)
    /\ versions[Target].null => CanSupersede(TargetKey, Target, worker.at)

ExpireNoncurrent ==
    /\ ExpiresNoncurrent
    /\ versions' = [versions EXCEPT ![Target].state = HiddenState(Target)]
    /\ ScheduleExpired(Target)
    /\ used' = used - PayloadSize(Target)
    /\ Stamped(worker.at)
    /\ UNCHANGED objects
    /\ Finished

(* hide_exact_deleted_version supersedes a null marker, which needs        *)
(* became_noncurrent_at to be set; nothing sets it on this path            *)
RemovesMarker ==
    /\ worker.action = "marker" /\ Fenced(worker) /\ MarkerEligible(worker)
    /\ versions[Target].null => versions[Target].noncurrent

RemoveExpiredMarker ==
    /\ RemovesMarker
    /\ versions' = [versions EXCEPT ![Target].state = HiddenState(Target)]
    /\ objects' = [objects EXCEPT ![TargetKey].current = None]
    /\ Stamped(worker.at)
    /\ UNCHANGED <<gcTasks, used>>
    /\ Finished

(* Locked, changed, not eligible, or an error: nothing is written          *)
ExecuteNothing ==
    /\ worker.step = "scanned"
    /\ ~ExpiresEnabled /\ ~ExpiresSuspended /\ ~ExpiresUnversioned
    /\ ~ExpiresNoncurrent /\ ~RemovesMarker
    /\ worker' = IdleWorker
    /\ UNCHANGED <<vars, rules, revision, since>>

-----------------------------------------------------------------------------
(* Configuration: every change takes the next revision *)

NextRevision == revision < MaxRevision /\ revision' = revision + 1

(* set_s3_bucket_versioning and replace_s3_bucket_object_lock              *)
Configure == ConfigureNext /\ NextRevision /\ UNCHANGED <<rules, since, worker>>

(* replace_s3_bucket_lifecycle, for PutBucketLifecycleConfiguration and    *)
(* DeleteBucketLifecycle                                                   *)
ReplaceLifecycle(set) ==
    /\ set # rules
    /\ rules' = set
    /\ NextRevision
    /\ UNCHANGED <<vars, since, worker>>

-----------------------------------------------------------------------------

(* The first rules were installed before anything else happened            *)
LifecycleInit ==
    /\ Init
    /\ rules \in RuleSets /\ revision = 1
    /\ since = [v \in Ids |-> 0]
    /\ worker = IdleWorker

ExecuteNext ==
    \/ \E m \in Markers : ExpireCurrentEnabled(m) \/ ExpireCurrentSuspended(m)
    \/ ExpireCurrentUnversioned
    \/ ExpireNoncurrent
    \/ RemoveExpiredMarker
    \/ ExecuteNothing

WorkerNext ==
    \/ \E at \in Stamps : ListBucket(at)
    \/ \E r \in UNION RuleSets, action \in {"current", "marker", "noncurrent"} :
         ScanAction(r, action)
    \/ ScanNothing
    \/ ExecuteNext

ClientNext ==
    /\ \/ \E p \in Puts : PutNext(p) /\ Stamped(put[p].at)
       \/ \E k \in Keys, at \in Stamps : DeleteNext(k, at) /\ Stamped(at)
       \/ \E v \in Puts : LockNext(v) /\ UNCHANGED since
       \/ Tick /\ UNCHANGED since
    /\ UNCHANGED <<rules, revision, worker>>

LifecycleNext ==
    \/ ClientNext
    \/ Configure
    \/ \E set \in RuleSets \cup {{}} : ReplaceLifecycle(set)
    \/ WorkerNext

BucketSpec == LifecycleInit /\ [][LifecycleNext]_allVars

-----------------------------------------------------------------------------
(* What lifecycle execution promises *)

(* The history stays consistent when the lifecycle worker writes it beside *)
(* PUTs and DELETEs: the head is the newest active version, only history   *)
(* is noncurrent, one version answers to "null", and every payload that    *)
(* left has one GC task and no bytes in the quota.                         *)
HistoryConsistent ==
    /\ HeadIsNewest
    /\ NoncurrentMarksHistory
    /\ OneActiveNull
    /\ GenerationsOrdered
    /\ GcTasksExact
    /\ UsedBytesExact

LifecycleStep == worker.step = "scanned" /\ worker'.step = "idle"

(* The lifecycle worker removes a data version only under the rules and    *)
(* the versioning in force at that moment, when no lock protects it, and   *)
(* only if it has been noncurrent for the days of a rule, or is the null   *)
(* version of an object whose head is due in a bucket that keeps no        *)
(* history of it.  What the scan saw is not enough.                        *)
OnlyDueVersionsExpire ==
    [][LifecycleStep =>
        \A v \in Puts : Active(v) /\ ~Active(v)' =>
           LET k == versions[v].key
               head == objects[k].current
           IN  /\ ~DeleteLocked(v, now, FALSE)
               /\ \/ /\ head # v
                     /\ \E r \in rules : NoncurrentDue(r, k, since[v], now)
                  \/ /\ bucket.versioning # "enabled" /\ versions[v].null
                     /\ \E r \in rules : CurrentDue(r, k, versions[head].created, now)
      ]_allVars

(* The lifecycle worker takes the head of an object away from its readers  *)
(* only when that very version, the one current at that moment, is due     *)
(* under a rule in force: an object written again after the scan is safe.  *)
OnlyDueHeadsChange ==
    [][LifecycleStep =>
        \A k \in Keys : objects'[k].current # objects[k].current =>
           LET head == versions[objects[k].current]
           IN  \E r \in rules :
                   IF head.marker THEN MarkerDue(r, k, head.created, now)
                   ELSE CurrentDue(r, k, head.created, now)]_allVars
=============================================================================
