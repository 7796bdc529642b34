----------------------------- MODULE AsyncJobs -----------------------------
(***************************************************************************)
(* Batches: POST /api/v1/media/batch with more targets than the            *)
(* synchronous limit stores a job and one result row per medium; workers   *)
(* claim it under an expiring lease, execute the targets one by one and    *)
(* store every result in the transaction that completes the job.  With     *)
(* fewer targets the handler executes the batch itself, after it claimed   *)
(* the idempotency key of the request, and completes the key at the end.   *)
(*                                                                         *)
(* The media rows are shared with clients that edit and delete them and    *)
(* with the worker that finalizes deletions; quota and payloads are left   *)
(* to MediaUploads.  Leases and retry times are flags that time may turn   *)
(* at any moment.  A job's lease token is fresh with every claim, and so   *)
(* is its attempt count, which stands for it.                              *)
(***************************************************************************)
EXTENDS Integers, Sequences, FiniteSets

CONSTANTS
    Jobs,         \* jobs, one for every idempotency key that is used
    Media,        \* media of the application, by their ordinal in a batch
    Workers,      \* loops of run_async_job_worker
    Keys,         \* idempotency keys of synchronous batches
    KeyAction,    \* the action of the requests that use a key
    Callers,      \* requests for a synchronous batch that are served together
    MaxClaims,    \* bound: times one key is claimed, its expiry in between
    MaxAttempts,  \* max_attempts
    Scenes,       \* which batches clients ask for together, with their media
    MaxEdits,     \* bound: client edits of one medium
    NoJob

ASSUME JobAssumption ==
    /\ Jobs \cap Keys = {} /\ Workers \cap Callers = {}
    /\ Media \subseteq Nat /\ IsFiniteSet(Media)  \* a batch lists its targets
    /\ (Jobs \cup Keys) \cap {NoJob, "none", "client", "deletion"} = {}
    /\ Scenes \subseteq [Jobs \cup Keys -> SUBSET Media]
ASSUME AttemptsAssumption == MaxAttempts \in Nat \ {0} /\ MaxClaims \in Nat

VARIABLES
    job,     \* async_jobs rows
    item,    \* async_job_item_results rows
    key,     \* idempotency_keys rows of the synchronous batches
    media,   \* media rows
    outbox,  \* authors of a medium's events, in order
    worker,  \* worker loops, and the handlers of synchronous batches
    targets  \* media_ids of the requests, empty for one that no client sends

vars == <<job, item, key, media, outbox, worker, targets>>

JobStates == {"none", "pending", "running", "completed", "failed", "cancelled"}
ItemStates == {"none", "pending", "succeeded", "failed", "cancelled"}
Actions == {"update", "delete"}  \* an update sets the visibility or the TTL
Authors == Jobs \cup Keys \cup {"client", "deletion"}

(* due: next_attempt_at <= now; leased: leased_until > now                 *)
Job == [state : JobStates, action : Actions, attempts : 0 .. MaxAttempts, leased : BOOLEAN,
        due : BOOLEAN, succeeded : Nat, failed : Nat]

NewJob(a) == [state |-> "pending", action |-> a, attempts |-> 0, leased |-> FALSE, due |-> TRUE,
              succeeded |-> 0, failed |-> 0]

NoRow == [NewJob("update") EXCEPT !.state = "none", !.due = FALSE]

(* claim: how often the key was claimed, which stands for its claim_token  *)
IdempotencyKey == [status : {"none", "in_progress", "completed"}, claim : 0 .. MaxClaims]

(* Who changed a medium: a job's changes are anchored to its creation (0), *)
(* those of a synchronous batch to the claim of its key.                   *)
Stamps == (Authors \cup {"none"}) \X Nat

(* value: who set the field                                                *)
Medium == [state : {"active", "delete_pending", "deleted"}, value : Stamps, revision : Nat]

(* at: the target in execution; seen: its revision when it was read        *)
Worker == [step : {"idle", "items", "read", "write"}, job : Jobs \cup Keys \cup {NoJob},
           token : Nat, at : SUBSET Media, seen : Nat,
           done : [Media -> {"none", "succeeded", "failed"}]]

TypeOK ==
    /\ job \in [Jobs -> Job]
    /\ item \in [Jobs -> [Media -> ItemStates]]
    /\ key \in [Keys -> IdempotencyKey]
    /\ media \in [Media -> Medium]
    /\ \A m \in Media : outbox[m] \in Seq(Stamps) /\ Len(outbox[m]) = media[m].revision
    /\ worker \in [Workers \cup Callers -> Worker]
    /\ \A j \in Jobs : job[j].leased => job[j].state = "running"

Ended(j) == job[j].state \in {"completed", "failed", "cancelled"}

ItemsIn(j, states) == {m \in Media : item[j][m] \in states}

-----------------------------------------------------------------------------
(* Creation *)

(* create_async_job: the job and its pending items.  A key that is in use  *)
(* inserts nothing: the existing job is answered, or a conflict            *)
Create(j, a) ==
    /\ targets[j] # {} /\ job[j].state = "none"
    /\ job' = [job EXCEPT ![j] = NewJob(a)]
    /\ item' = [item EXCEPT ![j] =
         [m \in Media |-> IF m \in targets[j] THEN "pending" ELSE "none"]]
    /\ UNCHANGED <<key, media, outbox, worker>>

-----------------------------------------------------------------------------
(* Leases *)

(* Seeded fault: only pending jobs are looked for.                         *)
ClaimablePending(j) ==
    /\ job[j].attempts < MaxAttempts
    /\ job[j].state = "pending" /\ job[j].due

(* is_claimable_at                                                         *)
Claimable(j) ==
    /\ job[j].attempts < MaxAttempts
    /\ \/ job[j].state = "pending" /\ job[j].due
       \/ job[j].state = "running" /\ ~job[j].leased

(* AsyncJob::claim                                                         *)
Claimed(row) ==
    [row EXCEPT !.state = "running", !.attempts = @ + 1, !.leased = TRUE, !.due = FALSE]

IdleWorker == [step |-> "idle", job |-> NoJob, token |-> 0, at |-> {},
               seen |-> 0,
               done |-> [m \in Media |-> "none"]]

Stop(w) == worker' = [worker EXCEPT ![w] = IdleWorker]

(* claim_async_jobs: lease and attempt first, then the pending items       *)
Claim(w, j) ==
    /\ worker[w].step = "idle"
    /\ Claimable(j)
    /\ job' = [job EXCEPT ![j] = Claimed(@)]
    /\ worker' = [worker EXCEPT ![w] =
         [IdleWorker EXCEPT !.step = "items", !.job = j, !.token = job[j].attempts + 1]]
    /\ UNCHANGED <<item, key, media, outbox>>

(* owns_lease: state, token and expiry                                     *)
Owns(w) ==
    LET j == worker[w].job
    IN  /\ j \in Jobs
        /\ job[j].state = "running" /\ job[j].leased
        /\ job[j].attempts = worker[w].token

(* renew_async_job_lease answers no, or fails: the worker drops the job,   *)
(* before an item or while one is executed, and records nothing.  So does  *)
(* the handler of a synchronous batch whose client goes away.              *)
Abandon(w) ==
    /\ worker[w].step # "idle"
    /\ Stop(w)
    /\ UNCHANGED <<job, item, key, media, outbox>>

-----------------------------------------------------------------------------
(* Items *)

(* The targets a worker read with its claim, or those of the request       *)
Todo(w) == IF w \in Callers THEN targets[worker[w].job] ELSE ItemsIn(worker[w].job, {"pending"})

Remaining(w) == {m \in Todo(w) : worker[w].done[m] = "none"}

ActionOf(w) == IF w \in Callers THEN KeyAction[worker[w].job] ELSE job[worker[w].job].action

(* a worker renews its lease before every target, in order of the ordinals *)
BeginItem(w, m) ==
    /\ worker[w].step = "items"
    /\ m \in Remaining(w) /\ \A n \in Remaining(w) : m <= n
    /\ w \in Callers \/ Owns(w)
    /\ worker' = [worker EXCEPT ![w].step = "read", ![w].at = {m}]
    /\ UNCHANGED <<job, item, key, media, outbox>>

Record(w, m, result) ==
    worker' = [worker EXCEPT ![w].step = "items", ![w].at = {}, ![w].done[m] = result,
                             ![w].seen = 0]

(* Which execution an event comes from: a job, or one claim of a key       *)
Stamp(w) == <<worker[w].job, IF w \in Callers THEN worker[w].token ELSE 0>>

(* Seeded fault: the new value is anchored to the attempt, not to the job. *)
NewValueOfAttempt(w) == <<worker[w].job, worker[w].token>>

(* action_effective_at is created_at of the job, or the time of the request *)
NewValue(w) == <<worker[w].job, IF w \in Callers THEN worker[w].token ELSE 0>>

(* what execute_batch_action answers without a write                       *)
Verdict(w, row) ==
    CASE ActionOf(w) = "delete" /\ row.state # "active" -> "succeeded"
      [] row.state # "active" -> "failed"
      [] ActionOf(w) = "update" /\ row.value = NewValue(w) -> "succeeded"
      [] OTHER -> "none"

(* execute_batch_action: the row is read, and the answer may be known      *)
ReadItem(w, m) ==
    /\ worker[w].step = "read" /\ m \in worker[w].at
    /\ IF Verdict(w, media[m]) # "none"
       THEN Record(w, m, Verdict(w, media[m]))
       ELSE worker' = [worker EXCEPT ![w].step = "write", ![w].seen = media[m].revision]
    /\ UNCHANGED <<job, item, key, media, outbox>>

Announce(m, author) == outbox' = [outbox EXCEPT ![m] = Append(@, author)]

(* the WHERE clause of update_media                                        *)
Updatable(row, expected) == row.state = "active" /\ row.revision = expected

(* update_media with the revision that was read                            *)
WriteUpdate(w, m) ==
    /\ worker[w].step = "write" /\ m \in worker[w].at
    /\ ActionOf(w) = "update"
    /\ IF Updatable(media[m], worker[w].seen)
       THEN /\ media' = [media EXCEPT ![m].value = NewValue(w), ![m].revision = @ + 1]
            /\ Announce(m, Stamp(w))
            /\ Record(w, m, "succeeded")
       ELSE Record(w, m, "failed") /\ UNCHANGED <<media, outbox>>
    /\ UNCHANGED <<job, item, key>>

(* schedule_delete: idempotent while pending, refused once deleted         *)
WriteDelete(w, m) ==
    /\ worker[w].step = "write" /\ m \in worker[w].at
    /\ ActionOf(w) = "delete"
    /\ IF media[m].state = "active"
       THEN /\ media' = [media EXCEPT ![m].state = "delete_pending", ![m].revision = @ + 1]
            /\ Announce(m, Stamp(w))
       ELSE UNCHANGED <<media, outbox>>
    /\ Record(w, m, IF media[m].state = "deleted" THEN "failed" ELSE "succeeded")
    /\ UNCHANGED <<job, item, key>>

(* batch_repository_error: the read or the write fails as unavailable      *)
ItemFails(w, m) ==
    /\ worker[w].step \in {"read", "write"} /\ m \in worker[w].at
    /\ Record(w, m, "failed")
    /\ UNCHANGED <<job, item, key, media, outbox>>

-----------------------------------------------------------------------------
(* Synchronous batches *)

(* claim_idempotency_key: the first request inserts the key; another one   *)
(* is told that it is in progress, or gets the recorded answer             *)
ClaimKey(c, k) ==
    /\ targets[k] # {} /\ worker[c].step = "idle"
    /\ key[k].status = "none" /\ key[k].claim < MaxClaims
    /\ key' = [key EXCEPT ![k] = [status |-> "in_progress", claim |-> @.claim + 1]]
    /\ worker' = [worker EXCEPT ![c] =
         [IdleWorker EXCEPT !.step = "items", !.job = k, !.token = key[k].claim + 1]]
    /\ UNCHANGED <<job, item, media, outbox>>

(* complete_in_transaction: only the claim that is still in progress       *)
HoldsKey(c) == key[worker[c].job] = [status |-> "in_progress", claim |-> worker[c].token]

(* complete_idempotency_key records the answer, or there is none           *)
CompleteKey(c) ==
    /\ worker[c].step = "items" /\ Remaining(c) = {}
    /\ key' = IF HoldsKey(c) THEN [key EXCEPT ![worker[c].job].status = "completed"] ELSE key
    /\ Stop(c)
    /\ UNCHANGED <<job, item, media, outbox>>

(* expires_at is over and the next claim of any key deletes the row, the   *)
(* only way out for a key whose request died                               *)
ExpireKey(k) ==
    /\ key[k].status # "none"
    /\ key' = [key EXCEPT ![k].status = "none"]
    /\ UNCHANGED <<job, item, media, outbox, worker>>

(* batch_media, up to the limit of a synchronous batch                     *)
BatchMedia(c) ==
    \/ \E k \in Keys : ClaimKey(c, k)
    \/ \E m \in Media : BeginItem(c, m) \/ ReadItem(c, m) \/ WriteUpdate(c, m) \/ WriteDelete(c, m)
    \/ CompleteKey(c)

-----------------------------------------------------------------------------
(* The end of an attempt *)

(* the results cover the pending items exactly                             *)
Covers(w) ==
    {m \in Media : worker[w].done[m] # "none"} = ItemsIn(worker[w].job, {"pending"})

Stored(w) ==
    [m \in Media |-> IF item[worker[w].job][m] = "pending" THEN worker[w].done[m]
                     ELSE item[worker[w].job][m]]

(* AsyncJob::complete, with the counts of the result rows                  *)
Completed(row, results) ==
    [row EXCEPT !.state = "completed", !.leased = FALSE,
                !.succeeded = Cardinality({m \in Media : results[m] = "succeeded"}),
                !.failed = Cardinality({m \in Media : results[m] \in {"failed", "cancelled"}})]

(* complete_async_job: results and job in one transaction, if the lease is *)
(* still the worker's                                                      *)
Complete(w) ==
    LET j == worker[w].job
    IN  /\ worker[w].step = "items" /\ Remaining(w) = {}
        /\ IF Owns(w) /\ Covers(w)
           THEN /\ item' = [item EXCEPT ![j] = Stored(w)]
                /\ job' = [job EXCEPT ![j] = Completed(@, Stored(w))]
           ELSE UNCHANGED <<item, job>>
        /\ Stop(w)
        /\ UNCHANGED <<key, media, outbox>>

(* AsyncJob::fail                                                          *)
Failed(row) ==
    [row EXCEPT !.leased = FALSE,
                !.state = IF row.attempts >= MaxAttempts THEN "failed" ELSE "pending"]

(* fail_async_job, after a result that could not be built                  *)
Fail(w) ==
    LET j == worker[w].job
    IN  /\ worker[w].step = "items"
        /\ job' = IF Owns(w) THEN [job EXCEPT ![j] = Failed(@)] ELSE job
        /\ Stop(w)
        /\ UNCHANGED <<item, key, media, outbox>>

(* Seeded fault: the pending items keep their state.                       *)
CancelJobOnly(j) ==
    /\ job[j].state \in {"pending", "running"}
    /\ job' = [job EXCEPT ![j].state = "cancelled", ![j].leased = FALSE, ![j].due = FALSE]
    /\ UNCHANGED <<item, key, media, outbox, worker>>

(* cancel_async_job; refused or repeated in every other state              *)
Cancel(j) ==
    /\ job[j].state \in {"pending", "running"}
    /\ job' = [job EXCEPT ![j].state = "cancelled", ![j].leased = FALSE, ![j].due = FALSE]
    /\ item' = [item EXCEPT ![j] =
         [m \in Media |-> IF @[m] = "pending" THEN "cancelled" ELSE @[m]]]
    /\ UNCHANGED <<key, media, outbox, worker>>

-----------------------------------------------------------------------------
(* Other actors on the media rows, and time *)

(* bound: clients change only media that a batch is about                  *)
InBatch(m) == \E x \in Jobs \cup Keys : m \in targets[x]

(* a client's PATCH of an active medium                                    *)
Edit(m) ==
    /\ InBatch(m) /\ media[m].state = "active"
    /\ Len(SelectSeq(outbox[m], LAMBDA a : a[1] = "client")) < MaxEdits
    /\ media' = [media EXCEPT ![m].value = <<"client", 0>>, ![m].revision = @ + 1]
    /\ Announce(m, <<"client", 0>>)
    /\ UNCHANGED <<job, item, key, worker>>

(* a client's DELETE                                                       *)
Delete(m) ==
    /\ InBatch(m) /\ media[m].state = "active"
    /\ media' = [media EXCEPT ![m].state = "delete_pending", ![m].revision = @ + 1]
    /\ Announce(m, <<"client", 0>>)
    /\ UNCHANGED <<job, item, key, worker>>

(* finalize_delete                                                         *)
FinalizeDelete(m) ==
    /\ media[m].state = "delete_pending"
    /\ media' = [media EXCEPT ![m].state = "deleted", ![m].revision = @ + 1]
    /\ Announce(m, <<"deletion", 0>>)
    /\ UNCHANGED <<job, item, key, worker>>

LeaseEnds(j) ==
    /\ job[j].leased
    /\ job' = [job EXCEPT ![j].leased = FALSE]
    /\ UNCHANGED <<item, key, media, outbox, worker>>

RetryDue(j) ==
    /\ job[j].state = "pending" /\ ~job[j].due
    /\ job' = [job EXCEPT ![j].due = TRUE]
    /\ UNCHANGED <<item, key, media, outbox, worker>>

-----------------------------------------------------------------------------
Init ==
    /\ job = [j \in Jobs |-> NoRow]
    /\ item = [j \in Jobs |-> [m \in Media |-> "none"]]
    /\ key = [k \in Keys |-> [status |-> "none", claim |-> 0]]
    /\ media = [m \in Media |-> [state |-> "active", value |-> <<"none", 0>>, revision |-> 0]]
    /\ outbox = [m \in Media |-> <<>>]
    /\ worker = [w \in Workers \cup Callers |-> IdleWorker]
    /\ targets \in Scenes

Work(w) ==
    \/ \E j \in Jobs : Claim(w, j)
    \/ \E m \in Media : BeginItem(w, m) \/ ReadItem(w, m) \/ WriteUpdate(w, m) \/ WriteDelete(w, m)
    \/ Complete(w)

Step ==
    \/ \E j \in Jobs, a \in Actions : Create(j, a)
    \/ \E j \in Jobs : Cancel(j) \/ LeaseEnds(j) \/ RetryDue(j)
    \/ \E w \in Workers : Work(w) \/ Fail(w)
    \/ \E c \in Callers : BatchMedia(c)
    \/ \E w \in Workers \cup Callers : Abandon(w) \/ \E m \in Media : ItemFails(w, m)
    \/ \E k \in Keys : ExpireKey(k)
    \/ \E m \in Media : Edit(m) \/ Delete(m) \/ FinalizeDelete(m)

Next == Step /\ UNCHANGED targets

(* Time passes, and a worker goes on unless its lease is gone; crashes and *)
(* failures stay possible, and are bounded by the attempts                 *)
Fairness ==
    /\ \A j \in Jobs : WF_vars(LeaseEnds(j) /\ UNCHANGED targets)
                        /\ WF_vars(RetryDue(j) /\ UNCHANGED targets)
    /\ \A w \in Workers : WF_vars(Work(w) /\ UNCHANGED targets)
                           /\ WF_vars(Abandon(w) /\ ~Owns(w) /\ UNCHANGED targets)

Spec == Init /\ [][Next]_vars
FairSpec == Spec /\ Fairness

-----------------------------------------------------------------------------
(* Properties *)

(* Results are published only with the end of a job: while it is pending   *)
(* or running every target is pending, a completed job has a result for    *)
(* every target and exact counters, a cancelled one no pending target.     *)
ItemsMatchJob ==
    \A j \in Jobs :
        /\ job[j].state \in {"pending", "running", "failed"} =>
               ItemsIn(j, {"pending"}) = targets[j]
        /\ job[j].state = "cancelled" => ItemsIn(j, {"cancelled"}) = targets[j]
        /\ job[j].state = "completed" =>
               /\ ItemsIn(j, {"succeeded", "failed"}) = targets[j]
               /\ job[j].succeeded = Cardinality(ItemsIn(j, {"succeeded"}))
               /\ job[j].failed = Cardinality(ItemsIn(j, {"failed"}))

(* Retries are replay-safe: whatever crashes, lost leases and overlapping  *)
(* workers do, a job changes (and announces) a medium a second time only   *)
(* after somebody else changed it in between; and so does a synchronous    *)
(* batch that is sent again with its key, for as long as the key lives.    *)
ReplaySafe ==
    \A m \in Media : \A n \in 1 .. Len(outbox[m]) - 1 :
        outbox[m][n][1] \in Jobs \cup Keys => outbox[m][n + 1] # outbox[m][n]

(* Every created job ends, or has spent its attempts and lost its last     *)
(* lease: nothing claims such a job again, and it stays running.           *)
Spent(j) == job[j].state = "running" /\ job[j].attempts = MaxAttempts /\ ~job[j].leased

EveryJobSettles == \A j \in Jobs : job[j].state # "none" ~> Ended(j) \/ Spent(j)
=============================================================================
