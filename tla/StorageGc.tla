----------------------------- MODULE StorageGc -----------------------------
(***************************************************************************)
(* The durable queue of storage deletions (table storage_gc_tasks) and the *)
(* cleanup workers that drain it.                                          *)
(*                                                                         *)
(* One worker runs in each server process.  It claims a batch of due tasks *)
(* under one lease, then deletes the payloads one by one and acknowledges  *)
(* each deletion in a transaction of its own, which only counts while the  *)
(* lease is its own and still live.  Time is not measured: a deadline is a *)
(* flag that TimePasses may turn at any moment, so every order in which    *)
(* deadlines can pass is covered.  The lease token is a fresh UUID for     *)
(* each claim; as a claim also increments the task's attempts, the attempt *)
(* number stands for the token.                                            *)
(***************************************************************************)
EXTENDS Naturals, FiniteSets

CONSTANTS
    StorageKeys,  \* keys of the object store; UNIQUE (storage_backend, storage_key)
    Workers,      \* server processes
    MaxAttempts,  \* max_attempts of every task
    None

ASSUME MaxAttemptsAssumption == MaxAttempts \in Nat \ {0}
ASSUME NoneAssumption == None \notin StorageKeys \X Nat

VARIABLES
    gc,      \* the queue: one row per storage key at most
    blobs,   \* keys present in the object store
    worker   \* local state of each worker

gcVars == <<gc, blobs, worker>>

GcStates == {"none", "pending", "leased", "completed", "dead_letter"}

(* due: not_before <= now; live: lease_until > now                         *)
Task == [state : GcStates, due : BOOLEAN, live : BOOLEAN, attempts : 0..MaxAttempts]

NoTask == [state |-> "none", due |-> FALSE, live |-> FALSE, attempts |-> 0]

(* held: claimed and not yet processed; acting: the deletion whose         *)
(* acknowledgement is still to be written, and how the deletion went       *)
Claims == StorageKeys \X (1..MaxAttempts)

Worker == [held : SUBSET Claims, acting : Claims \cup {None}, ok : BOOLEAN]

IdleWorker == [held |-> {}, acting |-> None, ok |-> FALSE]

GcTypeOK ==
    /\ gc \in [StorageKeys -> Task]
    /\ blobs \subseteq StorageKeys
    /\ worker \in [Workers -> Worker]

GcInit ==
    /\ gc = [k \in StorageKeys |-> NoTask]
    /\ worker = [w \in Workers |-> IdleWorker]

-----------------------------------------------------------------------------
(* insert_storage_gc_task for each key of keys: ON CONFLICT DO NOTHING.    *)
(* due says whether not_before is already reached.                         *)
Enqueued(keys, due) ==
    [k \in StorageKeys |->
        IF k \in keys /\ gc[k].state = "none"
        THEN [state |-> "pending", due |-> due, live |-> FALSE, attempts |-> 0]
        ELSE gc[k]]

Reachable(k) ==
    \/ gc[k].state = "pending" /\ gc[k].due
    \/ gc[k].state = "leased" /\ ~gc[k].live

Exhausted == {k \in StorageKeys : Reachable(k) /\ gc[k].attempts >= MaxAttempts}

Claimable == {k \in StorageKeys : Reachable(k) /\ gc[k].attempts < MaxAttempts}

(* claim_storage_gc_tasks: dead-letters the exhausted tasks, then leases a *)
(* batch of the due ones (SKIP LOCKED and LIMIT make it any part of them). *)
Claim(w, batch) ==
    /\ worker[w] = IdleWorker
    /\ batch \cup Exhausted # {}
    /\ gc' = [k \in StorageKeys |->
         CASE k \in Exhausted -> [gc[k] EXCEPT !.state = "dead_letter", !.live = FALSE]
           [] k \in batch -> [gc[k] EXCEPT !.state = "leased", !.live = TRUE,
                                           !.attempts = gc[k].attempts + 1]
           [] OTHER -> gc[k]]
    /\ worker' = [worker EXCEPT ![w] =
         [IdleWorker EXCEPT !.held = {<<k, gc[k].attempts + 1>> : k \in batch}]]
    /\ UNCHANGED blobs

(* object_store.delete: done (a missing object counts as done) or failed,  *)
(* in which case the payload may be gone all the same.                     *)
Delete(w, claim, ok, remaining) ==
    /\ claim \in worker[w].held
    /\ worker[w].acting = None
    /\ ok => remaining = blobs \ {claim[1]}
    /\ blobs' = remaining
    /\ worker' = [worker EXCEPT ![w] =
         [held |-> @.held \ {claim}, acting |-> claim, ok |-> ok]]
    /\ UNCHANGED gc

Owns(claim) ==
    /\ gc[claim[1]].state = "leased"
    /\ gc[claim[1]].attempts = claim[2]
    /\ gc[claim[1]].live

(* complete_storage_gc_task and fail_storage_gc_task; without the lease    *)
(* both are refused and the worker only logs it.                           *)
Acknowledged(claim, ok) ==
    LET task == gc[claim[1]]
    IN  IF ok THEN [task EXCEPT !.state = "completed", !.live = FALSE]
        ELSE IF task.attempts >= MaxAttempts
        THEN [task EXCEPT !.state = "dead_letter", !.live = FALSE]
        ELSE [task EXCEPT !.state = "pending", !.due = FALSE, !.live = FALSE]

Acknowledge(w) ==
    LET claim == worker[w].acting
    IN  /\ claim # None
        /\ gc' = IF Owns(claim)
                 THEN [gc EXCEPT ![claim[1]] = Acknowledged(claim, worker[w].ok)]
                 ELSE gc
        /\ worker' = [worker EXCEPT ![w] = [@ EXCEPT !.acting = None, !.ok = FALSE]]
        /\ UNCHANGED blobs

(* The process stops and is restarted: its claims are forgotten.           *)
CrashWorker(w) ==
    /\ worker[w] # IdleWorker
    /\ worker' = [worker EXCEPT ![w] = IdleWorker]
    /\ UNCHANGED <<gc, blobs>>

(* not_before or lease_until passes for task k                             *)
TaskTimePasses(k) ==
    /\ \/ /\ gc[k].state = "pending" /\ ~gc[k].due
          /\ gc' = [gc EXCEPT ![k].due = TRUE]
       \/ /\ gc[k].state = "leased" /\ gc[k].live
          /\ gc' = [gc EXCEPT ![k].live = FALSE]
    /\ UNCHANGED <<blobs, worker>>

Process(w) ==
    \/ \E batch \in SUBSET Claimable : Claim(w, batch)
    \/ \E claim \in worker[w].held, ok \in BOOLEAN :
         \E remaining \in {blobs, blobs \ {claim[1]}} : Delete(w, claim, ok, remaining)
    \/ Acknowledge(w)

GcNext ==
    \/ \E w \in Workers : Process(w) \/ CrashWorker(w)
    \/ \E k \in StorageKeys : TaskTimePasses(k)

=============================================================================
