------------------------ MODULE UploadIntents_proofs ------------------------
(***************************************************************************)
(* Proofs about the upload plane, for any number of PUT requests, sizes,   *)
(* quotas, cleanup workers and deletion attempts.                          *)
(***************************************************************************)
EXTENDS UploadIntents, Sums_proofs

Live == {i \in Intents : Open(i)}
Shown == {i \in Intents : version[i] = "active"}

-----------------------------------------------------------------------------
(* The inductive invariant.                                                *)

(* A handler that has not started has no intent yet.                       *)
StartHasNoIntent == \A i \in Intents : handler[i].step = "start" => intent[i].state = "none"

(* Only a committed intent has a version.                                  *)
VersionsCommitted == \A i \in Intents : version[i] # "absent" => intent[i].state = "committed"

(* Deletion of a final key is scheduled only when no version can use it.   *)
TasksAreForTheDead ==
    \A i \in Intents : gc[Final(i)].state # "none" =>
        intent[i].state \in {"aborted", "expired"} \/ version[i] = "retired"

(* What a cleanup worker holds comes from the queue, which forgets no key. *)
ClaimsHaveTasks ==
    \A w \in Workers : \A c \in Claims :
        c \in worker[w].held \/ worker[w].acting = c => gc[c[1]].state # "none"

(* As long as its intent is open, a prepared handler keeps the payload it  *)
(* saw: its temporary key may go, the final one may not.                   *)
PreparedHasPayload ==
    \A i \in Intents : handler[i].step = "prepared" /\ Open(i) => Final(i) \in blobs

Linked ==
    /\ StartHasNoIntent
    /\ VersionsCommitted
    /\ TasksAreForTheDead
    /\ ClaimsHaveTasks
    /\ PreparedHasPayload
    /\ ActivePayloadPresent

UploadInv ==
    /\ TypeOK
    /\ Linked
    /\ LedgerExact
    /\ WithinQuota

-----------------------------------------------------------------------------
(* What the steps write, in terms of one row.                              *)

LEMMA KeysDiffer ==
    ASSUME NEW i \in Intents
    PROVE  /\ Final(i) \in StorageKeys /\ Temporary(i) \in StorageKeys
           /\ \A j \in Intents : Final(i) # Temporary(j) /\ (Final(i) = Final(j) => i = j)
<1>1. \A j \in Intents : Final(i) # Temporary(j) /\ (Final(i) = Final(j) => i = j)
  BY DEF Final, Temporary
<1> QED BY <1>1, KeyAssumption

LEMMA SetStateRow ==
    ASSUME TypeOK, NEW i \in Intents, NEW state \in IntentStates, SetState(i, state)
    PROVE  /\ intent' \in [Intents -> Intent]
           /\ intent'[i].state = state /\ ~intent'[i].leased
           /\ \A j \in Intents \ {i} : intent'[j] = intent[j]
<1>1. PICK row \in Intent : row = intent[i]
  BY DEF TypeOK
<1> DEFINE new == [row EXCEPT !.state = state, !.leased = FALSE]
<1>2. new \in Intent /\ new.state = state /\ ~new.leased
  BY DEF Intent
<1>3. intent' = [intent EXCEPT ![i] = new]
  BY <1>1 DEF SetState
<1> HIDE DEF new
<1> QED BY <1>1, <1>2, <1>3 DEF TypeOK

LEMMA GotoRow ==
    ASSUME TypeOK, NEW i \in Intents, NEW step \in HandlerSteps, Goto(i, step)
    PROVE  /\ handler' \in [Intents -> Handler]
           /\ handler'[i].step = step
           /\ \A j \in Intents \ {i} : handler'[j] = handler[j]
BY DEF TypeOK, Goto, Handler

(* A key that has a task keeps it; the keys that are handed over get one.  *)
LEMMA EnqueuedRows ==
    ASSUME GcTypeOK, NEW keys, NEW due \in BOOLEAN
    PROVE  /\ Enqueued(keys, due) \in [StorageKeys -> Task]
           /\ \A k \in StorageKeys :
                Enqueued(keys, due)[k].state = "none" <=> gc[k].state = "none" /\ k \notin keys
<1>1. [state |-> "pending", due |-> due, live |-> FALSE, attempts |-> 0] \in Task
  BY MaxAttemptsAssumption DEF Task, GcStates
<1> QED BY <1>1 DEF Enqueued, GcTypeOK

-----------------------------------------------------------------------------
(* The queue                                                               *)

(* A step of the queue keeps its types, takes no key from it and deletes   *)
(* only payloads that have a task.                                         *)
LEMMA QueueStep ==
    ASSUME GcTypeOK, ClaimsHaveTasks, GcNext
    PROVE  /\ GcTypeOK' /\ ClaimsHaveTasks'
           /\ \A k \in StorageKeys : gc'[k].state = "none" <=> gc[k].state = "none"
           /\ \A k \in blobs : k \in blobs' \/ gc[k].state # "none"
<1>1. IdleWorker \in Worker /\ IdleWorker.held = {} /\ IdleWorker.acting = None
  BY DEF IdleWorker, Worker
<1>2. None \notin Claims
  BY NoneAssumption, MaxAttemptsAssumption DEF Claims
<1>3. ASSUME NEW w \in Workers, NEW batch \in SUBSET Claimable, Claim(w, batch)
      PROVE  /\ GcTypeOK' /\ ClaimsHaveTasks' /\ blobs' = blobs
             /\ \A k \in StorageKeys : gc'[k].state = "none" <=> gc[k].state = "none"
  <2> DEFINE held == {<<k, gc[k].attempts + 1>> : k \in batch}
  <2>1. \A k \in StorageKeys : gc[k] \in Task
    BY DEF GcTypeOK
  <2>2. \A r \in Task : /\ [r EXCEPT !.state = "dead_letter", !.live = FALSE] \in Task
                        /\ [r EXCEPT !.state = "dead_letter", !.live = FALSE].state = "dead_letter"
    BY DEF Task, GcStates
  <2>3. ASSUME NEW r \in Task, NEW n \in 0 .. MaxAttempts
        PROVE  /\ [r EXCEPT !.state = "leased", !.live = TRUE, !.attempts = n] \in Task
               /\ [r EXCEPT !.state = "leased", !.live = TRUE, !.attempts = n].state = "leased"
    BY DEF Task, GcStates
  <2>4. ASSUME NEW k \in StorageKeys
        PROVE  gc'[k] \in Task /\ (gc'[k].state = "none" <=> gc[k].state = "none")
    <3>1. k \in batch => gc[k].attempts + 1 \in 0 .. MaxAttempts
      BY <2>1, MaxAttemptsAssumption DEF Claimable, Task
    <3> QED BY <1>3, <2>1, <2>2, <2>3, <3>1 DEF Claim, Claimable, Exhausted, Reachable
  <2>5. held \subseteq Claims /\ \A c \in held : gc[c[1]].state # "none" /\ c[1] \in StorageKeys
    BY <2>1, MaxAttemptsAssumption DEF Claims, Claimable, Reachable, Task
  <2>6. [IdleWorker EXCEPT !.held = held] \in Worker
        /\ [IdleWorker EXCEPT !.held = held].held = held
        /\ [IdleWorker EXCEPT !.held = held].acting = None
    BY <2>5 DEF IdleWorker, Worker
  <2>7. worker' = [worker EXCEPT ![w] = [IdleWorker EXCEPT !.held = held]] /\ blobs' = blobs
    BY <1>3 DEF Claim
  <2> HIDE DEF held
  <2>8. GcTypeOK'
    BY <1>3, <2>4, <2>6, <2>7 DEF GcTypeOK, Claim
  <2>9. ClaimsHaveTasks'
    BY <1>2, <2>4, <2>5, <2>6, <2>7 DEF ClaimsHaveTasks, GcTypeOK, Claims
  <2> QED BY <2>4, <2>7, <2>8, <2>9
<1>4. ASSUME NEW w \in Workers, NEW claim \in worker[w].held, NEW ok \in BOOLEAN,
             NEW remaining \in {blobs, blobs \ {claim[1]}}, Delete(w, claim, ok, remaining)
      PROVE  /\ GcTypeOK' /\ ClaimsHaveTasks' /\ gc' = gc
             /\ \A k \in blobs : k \in blobs' \/ gc[k].state # "none"
  <2>1. claim \in Claims /\ worker[w] \in Worker
    BY DEF GcTypeOK, Worker
  <2>2. [held |-> worker[w].held \ {claim}, acting |-> claim, ok |-> ok] \in Worker
    BY <2>1 DEF Worker
  <2>3. gc' = gc /\ worker' = [worker EXCEPT ![w] =
                [held |-> worker[w].held \ {claim}, acting |-> claim, ok |-> ok]]
    BY <1>4 DEF Delete
  <2>4. GcTypeOK'
    BY <1>4, <2>2, <2>3 DEF GcTypeOK, Delete
  <2>5. ClaimsHaveTasks'
    BY <2>1, <2>3 DEF ClaimsHaveTasks, GcTypeOK
  <2>6. gc[claim[1]].state # "none" /\ \A k \in blobs : k \in blobs' \/ k = claim[1]
    BY <1>4, <2>1 DEF ClaimsHaveTasks, Delete
  <2> QED BY <2>3, <2>4, <2>5, <2>6
<1>5. ASSUME NEW w \in Workers, Acknowledge(w)
      PROVE  /\ GcTypeOK' /\ ClaimsHaveTasks' /\ blobs' = blobs
             /\ \A k \in StorageKeys : gc'[k].state = "none" <=> gc[k].state = "none"
  <2> DEFINE claim == worker[w].acting
             task == gc[claim[1]]
  <2>1. claim \in Claims /\ claim[1] \in StorageKeys /\ task \in Task /\ task.state # "none"
    BY <1>5 DEF Acknowledge, GcTypeOK, Worker, ClaimsHaveTasks, Claims
  <2>2. \A r \in Task : /\ [r EXCEPT !.state = "completed", !.live = FALSE] \in Task
                        /\ [r EXCEPT !.state = "dead_letter", !.live = FALSE] \in Task
                        /\ [r EXCEPT !.state = "pending", !.due = FALSE, !.live = FALSE] \in Task
                        /\ [r EXCEPT !.state = "completed", !.live = FALSE].state # "none"
                        /\ [r EXCEPT !.state = "dead_letter", !.live = FALSE].state # "none"
                        /\ [r EXCEPT !.state = "pending", !.due = FALSE,
                                     !.live = FALSE].state # "none"
    BY DEF Task, GcStates
  <2>3. \A ok \in BOOLEAN : Acknowledged(claim, ok) \in Task /\ Acknowledged(claim, ok).state # "none"
    BY <2>1, <2>2 DEF Acknowledged
  <2>4. \A r \in Worker : [r EXCEPT !.acting = None, !.ok = FALSE] \in Worker
                          /\ [r EXCEPT !.acting = None, !.ok = FALSE].held = r.held
                          /\ [r EXCEPT !.acting = None, !.ok = FALSE].acting = None
    BY DEF Worker
  <2>5. worker[w] \in Worker /\ worker[w].ok \in BOOLEAN
    BY DEF GcTypeOK, Worker
  <2>6. worker' = [worker EXCEPT ![w] = [@ EXCEPT !.acting = None, !.ok = FALSE]]
    BY <1>5 DEF Acknowledge
  <2>7. gc' \in [StorageKeys -> Task]
        /\ \A k \in StorageKeys : gc'[k].state = "none" <=> gc[k].state = "none"
    BY <1>5, <2>1, <2>3, <2>5 DEF Acknowledge, GcTypeOK
  <2>8. GcTypeOK' /\ blobs' = blobs
    BY <1>5, <2>4, <2>5, <2>6, <2>7 DEF GcTypeOK, Acknowledge
  <2>9. ClaimsHaveTasks'
    BY <1>2, <2>4, <2>5, <2>6, <2>7 DEF ClaimsHaveTasks, GcTypeOK, Claims
  <2> QED BY <2>7, <2>8, <2>9
<1>6. ASSUME NEW w \in Workers, CrashWorker(w)
      PROVE  GcTypeOK' /\ ClaimsHaveTasks' /\ blobs' = blobs /\ gc' = gc
  BY <1>1, <1>2, <1>6 DEF CrashWorker, GcTypeOK, ClaimsHaveTasks
<1>7. ASSUME NEW k \in StorageKeys, TaskTimePasses(k)
      PROVE  /\ GcTypeOK' /\ ClaimsHaveTasks' /\ blobs' = blobs
             /\ \A l \in StorageKeys : gc'[l].state = "none" <=> gc[l].state = "none"
  <2>1. gc' \in [StorageKeys -> Task]
        /\ \A l \in StorageKeys : gc'[l].state = "none" <=> gc[l].state = "none"
    <3>1. \A r \in Task : /\ [r EXCEPT !.due = TRUE] \in Task
                          /\ [r EXCEPT !.due = TRUE].state = r.state
                          /\ [r EXCEPT !.live = FALSE] \in Task
                          /\ [r EXCEPT !.live = FALSE].state = r.state
      BY DEF Task
    <3>2. PICK r \in Task : r = gc[k]
      BY DEF GcTypeOK
    <3>3. \/ gc' = [gc EXCEPT ![k] = [r EXCEPT !.due = TRUE]]
          \/ gc' = [gc EXCEPT ![k] = [r EXCEPT !.live = FALSE]]
      BY <1>7, <3>2 DEF TaskTimePasses
    <3> QED BY <3>1, <3>2, <3>3 DEF GcTypeOK
  <2> QED BY <1>7, <2>1 DEF TaskTimePasses, GcTypeOK, ClaimsHaveTasks, Claims
<1> QED BY <1>3, <1>4, <1>5, <1>6, <1>7 DEF GcNext, Process

-----------------------------------------------------------------------------
(* The handlers                                                            *)

IntentTypes ==
    /\ intent \in [Intents -> Intent]
    /\ handler \in [Intents -> Handler]
    /\ \A i \in Intents : intent[i].leased => intent[i].state = "committing"

(* A step that begins and ends no intent: it moves a handler, an open      *)
(* intent, or a payload, and removes no final key.                         *)
Still ==
    /\ UNCHANGED <<gc, worker, version, reserved, used>>
    /\ IntentTypes'
    /\ blobs' \subseteq StorageKeys
    /\ \A i \in Intents : Final(i) \in blobs => Final(i) \in blobs'
    /\ \A i \in Intents :
         /\ intent'[i].state = intent[i].state \/ (Open(i) /\ Open(i)')
         /\ handler'[i].step = "start" => handler[i].step = "start" /\ intent'[i] = intent[i]
         /\ handler'[i].step = "prepared" => handler[i].step = "prepared" \/ Final(i) \in blobs'

LEMMA MoveIsStill ==
    ASSUME TypeOK, StartHasNoIntent, NEW i \in Intents,
           NEW step \in HandlerSteps \ {"start", "prepared"}, Goto(i, step),
           UNCHANGED <<gc, worker, version, reserved, used>>,
           blobs' \subseteq StorageKeys,
           \A j \in Intents : Final(j) \in blobs => Final(j) \in blobs',
           \/ UNCHANGED intent
           \/ \E state \in {"staging", "ready", "committing"} : Open(i) /\ SetState(i, state)
    PROVE  Still
<1>1. /\ handler' \in [Intents -> Handler] /\ handler'[i].step = step
      /\ \A j \in Intents \ {i} : handler'[j] = handler[j]
  BY GotoRow
<1>2. CASE UNCHANGED intent
  BY <1>1, <1>2 DEF Still, IntentTypes, TypeOK
<1>3. ASSUME NEW state \in {"staging", "ready", "committing"}, Open(i), SetState(i, state)
      PROVE  Still
  <2>1. /\ intent' \in [Intents -> Intent] /\ intent'[i].state = state /\ ~intent'[i].leased
        /\ \A j \in Intents \ {i} : intent'[j] = intent[j]
    BY <1>3, SetStateRow DEF IntentStates
  <2> QED BY <1>1, <1>3, <2>1 DEF Still, IntentTypes, TypeOK, Open
<1> QED BY <1>2, <1>3

LEMMA StillSteps ==
    ASSUME TypeOK, Linked, NEW i \in Intents
    PROVE  /\ Stream(i) \/ RejectBody(i) \/ CompleteStaging(i) \/ ClaimIntent(i) => Still
           /\ \A cleaned \in BOOLEAN : Promote(i, cleaned) => Still
           /\ \A linked \in BOOLEAN : PromotionUncertain(i, linked) => Still
           /\ PromotionFails(i) \/ Prepare(i) \/ CommitRefused(i) => Still
           /\ CrashHandler(i) \/ IntentTimePasses(i) => Still
<1>0. blobs \subseteq StorageKeys /\ StartHasNoIntent
  BY DEF TypeOK, GcTypeOK, Linked
<1>1. ASSUME Stream(i) PROVE Still
  BY <1>0, <1>1, MoveIsStill, KeysDiffer DEF Stream, HandlerSteps
<1>2. ASSUME RejectBody(i) PROVE Still
  BY <1>0, <1>2, MoveIsStill DEF RejectBody, HandlerSteps, gcVars
<1>3. ASSUME CompleteStaging(i) PROVE Still
  BY <1>0, <1>3, MoveIsStill DEF CompleteStaging, HandlerSteps, gcVars, Open
<1>4. ASSUME ClaimIntent(i) PROVE Still
  <2>1. CASE intent' = intent
    BY <1>0, <1>4, <2>1, MoveIsStill DEF ClaimIntent, HandlerSteps, gcVars
  <2>2. CASE /\ intent' = [intent EXCEPT ![i] = [@ EXCEPT !.state = "committing", !.leased = TRUE]]
             /\ Open(i) /\ Goto(i, "claimed")
    <3>1. PICK row \in Intent : row = intent[i]
      BY DEF TypeOK
    <3>2. /\ [row EXCEPT !.state = "committing", !.leased = TRUE] \in Intent
          /\ [row EXCEPT !.state = "committing", !.leased = TRUE].state = "committing"
      BY DEF Intent, IntentStates
    <3>3. /\ intent' \in [Intents -> Intent] /\ intent'[i].state = "committing"
          /\ \A j \in Intents \ {i} : intent'[j] = intent[j]
      BY <2>2, <3>1, <3>2 DEF TypeOK
    <3>4. /\ handler' \in [Intents -> Handler] /\ handler'[i].step = "claimed"
          /\ \A j \in Intents \ {i} : handler'[j] = handler[j]
      BY <2>2, GotoRow DEF HandlerSteps
    <3>5. UNCHANGED <<gc, blobs, worker, version, reserved, used>>
      BY <1>4 DEF ClaimIntent, gcVars
    <3> QED BY <1>0, <2>2, <3>3, <3>4, <3>5 DEF Still, IntentTypes, TypeOK, Open
  <2> QED BY <1>4, <2>1, <2>2 DEF ClaimIntent, Open
<1>5. ASSUME NEW cleaned \in BOOLEAN, Promote(i, cleaned) PROVE Still
  BY <1>0, <1>5, MoveIsStill, KeysDiffer DEF Promote, HandlerSteps
<1>6. ASSUME NEW linked \in BOOLEAN, PromotionUncertain(i, linked) PROVE Still
  BY <1>0, <1>6, MoveIsStill, KeysDiffer DEF PromotionUncertain, HandlerSteps
<1>7. ASSUME PromotionFails(i) PROVE Still
  BY <1>0, <1>7, MoveIsStill DEF PromotionFails, HandlerSteps, gcVars, Open
<1>8. ASSUME Prepare(i) PROVE Still
  <2>1. intent[i].leased \in BOOLEAN
    BY DEF TypeOK, Intent
  <2>2. /\ handler' \in [Intents -> Handler]
        /\ handler'[i].step \in {"prepared", "failing"}
        /\ handler'[i].step = "prepared" => Final(i) \in blobs
        /\ \A j \in Intents \ {i} : handler'[j] = handler[j]
    BY <1>8, <2>1 DEF Prepare, TypeOK, Handler, HandlerSteps
  <2> QED BY <1>0, <1>8, <2>2 DEF Prepare, gcVars, Still, IntentTypes, TypeOK
<1>9. ASSUME CommitRefused(i) PROVE Still
  BY <1>0, <1>9, MoveIsStill DEF CommitRefused, HandlerSteps, gcVars
<1>10. ASSUME CrashHandler(i) PROVE Still
  BY <1>0, <1>10, MoveIsStill DEF CrashHandler, HandlerSteps, gcVars
<1>11. ASSUME IntentTimePasses(i) PROVE Still
  <2>1. PICK row \in Intent : row = intent[i]
    BY DEF TypeOK
  <2>2. /\ [row EXCEPT !.leased = FALSE] \in Intent /\ [row EXCEPT !.expired = TRUE] \in Intent
        /\ [row EXCEPT !.leased = FALSE].state = row.state
        /\ [row EXCEPT !.expired = TRUE].state = row.state
        /\ [row EXCEPT !.leased = FALSE].leased = FALSE
        /\ [row EXCEPT !.expired = TRUE].leased = row.leased
    BY DEF Intent
  <2>3. \/ intent' = [intent EXCEPT ![i] = [row EXCEPT !.leased = FALSE]]
        \/ intent' = [intent EXCEPT ![i] = [row EXCEPT !.expired = TRUE]]
    BY <1>11, <2>1 DEF IntentTimePasses
  <2>4. /\ intent' \in [Intents -> Intent] /\ intent'[i].state = intent[i].state
        /\ intent'[i].leased => intent[i].leased
        /\ \A j \in Intents \ {i} : intent'[j] = intent[j]
    BY <2>1, <2>2, <2>3 DEF TypeOK
  <2>5. UNCHANGED <<gc, blobs, worker, handler, version, reserved, used>>
    BY <1>11 DEF IntentTimePasses, gcVars
  <2>6. handler[i].step # "start"
    BY <1>0, <1>11 DEF IntentTimePasses, Open, StartHasNoIntent
  <2> QED BY <1>0, <2>4, <2>5, <2>6 DEF Still, IntentTypes, TypeOK
<1> QED BY <1>1, <1>2, <1>3, <1>4, <1>5, <1>6, <1>7, <1>8, <1>9, <1>10, <1>11

LEMMA StillKeeps ==
    ASSUME TypeOK, Linked, Still, quota' \in Quotas \cup {Quota}
    PROVE  TypeOK' /\ Linked' /\ Live' = Live /\ Shown' = Shown
<1>1. TypeOK'
  BY DEF TypeOK, GcTypeOK, Still, IntentTypes
<1>2. \A i \in Intents : Open(i)' <=> Open(i)
  BY DEF Still, Open
<1>3. Live' = Live /\ Shown' = Shown
  BY <1>2 DEF Still, Live, Shown
<1>4. StartHasNoIntent' /\ VersionsCommitted'
  BY DEF Linked, Still, StartHasNoIntent, VersionsCommitted, Open
<1>5. TasksAreForTheDead'
  BY DEF Linked, Still, TasksAreForTheDead, Open
<1>6. ClaimsHaveTasks'
  BY DEF Linked, Still, ClaimsHaveTasks
<1>7. PreparedHasPayload' /\ ActivePayloadPresent'
  BY <1>2 DEF Linked, Still, PreparedHasPayload, ActivePayloadPresent
<1> QED BY <1>1, <1>3, <1>4, <1>5, <1>6, <1>7 DEF Linked

-----------------------------------------------------------------------------
(* The ledger                                                              *)

(* What a step may do to the sets of open intents and of active versions,  *)
(* and to the two counters with them.                                      *)
Keeps ==
    /\ Live' = Live /\ Shown' = Shown /\ reserved' = reserved /\ used' = used
    /\ quota' = quota \/ used + reserved <= quota'

Reserves(i) ==
    /\ i \notin Live /\ Live' = Live \cup {i} /\ reserved' = reserved + Size[i]
    /\ Shown' = Shown /\ used' = used
    /\ quota' = quota /\ quota - used - reserved >= Size[i]

Releases(i) ==
    /\ i \in Live /\ Live' = Live \ {i}
    /\ reserved >= Size[i] /\ reserved' = reserved - Size[i]
    /\ Shown' = Shown /\ used' = used /\ quota' = quota

Drops(i) ==
    /\ i \in Shown /\ Shown' = Shown \ {i}
    /\ used >= Size[i] /\ used' = used - Size[i]
    /\ Live' = Live /\ reserved' = reserved /\ quota' = quota

Transfers(i, old) ==
    /\ i \in Live /\ Live' = Live \ {i}
    /\ i \notin Shown /\ old \in Shown \cup {None} /\ Shown' = (Shown \ {old}) \cup {i}
    /\ reserved >= Size[i] /\ used >= Bytes(old)
    /\ reserved' = reserved - Size[i] /\ used' = used + Size[i] - Bytes(old)
    /\ quota' = quota

Effect ==
    \/ Keeps
    \/ \E i \in Intents : \/ Reserves(i) \/ Releases(i) \/ Drops(i)
                          \/ \E old \in Intents \cup {None} : Transfers(i, old)

(* What the end of an intent without a version hands to the GC.            *)
LEMMA AbandonTasks ==
    ASSUME TypeOK, NEW i \in Intents, NEW state, Abandon(i, state)
    PROVE  /\ gc' \in [StorageKeys -> Task]
           /\ \A k \in StorageKeys :
                gc'[k].state = "none" <=> gc[k].state = "none" /\ k \notin {Temporary(i), Final(i)}
<1> DEFINE keys == {Temporary(i), Final(i)}
<1>1. GcTypeOK /\ gc' = Enqueued(keys, TRUE)
  BY DEF Abandon, TypeOK
<1> HIDE DEF keys
<1>2. /\ Enqueued(keys, TRUE) \in [StorageKeys -> Task]
      /\ \A k \in StorageKeys :
           Enqueued(keys, TRUE)[k].state = "none" <=> gc[k].state = "none" /\ k \notin keys
  BY <1>1, EnqueuedRows
<1>3. /\ gc' \in [StorageKeys -> Task]
      /\ \A k \in StorageKeys :
           gc'[k].state = "none" <=> gc[k].state = "none" /\ k \notin keys
  BY <1>1, <1>2
<1> QED BY <1>3 DEF keys

(* An intent that ends without a version.                                  *)
LEMMA AbandonStep ==
    ASSUME TypeOK, Linked, NEW i \in Intents, NEW state \in {"aborted", "expired"},
           Open(i), Abandon(i, state), UNCHANGED <<blobs, worker, version, used, quota>>,
           handler' \in [Intents -> Handler],
           \A j \in Intents : handler'[j] = handler[j] \/ handler'[j].step = "refused"
    PROVE  TypeOK' /\ Linked' /\ Effect
<1>1. /\ intent' \in [Intents -> Intent] /\ intent'[i].state = state /\ ~intent'[i].leased
      /\ \A j \in Intents \ {i} : intent'[j] = intent[j]
  BY SetStateRow DEF Abandon, IntentStates
<1>2. /\ gc' \in [StorageKeys -> Task]
      /\ \A k \in StorageKeys :
           gc'[k].state = "none" <=> gc[k].state = "none" /\ k \notin {Temporary(i), Final(i)}
  BY AbandonTasks
<1>3. reserved >= Size[i] /\ reserved' = reserved - Size[i] /\ Size[i] \in Nat
  BY SizeAssumption DEF Abandon, ReleaseQuota
<1>4. TypeOK'
  BY <1>1, <1>2, <1>3 DEF TypeOK, GcTypeOK
<1>5. version[i] = "absent"
  BY DEF Linked, VersionsCommitted, Open, TypeOK
<1>6. StartHasNoIntent' /\ VersionsCommitted'
  BY <1>1, <1>5 DEF Linked, StartHasNoIntent, VersionsCommitted, Open
<1>7. TasksAreForTheDead'
  BY <1>1, <1>2, KeysDiffer DEF Linked, TasksAreForTheDead
<1>8. ClaimsHaveTasks'
  BY <1>2 DEF Linked, ClaimsHaveTasks, Claims
<1>9. PreparedHasPayload' /\ ActivePayloadPresent'
  BY <1>1 DEF Linked, PreparedHasPayload, ActivePayloadPresent, Open
<1>10. Releases(i)
  <2>1. i \in Live /\ Live' = Live \ {i}
    BY <1>1 DEF Live, Open
  <2> QED BY <1>3, <2>1 DEF Releases, Shown
<1> QED BY <1>4, <1>6, <1>7, <1>8, <1>9, <1>10 DEF Linked, Effect

LEMMA BeginStep ==
    ASSUME TypeOK, Linked, NEW i \in Intents, BeginPut(i), UNCHANGED quota
    PROVE  TypeOK' /\ Linked' /\ Effect
<1>1. UNCHANGED <<gc, blobs, worker, version, used>>
  BY DEF BeginPut, gcVars
<1>2. CASE Goto(i, "refused") /\ UNCHANGED <<intent, reserved>>
  <2>1. blobs' \subseteq StorageKeys
    BY <1>1 DEF TypeOK, GcTypeOK
  <2>2. Still
    BY <1>1, <1>2, <2>1, MoveIsStill DEF Linked, HandlerSteps
  <2>3. quota' \in Quotas \cup {Quota}
    BY DEF TypeOK
  <2> QED BY <1>1, <1>2, <2>2, <2>3, StillKeeps DEF Effect, Keeps
<1>3. CASE /\ ReserveQuota(i) /\ Goto(i, "streaming")
           /\ intent' = [intent EXCEPT ![i] =
                [state |-> "staging", expired |-> FALSE, leased |-> FALSE]]
  <2>1. /\ intent' \in [Intents -> Intent] /\ intent'[i].state = "staging" /\ ~intent'[i].leased
        /\ \A j \in Intents \ {i} : intent'[j] = intent[j]
    BY <1>3 DEF TypeOK, Intent, IntentStates
  <2>2. /\ handler' \in [Intents -> Handler] /\ handler'[i].step = "streaming"
        /\ \A j \in Intents \ {i} : handler'[j] = handler[j]
    BY <1>3, GotoRow DEF HandlerSteps
  <2>3. /\ quota - used - reserved >= Size[i] /\ reserved' = reserved + Size[i]
        /\ Size[i] \in Nat
    BY <1>3, SizeAssumption DEF ReserveQuota
  <2>4. TypeOK'
    BY <1>1, <2>1, <2>2, <2>3 DEF TypeOK, GcTypeOK
  <2>5. intent[i].state = "none" /\ version[i] = "absent"
    BY DEF BeginPut, Linked, StartHasNoIntent, VersionsCommitted, TypeOK
  <2>6. StartHasNoIntent' /\ VersionsCommitted'
    BY <1>1, <2>1, <2>2, <2>5 DEF Linked, StartHasNoIntent, VersionsCommitted
  <2>7. TasksAreForTheDead' /\ ClaimsHaveTasks'
    BY <1>1, <2>1, <2>5 DEF Linked, TasksAreForTheDead, ClaimsHaveTasks
  <2>8. PreparedHasPayload' /\ ActivePayloadPresent'
    BY <1>1, <2>1, <2>2 DEF Linked, PreparedHasPayload, ActivePayloadPresent, Open
  <2>9. i \notin Live /\ Live' = Live \cup {i} /\ Shown' = Shown
    BY <1>1, <2>1, <2>5 DEF Live, Shown, Open
  <2> QED BY <1>1, <2>3, <2>4, <2>6, <2>7, <2>8, <2>9 DEF Linked, Effect, Reserves
<1> QED BY <1>2, <1>3 DEF BeginPut

(* What a commit does to the history and to the queue.                     *)
LEMMA CommitRows ==
    ASSUME TypeOK, Linked, NEW i \in Intents, NEW old \in Replaceable(i) \cup {None},
           NEW heard \in BOOLEAN, CommitIntent(i, old, heard)
    PROVE  /\ old # None => old \in Intents \ {i} /\ version[old] = "active"
           /\ old = None => old \notin Intents
           /\ version'[i] = "active"
           /\ \A j \in Intents \ {i} : version'[j] = IF j = old THEN "retired" ELSE version[j]
           /\ version' \in [Intents -> {"absent", "active", "retired"}]
           /\ gc' \in [StorageKeys -> Task]
           /\ \A k \in StorageKeys :
                gc'[k].state = "none" <=> gc[k].state = "none" /\ (old = None \/ k # Final(old))
           /\ intent[i].state = "committing" /\ version[i] = "absent" /\ Final(i) \in blobs
<1>1. /\ old # None => old \in Intents \ {i} /\ version[old] = "active"
      /\ old = None => old \notin Intents
  BY IntentAssumption DEF Replaceable
<1>2. /\ version'[i] = "active"
      /\ \A j \in Intents \ {i} : version'[j] = IF j = old THEN "retired" ELSE version[j]
      /\ version' \in [Intents -> {"absent", "active", "retired"}]
  BY DEF CommitIntent, TypeOK
<1>3. /\ gc' \in [StorageKeys -> Task]
      /\ \A k \in StorageKeys :
           gc'[k].state = "none" <=> gc[k].state = "none" /\ (old = None \/ k # Final(old))
  <2>1. CASE old = None
    BY <2>1 DEF CommitIntent, TypeOK, GcTypeOK
  <2>2. CASE old # None
    <3> DEFINE keys == {Final(old)}
    <3>1. GcTypeOK /\ gc' = Enqueued(keys, FALSE)
      BY <2>2 DEF CommitIntent, TypeOK
    <3> HIDE DEF keys
    <3>2. /\ Enqueued(keys, FALSE) \in [StorageKeys -> Task]
          /\ \A k \in StorageKeys :
               Enqueued(keys, FALSE)[k].state = "none" <=> gc[k].state = "none" /\ k \notin keys
      BY <3>1, EnqueuedRows
    <3>3. /\ gc' \in [StorageKeys -> Task]
          /\ \A k \in StorageKeys :
               gc'[k].state = "none" <=> gc[k].state = "none" /\ k \notin keys
      BY <3>1, <3>2
    <3> QED BY <2>2, <3>3 DEF keys
  <2> QED BY <2>1, <2>2
<1>4. intent[i].state = "committing" /\ version[i] = "absent" /\ Final(i) \in blobs
  BY DEF CommitIntent, CommitAllowed, Linked, PreparedHasPayload, VersionsCommitted, Open, TypeOK
<1> QED BY <1>1, <1>2, <1>3, <1>4

LEMMA CommitStep ==
    ASSUME TypeOK, Linked, NEW i \in Intents, NEW old \in Replaceable(i) \cup {None},
           NEW heard \in BOOLEAN, CommitIntent(i, old, heard), UNCHANGED quota
    PROVE  TypeOK' /\ Linked' /\ Effect
<1>1. /\ intent' \in [Intents -> Intent] /\ intent'[i].state = "committed" /\ ~intent'[i].leased
      /\ \A j \in Intents \ {i} : intent'[j] = intent[j]
  BY SetStateRow DEF CommitIntent, IntentStates
<1>2. /\ handler' \in [Intents -> Handler] /\ handler'[i].step \in {"acknowledged", "failing"}
      /\ \A j \in Intents \ {i} : handler'[j] = handler[j]
  BY GotoRow DEF CommitIntent, HandlerSteps
<1>3. UNCHANGED <<blobs, worker>>
  BY DEF CommitIntent
<1>4. /\ old # None => old \in Intents \ {i} /\ version[old] = "active"
      /\ old = None => old \notin Intents
  BY CommitRows
<1>5. /\ version'[i] = "active"
      /\ \A j \in Intents \ {i} : version'[j] = IF j = old THEN "retired" ELSE version[j]
      /\ version' \in [Intents -> {"absent", "active", "retired"}]
  BY CommitRows
<1>6. /\ gc' \in [StorageKeys -> Task]
      /\ \A k \in StorageKeys :
           gc'[k].state = "none" <=> gc[k].state = "none" /\ (old = None \/ k # Final(old))
  BY CommitRows
<1>7. /\ reserved >= Size[i] /\ used >= Bytes(old)
      /\ reserved' = reserved - Size[i] /\ used' = used + Size[i] - Bytes(old)
      /\ Size[i] \in Nat /\ Bytes(old) \in Nat
  BY <1>4, SizeAssumption DEF CommitIntent, TransferQuota, Bytes
<1>8. TypeOK'
  BY <1>1, <1>2, <1>3, <1>5, <1>6, <1>7 DEF TypeOK, GcTypeOK
<1>9. intent[i].state = "committing" /\ version[i] = "absent" /\ Final(i) \in blobs
  BY CommitRows
<1>10. StartHasNoIntent' /\ VersionsCommitted'
  BY <1>1, <1>2, <1>4, <1>5 DEF Linked, StartHasNoIntent, VersionsCommitted
<1>11. TasksAreForTheDead'
  <2> SUFFICES ASSUME NEW j \in Intents, gc'[Final(j)].state # "none"
               PROVE  intent'[j].state \in {"aborted", "expired"} \/ version'[j] = "retired"
    BY DEF TasksAreForTheDead
  <2>1. gc[Final(j)].state # "none" \/ (old # None /\ Final(j) = Final(old))
    BY <1>6, KeysDiffer
  <2>2. CASE gc[Final(j)].state # "none"
    BY <1>1, <1>4, <1>5, <1>9, <2>2 DEF Linked, TasksAreForTheDead
  <2>3. CASE old # None /\ Final(j) = Final(old)
    BY <1>4, <1>5, <2>3, KeysDiffer
  <2> QED BY <2>1, <2>2, <2>3
<1>12. ClaimsHaveTasks'
  BY <1>3, <1>6 DEF Linked, ClaimsHaveTasks, Claims
<1>13. PreparedHasPayload' /\ ActivePayloadPresent'
  BY <1>1, <1>2, <1>3, <1>5, <1>9 DEF Linked, PreparedHasPayload, ActivePayloadPresent, Open
<1>14. Transfers(i, old)
  <2>1. i \in Live /\ Live' = Live \ {i}
    BY <1>1, <1>9 DEF Live, Open
  <2>2. i \notin Shown /\ old \in Shown \cup {None} /\ Shown' = (Shown \ {old}) \cup {i}
    BY <1>4, <1>5, <1>9 DEF Shown
  <2> QED BY <1>7, <2>1, <2>2 DEF Transfers
<1> QED BY <1>4, <1>8, <1>10, <1>11, <1>12, <1>13, <1>14 DEF Linked, Effect

LEMMA DeleteStep ==
    ASSUME TypeOK, Linked, NEW i \in Intents, DeleteVersion(i), UNCHANGED quota
    PROVE  TypeOK' /\ Linked' /\ Effect
<1>1. /\ UNCHANGED <<blobs, worker, intent, handler, reserved>>
      /\ version' = [version EXCEPT ![i] = "retired"]
      /\ used >= Size[i] /\ used' = used - Size[i] /\ Size[i] \in Nat /\ version[i] = "active"
  BY SizeAssumption DEF DeleteVersion
<1>2. /\ gc' \in [StorageKeys -> Task]
      /\ \A k \in StorageKeys :
           gc'[k].state = "none" <=> gc[k].state = "none" /\ k \notin {Final(i)}
  BY EnqueuedRows DEF DeleteVersion, TypeOK
<1>3. TypeOK'
  BY <1>1, <1>2 DEF TypeOK, GcTypeOK
<1>4. StartHasNoIntent' /\ VersionsCommitted'
  BY <1>1 DEF Linked, StartHasNoIntent, VersionsCommitted, TypeOK
<1>5. TasksAreForTheDead'
  BY <1>1, <1>2, KeysDiffer DEF Linked, TasksAreForTheDead, TypeOK
<1>6. ClaimsHaveTasks'
  BY <1>1, <1>2 DEF Linked, ClaimsHaveTasks, Claims
<1>7. PreparedHasPayload' /\ ActivePayloadPresent'
  BY <1>1 DEF Linked, PreparedHasPayload, ActivePayloadPresent, Open, TypeOK
<1>8. i \in Shown /\ Shown' = Shown \ {i} /\ Live' = Live
  BY <1>1 DEF Shown, Live, Open, TypeOK
<1> QED BY <1>1, <1>3, <1>4, <1>5, <1>6, <1>7, <1>8 DEF Linked, Effect, Drops

(* The cleanup workers only take payloads whose deletion was scheduled, so *)
(* never the one of an active version or of a prepared handler.            *)
LEMMA QueueKeeps ==
    ASSUME TypeOK, Linked, GcNext, UNCHANGED intentVars
    PROVE  TypeOK' /\ Linked' /\ Effect
<1>1. /\ GcTypeOK' /\ ClaimsHaveTasks'
      /\ \A k \in StorageKeys : gc'[k].state = "none" <=> gc[k].state = "none"
      /\ \A k \in blobs : k \in blobs' \/ gc[k].state # "none"
  BY QueueStep DEF TypeOK, Linked
<1>2. UNCHANGED <<intent, handler, version, reserved, used, quota>>
  BY DEF intentVars
<1>3. TypeOK'
  BY <1>1, <1>2 DEF TypeOK
<1>4. StartHasNoIntent' /\ VersionsCommitted' /\ TasksAreForTheDead'
  BY <1>1, <1>2, KeysDiffer
     DEF Linked, StartHasNoIntent, VersionsCommitted, TasksAreForTheDead
<1>5. ASSUME NEW i \in Intents, Final(i) \in blobs, Open(i) \/ version[i] = "active"
      PROVE  Final(i) \in blobs'
  <2>1. gc[Final(i)].state = "none"
    BY <1>5 DEF Linked, TasksAreForTheDead, VersionsCommitted, Open
  <2> QED BY <1>1, <1>5, <2>1
<1>6. PreparedHasPayload' /\ ActivePayloadPresent'
  BY <1>2, <1>5 DEF Linked, PreparedHasPayload, ActivePayloadPresent, Open
<1>7. Keeps
  BY <1>2 DEF Keeps, Live, Shown, Open
<1> QED BY <1>1, <1>3, <1>4, <1>6, <1>7 DEF Linked, Effect

LEMMA InvariantStep ==
    ASSUME TypeOK, Linked, [Next]_vars
    PROVE  TypeOK' /\ Linked' /\ Effect
<1>1. ASSUME Still, UNCHANGED quota
      PROVE  TypeOK' /\ Linked' /\ Effect
  <2>1. quota' \in Quotas \cup {Quota} /\ reserved' = reserved /\ used' = used
    BY <1>1 DEF TypeOK, Still
  <2> QED BY <1>1, <2>1, StillKeeps DEF Effect, Keeps
<1>2. ASSUME NEW i \in Intents, HandlerStep(i), UNCHANGED quota
      PROVE  TypeOK' /\ Linked' /\ Effect
  <2>1. ASSUME AbortPut(i)
        PROVE  TypeOK' /\ Linked' /\ Effect
    <3>1. /\ handler' \in [Intents -> Handler] /\ Goto(i, "refused")
          /\ \A j \in Intents : handler'[j] = handler[j] \/ handler'[j].step = "refused"
      BY <2>1, GotoRow DEF AbortPut, HandlerSteps
    <3>2. CASE Abandon(i, "aborted") /\ intent[i].state \in {"staging", "ready"}
      BY <1>2, <2>1, <3>1, <3>2, AbandonStep DEF AbortPut, Open
    <3>3. CASE UNCHANGED <<gc, intent, reserved>>
      <4>1. UNCHANGED <<blobs, worker, version, used>> /\ blobs \subseteq StorageKeys
        BY <2>1 DEF AbortPut, TypeOK, GcTypeOK
      <4>2. Still
        BY <3>1, <3>3, <4>1, MoveIsStill DEF Linked, HandlerSteps
      <4> QED BY <1>1, <1>2, <4>2
    <3> QED BY <2>1, <3>2, <3>3 DEF AbortPut
  <2> QED BY <1>1, <1>2, <2>1, BeginStep, StillSteps, CommitStep DEF HandlerStep
<1>3. ASSUME NEW i \in Intents, ExpireIntent(i), UNCHANGED quota
      PROVE  TypeOK' /\ Linked' /\ Effect
  <2>1. Open(i) /\ Abandon(i, "expired") /\ UNCHANGED <<blobs, worker, handler, version, used>>
    BY <1>3 DEF ExpireIntent, Expirable, Open
  <2>2. handler' \in [Intents -> Handler]
    BY <2>1 DEF TypeOK
  <2> QED BY <1>3, <2>1, <2>2, AbandonStep
<1>4. ASSUME NEW i \in Intents, CrashHandler(i) \/ IntentTimePasses(i), UNCHANGED quota
      PROVE  TypeOK' /\ Linked' /\ Effect
  BY <1>1, <1>4, StillSteps
<1>5. ASSUME NEW bytes \in Quotas, UpdateQuota(bytes)
      PROVE  TypeOK' /\ Linked' /\ Effect
  <2>1. /\ UNCHANGED <<gc, blobs, worker, intent, handler, version, reserved, used>>
        /\ quota' = bytes /\ bytes >= used + reserved
    BY <1>5 DEF UpdateQuota, gcVars
  <2>2. Still
    BY <2>1 DEF TypeOK, GcTypeOK, Still, IntentTypes
  <2>3. used + reserved <= quota'
    BY <2>1, QuotaAssumption DEF TypeOK
  <2> QED BY <2>1, <2>2, <2>3, StillKeeps DEF Effect, Keeps
<1>6. CASE UNCHANGED vars
  <2>1. Still /\ UNCHANGED quota
    BY <1>6 DEF vars, gcVars, intentVars, TypeOK, GcTypeOK, Still, IntentTypes
  <2> QED BY <1>1, <2>1
<1> QED BY <1>2, <1>3, <1>4, <1>5, <1>6, DeleteStep, QueueKeeps DEF Next

LEMMA SumsType ==
    ASSUME NEW T \in SUBSET Intents
    PROVE  /\ SumOver(Size, T) \in Nat
           /\ \A i \in Intents \ T : SumOver(Size, T \cup {i}) = SumOver(Size, T) + Size[i]
           /\ \A i \in T : SumOver(Size, T) = SumOver(Size, T \ {i}) + Size[i]
BY SumChanges, SizeAssumption, IntentAssumption

LEMMA LedgerStep ==
    ASSUME TypeOK, LedgerExact, Effect
    PROVE  LedgerExact'
<1>1. /\ Live \in SUBSET Intents /\ Shown \in SUBSET Intents
      /\ reserved = SumOver(Size, Live) /\ used = SumOver(Size, Shown)
      /\ reserved \in Nat /\ used \in Nat
  BY DEF LedgerExact, Live, Shown, TypeOK
<1> SUFFICES reserved' = SumOver(Size, Live') /\ used' = SumOver(Size, Shown')
  BY DEF LedgerExact, Live, Shown
<1>2. CASE Keeps
  BY <1>1, <1>2 DEF Keeps
<1>3. ASSUME NEW i \in Intents, Reserves(i)
      PROVE  reserved' = SumOver(Size, Live') /\ used' = SumOver(Size, Shown')
  BY <1>1, <1>3, SumsType DEF Reserves
<1>4. ASSUME NEW i \in Intents, Releases(i)
      PROVE  reserved' = SumOver(Size, Live') /\ used' = SumOver(Size, Shown')
  <2>1. Live \ {i} \in SUBSET Intents /\ Size[i] \in Nat
    BY <1>1, SizeAssumption
  <2> QED BY <1>1, <1>4, <2>1, SumsType DEF Releases
<1>5. ASSUME NEW i \in Intents, Drops(i)
      PROVE  reserved' = SumOver(Size, Live') /\ used' = SumOver(Size, Shown')
  <2>1. Shown \ {i} \in SUBSET Intents /\ Size[i] \in Nat
    BY <1>1, SizeAssumption
  <2> QED BY <1>1, <1>5, <2>1, SumsType DEF Drops
<1>6. ASSUME NEW i \in Intents, NEW old \in Intents \cup {None}, Transfers(i, old)
      PROVE  reserved' = SumOver(Size, Live') /\ used' = SumOver(Size, Shown')
  <2> DEFINE rest == Shown \ {old}
  <2>1. Live \ {i} \in SUBSET Intents /\ Size[i] \in Nat /\ rest \in SUBSET Intents
    BY <1>1, SizeAssumption
  <2>2. reserved' = SumOver(Size, Live')
    BY <1>1, <1>6, <2>1, SumsType DEF Transfers
  <2>3. used = SumOver(Size, rest) + Bytes(old) /\ Bytes(old) \in Nat
    <3>1. CASE old = None
      <4>1. rest = Shown
        BY <1>1, <3>1, IntentAssumption
      <4> QED BY <1>1, <3>1, <4>1 DEF Bytes
    <3>2. CASE old # None
      <4>1. old \in Shown /\ Size[old] \in Nat
        BY <1>6, <3>2, SizeAssumption DEF Transfers
      <4> QED BY <1>1, <3>2, <4>1, SumsType DEF Bytes
    <3> QED BY <3>1, <3>2
  <2>4. SumOver(Size, rest \cup {i}) = SumOver(Size, rest) + Size[i] /\ SumOver(Size, rest) \in Nat
    BY <1>6, <2>1, SumsType DEF Transfers
  <2>5. used' = used + Size[i] - Bytes(old) /\ Shown' = rest \cup {i}
    BY <1>6 DEF Transfers
  <2>6. used' = SumOver(Size, Shown')
    BY <2>1, <2>3, <2>4, <2>5
  <2> QED BY <2>2, <2>6
<1> QED BY <1>2, <1>3, <1>4, <1>5, <1>6 DEF Effect

LEMMA QuotaStep ==
    ASSUME TypeOK, WithinQuota, Effect
    PROVE  WithinQuota'
<1>1. reserved \in Nat /\ used \in Nat /\ quota \in Nat /\ \A i \in Intents : Size[i] \in Nat
  BY QuotaAssumption, SizeAssumption DEF TypeOK
<1>2. CASE Keeps
  BY <1>2 DEF Keeps, WithinQuota
<1>3. ASSUME NEW i \in Intents, Reserves(i) \/ Releases(i) \/ Drops(i)
      PROVE  WithinQuota'
  BY <1>1, <1>3 DEF Reserves, Releases, Drops, WithinQuota
<1>4. ASSUME NEW i \in Intents, NEW old \in Intents \cup {None}, Transfers(i, old)
      PROVE  WithinQuota'
  <2>1. Bytes(old) \in Nat
    BY <1>1 DEF Bytes
  <2> QED BY <1>1, <1>4, <2>1 DEF Transfers, WithinQuota
<1> QED BY <1>2, <1>3, <1>4 DEF Effect

-----------------------------------------------------------------------------
(* The upload invariant: types, the links between intents, handlers, tasks *)
(* and payloads, and the ledger.                                           *)
THEOREM UploadInvariant == Spec => []UploadInv
<1>1. Init => UploadInv
  <2> SUFFICES ASSUME Init PROVE UploadInv
    OBVIOUS
  <2>1. GcTypeOK
    <3>1. NoTask \in Task /\ IdleWorker \in Worker
      BY MaxAttemptsAssumption DEF NoTask, Task, GcStates, IdleWorker, Worker
    <3> QED BY <3>1 DEF Init, GcInit, GcTypeOK
  <2>2. TypeOK
    BY <2>1, QuotaAssumption
       DEF Init, TypeOK, Intent, IntentStates, Handler, HandlerSteps
  <2>3. StartHasNoIntent /\ VersionsCommitted /\ PreparedHasPayload /\ ActivePayloadPresent
    BY DEF Init, StartHasNoIntent, VersionsCommitted, PreparedHasPayload, ActivePayloadPresent
  <2>4. TasksAreForTheDead /\ ClaimsHaveTasks
    <3>1. NoTask.state = "none" /\ IdleWorker.held = {} /\ IdleWorker.acting = None
      BY DEF NoTask, IdleWorker
    <3>2. None \notin Claims
      BY NoneAssumption, MaxAttemptsAssumption DEF Claims
    <3> QED BY <3>1, <3>2, KeysDiffer DEF Init, GcInit, TasksAreForTheDead, ClaimsHaveTasks
  <2>5. LedgerExact
    <3>1. {i \in Intents : Open(i)} = {} /\ {i \in Intents : version[i] = "active"} = {}
      BY DEF Init, Open
    <3>2. SumOver(Size, {}) = 0
      BY SumChanges, SizeAssumption, IntentAssumption
    <3> QED BY <3>1, <3>2 DEF Init, LedgerExact
  <2>6. WithinQuota
    BY QuotaAssumption DEF Init, WithinQuota
  <2> QED BY <2>2, <2>3, <2>4, <2>5, <2>6 DEF UploadInv, Linked
<1>2. UploadInv /\ [Next]_vars => UploadInv'
  BY InvariantStep, LedgerStep, QuotaStep DEF UploadInv
<1> QED BY <1>1, <1>2, PTL DEF Spec

(* commit_upload_intent publishes only what is stored, and neither the     *)
(* expiry of intents, abort_staged_put nor a cleanup worker whose lease is *)
(* gone ever removes the payload of an active version.                     *)
THEOREM PayloadsStay == Spec => []ActivePayloadPresent
<1>1. UploadInv => ActivePayloadPresent
  BY DEF UploadInv, Linked
<1> QED BY <1>1, UploadInvariant, PTL

(* reserved_bytes and used_bytes are exactly what the rows add up to after *)
(* any order of begin_put, commits, aborts, expiry and deletes.            *)
THEOREM LedgerStaysExact == Spec => []LedgerExact
<1>1. UploadInv => LedgerExact
  BY DEF UploadInv
<1> QED BY <1>1, UploadInvariant, PTL

(* begin_put and update_application_quota look at the quota row alone: no  *)
(* interleaving of uploads, deletions and changes of the quota takes an    *)
(* application over it.                                                    *)
THEOREM QuotaHolds == Spec => []WithinQuota
<1>1. UploadInv => WithinQuota
  BY DEF UploadInv
<1> QED BY <1>1, UploadInvariant, PTL


-----------------------------------------------------------------------------
(* The history that the upload plane sees                                  *)

(* A step that changes no version schedules no version's deletion.         *)
LEMMA HistoryRests ==
    ASSUME UNCHANGED version,
           \A i \in Intents : version[i] # "absent" =>
               (gc'[Final(i)].state = "none" <=> gc[Final(i)].state = "none")
    PROVE  UNCHANGED Lifecycle!lifecycleVars
BY DEF Lifecycle!lifecycleVars

LEMMA CommitPublishes ==
    ASSUME UploadInv, NEW i \in Intents, NEW old \in Replaceable(i) \cup {None},
           NEW heard \in BOOLEAN, CommitIntent(i, old, heard)
    PROVE  Lifecycle!Publish(i, old)
<1>1. TypeOK /\ Linked /\ version \in [Intents -> {"absent", "active", "retired"}]
  BY DEF UploadInv, TypeOK
<1>2. /\ old # None => old \in Intents \ {i} /\ version[old] = "active"
      /\ old = None => old \notin Intents
      /\ version[i] = "absent" /\ intent[i].state = "committing"
      /\ version'[i] = "active"
      /\ \A j \in Intents \ {i} : version'[j] = IF j = old THEN "retired" ELSE version[j]
      /\ \A k \in StorageKeys :
           gc'[k].state = "none" <=> gc[k].state = "none" /\ (old = None \/ k # Final(old))
  BY <1>1, CommitRows
<1>3. version' = [j \in Intents |->
        IF j = i THEN "active" ELSE IF j = old THEN "retired" ELSE version[j]]
  BY DEF CommitIntent
<1>4. gc[Final(i)].state = "none"
  BY <1>1, <1>2 DEF Linked, TasksAreForTheDead
<1>5. {j \in Intents : version'[j] # "absent" /\ gc'[Final(j)].state # "none"}
        = {j \in Intents : version[j] # "absent" /\ gc[Final(j)].state # "none"}
            \cup ({old} \ {None})
  <2> SUFFICES ASSUME NEW j \in Intents
               PROVE  version'[j] # "absent" /\ gc'[Final(j)].state # "none" <=>
                        \/ version[j] # "absent" /\ gc[Final(j)].state # "none"
                        \/ j = old /\ old # None
    BY <1>2
  <2>1. gc'[Final(j)].state = "none" <=>
          gc[Final(j)].state = "none" /\ (old = None \/ j # old)
    BY <1>2, KeysDiffer
  <2>2. CASE j = i
    BY <1>2, <1>4, <2>1, <2>2
  <2>3. CASE j # i
    BY <1>2, <2>1, <2>3
  <2> QED BY <2>2, <2>3
<1> QED BY <1>2, <1>3, <1>5 DEF Lifecycle!Publish

LEMMA DeleteRetires ==
    ASSUME UploadInv, NEW i \in Intents, DeleteVersion(i)
    PROVE  Lifecycle!Retire(i)
<1>1. /\ version \in [Intents -> {"absent", "active", "retired"}] /\ TypeOK
      /\ version[i] = "active" /\ version' = [version EXCEPT ![i] = "retired"]
  BY DEF UploadInv, TypeOK, DeleteVersion
<1>2. \A k \in StorageKeys :
        gc'[k].state = "none" <=> gc[k].state = "none" /\ k \notin {Final(i)}
  BY <1>1, EnqueuedRows DEF DeleteVersion, TypeOK
<1>3. {j \in Intents : version'[j] # "absent" /\ gc'[Final(j)].state # "none"}
        = {j \in Intents : version[j] # "absent" /\ gc[Final(j)].state # "none"} \cup {i}
  BY <1>1, <1>2, KeysDiffer
<1> QED BY <1>1, <1>3 DEF Lifecycle!Retire

(* The upload plane implements the promise that it reads the history by:   *)
(* commit_upload_intent publishes and replaces, a DELETE retires, and no   *)
(* abort, expiry or cleanup adds or forgets the deletion of a version.     *)
THEOREM PlaneRefinement == Spec => LifecycleSpec
<1>1. Init => Lifecycle!Init
  BY DEF Init, Lifecycle!Init
<1>2. UploadInv /\ [Next]_vars => [Lifecycle!Next]_(Lifecycle!lifecycleVars)
  <2> SUFFICES ASSUME UploadInv, [Next]_vars
               PROVE  [Lifecycle!Next]_(Lifecycle!lifecycleVars)
    OBVIOUS
  <2>1. TypeOK /\ Linked
    BY DEF UploadInv
  <2>2. ASSUME UNCHANGED <<version, gc>>
        PROVE  [Lifecycle!Next]_(Lifecycle!lifecycleVars)
    BY <2>2, HistoryRests
  <2>3. ASSUME NEW i \in Intents, NEW state, Open(i), Abandon(i, state), UNCHANGED version
        PROVE  [Lifecycle!Next]_(Lifecycle!lifecycleVars)
    <3>1. version[i] = "absent"
      BY <2>1, <2>3 DEF Linked, VersionsCommitted, Open, TypeOK
    <3>2. \A j \in Intents \ {i} : gc'[Final(j)].state = "none" <=> gc[Final(j)].state = "none"
      BY <2>1, <2>3, AbandonTasks, KeysDiffer
    <3> QED BY <2>3, <3>1, <3>2, HistoryRests
  <2>4. ASSUME NEW i \in Intents, HandlerStep(i)
        PROVE  [Lifecycle!Next]_(Lifecycle!lifecycleVars)
    <3>1. ASSUME NEW old \in Replaceable(i) \cup {None}, NEW heard \in BOOLEAN,
                 CommitIntent(i, old, heard)
          PROVE  [Lifecycle!Next]_(Lifecycle!lifecycleVars)
      BY <3>1, CommitPublishes DEF Lifecycle!Next, Replaceable
    <3>2. CASE AbortPut(i)
      BY <2>2, <2>3, <3>2 DEF AbortPut, Open
    <3>3. CASE BeginPut(i)
      BY <2>2, <3>3 DEF BeginPut, gcVars
    <3> QED BY <2>1, <2>2, <2>4, <3>1, <3>2, <3>3, StillSteps DEF HandlerStep, Still
  <2>5. ASSUME NEW i \in Intents, CrashHandler(i) \/ IntentTimePasses(i)
        PROVE  [Lifecycle!Next]_(Lifecycle!lifecycleVars)
    BY <2>1, <2>2, <2>5, StillSteps DEF Still
  <2>6. ASSUME NEW i \in Intents, ExpireIntent(i)
        PROVE  [Lifecycle!Next]_(Lifecycle!lifecycleVars)
    BY <2>3, <2>6 DEF ExpireIntent, Expirable, Open
  <2>7. ASSUME NEW i \in Intents, DeleteVersion(i)
        PROVE  [Lifecycle!Next]_(Lifecycle!lifecycleVars)
    BY <2>7, DeleteRetires DEF Lifecycle!Next
  <2>8. CASE GcNext /\ UNCHANGED intentVars
    <3>1. \A k \in StorageKeys : gc'[k].state = "none" <=> gc[k].state = "none"
      BY <2>1, <2>8, QueueStep DEF TypeOK, Linked
    <3> QED BY <2>8, <3>1, KeysDiffer, HistoryRests DEF intentVars
  <2>9. CASE (\E bytes \in Quotas : UpdateQuota(bytes)) \/ UNCHANGED vars
    BY <2>2, <2>9 DEF UpdateQuota, vars, gcVars, intentVars
  <2> QED BY <2>4, <2>5, <2>6, <2>7, <2>8, <2>9 DEF Next
<1> QED BY <1>1, <1>2, UploadInvariant, PTL DEF Spec, LifecycleSpec, Lifecycle!Spec
=============================================================================
