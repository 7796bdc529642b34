-------------------------- MODULE AsyncJobs_proofs --------------------------
(***************************************************************************)
(* Proofs about the batches of AsyncJobs, for any number of jobs, media,   *)
(* workers, callers, attempts and edits: the results of a job match its    *)
(* state, and a retried execution repeats no effect.                       *)
(***************************************************************************)
EXTENDS AsyncJobs, FiniteSetTheorems, TLAPS

-----------------------------------------------------------------------------
(* The inductive invariant                                                 *)

(* A worker in an attempt holds a job that exists, a handler its key; each *)
(* executes one target at a time.                                          *)
WorkersHold ==
    \A w \in Workers \cup Callers :
        /\ worker[w].step # "idle" =>
             IF w \in Callers THEN worker[w].job \in Keys
             ELSE worker[w].job \in Jobs /\ job[worker[w].job].state # "none"
        /\ \A m, n \in worker[w].at : m = n

(* What the state of a job says of its item rows and counters              *)
Matches(row, items, wanted) ==
    /\ \A m \in Media :
         IF row.state = "none" \/ m \notin wanted THEN items[m] = "none"
         ELSE items[m] \in CASE row.state = "cancelled" -> {"cancelled"}
                             [] row.state = "completed" -> {"succeeded", "failed"}
                             [] OTHER -> {"pending"}
    /\ row.state = "completed" =>
         /\ row.succeeded = Cardinality({m \in Media : items[m] = "succeeded"})
         /\ row.failed = Cardinality({m \in Media : items[m] = "failed"})

ItemsTell == \A j \in Jobs : Matches(job[j], item[j], targets[j])

(* The value of an active medium is the one announced last.                *)
ValueAnnounced ==
    \A m \in Media : media[m].state = "active" =>
        media[m].value = IF outbox[m] = <<>> THEN <<"none", 0>> ELSE outbox[m][Len(outbox[m])]

(* A batch whose value a medium has is one that updates.                   *)
ValuesFromUpdates ==
    \A m \in Media :
        LET author == media[m].value[1]
        IN  /\ author \in Jobs => job[author].state # "none" /\ job[author].action = "update"
            /\ author \in Keys => KeyAction[author] = "update"

(* As long as a medium has the revision that a worker has read, it does    *)
(* not have the worker's value yet.                                        *)
Fresh(w) ==
    worker[w].step = "write" =>
        \A m \in worker[w].at :
            /\ worker[w].seen <= media[m].revision
            /\ worker[w].seen = media[m].revision /\ ActionOf(w) = "update" =>
                 media[m].value # NewValue(w)

ReadsFresh == \A w \in Workers \cup Callers : Fresh(w)

Types ==
    /\ TypeOK
    /\ outbox \in [Media -> Seq(Stamps)]
    /\ targets \in [Jobs \cup Keys -> SUBSET Media]

JobsInv ==
    /\ Types
    /\ WorkersHold
    /\ ItemsTell
    /\ ValueAnnounced
    /\ ValuesFromUpdates
    /\ ReadsFresh
    /\ ReplaySafe

USE JobAssumption, AttemptsAssumption

-----------------------------------------------------------------------------
(* The parts of a step                                                     *)

(* A job keeps its action from its creation on.                            *)
JobsGoOn ==
    \A j \in Jobs : job[j].state # "none" =>
        job'[j].state # "none" /\ job'[j].action = job[j].action

LEMMA MediaUntouched ==
    ASSUME JobsInv, JobsGoOn, UNCHANGED <<media, outbox>>
    PROVE  ValueAnnounced' /\ ValuesFromUpdates' /\ ReplaySafe'
BY DEF JobsInv, JobsGoOn, ValueAnnounced, ValuesFromUpdates, ReplaySafe

(* What a worker knows of its medium while others move.                    *)
LEMMA StaysFresh ==
    ASSUME JobsInv, JobsGoOn, NEW w \in Workers \cup Callers,
           worker'[w] = worker[w],
           \A m \in Media : \/ media'[m] = media[m]
                            \/ media'[m].revision = media[m].revision + 1
    PROVE  Fresh(w)'
<1> SUFFICES ASSUME worker[w].step = "write", NEW m \in worker[w].at
             PROVE  /\ worker[w].seen <= media'[m].revision
                    /\ worker[w].seen = media'[m].revision /\ ActionOf(w)' = "update" =>
                         media'[m].value # NewValue(w)'
  BY DEF Fresh
<1>1. /\ m \in Media /\ worker[w].seen \in Nat /\ media[m].revision \in Nat
      /\ worker[w].seen <= media[m].revision
  BY DEF JobsInv, Types, TypeOK, Worker, Medium, ReadsFresh, Fresh
<1>2. NewValue(w)' = NewValue(w) /\ ActionOf(w)' = ActionOf(w)
  BY DEF NewValue, ActionOf, JobsInv, WorkersHold, JobsGoOn
<1>3. CASE media'[m] = media[m]
  BY <1>1, <1>2, <1>3 DEF JobsInv, ReadsFresh, Fresh
<1>4. CASE media'[m].revision = media[m].revision + 1
  <2>1. worker[w].seen <= media'[m].revision /\ worker[w].seen # media'[m].revision
    BY <1>1, <1>4
  <2> QED BY <2>1
<1> QED BY <1>1, <1>3, <1>4

(* One worker moves; what it holds is a job that exists or a key.          *)
LEMMA WorkerMoves ==
    ASSUME JobsInv, JobsGoOn, NEW w \in Workers \cup Callers, NEW row \in Worker,
           worker' = [worker EXCEPT ![w] = row],
           row.step # "idle" => IF w \in Callers THEN row.job \in Keys
                                ELSE row.job \in Jobs /\ job'[row.job].state # "none",
           row.step # "write", \A m, n \in row.at : m = n,
           \A m \in Media : \/ media'[m] = media[m]
                            \/ media'[m].revision = media[m].revision + 1
    PROVE  /\ worker' \in [Workers \cup Callers -> Worker]
           /\ WorkersHold' /\ ReadsFresh'
<1>1. worker \in [Workers \cup Callers -> Worker]
  BY DEF JobsInv, Types, TypeOK
<1>2. worker' \in [Workers \cup Callers -> Worker]
  BY <1>1
<1>3. WorkersHold'
  BY <1>1 DEF JobsInv, WorkersHold, JobsGoOn
<1>4. ASSUME NEW v \in Workers \cup Callers PROVE Fresh(v)'
  <2>1. CASE v = w
    BY <1>1, <2>1 DEF Fresh
  <2>2. CASE v # w
    BY <1>1, <2>2, StaysFresh
  <2> QED BY <2>1, <2>2
<1> QED BY <1>2, <1>3, <1>4 DEF ReadsFresh

(* No worker moves.                                                        *)
LEMMA WorkersWait ==
    ASSUME JobsInv, JobsGoOn, UNCHANGED worker,
           \A m \in Media : \/ media'[m] = media[m]
                            \/ media'[m].revision = media[m].revision + 1
    PROVE  WorkersHold' /\ ReadsFresh'
<1>1. WorkersHold'
  BY DEF JobsInv, WorkersHold, JobsGoOn
<1>2. ReadsFresh'
  BY StaysFresh DEF ReadsFresh
<1> QED BY <1>1, <1>2

(* A medium changes, and the change is announced.  Whoever announces what  *)
(* was announced last is not a batch.                                      *)
LEMMA MediumChanges ==
    ASSUME JobsInv, NEW m \in Media, NEW row \in Medium, NEW author \in Stamps,
           media' = [media EXCEPT ![m] = row], row.revision = media[m].revision + 1,
           outbox' = [outbox EXCEPT ![m] = Append(@, author)],
           row.state = "active" => row.value = author,
           row.value = media[m].value \/
               (/\ row.value = author
                /\ author[1] \in Jobs => job[author[1]].state # "none"
                                         /\ job[author[1]].action = "update"
                /\ author[1] \in Keys => KeyAction[author[1]] = "update"),
           author[1] \in Jobs \cup Keys =>
               media[m].state = "active" /\ media[m].value # author,
           UNCHANGED <<job, targets>>
    PROVE  /\ media' \in [Media -> Medium] /\ outbox' \in [Media -> Seq(Stamps)]
           /\ \A n \in Media : Len(outbox'[n]) = media'[n].revision
           /\ ValueAnnounced' /\ ValuesFromUpdates' /\ ReplaySafe'
<1>1. /\ media \in [Media -> Medium] /\ outbox \in [Media -> Seq(Stamps)]
      /\ \A n \in Media : Len(outbox[n]) = media[n].revision
  BY DEF JobsInv, Types, TypeOK
<1>2. PICK s \in Seq(Stamps) : s = outbox[m]
  BY <1>1
<1>3. PICK t \in Seq(Stamps) : t = Append(s, author)
  <2>1. Append(s, author) \in Seq(Stamps)
    OBVIOUS
  <2> QED BY <2>1
<1>4. /\ Len(t) = Len(s) + 1 /\ t[Len(t)] = author /\ t # <<>>
      /\ \A n \in 1 .. Len(s) : t[n] = s[n]
  BY <1>3
<1>5. outbox' = [outbox EXCEPT ![m] = t]
  BY <1>1, <1>2, <1>3
<1>6. ValueAnnounced'
  BY <1>1, <1>4, <1>5 DEF ValueAnnounced, JobsInv
<1>7. ValuesFromUpdates'
  BY <1>1 DEF ValuesFromUpdates, JobsInv
<1>8. ReplaySafe'
  <2>1. ASSUME NEW n \in 1 .. Len(t) - 1, t[n][1] \in Jobs \cup Keys PROVE t[n + 1] # t[n]
    <3>1. CASE n < Len(s)
      <4>1. n \in 1 .. Len(s) - 1 /\ t[n] = s[n] /\ t[n + 1] = s[n + 1]
        BY <1>2, <1>4, <3>1
      <4> QED BY <1>2, <2>1, <4>1 DEF JobsInv, ReplaySafe
    <3>2. CASE n >= Len(s)
      <4>1. n = Len(s) /\ t[n] = s[n] /\ t[n + 1] = author /\ s # <<>>
        BY <1>2, <1>4, <3>2
      <4>2. CASE author[1] \in Jobs \cup Keys
        <5>1. media[m].value = s[Len(s)]
          BY <1>2, <4>1, <4>2 DEF JobsInv, ValueAnnounced
        <5> QED BY <4>1, <4>2, <5>1
      <4>3. CASE author[1] \notin Jobs \cup Keys
        BY <2>1, <4>1, <4>3
      <4> QED BY <4>2, <4>3
    <3> QED BY <3>1, <3>2, <1>2
  <2> QED BY <1>1, <1>5, <2>1 DEF JobsInv, ReplaySafe
<1>9. \A n \in Media : Len(outbox'[n]) = media'[n].revision
  BY <1>1, <1>2, <1>4, <1>5
<1>10. media' \in [Media -> Medium] /\ outbox' \in [Media -> Seq(Stamps)]
  BY <1>1, <1>5
<1> QED BY <1>6, <1>7, <1>8, <1>9, <1>10

-----------------------------------------------------------------------------
(* Steps of the job rows                                                   *)

LEMMA JobRows ==
    ASSUME JobsInv
    PROVE  /\ job \in [Jobs -> Job] /\ item \in [Jobs -> [Media -> ItemStates]]
           /\ key \in [Keys -> IdempotencyKey]
           /\ worker \in [Workers \cup Callers -> Worker]
           /\ media \in [Media -> Medium] /\ outbox \in [Media -> Seq(Stamps)]
           /\ \A j \in Jobs : targets[j] \subseteq Media
           /\ \A k \in Keys : targets[k] \subseteq Media
           /\ \A j \in Jobs : job[j].leased => job[j].state = "running"
BY DEF JobsInv, Types, TypeOK

(* A job row changes; its items still tell its state.                      *)
LEMMA JobChanges ==
    ASSUME JobsInv, NEW j \in Jobs, NEW row \in Job, NEW items \in [Media -> ItemStates],
           job' = [job EXCEPT ![j] = row], item' = [item EXCEPT ![j] = items],
           row.state # "none", row.leased => row.state = "running",
           job[j].state # "none" => row.action = job[j].action,
           Matches(row, items, targets[j]),
           UNCHANGED <<key, media, outbox, targets>>
    PROVE  /\ JobsGoOn /\ ItemsTell'
           /\ worker' \in [Workers \cup Callers -> Worker] => Types'
           /\ ValueAnnounced' /\ ValuesFromUpdates' /\ ReplaySafe'
<1>1. job \in [Jobs -> Job] /\ item \in [Jobs -> [Media -> ItemStates]]
  BY JobRows
<1>2. /\ job' \in [Jobs -> Job] /\ item' \in [Jobs -> [Media -> ItemStates]]
      /\ \A i \in Jobs : job'[i].leased => job'[i].state = "running"
  BY <1>1, JobRows
<1>3. JobsGoOn
  BY <1>1 DEF JobsGoOn
<1>4. ItemsTell'
  <2>1. ASSUME NEW i \in Jobs PROVE Matches(job'[i], item'[i], targets[i])
    <3>1. CASE i = j
      BY <1>1, <3>1
    <3>2. CASE i # j
      BY <1>1, <3>2 DEF JobsInv, ItemsTell
    <3> QED BY <3>1, <3>2
  <2> QED BY <2>1 DEF ItemsTell, Matches
<1>5. worker' \in [Workers \cup Callers -> Worker] => Types'
  BY <1>2 DEF JobsInv, Types, TypeOK
<1> QED BY <1>3, <1>4, <1>5, MediaUntouched

LEMMA CreateKeeps ==
    ASSUME JobsInv, NEW j \in Jobs, NEW a \in Actions, Create(j, a), UNCHANGED targets
    PROVE  JobsInv'
<1> DEFINE items == [m \in Media |-> IF m \in targets[j] THEN "pending" ELSE "none"]
<1>1. PICK row \in Job : row = NewJob(a)
  <2>1. NewJob(a) \in Job
    <3>1. 0 \in 0 .. MaxAttempts
      OBVIOUS
    <3> QED BY <3>1 DEF NewJob, Job, JobStates
  <2> QED BY <2>1
<1>2. row.state = "pending" /\ row.leased = FALSE
  BY <1>1 DEF NewJob
<1>3. items \in [Media -> ItemStates]
  BY DEF ItemStates
<1>4. /\ job[j].state = "none" /\ job' = [job EXCEPT ![j] = row]
      /\ item' = [item EXCEPT ![j] = items]
      /\ UNCHANGED <<key, media, outbox, worker>>
  BY <1>1 DEF Create
<1>5. Matches(row, items, targets[j])
  BY <1>2 DEF Matches
<1> HIDE DEF items
<1>6. /\ JobsGoOn /\ ItemsTell' /\ Types' /\ ValueAnnounced' /\ ValuesFromUpdates' /\ ReplaySafe'
  BY <1>2, <1>3, <1>4, <1>5, JobChanges, JobRows
<1>7. WorkersHold' /\ ReadsFresh'
  BY <1>4, <1>6, WorkersWait
<1> QED BY <1>6, <1>7 DEF JobsInv

(* A job row changes and its items need not.                               *)
LEMMA RowChanges ==
    ASSUME JobsInv, NEW j \in Jobs, NEW row \in Job, job' = [job EXCEPT ![j] = row],
           job[j].state \in {"pending", "running", "failed"},
           row.state \in {"pending", "running", "failed"},
           row.leased => row.state = "running", row.action = job[j].action,
           UNCHANGED <<item, key, media, outbox, targets>>
    PROVE  /\ JobsGoOn /\ ItemsTell'
           /\ worker' \in [Workers \cup Callers -> Worker] => Types'
           /\ ValueAnnounced' /\ ValuesFromUpdates' /\ ReplaySafe'
<1>1. PICK items \in [Media -> ItemStates] : items = item[j]
  BY JobRows
<1>2. item' = [item EXCEPT ![j] = items]
  BY <1>1, JobRows
<1>3. Matches(row, items, targets[j])
  BY <1>1 DEF JobsInv, ItemsTell, Matches
<1> QED BY <1>2, <1>3, JobChanges

LEMMA CancelKeeps ==
    ASSUME JobsInv, NEW j \in Jobs, Cancel(j), UNCHANGED targets
    PROVE  JobsInv'
<1>1. PICK old \in Job : old = job[j] /\ old.state \in {"pending", "running"}
  BY JobRows DEF Cancel
<1>2. PICK row \in Job : /\ row = [old EXCEPT !.state = "cancelled", !.leased = FALSE, !.due = FALSE]
                         /\ row.state = "cancelled" /\ row.leased = FALSE /\ row.action = old.action
  <2>1. [old EXCEPT !.state = "cancelled", !.leased = FALSE, !.due = FALSE] \in Job
    BY DEF Job, JobStates
  <2> QED BY <2>1 DEF Job
<1>3. job' = [job EXCEPT ![j] = row]
  BY <1>1, <1>2, JobRows DEF Cancel
<1>4. PICK items \in [Media -> ItemStates] :
        /\ item' = [item EXCEPT ![j] = items]
        /\ \A m \in Media : items[m] = IF item[j][m] = "pending" THEN "cancelled" ELSE item[j][m]
  <2> DEFINE items == [m \in Media |-> IF item[j][m] = "pending" THEN "cancelled" ELSE item[j][m]]
  <2>1. items \in [Media -> ItemStates]
    BY JobRows DEF ItemStates
  <2>2. item' = [item EXCEPT ![j] = items]
    BY JobRows DEF Cancel
  <2> QED BY <2>1, <2>2
<1>5. Matches(row, items, targets[j])
  BY <1>1, <1>2, <1>4 DEF JobsInv, ItemsTell, Matches
<1>6. UNCHANGED <<key, media, outbox, worker>>
  BY DEF Cancel
<1>7. /\ JobsGoOn /\ ItemsTell' /\ Types' /\ ValueAnnounced' /\ ValuesFromUpdates' /\ ReplaySafe'
  BY <1>1, <1>2, <1>3, <1>4, <1>5, <1>6, JobChanges, JobRows
<1>8. WorkersHold' /\ ReadsFresh'
  BY <1>6, <1>7, WorkersWait
<1> QED BY <1>7, <1>8 DEF JobsInv

LEMMA TimeKeeps ==
    ASSUME JobsInv, NEW j \in Jobs, LeaseEnds(j) \/ RetryDue(j), UNCHANGED targets
    PROVE  JobsInv'
<1>1. PICK old \in Job : old = job[j] /\ old.state \in {"pending", "running"}
  BY JobRows DEF LeaseEnds, RetryDue
<1>2. PICK row \in Job : /\ job' = [job EXCEPT ![j] = row]
                         /\ row.state = old.state /\ row.action = old.action
                         /\ row.leased => old.leased
  <2>1. CASE LeaseEnds(j)
    <3>1. job' = [job EXCEPT ![j] = [old EXCEPT !.leased = FALSE]]
      BY <1>1, <2>1, JobRows DEF LeaseEnds
    <3> QED BY <3>1 DEF Job
  <2>2. CASE RetryDue(j)
    <3> DEFINE row == [old EXCEPT !.due = TRUE]
    <3>1. job' = [job EXCEPT ![j] = row]
      BY <1>1, <2>2, JobRows DEF RetryDue
    <3>2. row \in Job /\ row.state = old.state /\ row.action = old.action /\ row.leased = old.leased
      BY DEF Job
    <3> QED BY <3>1, <3>2
  <2> QED BY <2>1, <2>2
<1>3. UNCHANGED <<item, key, media, outbox, worker>>
  BY DEF LeaseEnds, RetryDue
<1>4. /\ JobsGoOn /\ ItemsTell' /\ Types' /\ ValueAnnounced' /\ ValuesFromUpdates' /\ ReplaySafe'
  BY <1>1, <1>2, <1>3, RowChanges, JobRows
<1>5. WorkersHold' /\ ReadsFresh'
  BY <1>3, <1>4, WorkersWait
<1> QED BY <1>4, <1>5 DEF JobsInv

-----------------------------------------------------------------------------
(* Steps of the workers and handlers                                       *)

LEMMA IdleIsWorker ==
    ASSUME NEW x \in Jobs \cup Keys, NEW token \in Nat
    PROVE  /\ IdleWorker \in Worker /\ IdleWorker.step = "idle" /\ IdleWorker.at = {}
           /\ LET row == [IdleWorker EXCEPT !.step = "items", !.job = x, !.token = token]
              IN  row \in Worker /\ row.step = "items" /\ row.job = x /\ row.at = {}
BY DEF IdleWorker, Worker

(* A step that only moves a worker keeps the rest.                         *)
LEMMA OnlyWorkerMoves ==
    ASSUME JobsInv, NEW w \in Workers \cup Callers, NEW row \in Worker,
           worker' = [worker EXCEPT ![w] = row], row.step # "write",
           \A m, n \in row.at : m = n,
           row.step # "idle" => worker[w].step # "idle" /\ row.job = worker[w].job,
           UNCHANGED <<job, item, key, media, outbox, targets>>
    PROVE  JobsInv'
<1>1. JobsGoOn
  BY DEF JobsGoOn
<1>2. /\ worker' \in [Workers \cup Callers -> Worker] /\ WorkersHold' /\ ReadsFresh'
  <2>1. row.step # "idle" => IF w \in Callers THEN row.job \in Keys
                             ELSE row.job \in Jobs /\ job'[row.job].state # "none"
    BY DEF JobsInv, WorkersHold
  <2> QED BY <1>1, <2>1, WorkerMoves
<1>3. ValueAnnounced' /\ ValuesFromUpdates' /\ ReplaySafe'
  BY <1>1, MediaUntouched
<1>4. Types'
  BY <1>2 DEF JobsInv, Types, TypeOK
<1>5. ItemsTell'
  BY DEF JobsInv, ItemsTell
<1> QED BY <1>2, <1>3, <1>4, <1>5 DEF JobsInv

(* The row of a worker that recorded a result                              *)
LEMMA RecordedRow ==
    ASSUME JobsInv, NEW w \in Workers \cup Callers, NEW m \in Media,
           NEW result \in {"succeeded", "failed"}, Record(w, m, result)
    PROVE  \E row \in Worker : /\ worker' = [worker EXCEPT ![w] = row]
                               /\ row.step = "items" /\ row.job = worker[w].job /\ row.at = {}
<1>1. PICK old \in Worker : old = worker[w]
  BY JobRows
<1>2. PICK done \in [Media -> {"none", "succeeded", "failed"}] :
        done = [old.done EXCEPT ![m] = result]
  BY DEF Worker
<1> DEFINE row == [old EXCEPT !.step = "items", !.at = {}, !.done = done, !.seen = 0]
<1>3. row \in Worker /\ row.step = "items" /\ row.job = old.job /\ row.at = {}
  BY DEF Worker
<1>4. worker' = [worker EXCEPT ![w] = row]
  <2>1. worker' = [worker EXCEPT ![w] = [old EXCEPT !.step = "items", !.at = {},
                                           !.done = [old.done EXCEPT ![m] = result], !.seen = 0]]
    BY <1>1, JobRows DEF Record, Worker
  <2> QED BY <1>2, <2>1
<1> QED BY <1>1, <1>3, <1>4

(* The worker gives up, takes the next item, or fails it.                  *)
LEMMA MovesKeep ==
    ASSUME JobsInv, NEW w \in Workers \cup Callers, UNCHANGED targets,
           Abandon(w) \/ \E m \in Media : BeginItem(w, m) \/ ItemFails(w, m)
    PROVE  JobsInv'
<1>1. CASE Abandon(w)
  <2>1. IdleWorker \in Worker /\ IdleWorker.step = "idle" /\ IdleWorker.at = {}
    BY DEF IdleWorker, Worker
  <2> QED BY <1>1, <2>1, OnlyWorkerMoves DEF Abandon, Stop
<1>2. ASSUME NEW m \in Media, BeginItem(w, m) PROVE JobsInv'
  <2>1. PICK old \in Worker : old = worker[w]
    BY JobRows
  <2> DEFINE row == [old EXCEPT !.step = "read", !.at = {m}]
  <2>2. row \in Worker /\ row.step = "read" /\ row.job = old.job /\ row.at = {m}
    BY DEF Worker
  <2>3. worker' = [worker EXCEPT ![w] = row] /\ old.step = "items"
    BY <1>2, <2>1, JobRows DEF BeginItem
  <2> HIDE DEF row
  <2> QED BY <1>2, <2>1, <2>2, <2>3, OnlyWorkerMoves DEF BeginItem
<1>3. ASSUME NEW m \in Media, ItemFails(w, m) PROVE JobsInv'
  <2>1. PICK row \in Worker : /\ worker' = [worker EXCEPT ![w] = row]
                              /\ row.step = "items" /\ row.job = worker[w].job /\ row.at = {}
    BY <1>3, RecordedRow DEF ItemFails
  <2> QED BY <1>3, <2>1, OnlyWorkerMoves DEF ItemFails
<1> QED BY <1>1, <1>2, <1>3

(* Read: the medium does not have the worker's value, or the answer is     *)
(* known and nothing will be written.                                      *)
LEMMA ReadItemKeeps ==
    ASSUME JobsInv, NEW w \in Workers \cup Callers, NEW m \in Media, ReadItem(w, m),
           UNCHANGED targets
    PROVE  JobsInv'
<1>1. UNCHANGED <<job, item, key, media, outbox>>
  BY DEF ReadItem
<1>2. CASE Verdict(w, media[m]) # "none"
  <2>1. Verdict(w, media[m]) \in {"succeeded", "failed"}
    BY <1>2 DEF Verdict
  <2>2. PICK row \in Worker : /\ worker' = [worker EXCEPT ![w] = row]
                              /\ row.step = "items" /\ row.job = worker[w].job /\ row.at = {}
    BY <1>2, <2>1, RecordedRow DEF ReadItem
  <2>3. worker[w].step # "idle"
    BY DEF ReadItem
  <2> QED BY <1>1, <2>2, <2>3, OnlyWorkerMoves
<1>3. CASE Verdict(w, media[m]) = "none"
  <2>1. PICK old \in Worker : old = worker[w] /\ old.step = "read" /\ m \in old.at
    BY JobRows DEF ReadItem
  <2> DEFINE row == [old EXCEPT !.step = "write", !.seen = media[m].revision]
  <2>2. row \in Worker /\ row.step = "write" /\ row.job = old.job /\ row.token = old.token
        /\ row.at = old.at /\ row.seen = media[m].revision
    BY JobRows DEF Worker, Medium
  <2>3. worker' = [worker EXCEPT ![w] = row]
    BY <1>3, <2>1, JobRows DEF ReadItem
  <2> HIDE DEF row
  <2>4. worker' \in [Workers \cup Callers -> Worker] /\ worker'[w] = row
    BY <2>2, <2>3, JobRows
  <2>5. WorkersHold'
    BY <1>1, <2>1, <2>2, <2>3, JobRows DEF JobsInv, WorkersHold
  <2>6. JobsGoOn
    BY <1>1 DEF JobsGoOn
  <2>7. Fresh(w)'
    <3>1. \A n \in row.at : n = m
      BY <2>1, <2>2 DEF JobsInv, WorkersHold
    <3>2. ActionOf(w) = "update" => media[m].value # NewValue(w)
      BY <1>3 DEF Verdict
    <3>3. ActionOf(w)' = ActionOf(w) /\ NewValue(w)' = NewValue(w)
      BY <1>1, <2>1, <2>2, <2>4 DEF ActionOf, NewValue
    <3>4. media[m].revision \in Nat
      BY JobRows DEF Medium
    <3> QED BY <1>1, <2>2, <2>4, <3>1, <3>2, <3>3, <3>4 DEF Fresh
  <2>8. ASSUME NEW v \in Workers \cup Callers, v # w PROVE Fresh(v)'
    <3>1. worker'[v] = worker[v]
      BY <2>3, <2>8, JobRows
    <3> QED BY <1>1, <2>6, <3>1, StaysFresh
  <2>9. ReadsFresh'
    BY <2>7, <2>8 DEF ReadsFresh
  <2>10. ValueAnnounced' /\ ValuesFromUpdates' /\ ReplaySafe'
    BY <1>1, <2>6, MediaUntouched
  <2>11. Types'
    BY <1>1, <2>4 DEF JobsInv, Types, TypeOK
  <2>12. ItemsTell'
    BY <1>1 DEF JobsInv, ItemsTell
  <2> QED BY <2>5, <2>9, <2>10, <2>11, <2>12 DEF JobsInv
<1> QED BY <1>2, <1>3

(* The stamp of a worker that holds a batch, and what it stands for        *)
LEMMA StampOfBatch ==
    ASSUME JobsInv, NEW w \in Workers \cup Callers, worker[w].step # "idle"
    PROVE  /\ Stamp(w) \in Stamps /\ NewValue(w) = Stamp(w)
           /\ Stamp(w)[1] = worker[w].job /\ worker[w].job \in Jobs \cup Keys
           /\ Stamp(w)[1] \in Jobs => /\ job[Stamp(w)[1]].state # "none"
                                      /\ job[Stamp(w)[1]].action = ActionOf(w)
           /\ Stamp(w)[1] \in Keys => KeyAction[Stamp(w)[1]] = ActionOf(w)
<1>1. worker[w].token \in Nat
  BY JobRows DEF Worker
<1>2. /\ w \in Callers => worker[w].job \in Keys
      /\ w \notin Callers => worker[w].job \in Jobs /\ job[worker[w].job].state # "none"
  BY DEF JobsInv, WorkersHold
<1>3. Stamp(w) \in Stamps
  BY <1>1, <1>2 DEF Stamp, Stamps, Authors
<1> QED BY <1>2, <1>3 DEF Stamp, NewValue, ActionOf

(* The row of a medium after a change                                      *)
LEMMA NextRow ==
    ASSUME NEW old \in Medium, NEW n \in Nat
    PROVE  /\ \A s \in Stamps : [old EXCEPT !.value = s, !.revision = n] \in Medium
           /\ \A state \in {"delete_pending", "deleted"} :
                [old EXCEPT !.state = state, !.revision = n] \in Medium
BY DEF Medium

LEMMA NextRevision ==
    ASSUME NEW old \in Medium
    PROVE  old.revision + 1 \in Nat
<1>1. old.revision \in Nat
  BY DEF Medium
<1> QED BY <1>1

(* A step changes a medium, and moves at most the worker that did it.      *)
LEMMA MediaStep ==
    ASSUME JobsInv, NEW m \in Media, NEW row \in Medium, NEW author \in Stamps,
           media' = [media EXCEPT ![m] = row], row.revision = media[m].revision + 1,
           outbox' = [outbox EXCEPT ![m] = Append(@, author)],
           row.state = "active" => row.value = author,
           row.value = media[m].value \/
               (/\ row.value = author
                /\ author[1] \in Jobs => job[author[1]].state # "none"
                                         /\ job[author[1]].action = "update"
                /\ author[1] \in Keys => KeyAction[author[1]] = "update"),
           author[1] \in Jobs \cup Keys =>
               media[m].state = "active" /\ media[m].value # author,
           worker' = worker \/ \E w \in Workers \cup Callers, next \in Worker :
               /\ worker' = [worker EXCEPT ![w] = next] /\ worker[w].step # "idle"
               /\ next.step = "items" /\ next.job = worker[w].job /\ next.at = {},
           UNCHANGED <<job, item, key, targets>>
    PROVE  JobsInv'
<1>1. JobsGoOn
  BY DEF JobsGoOn
<1>2. /\ media' \in [Media -> Medium] /\ outbox' \in [Media -> Seq(Stamps)]
      /\ \A n \in Media : Len(outbox'[n]) = media'[n].revision
      /\ ValueAnnounced' /\ ValuesFromUpdates' /\ ReplaySafe'
  BY MediumChanges
<1>3. \A n \in Media : \/ media'[n] = media[n]
                       \/ media'[n].revision = media[n].revision + 1
  BY JobRows
<1>4. worker' \in [Workers \cup Callers -> Worker] /\ WorkersHold' /\ ReadsFresh'
  <2>1. CASE worker' = worker
    BY <1>1, <1>3, <2>1, WorkersWait, JobRows
  <2>2. ASSUME NEW w \in Workers \cup Callers, NEW next \in Worker,
               worker' = [worker EXCEPT ![w] = next], worker[w].step # "idle",
               next.step = "items", next.job = worker[w].job, next.at = {}
        PROVE  worker' \in [Workers \cup Callers -> Worker] /\ WorkersHold' /\ ReadsFresh'
    <3>1. IF w \in Callers THEN next.job \in Keys
          ELSE next.job \in Jobs /\ job'[next.job].state # "none"
      BY <2>2 DEF JobsInv, WorkersHold
    <3> QED BY <1>1, <1>3, <2>2, <3>1, WorkerMoves
  <2> QED BY <2>1, <2>2
<1>5. Types'
  BY <1>2, <1>4 DEF JobsInv, Types, TypeOK
<1>6. ItemsTell'
  BY DEF JobsInv, ItemsTell
<1> QED BY <1>2, <1>4, <1>5, <1>6 DEF JobsInv

(* update_media: the revision is the one read, so that the value is not    *)
(* yet the worker's.                                                       *)
LEMMA WriteUpdateKeeps ==
    ASSUME JobsInv, NEW w \in Workers \cup Callers, NEW m \in Media, WriteUpdate(w, m),
           UNCHANGED targets
    PROVE  JobsInv'
<1>1. /\ worker[w].step = "write" /\ m \in worker[w].at /\ ActionOf(w) = "update"
      /\ UNCHANGED <<job, item, key>>
  BY DEF WriteUpdate
<1>2. CASE ~Updatable(media[m], worker[w].seen)
  <2>1. PICK row \in Worker : /\ worker' = [worker EXCEPT ![w] = row]
                              /\ row.step = "items" /\ row.job = worker[w].job /\ row.at = {}
    BY <1>2, RecordedRow DEF WriteUpdate
  <2>2. UNCHANGED <<media, outbox>>
    BY <1>2 DEF WriteUpdate
  <2> QED BY <1>1, <2>1, <2>2, OnlyWorkerMoves
<1>3. CASE Updatable(media[m], worker[w].seen)
  <2>1. PICK next \in Worker : /\ worker' = [worker EXCEPT ![w] = next]
                               /\ next.step = "items" /\ next.job = worker[w].job /\ next.at = {}
    BY <1>3, RecordedRow DEF WriteUpdate
  <2>2. PICK old \in Medium : old = media[m]
    BY JobRows
  <2>3. PICK author \in Stamps : author = Stamp(w)
    BY <1>1, StampOfBatch
  <2> DEFINE row == [old EXCEPT !.value = author, !.revision = old.revision + 1]
  <2>4. row \in Medium /\ row.revision = old.revision + 1 /\ row.value = author
    <3>1. PICK n \in Nat : n = old.revision + 1
      BY NextRevision
    <3>2. row \in Medium
      BY <3>1, NextRow
    <3> QED BY <3>1, <3>2 DEF Medium
  <2>5. media' = [media EXCEPT ![m] = row] /\ outbox' = [outbox EXCEPT ![m] = Append(@, author)]
    <3>1. NewValue(w) = author
      BY <1>1, <2>3, StampOfBatch
    <3>2. /\ media' = [media EXCEPT ![m].value = author, ![m].revision = @ + 1]
          /\ outbox' = [outbox EXCEPT ![m] = Append(@, author)]
      BY <1>3, <2>3, <3>1 DEF WriteUpdate, Announce
    <3> QED BY <2>2, <3>2, JobRows
  <2> HIDE DEF row
  <2>6. /\ author[1] \in Jobs => job[author[1]].state # "none" /\ job[author[1]].action = "update"
        /\ author[1] \in Keys => KeyAction[author[1]] = "update"
    BY <1>1, <2>3, StampOfBatch
  <2>7. media[m].state = "active" /\ media[m].value # author
    BY <1>1, <1>3, <2>3, StampOfBatch DEF Updatable, JobsInv, ReadsFresh, Fresh
  <2> QED BY <1>1, <2>1, <2>2, <2>4, <2>5, <2>6, <2>7, MediaStep
<1> QED BY <1>2, <1>3

(* schedule_delete: the value of an active medium is not that of a batch   *)
(* that deletes.                                                           *)
LEMMA WriteDeleteKeeps ==
    ASSUME JobsInv, NEW w \in Workers \cup Callers, NEW m \in Media, WriteDelete(w, m),
           UNCHANGED targets
    PROVE  JobsInv'
<1>1. /\ worker[w].step = "write" /\ ActionOf(w) = "delete"
      /\ UNCHANGED <<job, item, key>>
  BY DEF WriteDelete
<1>2. PICK next \in Worker : /\ worker' = [worker EXCEPT ![w] = next]
                             /\ next.step = "items" /\ next.job = worker[w].job /\ next.at = {}
  <2>1. PICK result \in {"succeeded", "failed"} : Record(w, m, result)
    BY DEF WriteDelete
  <2> QED BY <2>1, RecordedRow
<1>3. CASE media[m].state # "active"
  <2>1. UNCHANGED <<media, outbox>>
    BY <1>3 DEF WriteDelete
  <2> QED BY <1>1, <1>2, <2>1, OnlyWorkerMoves
<1>4. CASE media[m].state = "active"
  <2>1. PICK old \in Medium : old = media[m]
    BY JobRows
  <2>2. PICK author \in Stamps : author = Stamp(w)
    BY <1>1, StampOfBatch
  <2> DEFINE row == [old EXCEPT !.state = "delete_pending", !.revision = old.revision + 1]
  <2>3. row \in Medium /\ row.revision = old.revision + 1 /\ row.value = old.value
        /\ row.state # "active"
    <3>1. PICK n \in Nat : n = old.revision + 1
      BY NextRevision
    <3>2. row \in Medium
      BY <3>1, NextRow
    <3> QED BY <3>1, <3>2 DEF Medium
  <2>4. media' = [media EXCEPT ![m] = row] /\ outbox' = [outbox EXCEPT ![m] = Append(@, author)]
    BY <1>4, <2>1, <2>2, JobRows DEF WriteDelete, Announce
  <2> HIDE DEF row
  <2>5. media[m].value # author
    <3>1. /\ author[1] \in Jobs => job[author[1]].action # "update"
          /\ author[1] \in Keys => KeyAction[author[1]] # "update"
          /\ author[1] \in Jobs \cup Keys
      BY <1>1, <2>2, StampOfBatch
    <3> QED BY <3>1 DEF JobsInv, ValuesFromUpdates
  <2> QED BY <1>1, <1>2, <1>4, <2>1, <2>3, <2>4, <2>5, MediaStep
<1> QED BY <1>3, <1>4

(* Clients, and the worker that finalizes deletions                        *)
LEMMA OthersKeep ==
    ASSUME JobsInv, NEW m \in Media, Edit(m) \/ Delete(m) \/ FinalizeDelete(m), UNCHANGED targets
    PROVE  JobsInv'
<1>1. PICK old \in Medium : old = media[m]
  BY JobRows
<1>2. /\ <<"client", 0>> \in Stamps /\ <<"deletion", 0>> \in Stamps
      /\ <<"client", 0>>[1] = "client" /\ <<"deletion", 0>>[1] = "deletion"
  BY DEF Stamps, Authors
<1>3. CASE Edit(m)
  <2> DEFINE row == [old EXCEPT !.value = <<"client", 0>>, !.revision = old.revision + 1]
  <2>1. row \in Medium /\ row.revision = old.revision + 1 /\ row.value = <<"client", 0>>
    <3>1. PICK n \in Nat : n = old.revision + 1
      BY NextRevision
    <3>2. row \in Medium
      BY <3>1, <1>2, NextRow
    <3> QED BY <3>1, <3>2 DEF Medium
  <2>2. /\ media' = [media EXCEPT ![m] = row]
        /\ outbox' = [outbox EXCEPT ![m] = Append(@, <<"client", 0>>)]
        /\ UNCHANGED <<job, item, key, worker>>
    BY <1>1, <1>3, JobRows DEF Edit, Announce
  <2> HIDE DEF row
  <2> QED BY <1>1, <1>2, <2>1, <2>2, MediaStep
<1>4. ASSUME NEW author \in {<<"client", 0>>, <<"deletion", 0>>},
             NEW state \in {"delete_pending", "deleted"},
             media' = [media EXCEPT ![m] = [old EXCEPT !.state = state,
                                                   !.revision = old.revision + 1]],
             outbox' = [outbox EXCEPT ![m] = Append(@, author)],
             UNCHANGED <<job, item, key, worker>>
      PROVE  JobsInv'
  <2> DEFINE row == [old EXCEPT !.state = state, !.revision = old.revision + 1]
  <2>1. row \in Medium /\ row.revision = old.revision + 1 /\ row.value = old.value
        /\ row.state # "active"
    <3>1. PICK n \in Nat : n = old.revision + 1
      BY NextRevision
    <3>2. row \in Medium
      BY <3>1, NextRow
    <3> QED BY <3>1, <3>2 DEF Medium
  <2>2. author \in Stamps /\ author[1] \notin Jobs \cup Keys
    BY <1>2
  <2> HIDE DEF row
  <2> QED BY <1>1, <1>4, <2>1, <2>2, MediaStep DEF row
<1>5. CASE Delete(m)
  BY <1>1, <1>4, <1>5, JobRows DEF Delete, Announce
<1>6. CASE FinalizeDelete(m)
  BY <1>1, <1>4, <1>6, JobRows DEF FinalizeDelete, Announce
<1> QED BY <1>3, <1>5, <1>6


(* The key of a synchronous batch is claimed, completed or expires.        *)
LEMMA KeyStep ==
    ASSUME JobsInv, key' \in [Keys -> IdempotencyKey],
           worker' \in [Workers \cup Callers -> Worker], WorkersHold', ReadsFresh',
           UNCHANGED <<job, item, media, outbox, targets>>
    PROVE  JobsInv'
<1>1. ValueAnnounced' /\ ValuesFromUpdates' /\ ReplaySafe'
  BY MediaUntouched DEF JobsGoOn
<1>2. Types'
  BY DEF JobsInv, Types, TypeOK
<1>3. ItemsTell'
  BY DEF JobsInv, ItemsTell
<1> QED BY <1>1, <1>2, <1>3 DEF JobsInv

LEMMA KeysKeep ==
    ASSUME JobsInv, UNCHANGED targets,
           \/ \E c \in Callers : CompleteKey(c) \/ \E k \in Keys : ClaimKey(c, k)
           \/ \E k \in Keys : ExpireKey(k)
    PROVE  JobsInv'
<1>1. ASSUME NEW c \in Callers, NEW k \in Keys, ClaimKey(c, k) PROVE JobsInv'
  <2>1. PICK n \in 1 .. MaxClaims : n = key[k].claim + 1
    <3>1. key[k].claim \in 0 .. MaxClaims /\ key[k].claim < MaxClaims
      BY <1>1, JobRows DEF ClaimKey, IdempotencyKey
    <3> QED BY <3>1
  <2> DEFINE row == [IdleWorker EXCEPT !.step = "items", !.job = k, !.token = n]
  <2>2. row \in Worker /\ row.step = "items" /\ row.job = k /\ row.at = {}
    <3>1. k \in Jobs \cup Keys /\ n \in Nat
      OBVIOUS
    <3> QED BY <3>1, IdleIsWorker
  <2>3. worker' = [worker EXCEPT ![c] = row]
    BY <1>1, <2>1 DEF ClaimKey
  <2>4. key' \in [Keys -> IdempotencyKey]
    <3>1. [status |-> "in_progress", claim |-> n] \in IdempotencyKey
      BY DEF IdempotencyKey
    <3>2. key' = [key EXCEPT ![k] = [status |-> "in_progress", claim |-> n]]
      BY <1>1, <2>1, JobRows DEF ClaimKey
    <3> QED BY <3>1, <3>2, JobRows
  <2>5. UNCHANGED <<job, item, media, outbox>>
    BY <1>1 DEF ClaimKey
  <2> HIDE DEF row
  <2>6. worker' \in [Workers \cup Callers -> Worker] /\ WorkersHold' /\ ReadsFresh'
    BY <2>2, <2>3, <2>5, WorkerMoves DEF JobsGoOn
  <2> QED BY <2>4, <2>5, <2>6, KeyStep
<1>2. ASSUME NEW c \in Callers, CompleteKey(c) PROVE JobsInv'
  <2>1. worker' = [worker EXCEPT ![c] = IdleWorker] /\ UNCHANGED <<job, item, media, outbox>>
    BY <1>2 DEF CompleteKey, Stop
  <2>2. IdleWorker \in Worker /\ IdleWorker.step = "idle" /\ IdleWorker.at = {}
    BY DEF IdleWorker, Worker
  <2>3. worker' \in [Workers \cup Callers -> Worker] /\ WorkersHold' /\ ReadsFresh'
    BY <2>1, <2>2, WorkerMoves DEF JobsGoOn
  <2>4. key' \in [Keys -> IdempotencyKey]
    <3>1. CASE key' = key
      BY <3>1, JobRows
    <3>2. CASE key' = [key EXCEPT ![worker[c].job].status = "completed"]
      <4>1. worker[c].job \in Keys
        BY <1>2 DEF CompleteKey, JobsInv, WorkersHold
      <4>2. PICK old \in IdempotencyKey : old = key[worker[c].job]
        BY <4>1, JobRows
      <4>3. [old EXCEPT !.status = "completed"] \in IdempotencyKey
        BY DEF IdempotencyKey
      <4> QED BY <3>2, <4>1, <4>2, <4>3, JobRows
    <3> QED BY <1>2, <3>1, <3>2 DEF CompleteKey
  <2> QED BY <2>1, <2>3, <2>4, KeyStep
<1>3. ASSUME NEW k \in Keys, ExpireKey(k) PROVE JobsInv'
  <2>1. UNCHANGED <<job, item, media, outbox, worker>>
    BY <1>3 DEF ExpireKey
  <2>2. key' \in [Keys -> IdempotencyKey]
    BY <1>3, JobRows DEF ExpireKey, IdempotencyKey
  <2>3. WorkersHold' /\ ReadsFresh'
    BY <2>1, WorkersWait DEF JobsGoOn
  <2> QED BY <2>1, <2>2, <2>3, KeyStep, JobRows
<1> QED BY <1>1, <1>2, <1>3

(* The claim of a job                                                      *)
LEMMA ClaimKeeps ==
    ASSUME JobsInv, NEW w \in Workers, NEW j \in Jobs, Claim(w, j), UNCHANGED targets
    PROVE  JobsInv'
<1>1. PICK old \in Job : /\ old = job[j] /\ old.state \in {"pending", "running"}
                         /\ old.attempts < MaxAttempts
  BY JobRows DEF Claim, Claimable
<1>2. PICK n \in 1 .. MaxAttempts : n = old.attempts + 1
  <2>1. old.attempts \in 0 .. MaxAttempts
    BY DEF Job
  <2> QED BY <1>1, <2>1
<1>3. PICK row \in Job : /\ row = [old EXCEPT !.state = "running", !.attempts = n,
                                              !.leased = TRUE, !.due = FALSE]
                         /\ row.state = "running" /\ row.action = old.action
  <2>1. [old EXCEPT !.state = "running", !.attempts = n, !.leased = TRUE, !.due = FALSE] \in Job
    <3>1. n \in 0 .. MaxAttempts
      OBVIOUS
    <3> QED BY <3>1 DEF Job, JobStates
  <2> QED BY <2>1 DEF Job
<1>4. job' = [job EXCEPT ![j] = row] /\ UNCHANGED <<item, key, media, outbox>>
  <2>1. Claimed(old) = row
    BY <1>2, <1>3 DEF Claimed, Job
  <2> QED BY <1>1, <2>1, JobRows DEF Claim
<1>5. PICK next \in Worker : /\ worker' = [worker EXCEPT ![w] = next]
                             /\ next.step = "items" /\ next.job = j /\ next.at = {}
  <2> DEFINE next == [IdleWorker EXCEPT !.step = "items", !.job = j, !.token = n]
  <2>1. next \in Worker /\ next.step = "items" /\ next.job = j /\ next.at = {}
    <3>1. j \in Jobs \cup Keys /\ n \in Nat
      OBVIOUS
    <3> QED BY <3>1, IdleIsWorker
  <2>2. worker' = [worker EXCEPT ![w] = next]
    BY <1>1, <1>2 DEF Claim
  <2> HIDE DEF next
  <2> QED BY <2>1, <2>2
<1>6. /\ JobsGoOn /\ ItemsTell' /\ ValueAnnounced' /\ ValuesFromUpdates' /\ ReplaySafe'
      /\ worker' \in [Workers \cup Callers -> Worker] => Types'
  BY <1>1, <1>3, <1>4, RowChanges
<1>7. worker' \in [Workers \cup Callers -> Worker] /\ WorkersHold' /\ ReadsFresh'
  <2>1. w \notin Callers /\ job'[j].state # "none"
    BY <1>3, <1>4, JobRows
  <2> QED BY <1>4, <1>5, <1>6, <2>1, WorkerMoves
<1> QED BY <1>6, <1>7 DEF JobsInv

(* A worker stops, and its job row changes with it.                        *)
LEMMA StopsWithRow ==
    ASSUME JobsInv, JobsGoOn, NEW w \in Workers \cup Callers, Stop(w), UNCHANGED media,
           ItemsTell', ValueAnnounced', ValuesFromUpdates', ReplaySafe',
           worker' \in [Workers \cup Callers -> Worker] => Types'
    PROVE  JobsInv'
<1>1. IdleWorker \in Worker /\ IdleWorker.step = "idle" /\ IdleWorker.at = {}
  BY DEF IdleWorker, Worker
<1>2. worker' \in [Workers \cup Callers -> Worker] /\ WorkersHold' /\ ReadsFresh'
  BY <1>1, WorkerMoves DEF Stop
<1> QED BY <1>2 DEF JobsInv

(* The results that a worker stores are those of a completed job: it has   *)
(* one for every target, because it covers the pending items.              *)
LEMMA StoredMatches ==
    ASSUME JobsInv, NEW w \in Workers, worker[w].job \in Jobs, Owns(w), Covers(w),
           NEW row, row.state = "completed",
           row.succeeded = Cardinality({m \in Media : Stored(w)[m] = "succeeded"}),
           row.failed = Cardinality({m \in Media : Stored(w)[m] \in {"failed", "cancelled"}})
    PROVE  /\ Stored(w) \in [Media -> ItemStates]
           /\ Matches(row, Stored(w), targets[worker[w].job])
<1>1. PICK old \in Worker : old = worker[w]
  BY JobRows
<1> DEFINE j == old.job
<1>2. j \in Jobs /\ job[j].state = "running"
  BY <1>1 DEF Owns
<1>3. PICK items \in [Media -> ItemStates] : items = item[j]
  BY <1>2, JobRows
<1>4. \A m \in Media : items[m] = IF m \in targets[j] THEN "pending" ELSE "none"
  BY <1>2, <1>3 DEF JobsInv, ItemsTell, Matches
<1>5. \A m \in Media : old.done[m] # "none" <=> m \in targets[j]
  BY <1>1, <1>3, <1>4 DEF Covers, ItemsIn
<1>6. \A m \in Media : old.done[m] \in {"none", "succeeded", "failed"}
  BY DEF Worker
<1>7. PICK results : results = Stored(w)
  OBVIOUS
<1>8. results = [m \in Media |-> IF m \in targets[j] THEN old.done[m] ELSE "none"]
  BY <1>1, <1>3, <1>4, <1>7 DEF Stored
<1>9. results \in [Media -> ItemStates]
  BY <1>6, <1>8 DEF ItemStates
<1>10. \A m \in Media : IF m \notin targets[j] THEN results[m] = "none"
                        ELSE results[m] \in {"succeeded", "failed"}
  BY <1>5, <1>6, <1>8
<1>11. {m \in Media : results[m] \in {"failed", "cancelled"}} = {m \in Media : results[m] = "failed"}
  BY <1>10
<1> HIDE DEF j
<1>12. Matches(row, results, targets[j])
  BY <1>7, <1>10, <1>11 DEF Matches
<1> QED BY <1>1, <1>7, <1>9, <1>12 DEF j

LEMMA CompleteKeeps ==
    ASSUME JobsInv, NEW w \in Workers, Complete(w), UNCHANGED targets
    PROVE  JobsInv'
<1>1. worker[w].step = "items" /\ Stop(w) /\ UNCHANGED <<key, media, outbox>>
  BY DEF Complete
<1>2. CASE Owns(w) /\ Covers(w)
  <2>1. PICK j \in Jobs : j = worker[w].job
    BY <1>2 DEF Owns
  <2>2. PICK old \in Job : old = job[j] /\ old.state = "running"
    BY <1>2, <2>1, JobRows DEF Owns
  <2>3. PICK results : results = Stored(w)
    OBVIOUS
  <2>4. PICK good \in Nat : good = Cardinality({m \in Media : results[m] = "succeeded"})
    <3>1. {m \in Media : results[m] = "succeeded"} \in SUBSET Media
      OBVIOUS
    <3> QED BY <3>1, FS_Subset, FS_CardinalityType
  <2>5. PICK bad \in Nat : bad = Cardinality({m \in Media : results[m] \in {"failed", "cancelled"}})
    <3>1. {m \in Media : results[m] \in {"failed", "cancelled"}} \in SUBSET Media
      OBVIOUS
    <3> QED BY <3>1, FS_Subset, FS_CardinalityType
  <2>6. PICK row \in Job : /\ row = [old EXCEPT !.state = "completed", !.leased = FALSE,
                                                !.succeeded = good, !.failed = bad]
                           /\ row.state = "completed" /\ row.leased = FALSE
                           /\ row.action = old.action /\ row.succeeded = good /\ row.failed = bad
    <3>1. [old EXCEPT !.state = "completed", !.leased = FALSE,
                      !.succeeded = good, !.failed = bad] \in Job
      BY DEF Job, JobStates
    <3> QED BY <3>1 DEF Job
  <2>7. results \in [Media -> ItemStates] /\ Matches(row, results, targets[j])
    BY <1>2, <2>1, <2>3, <2>4, <2>5, <2>6, StoredMatches
  <2>8. job' = [job EXCEPT ![j] = row] /\ item' = [item EXCEPT ![j] = results]
    <3>1. Completed(old, results) = row
      BY <2>4, <2>5, <2>6 DEF Completed
    <3>2. /\ job' = [job EXCEPT ![j] = Completed(@, results)]
          /\ item' = [item EXCEPT ![j] = results]
      BY <1>2, <2>1, <2>3 DEF Complete
    <3> QED BY <2>2, <3>1, <3>2, JobRows
  <2>9. /\ JobsGoOn /\ ItemsTell' /\ ValueAnnounced' /\ ValuesFromUpdates' /\ ReplaySafe'
        /\ worker' \in [Workers \cup Callers -> Worker] => Types'
    BY <1>1, <2>2, <2>6, <2>7, <2>8, JobChanges
  <2> QED BY <1>1, <2>9, StopsWithRow
<1>3. CASE ~(Owns(w) /\ Covers(w))
  <2>1. IdleWorker \in Worker /\ IdleWorker.step = "idle" /\ IdleWorker.at = {}
    BY DEF IdleWorker, Worker
  <2>2. UNCHANGED <<job, item>>
    BY <1>3 DEF Complete
  <2> QED BY <1>1, <2>1, <2>2, OnlyWorkerMoves DEF Stop
<1> QED BY <1>2, <1>3

LEMMA FailKeeps ==
    ASSUME JobsInv, NEW w \in Workers, Fail(w), UNCHANGED targets
    PROVE  JobsInv'
<1>1. Stop(w) /\ UNCHANGED <<item, key, media, outbox>>
  BY DEF Fail
<1>2. CASE Owns(w)
  <2>1. PICK j \in Jobs : j = worker[w].job
    BY <1>2 DEF Owns
  <2>2. PICK old \in Job : old = job[j] /\ old.state = "running"
    BY <1>2, <2>1, JobRows DEF Owns
  <2>3. PICK row \in Job : /\ row = Failed(old) /\ row.state \in {"pending", "failed"}
                           /\ row.leased = FALSE /\ row.action = old.action
    <3>1. PICK state \in {"pending", "failed"} :
            state = IF old.attempts >= MaxAttempts THEN "failed" ELSE "pending"
      OBVIOUS
    <3>2. Failed(old) = [old EXCEPT !.leased = FALSE, !.state = state]
      BY <3>1 DEF Failed
    <3>3. [old EXCEPT !.leased = FALSE, !.state = state] \in Job
      BY DEF Job, JobStates
    <3> QED BY <3>2, <3>3 DEF Job
  <2>4. job' = [job EXCEPT ![j] = row]
    BY <1>2, <2>1, <2>2, <2>3, JobRows DEF Fail
  <2>5. /\ JobsGoOn /\ ItemsTell' /\ ValueAnnounced' /\ ValuesFromUpdates' /\ ReplaySafe'
        /\ worker' \in [Workers \cup Callers -> Worker] => Types'
    BY <1>1, <2>2, <2>3, <2>4, RowChanges
  <2> QED BY <1>1, <2>5, StopsWithRow
<1>3. CASE ~Owns(w)
  <2>1. IdleWorker \in Worker /\ IdleWorker.step = "idle" /\ IdleWorker.at = {}
    BY DEF IdleWorker, Worker
  <2>2. job' = job
    BY <1>3 DEF Fail
  <2> QED BY <1>1, <2>1, <2>2, OnlyWorkerMoves DEF Stop
<1> QED BY <1>2, <1>3

-----------------------------------------------------------------------------
(* The theorems                                                            *)

LEMMA InitJobs == Init => JobsInv
<1> SUFFICES ASSUME Init PROVE JobsInv
  OBVIOUS
<1>1. Types
  <2>1. NoRow \in Job /\ NoRow.leased = FALSE
    <3>1. 0 \in 0 .. MaxAttempts
      OBVIOUS
    <3>2. PICK row \in Job : row = NewJob("update") /\ row.leased = FALSE
      <4>1. NewJob("update") \in Job
        BY <3>1 DEF NewJob, Job, JobStates, Actions
      <4> QED BY <4>1 DEF NewJob
    <3>3. NoRow = [row EXCEPT !.state = "none", !.due = FALSE]
      BY <3>2 DEF NoRow
    <3> QED BY <3>2, <3>3 DEF Job, JobStates
  <2>2. IdleWorker \in Worker
    BY DEF IdleWorker, Worker
  <2>3. job \in [Jobs -> Job] /\ \A j \in Jobs : job[j].leased => job[j].state = "running"
    BY <2>1 DEF Init
  <2>4. item \in [Jobs -> [Media -> ItemStates]] /\ key \in [Keys -> IdempotencyKey]
    BY DEF Init, ItemStates, IdempotencyKey
  <2>5. media \in [Media -> Medium]
    BY DEF Init, Medium, Stamps
  <2>6. /\ outbox \in [Media -> Seq(Stamps)]
        /\ \A m \in Media : Len(outbox[m]) = media[m].revision
    BY DEF Init
  <2>7. /\ worker \in [Workers \cup Callers -> Worker]
        /\ targets \in [Jobs \cup Keys -> SUBSET Media]
    BY <2>2 DEF Init
  <2> QED BY <2>3, <2>4, <2>5, <2>6, <2>7 DEF Types, TypeOK
<1>2. WorkersHold /\ ReadsFresh
  BY DEF Init, WorkersHold, ReadsFresh, Fresh, IdleWorker
<1>3. ItemsTell
  BY DEF Init, ItemsTell, Matches, NoRow, NewJob
<1>4. ValueAnnounced
  BY DEF Init, ValueAnnounced
<1>5. ValuesFromUpdates
  BY DEF Init, ValuesFromUpdates
<1>6. ReplaySafe
  BY DEF Init, ReplaySafe
<1> QED BY <1>1, <1>2, <1>3, <1>4, <1>5, <1>6 DEF JobsInv

LEMMA NextJobs == JobsInv /\ [Next]_vars => JobsInv'
<1> SUFFICES ASSUME JobsInv, [Next]_vars PROVE JobsInv'
  OBVIOUS
<1>1. CASE UNCHANGED vars
  <2>1. Types'
    BY <1>1 DEF vars, JobsInv, Types, TypeOK
  <2>2. WorkersHold' /\ ReadsFresh'
    BY <1>1, WorkersWait DEF vars, JobsGoOn
  <2>3. ItemsTell'
    BY <1>1 DEF vars, JobsInv, ItemsTell
  <2>4. ValueAnnounced' /\ ValuesFromUpdates' /\ ReplaySafe'
    BY <1>1, MediaUntouched DEF vars, JobsGoOn
  <2> QED BY <2>1, <2>2, <2>3, <2>4 DEF JobsInv
<1>2. ASSUME Step, UNCHANGED targets PROVE JobsInv'
  <2>1. CASE \E j \in Jobs, a \in Actions : Create(j, a)
    BY <1>2, <2>1, CreateKeeps
  <2>2. CASE \E j \in Jobs : Cancel(j) \/ LeaseEnds(j) \/ RetryDue(j)
    BY <1>2, <2>2, CancelKeeps, TimeKeeps
  <2>3. ASSUME NEW w \in Workers \cup Callers,
               \E m \in Media : BeginItem(w, m) \/ ReadItem(w, m) \/ WriteUpdate(w, m)
                                \/ WriteDelete(w, m) \/ ItemFails(w, m)
        PROVE  JobsInv'
    BY <1>2, <2>3, MovesKeep, ReadItemKeeps, WriteUpdateKeeps, WriteDeleteKeeps
  <2>4. CASE \E w \in Workers : Work(w) \/ Fail(w)
    BY <1>2, <2>3, <2>4, ClaimKeeps, CompleteKeeps, FailKeeps DEF Work
  <2>5. CASE \E c \in Callers : BatchMedia(c)
    BY <1>2, <2>3, <2>5, KeysKeep DEF BatchMedia
  <2>6. CASE \E w \in Workers \cup Callers : Abandon(w) \/ \E m \in Media : ItemFails(w, m)
    BY <1>2, <2>3, <2>6, MovesKeep
  <2>7. CASE \E k \in Keys : ExpireKey(k)
    BY <1>2, <2>7, KeysKeep
  <2>8. CASE \E m \in Media : Edit(m) \/ Delete(m) \/ FinalizeDelete(m)
    BY <1>2, <2>8, OthersKeep
  <2> QED BY <1>2, <2>1, <2>2, <2>4, <2>5, <2>6, <2>7, <2>8 DEF Step
<1> QED BY <1>1, <1>2 DEF Next

(* Everything that the proofs of the batches rest on holds at all times.   *)
THEOREM JobsInvariant == Spec => []JobsInv
<1> QED BY InitJobs, NextJobs, PTL DEF Spec

(* Every row of a job, a key, a medium and a worker has its type, and the  *)
(* events of a medium are as many as its revision.                         *)
THEOREM JobTypes == Spec => []TypeOK
<1>1. JobsInv => TypeOK
  BY DEF JobsInv, Types
<1> QED BY <1>1, JobsInvariant, PTL

(* complete_async_job, fail_async_job and cancel_async_job publish results *)
(* only with the end of a job: however leases are lost and overlap, the    *)
(* items and the counters are those that its state tells.                  *)
THEOREM ResultsMatchJobs == Spec => []ItemsMatchJob
<1>1. ASSUME JobsInv, NEW j \in Jobs
      PROVE  /\ job[j].state \in {"pending", "running", "failed"} =>
                    ItemsIn(j, {"pending"}) = targets[j]
             /\ job[j].state = "cancelled" => ItemsIn(j, {"cancelled"}) = targets[j]
             /\ job[j].state = "completed" =>
                    /\ ItemsIn(j, {"succeeded", "failed"}) = targets[j]
                    /\ job[j].succeeded = Cardinality(ItemsIn(j, {"succeeded"}))
                    /\ job[j].failed = Cardinality(ItemsIn(j, {"failed"}))
  <2>1. Matches(job[j], item[j], targets[j]) /\ targets[j] \subseteq Media
    BY <1>1, JobRows DEF JobsInv, ItemsTell
  <2>2. ASSUME NEW result \in {"pending", "succeeded", "failed", "cancelled"}
        PROVE  ItemsIn(j, {result}) = {m \in Media : item[j][m] = result}
    BY DEF ItemsIn
  <2>3. job[j].state = "completed" => /\ job[j].succeeded = Cardinality(ItemsIn(j, {"succeeded"}))
                                      /\ job[j].failed = Cardinality(ItemsIn(j, {"failed"}))
    BY <2>1, <2>2 DEF Matches
  <2>4. job[j].state = "completed" => ItemsIn(j, {"succeeded", "failed"}) = targets[j]
    BY <2>1 DEF Matches, ItemsIn
  <2> QED BY <2>1, <2>3, <2>4 DEF Matches, ItemsIn
<1>2. JobsInv => ItemsMatchJob
  BY <1>1 DEF ItemsMatchJob
<1> QED BY <1>2, JobsInvariant, PTL

(* execute_batch_action, replayed by overlapping or repeated attempts,     *)
(* announces a change of a medium twice in a row for no batch: the stored  *)
(* value or state tells the second execution that its work is done.        *)
THEOREM ReplaysRepeatNothing == Spec => []ReplaySafe
<1>1. JobsInv => ReplaySafe
  BY DEF JobsInv
<1> QED BY <1>1, JobsInvariant, PTL

=============================================================================
