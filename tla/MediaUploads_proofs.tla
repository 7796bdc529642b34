------------------------ MODULE MediaUploads_proofs ------------------------
(***************************************************************************)
(* Proofs about the media uploads, for any number of uploads, sessions,    *)
(* request handlers and workers, any quota and any number of faults.       *)
(***************************************************************************)
EXTENDS MediaUploads, TLAPS, FiniteSetTheorems

-----------------------------------------------------------------------------
(* The inductive invariant: ordinary uploads.                              *)

(* The same bytes, with or without their content type.                     *)
SameBytes(x, y) == x = y \/ {x, y} = {"good", "bare"}

(* A worker read a whole object.                                           *)
FoundWhole(u) == (u.pc = "checksum" /\ u.as = "good") \/ (u.pc \in {"keep", "commit"} /\ u.token > 0)

(* A token is never newer than the row's, a worker's is not the first; the *)
(* object a live owner is about to commit is there, and whole unless a     *)
(* worker discarded it after its lease.                                    *)
UploadPlaced(p) ==
    LET u == proc[p]
        m == media[u.id]
        b == blob[u.id]
    IN  /\ m.state # "none" => u.token <= m.token
        /\ u.pc \in {"create", "put", "promote", "copied", "repair", "promoted"} => u.token = 0
        /\ u.pc \in {"head", "checksum", "keep", "discard"} => u.token > 0
        /\ u.pc = "create" =>
             /\ u.id \notin leaked /\ m.state = "none"
             /\ \A q \in Procs \ {p} : proc[q].id # u.id
        /\ u.pc \in {"create", "put"} => b.stage = "none"
        /\ u.pc \in {"create", "put", "promote", "copied"} => b.final = "none"
        /\ u.pc = "copied" => u.as \in {"good", "bad"} /\ b.stage \in {u.as, "none"}
        /\ u.pc \in {"promoted", "commit"} /\ u.token = 0 /\ m.state = "uploading" /\ m.token = 0
             => b.final \in {"good", "bad"}
        /\ FoundWhole(u) /\ m.state = "uploading" /\ m.token = u.token /\ u.id \notin late
             => b.final = "good"

UploadsPlaced == \A p \in Procs : proc[p].pc \in UploadSteps => UploadPlaced(p)

(* Nobody shares a token.                                                  *)
TokensDiffer ==
    \A p, q \in Procs :
        /\ proc[p].pc \in UploadSteps /\ proc[q].pc \in UploadSteps
        /\ proc[p].id = proc[q].id /\ proc[p].token = proc[q].token
        => p = q

(* The temporary and the final object of an upload are the same bytes, and *)
(* the object of an active row is whole.                                   *)
UploadRow(d) ==
    /\ blob[d].stage # "none" /\ blob[d].final # "none" => SameBytes(blob[d].stage, blob[d].final)
    /\ media[d].state = "active" /\ d \notin late => blob[d].final \in {"good", "bad"}

UploadRows == \A d \in Direct : UploadRow(d)

-----------------------------------------------------------------------------
(* The inductive invariant: sessions.                                      *)

(* Cleaning up is for sessions that ended and cannot be written any more,  *)
(* and takes the staged object first; what was inspected stays as it was   *)
(* while the session is pending and not due.                               *)
SessionPlaced(p) ==
    LET u == proc[p]
        s == u.id
        open == session[s].state = "pending" /\ ~due[s]
    IN  /\ session[s].state # "none"
        /\ u.pc \in {"send", "recheck", "judge"} => backend = "local" /\ p \in Clients
        /\ u.pc = "judge" => u.as \in SessionStates \ {"none"} /\ (u.as \in Terminal => session[s].state = u.as)
        /\ u.pc = "expire" => due[s]
        /\ u.pc \in {"clean", "clean_final", "clean_mark"} =>
             due[s] /\ u.as \in Terminal /\ session[s].state = u.as
        /\ u.pc \in {"clean_final", "clean_mark"} /\ backend = "s3" => blob[s].stage = "none"
        /\ u.pc = "clean_mark" /\ u.as # "completed" /\ backend = "s3"
             => blob[s].final = "none" \/ s \in late
        /\ u.pc = "finalize" /\ open => blob[s][Target] = "good"
        /\ u.pc = "final_copied" => /\ backend = "s3" /\ u.as \in {"good", "bad"}
                                    /\ blob[s].stage # u.as => blob[s].stage = "none" /\ due[s]
                                    /\ open => u.as = "good"
        /\ u.pc = "final_repair" => backend = "s3" /\ (open => blob[s].stage = "good")
        /\ u.pc = "complete" /\ open => blob[s].final = "good"

SessionsPlaced == \A p \in Procs : proc[p].pc \in SessionSteps => SessionPlaced(p)

(* A row of a session, its media row and its objects.                      *)
SessionRow(s) ==
    /\ media[s].state # "none" => session[s].state = "completed"
    /\ media[s].state # "uploading"
    /\ session[s].cleaned => session[s].state \in Terminal
    /\ backend = "s3" =>
         /\ blob[s].final # "none" =>
              \/ blob[s].stage = "none" /\ due[s]
              \/ blob[s].stage # "none" /\ SameBytes(blob[s].stage, blob[s].final)
         /\ media[s].state = "active" => blob[s].final = "good"
         /\ session[s].cleaned /\ session[s].state # "completed"
              => due[s] /\ blob[s].stage = "none" /\ (blob[s].final = "none" \/ s \in late)

SessionRows == \A s \in Sessions : SessionRow(s)

Linked ==
    /\ UploadsPlaced
    /\ TokensDiffer
    /\ UploadRows
    /\ SessionsPlaced
    /\ SessionRows

(* Every reservation left room for itself.                                 *)
QuotaKept == used + reserved <= Quota

MediaInv ==
    /\ TypeOK
    /\ Linked
    /\ LedgerExact
    /\ QuotaKept

-----------------------------------------------------------------------------
(* What a step does, in terms of the rows it touches.                      *)

Contents == [stage : Staged, final : Payload]

RowTypes ==
    /\ backend \in Backends
    /\ media \in [Ids -> Medium]
    /\ session \in [Sessions -> Session]
    /\ due \in [Sessions -> BOOLEAN]
    /\ blob \in [Ids -> Contents]
    /\ leaked \in SUBSET Direct /\ late \in SUBSET Ids
    /\ proc \in [Procs -> Process]
    /\ faults \in 0 .. MaxFaults

(* The processes A (one or none) work on the id i, and on nothing else.    *)
Touches(A, i) ==
    /\ RowTypes' /\ backend' = backend
    /\ \A p, q \in A : p = q
    /\ \A q \in Procs \ A : proc'[q] = proc[q]
    /\ \A p \in A : proc[p].id \in {i, "none"} /\ proc'[p].id \in {i, "none"}
    /\ \A j \in Ids \ {i} : media'[j] = media[j] /\ blob'[j] = blob[j]
    /\ \A d \in Direct \ {i} : d \in leaked' <=> d \in leaked
    /\ \A j \in Ids \ {i} : j \in late' <=> j \in late
    /\ \A s \in Sessions \ {i} : session'[s] = session[s] /\ due'[s] = due[s]

(* What the owner q of an upload relies on while others work on it.        *)
Undisturbed(A, d, q) ==
    /\ media'[d].state # "none" =>
         media[d].state # "none" /\ media[d].token <= media'[d].token
    /\ media'[d].state = "uploading" =>
         /\ media[d].state = "uploading"
         /\ blob[d].final = "good" /\ media'[d].token = proc[q].token =>
              blob'[d].final = "good" \/ d \in late'
         /\ media'[d].token = 0 /\ blob[d].final \in {"good", "bad"} =>
              blob'[d].final \in {"good", "bad"}
    /\ d \in late => d \in late'
    /\ proc[q].pc = "create" =>
         media'[d].state = "none" /\ d \notin leaked' /\ \A p \in A : proc'[p].id # d
    /\ proc[q].pc \in {"create", "put"} => blob'[d].stage = "none"
    /\ proc[q].pc \in {"create", "put", "promote", "copied"} => blob'[d].final = "none"
    /\ proc[q].pc = "copied" => blob'[d].stage \in {blob[d].stage, "none"}

(* The token p goes on with is its own.                                    *)
OwnToken(p) ==
    \/ /\ proc[p].pc \in UploadSteps
       /\ proc'[p].id = proc[p].id /\ proc'[p].token = proc[p].token
    \/ \A q \in Procs \ {p} :
         proc[q].pc \in UploadSteps /\ proc[q].id = proc'[p].id => proc[q].token # proc'[p].token

UploadGoesOn(A, d) ==
    /\ Touches(A, d)
    /\ \A q \in Procs \ A : proc[q].pc \in UploadSteps /\ proc[q].id = d => Undisturbed(A, d, q)
    /\ \A p \in A : proc'[p].pc \in UploadSteps => UploadPlaced(p)' /\ OwnToken(p)
    /\ \A e \in Direct : e = d => UploadRow(e)'

(* What everybody who works on a session relies on.                        *)
SessionForward(s) ==
    /\ session[s].state # "none" => session'[s].state # "none"
    /\ session[s].state \in Terminal => session'[s].state = session[s].state
    /\ due[s] => due'[s]
    /\ backend = "s3" /\ due[s] /\ blob[s].stage = "none" =>
         blob'[s].stage = "none" /\ (blob[s].final = "none" => blob'[s].final = "none" \/ s \in late')
    /\ backend = "s3" => blob'[s].stage \in {blob[s].stage, "none"} \/ blob[s].stage = "none"
    /\ backend = "s3" /\ ~due'[s] /\ blob[s].stage # "none" => blob'[s].stage = blob[s].stage
    /\ s \in late => s \in late'
    /\ session[s].state # "none" /\ session'[s].state = "pending" /\ ~due'[s] =>
         /\ session[s].state = "pending"
         /\ blob[s][Target] = "good" => blob'[s][Target] = "good"
         /\ blob[s].final = "good" => blob'[s].final = "good"

SessionGoesOn(A, s) ==
    /\ Touches(A, s)
    /\ SessionForward(s)
    /\ \A p \in A : proc'[p].pc \in SessionSteps => SessionPlaced(p)'
    /\ \A t \in Sessions : t = s => SessionRow(t)'

-----------------------------------------------------------------------------
(* Rows of the process table.                                              *)

UploadWork == [pc : UploadSteps, id : Direct, token : Nat, as : Payload]
SessionWork == [pc : SessionSteps, id : Sessions, token : {0}, as : SessionStates \cup Staged]

LEMMA Placed ==
    ASSUME RowTypes, NEW p \in Procs
    PROVE  /\ proc[p].pc \in UploadSteps \cup SessionSteps \cup {"idle", "purged"}
           /\ proc[p].pc \in UploadSteps => proc[p] \in UploadWork
           /\ proc[p].pc \in SessionSteps => proc[p] \in SessionWork
           /\ proc[p].pc = "purged" => proc[p].id \in Ids
           /\ proc[p].pc = "idle" <=> proc[p].id = "none"
           /\ proc[p].pc = "idle" \/ proc[p].id \in Ids
  <1>1. PICK row \in Process : row = proc[p]
    BY DEF RowTypes
  <1>2. \/ row \in UploadWork \/ row \in SessionWork
        \/ row.pc = "idle" /\ row.id = "none"
        \/ row.pc = "purged" /\ row.id \in Ids
    BY DEF Process, UploadWork, SessionWork
  <1>3. row \in UploadWork => row.pc \in UploadSteps /\ row.id \in Direct
    BY DEF UploadWork
  <1>4. row \in SessionWork => row.pc \in SessionSteps /\ row.id \in Sessions
    BY DEF SessionWork
  <1>5. \A x \in UploadSteps : x \notin SessionSteps /\ x \notin {"idle", "purged"}
    BY DEF UploadSteps, SessionSteps
  <1>6. "idle" \notin SessionSteps /\ "purged" \notin SessionSteps
    BY DEF SessionSteps
  <1> QED BY <1>1, <1>2, <1>3, <1>4, <1>5, <1>6, UploadConstants DEF Ids

LEMMA UploadId ==
    ASSUME RowTypes, NEW p \in Procs, proc[p].pc \in UploadSteps
    PROVE  /\ proc[p].id \in Direct /\ proc[p].id \in Ids /\ proc[p].id \notin Sessions
           /\ proc[p].id # "none" /\ proc[p].token \in Nat /\ proc[p].as \in Payload
  BY Placed, UploadConstants DEF Ids, UploadWork

LEMMA SessionId ==
    ASSUME RowTypes, NEW p \in Procs, proc[p].pc \in SessionSteps
    PROVE  /\ proc[p].id \in Sessions /\ proc[p].id \in Ids /\ proc[p].id \notin Direct
           /\ proc[p].id # "none" /\ proc[p].as \in SessionStates \cup Staged
  BY Placed, UploadConstants DEF Ids, SessionWork

UploadIds ==
    \A p \in Procs : proc[p].pc \in UploadSteps =>
        proc[p].id \in Direct /\ proc[p].id # "none" /\ proc[p].token \in Nat

SessionIds ==
    \A p \in Procs : proc[p].pc \in SessionSteps =>
        proc[p].id \in Sessions /\ proc[p].id # "none"

LEMMA UploadIdNext == RowTypes => UploadIds
  BY UploadId DEF UploadIds

LEMMA SessionIdNext == RowTypes => SessionIds
  BY SessionId DEF SessionIds

-----------------------------------------------------------------------------
(* A step that goes on as above keeps the rows linked.                     *)

LEMMA OtherUploads ==
    ASSUME RowTypes, UploadsPlaced, NEW A \in SUBSET Procs, NEW i \in Ids, Touches(A, i),
           NEW q \in Procs, proc'[q].pc \in UploadSteps, proc'[q].id # i
    PROVE  UploadPlaced(q)'
  <1> DEFINE d == proc[q].id
  <1>1. proc'[q].id \in Direct /\ proc'[q].id # "none"
    <2>1. RowTypes' BY DEF Touches
    <2>2. UploadIds' BY <2>1, UploadIdNext, PTL
    <2> QED BY <2>2 DEF UploadIds
  <1>2. q \notin A /\ proc'[q] = proc[q]
    BY <1>1 DEF Touches
  <1>3. UploadPlaced(q) /\ d \in Ids \ {i} /\ d \in Direct \ {i}
    BY <1>1, <1>2 DEF UploadsPlaced, Ids
  <1>4. media'[d] = media[d] /\ blob'[d] = blob[d] /\ (d \in leaked' <=> d \in leaked)
        /\ (d \in late' <=> d \in late)
    BY <1>3 DEF Touches
  <1>5. \A r \in Procs : proc'[r].id = d => proc'[r] = proc[r]
    BY <1>1, <1>2, <1>3 DEF Touches
  <1> HIDE DEF d
  <1>6. d = proc[q].id /\ d = proc'[q].id
    BY <1>2 DEF d
  <1> QED BY <1>2, <1>3, <1>4, <1>5, <1>6 DEF UploadPlaced, FoundWhole

LEMMA SameUpload ==
    ASSUME RowTypes, UploadsPlaced, NEW A \in SUBSET Procs, NEW d \in Direct, RowTypes',
           NEW q \in Procs \ A, proc[q].pc \in UploadSteps, proc[q].id = d,
           \A r \in Procs \ A : proc'[r] = proc[r],
           Undisturbed(A, d, q)
    PROVE  UploadPlaced(q)'
  <1>1. UploadPlaced(q) /\ proc'[q] = proc[q] /\ proc[q].token \in Nat
    BY UploadId DEF UploadsPlaced
  <1>2. media[d].token \in Nat /\ media'[d].token \in Nat
    BY DEF RowTypes, Medium, Ids
  <1> QED BY <1>1, <1>2 DEF UploadPlaced, FoundWhole, Undisturbed

LEMMA UploadsStayPlaced ==
    ASSUME RowTypes, UploadsPlaced, TokensDiffer, UploadRows,
           NEW A \in SUBSET Procs, NEW d \in Direct, UploadGoesOn(A, d)
    PROVE  UploadsPlaced' /\ TokensDiffer' /\ UploadRows'
  <1>1. d \in Ids /\ Touches(A, d) /\ RowTypes'
    BY DEF Ids, UploadGoesOn, Touches
  <1>2. UploadsPlaced'
    <2> SUFFICES ASSUME NEW q \in Procs, proc'[q].pc \in UploadSteps PROVE UploadPlaced(q)'
      BY DEF UploadsPlaced
    <2>1. CASE proc'[q].id # d
      BY <1>1, <2>1, OtherUploads
    <2>2. CASE q \in A
      BY <2>2 DEF UploadGoesOn
    <2>3. CASE proc'[q].id = d /\ q \notin A
      <3>1. q \in Procs \ A /\ proc'[q] = proc[q] BY <1>1, <2>3 DEF Touches
      <3>2. Undisturbed(A, d, q) BY <2>3, <3>1 DEF UploadGoesOn
      <3>3. \A r \in Procs \ A : proc'[r] = proc[r] BY <1>1 DEF Touches
      <3> QED BY <1>1, <2>3, <3>1, <3>2, <3>3, SameUpload
    <2> QED BY <2>1, <2>2, <2>3
  <1>3. TokensDiffer'
    <2> SUFFICES ASSUME NEW p \in Procs, NEW q \in Procs,
                        proc'[p].pc \in UploadSteps, proc'[q].pc \in UploadSteps,
                        proc'[p].id = proc'[q].id, proc'[p].token = proc'[q].token, p # q
                 PROVE  FALSE
      BY DEF TokensDiffer
    <2>1. \A r \in A : proc'[r].pc \in UploadSteps => OwnToken(r)
      BY DEF UploadGoesOn
    <2>2. \A r \in Procs \ A : proc'[r] = proc[r]
      BY <1>1 DEF Touches
    <2>3. ~(p \in A /\ q \in A)
      BY <1>1 DEF Touches
    <2> QED BY <2>1, <2>2, <2>3 DEF TokensDiffer, OwnToken
  <1>4. UploadRows'
    BY <1>1 DEF UploadRows, UploadRow, UploadGoesOn, Touches, Ids
  <1> QED BY <1>2, <1>3, <1>4

LEMMA UploadsElsewhere ==
    ASSUME RowTypes, UploadsPlaced, TokensDiffer, UploadRows,
           NEW A \in SUBSET Procs, NEW s \in Sessions, Touches(A, s)
    PROVE  UploadsPlaced' /\ TokensDiffer' /\ UploadRows'
  <1>1. s \in Ids /\ s \notin Direct /\ RowTypes'
    BY UploadConstants DEF Ids, Touches
  <1>2. UploadIds'
    BY <1>1, UploadIdNext, PTL
  <1>3. UploadsPlaced'
    BY <1>1, <1>2, OtherUploads DEF UploadsPlaced, UploadIds
  <1>4. \A p \in Procs : proc'[p].pc \in UploadSteps => proc'[p] = proc[p]
    BY <1>1, <1>2 DEF Touches, UploadIds
  <1>5. TokensDiffer'
    BY <1>4 DEF TokensDiffer
  <1>6. UploadRows'
    BY <1>1 DEF UploadRows, UploadRow, Touches, Ids
  <1> QED BY <1>3, <1>5, <1>6

LEMMA SameSession ==
    ASSUME RowTypes, SessionsPlaced, RowTypes', backend' = backend,
           NEW q \in Procs, proc[q].pc \in SessionSteps, proc'[q] = proc[q],
           SessionForward(proc[q].id)
    PROVE  SessionPlaced(q)'
  <1> DEFINE s == proc[q].id
  <1>1. SessionPlaced(q)
    BY DEF SessionsPlaced
  <1>2. s \in Sessions /\ due[s] \in BOOLEAN /\ due'[s] \in BOOLEAN
    BY SessionId DEF RowTypes
  <1>3. Target' = Target
    BY DEF Target
  <1>4. s = proc[q].id /\ s = proc'[q].id /\ SessionForward(s)
    OBVIOUS
  <1> HIDE DEF s
  <1>5. /\ session'[s].state # "none"
        /\ proc[q].as \in Terminal /\ session[s].state = proc[q].as
             => session'[s].state = proc[q].as
    BY <1>1, <1>4 DEF SessionPlaced, SessionForward
  <1>6. session'[s].state = "pending" /\ ~due'[s] => session[s].state = "pending" /\ ~due[s]
    BY <1>1, <1>2, <1>4 DEF SessionPlaced, SessionForward
  <1>7. /\ proc[q].pc = "judge" => /\ proc[q].as \in SessionStates \ {"none"}
                                   /\ proc[q].as \in Terminal => session'[s].state = proc[q].as
        /\ proc[q].pc \in {"send", "recheck", "judge"} => backend' = "local" /\ q \in Clients
        /\ proc[q].pc = "expire" => due'[s]
        /\ proc[q].pc \in {"clean", "clean_final", "clean_mark"} =>
             due'[s] /\ proc[q].as \in Terminal /\ session'[s].state = proc[q].as
    BY <1>1, <1>2, <1>4, <1>5 DEF SessionPlaced, SessionForward
  <1>8. /\ proc[q].pc \in {"clean_final", "clean_mark"} /\ backend' = "s3" => blob'[s].stage = "none"
        /\ proc[q].pc = "clean_mark" /\ proc[q].as # "completed" /\ backend' = "s3"
             => blob'[s].final = "none" \/ s \in late'
    BY <1>1, <1>2, <1>4 DEF SessionPlaced, SessionForward
  <1>9. /\ proc[q].pc = "finalize" /\ session'[s].state = "pending" /\ ~due'[s]
             => blob'[s][Target'] = "good"
        /\ proc[q].pc = "complete" /\ session'[s].state = "pending" /\ ~due'[s]
             => blob'[s].final = "good"
    BY <1>1, <1>2, <1>3, <1>4, <1>5, <1>6 DEF SessionPlaced, SessionForward
  <1>10. proc[q].pc = "final_copied" =>
           /\ backend' = "s3" /\ proc[q].as \in {"good", "bad"}
           /\ blob'[s].stage # proc[q].as => blob'[s].stage = "none" /\ due'[s]
           /\ session'[s].state = "pending" /\ ~due'[s] => proc[q].as = "good"
    BY <1>1, <1>2, <1>4, <1>6 DEF SessionPlaced, SessionForward
  <1>11. proc[q].pc = "final_repair" =>
           /\ backend' = "s3"
           /\ session'[s].state = "pending" /\ ~due'[s] => blob'[s].stage = "good"
    BY <1>1, <1>2, <1>4, <1>6 DEF SessionPlaced, SessionForward
  <1> QED BY <1>4, <1>5, <1>7, <1>8, <1>9, <1>10, <1>11 DEF SessionPlaced

LEMMA UntouchedSession ==
    ASSUME RowTypes, NEW s \in Sessions, backend' = backend, session'[s] = session[s],
           due'[s] = due[s], media'[s] = media[s], blob'[s] = blob[s], s \in late' <=> s \in late
    PROVE  SessionForward(s) /\ (SessionRow(s) => SessionRow(s)')
  <1>1. Target' = Target BY DEF Target
  <1> QED BY <1>1 DEF SessionForward, SessionRow

LEMMA SessionsStayPlaced ==
    ASSUME RowTypes, SessionsPlaced, SessionRows,
           NEW A \in SUBSET Procs, NEW i \in Ids, Touches(A, i),
           i \in Sessions => SessionGoesOn(A, i)
    PROVE  SessionsPlaced' /\ SessionRows'
  <1>1. RowTypes' /\ backend' = backend
    BY DEF Touches
  <1>2. \A s \in Sessions \ {i} :
           SessionForward(s) /\ (SessionRow(s) => SessionRow(s)')
    BY UntouchedSession DEF Touches, Ids
  <1>3. SessionRows'
    BY <1>2 DEF SessionRows, SessionGoesOn
  <1>4. SessionIds'
    BY <1>1, SessionIdNext, PTL
  <1>5. SessionsPlaced'
    <2> SUFFICES ASSUME NEW q \in Procs, proc'[q].pc \in SessionSteps PROVE SessionPlaced(q)'
      BY DEF SessionsPlaced
    <2>1. CASE q \in A
      <3>1. i \in Sessions BY <1>4, <2>1 DEF Touches, SessionIds
      <3> QED BY <2>1, <3>1 DEF SessionGoesOn
    <2>2. CASE q \notin A
      <3>1. proc'[q] = proc[q] BY <2>2 DEF Touches
      <3>2. SessionForward(proc[q].id) BY <1>2, <1>4, <3>1 DEF SessionGoesOn, SessionIds
      <3> QED BY <1>1, <3>1, <3>2, SameSession
    <2> QED BY <2>1, <2>2
  <1> QED BY <1>3, <1>5

(* A step on the id i, whichever kind of id it is.                         *)
GoesOn(A, i) ==
    /\ i \in Direct => UploadGoesOn(A, i)
    /\ i \in Sessions => SessionGoesOn(A, i)

LEMMA StaysLinked ==
    ASSUME RowTypes, Linked, NEW A \in SUBSET Procs, NEW i \in Ids, GoesOn(A, i)
    PROVE  RowTypes' /\ Linked'
  <1>1. Touches(A, i) /\ RowTypes'
    BY DEF GoesOn, UploadGoesOn, SessionGoesOn, Touches, Ids
  <1>2. SessionsPlaced' /\ SessionRows'
    BY <1>1, SessionsStayPlaced DEF Linked, GoesOn
  <1>3. UploadsPlaced' /\ TokensDiffer' /\ UploadRows'
    BY UploadsStayPlaced, UploadsElsewhere, <1>1 DEF Linked, GoesOn, Ids
  <1> QED BY <1>1, <1>2, <1>3 DEF Linked

-----------------------------------------------------------------------------
(* The rows a step writes.                                                 *)

(* p alone moves, and stays with the id i or leaves it.                    *)
Moves(p, i) ==
    /\ proc' \in [Procs -> Process]
    /\ \A q \in Procs \ {p} : proc'[q] = proc[q]
    /\ proc[p].id \in {i, "none"} /\ proc'[p].id \in {i, "none"}

Went(p, pc) ==
    /\ Moves(p, proc[p].id)
    /\ proc'[p].pc = pc /\ proc'[p].id = proc[p].id
    /\ proc'[p].token = proc[p].token /\ proc'[p].as = proc[p].as

WentAs(p, pc, as) ==
    /\ Moves(p, proc[p].id)
    /\ proc'[p].pc = pc /\ proc'[p].id = proc[p].id
    /\ proc'[p].token = proc[p].token /\ proc'[p].as = as

Ended(p) ==
    /\ Moves(p, proc[p].id)
    /\ proc'[p].pc = "idle" /\ proc'[p].id = "none"

Began(p, pc, i) ==
    /\ Moves(p, i)
    /\ proc'[p].pc = pc /\ proc'[p].id = i /\ proc'[p].token = 0 /\ proc'[p].as = "none"

Writes(i, state, token) ==
    /\ media' \in [Ids -> Medium]
    /\ \A j \in Ids \ {i} : media'[j] = media[j]
    /\ media'[i].state = state /\ media'[i].token = token

Stores(i, stage, final) ==
    /\ blob' \in [Ids -> Contents]
    /\ \A j \in Ids \ {i} : blob'[j] = blob[j]
    /\ blob'[i].stage = stage /\ blob'[i].final = final

Settles(s, state, cleaned) ==
    /\ session' \in [Sessions -> Session]
    /\ \A t \in Sessions \ {s} : session'[t] = session[t]
    /\ session'[s].state = state /\ session'[s].cleaned = cleaned

LEMMA IdleRow == Idle \in Process /\ Idle.pc = "idle" /\ Idle.id = "none"
  BY DEF Idle, Process

LEMMA GoingAs ==
    ASSUME RowTypes, NEW p \in Procs, NEW pc, NEW as,
           proc' = [proc EXCEPT ![p] = [@ EXCEPT !.pc = pc, !.as = as]],
           \/ proc[p].pc \in UploadSteps /\ pc \in UploadSteps /\ as \in Payload
           \/ proc[p].pc \in SessionSteps /\ pc \in SessionSteps /\ as \in SessionStates \cup Staged
    PROVE  WentAs(p, pc, as)
  <1>1. PICK row : row = proc[p]
    OBVIOUS
  <1> DEFINE new == [row EXCEPT !.pc = pc, !.as = as]
  <1>2. /\ new \in UploadWork \/ new \in SessionWork
        /\ new.pc = pc /\ new.id = row.id /\ new.token = row.token /\ new.as = as
    <2>1. CASE row \in UploadWork /\ pc \in UploadSteps /\ as \in Payload
      BY <2>1 DEF UploadWork
    <2>2. CASE row \in SessionWork /\ pc \in SessionSteps /\ as \in SessionStates \cup Staged
      BY <2>2 DEF SessionWork
    <2> QED BY <1>1, <2>1, <2>2, Placed
  <1>3. new \in Process
    BY <1>2 DEF Process, UploadWork, SessionWork
  <1>4. proc' = [proc EXCEPT ![p] = new]
    BY <1>1
  <1> HIDE DEF new
  <1>5. proc' \in [Procs -> Process] /\ proc'[p] = new /\ \A q \in Procs \ {p} : proc'[q] = proc[q]
    BY <1>3, <1>4 DEF RowTypes
  <1> QED BY <1>1, <1>2, <1>5 DEF WentAs, Moves

LEMMA Going ==
    ASSUME RowTypes, NEW p \in Procs, NEW pc, Goto(p, pc),
           \/ proc[p].pc \in UploadSteps /\ pc \in UploadSteps
           \/ proc[p].pc \in SessionSteps /\ pc \in SessionSteps
    PROVE  Went(p, pc)
  <1>1. PICK row : row = proc[p]
    OBVIOUS
  <1>2. row \in UploadWork \/ row \in SessionWork
    BY <1>1, Placed
  <1>3. [row EXCEPT !.pc = pc] = [row EXCEPT !.pc = pc, !.as = row.as]
    BY <1>2 DEF UploadWork, SessionWork
  <1>4. proc' = [proc EXCEPT ![p] = [@ EXCEPT !.pc = pc, !.as = row.as]]
    BY <1>1, <1>3 DEF Goto
  <1>5. \/ proc[p].pc \in UploadSteps /\ row.as \in Payload
        \/ proc[p].pc \in SessionSteps /\ row.as \in SessionStates \cup Staged
    BY <1>1, UploadId, SessionId
  <1>6. ~(proc[p].pc \in UploadSteps /\ proc[p].pc \in SessionSteps)
    BY DEF UploadSteps, SessionSteps
  <1>7. WentAs(p, pc, row.as)
    BY <1>4, <1>5, <1>6, GoingAs
  <1> QED BY <1>1, <1>7 DEF WentAs, Went

LEMMA Returning ==
    ASSUME RowTypes, NEW p \in Procs, Return(p)
    PROVE  Ended(p)
  BY IdleRow DEF Ended, Moves, Return, RowTypes

LEMMA Renewing ==
    ASSUME RowTypes, NEW p \in Procs, NEW pc \in UploadSteps, proc[p].pc \in UploadSteps,
           Renewed(p, pc)
    PROVE  (Owns(p) /\ Went(p, pc)) \/ Ended(p)
  BY Going, Returning DEF Renewed

LEMMA Beginning ==
    ASSUME RowTypes, NEW p \in Procs, NEW pc, NEW i \in Ids, At(p, "idle"), Run(p, pc, i),
           \/ pc = "create" /\ i \in Direct
           \/ pc \in SessionSteps /\ i \in Sessions
           \/ pc = "purged"
    PROVE  Began(p, pc, i)
  <1> DEFINE new == [pc |-> pc, id |-> i, token |-> 0, as |-> "none"]
  <1>1. proc' = [proc EXCEPT ![p] = new]
    BY DEF Run
  <1>2. new \in Process
    BY DEF Process, UploadSteps, SessionSteps, SessionStates, Payload, Staged
  <1>3. new.pc = pc /\ new.id = i /\ new.token = 0 /\ new.as = "none"
    OBVIOUS
  <1>4. proc[p].id = "none"
    BY Placed DEF At
  <1> HIDE DEF new
  <1> QED BY <1>1, <1>2, <1>3, <1>4 DEF Began, Moves, RowTypes

LEMMA Staging ==
    ASSUME RowTypes, NEW i \in Ids, NEW x \in Staged, blob' = [blob EXCEPT ![i].stage = x]
    PROVE  Stores(i, x, blob[i].final)
  <1>1. PICK row \in Contents : row = blob[i]
    BY DEF RowTypes
  <1>2. [row EXCEPT !.stage = x] \in Contents
    BY DEF Contents
  <1> QED BY <1>1, <1>2 DEF RowTypes, Stores, Contents

LEMMA Finishing ==
    ASSUME RowTypes, NEW i \in Ids, NEW x \in Payload, blob' = [blob EXCEPT ![i].final = x]
    PROVE  Stores(i, blob[i].stage, x)
  <1>1. PICK row \in Contents : row = blob[i]
    BY DEF RowTypes
  <1>2. [row EXCEPT !.final = x] \in Contents
    BY DEF Contents
  <1> QED BY <1>1, <1>2 DEF RowTypes, Stores, Contents

LEMMA Standing ==
    ASSUME RowTypes, NEW i \in Ids
    PROVE  /\ blob' = blob => Stores(i, blob[i].stage, blob[i].final)
           /\ media' = media => Writes(i, media[i].state, media[i].token)
           /\ blob[i].stage \in Staged /\ blob[i].final \in Payload
           /\ media[i].state \in MediaStates /\ media[i].token \in Nat
  BY DEF RowTypes, Stores, Writes, Contents, Medium

LEMMA Writing ==
    ASSUME RowTypes, NEW i \in Ids, NEW row \in Medium, media' = [media EXCEPT ![i] = row]
    PROVE  Writes(i, row.state, row.token)
  BY DEF RowTypes, Writes

LEMMA Settling ==
    ASSUME RowTypes, NEW s \in Sessions, NEW state \in SessionStates, Settle(s, state)
    PROVE  Settles(s, state, session[s].cleaned)
  <1>1. PICK row \in Session : row = session[s]
    BY DEF RowTypes
  <1>2. [row EXCEPT !.state = state] \in Session
    BY DEF Session
  <1> QED BY <1>1, <1>2 DEF RowTypes, Settle, Settles, Session

LEMMA FaultCounted ==
    ASSUME RowTypes, Fault \/ UNCHANGED faults
    PROVE  faults' \in 0 .. MaxFaults
  BY UploadConstants DEF RowTypes, Fault

(* The step of one process p on the id i.                                  *)
LEMMA OneTouches ==
    ASSUME RowTypes, NEW p \in Procs, NEW i \in Ids, backend' = backend,
           Moves(p, i),
           NEW state, NEW token, Writes(i, state, token),
           NEW stage, NEW final, Stores(i, stage, final),
           leaked' \in SUBSET Direct, \A d \in Direct \ {i} : d \in leaked' <=> d \in leaked,
           late' \in {late, late \cup {i}},
           session' \in [Sessions -> Session], due' \in [Sessions -> BOOLEAN],
           \A s \in Sessions \ {i} : session'[s] = session[s] /\ due'[s] = due[s],
           Fault \/ UNCHANGED faults
    PROVE  Touches({p}, i)
  <1>0. late' \in SUBSET Ids /\ \A j \in Ids \ {i} : j \in late' <=> j \in late
    BY DEF RowTypes
  <1>1. RowTypes'
    BY <1>0, FaultCounted DEF RowTypes, Moves, Writes, Stores
  <1> QED BY <1>0, <1>1 DEF Touches, Moves, Writes, Stores

-----------------------------------------------------------------------------
(* The steps of an ordinary upload.                                        *)

(* Those who work on one upload.                                           *)
LEMMA Neighbours ==
    ASSUME RowTypes, Linked, NEW p \in Procs, NEW q \in Procs \ {p},
           proc[p].pc \in UploadSteps, proc[q].pc \in UploadSteps, proc[q].id = proc[p].id
    PROVE  /\ UploadPlaced(p) /\ UploadPlaced(q)
           /\ proc[q].token # proc[p].token
           /\ proc[p].token \in Nat /\ proc[q].token \in Nat
           /\ proc[p].pc # "create" /\ proc[q].pc # "create"
  <1>1. UploadPlaced(p) /\ UploadPlaced(q)
    BY DEF Linked, UploadsPlaced
  <1>2. proc[q].token # proc[p].token
    BY DEF Linked, TokensDiffer
  <1>3. proc[p].pc # "create" /\ proc[q].pc # "create"
    BY <1>1 DEF UploadPlaced
  <1> QED BY <1>1, <1>2, <1>3, UploadId

(* An owner changes the objects of an upload whose row stays: a worker     *)
(* only deletes, and a whole object goes with its row or is marked.        *)
ObjectsKept(p, d) ==
    /\ blob'[d].stage \in {blob[d].stage, "none"}
    /\ proc[p].token # 0 => blob'[d].final \in {blob[d].final, "none"}
    /\ blob[d].final = "good" => blob'[d].final = "good" \/ d \in late' \/ Owns(p)
    /\ media[d].state = "uploading" /\ media[d].token = 0 /\ blob[d].final \in {"good", "bad"} =>
         blob'[d].final \in {"good", "bad"}
    /\ media[d].state = "active" /\ d \notin late' /\ blob[d].final \in {"good", "bad"} =>
         blob'[d].final \in {"good", "bad"}
    /\ d \in late => d \in late'

LEMMA OwnerSteps ==
    ASSUME RowTypes, Linked, NEW p \in Procs, NEW d, d = proc[p].id,
           proc[p].pc \in UploadSteps \ {"create", "put"},
           Touches({p}, d), ObjectsKept(p, d),
           media'[d].state = media[d].state, media'[d].token = media[d].token, leaked' = leaked,
           proc'[p].pc \in UploadSteps => UploadPlaced(p)' /\ proc'[p].token = proc[p].token,
           blob'[d].stage # "none" /\ blob'[d].final # "none" =>
             SameBytes(blob'[d].stage, blob'[d].final)
    PROVE  GoesOn({p}, d)
  <1>1. d \in Direct /\ d \in Ids /\ d \notin Sessions /\ d # "none" /\ media[d].token \in Nat
    BY UploadId DEF RowTypes, Medium
  <1>2. ASSUME NEW q \in Procs \ {p}, proc[q].pc \in UploadSteps, proc[q].id = d
        PROVE  Undisturbed({p}, d, q)
    <2>1. /\ UploadPlaced(q) /\ proc[q].pc # "create" /\ proc[q].token # proc[p].token
          /\ proc[q].token \in Nat /\ proc[p].token \in Nat
      BY <1>2, Neighbours
    <2>2. /\ proc[q].pc \in {"put", "promote", "copied"} => proc[q].token = 0
          /\ proc[q].pc = "put" => blob[d].stage = "none"
          /\ proc[q].pc \in {"put", "promote", "copied"} => blob[d].final = "none"
      BY <1>2, <2>1 DEF UploadPlaced
    <2>3. Owns(p) => media[d].token = proc[p].token
      BY DEF Owns
    <2> QED BY <1>1, <2>1, <2>2, <2>3 DEF Undisturbed, ObjectsKept
  <1>3. proc'[p].pc \in UploadSteps => OwnToken(p)
    <2> SUFFICES ASSUME proc'[p].pc \in UploadSteps PROVE OwnToken(p)
      OBVIOUS
    <2>1. RowTypes' BY DEF Touches
    <2>2. UploadIds' BY <2>1, UploadIdNext, PTL
    <2> QED BY <2>2 DEF UploadIds, OwnToken, Touches
  <1>4. UploadRow(d)'
    <2>1. UploadRow(d) BY <1>1 DEF Linked, UploadRows
    <2> QED BY <2>1 DEF UploadRow, ObjectsKept
  <1> QED BY <1>1, <1>2, <1>3, <1>4 DEF GoesOn, UploadGoesOn

LEMMA OwnerTouches ==
    ASSUME RowTypes, NEW p \in Procs, proc[p].pc \in UploadSteps, NEW d, d = proc[p].id,
           UNCHANGED <<backend, session, due>>, Moves(p, d),
           late' \in {late, late \cup {d}},
           NEW state, NEW token, Writes(d, state, token),
           NEW stage, NEW final, Stores(d, stage, final),
           leaked' \in SUBSET Direct, \A e \in Direct \ {d} : e \in leaked' <=> e \in leaked,
           Fault \/ UNCHANGED faults
    PROVE  Touches({p}, d)
  <1>1. d \in Ids BY UploadId
  <1>2. session' \in [Sessions -> Session] /\ due' \in [Sessions -> BOOLEAN]
    BY DEF RowTypes
  <1> QED BY <1>1, <1>2, OneTouches

(* The row of the upload stays, the objects are those named.               *)
LEMMA OwnerStores ==
    ASSUME RowTypes, Linked, NEW p \in Procs, NEW d, d = proc[p].id,
           proc[p].pc \in UploadSteps \ {"create", "put"},
           UNCHANGED <<backend, media, session, due, leaked>>, Fault \/ UNCHANGED faults,
           late' \in {late, late \cup {d}},
           NEW stage, NEW final, Stores(d, stage, final), ObjectsKept(p, d),
           stage # "none" /\ final # "none" => SameBytes(stage, final),
           NEW pc \in UploadSteps \ {"create", "put"}, NEW as,
           WentAs(p, pc, as) \/ Ended(p),
           WentAs(p, pc, as) => UploadPlaced(p)'
    PROVE  GoesOn({p}, d)
  <1>1. d \in Ids BY UploadId
  <1>2. Moves(p, d)
    BY DEF WentAs, Ended
  <1>3. Writes(d, media[d].state, media[d].token)
    BY <1>1, Standing
  <1>4. Touches({p}, d)
    BY <1>2, <1>3, OwnerTouches DEF RowTypes
  <1>5. proc'[p].pc \in UploadSteps => WentAs(p, pc, as)
    BY DEF Ended, UploadSteps
  <1>6. blob'[d].stage = stage /\ blob'[d].final = final
    BY DEF Stores
  <1>7. proc'[p].pc \in UploadSteps => UploadPlaced(p)' /\ proc'[p].token = proc[p].token
    BY <1>5 DEF WentAs
  <1>8. blob'[d].stage # "none" /\ blob'[d].final # "none" =>
          SameBytes(blob'[d].stage, blob'[d].final)
    BY <1>6
  <1> QED BY <1>1, <1>4, <1>7, <1>8, OwnerSteps

LEMMA OwnerFacts ==
    ASSUME RowTypes, Linked, NEW p \in Procs, NEW d, d = proc[p].id, proc[p].pc \in UploadSteps
    PROVE  /\ UploadPlaced(p) /\ UploadRow(d)
           /\ d \in Direct /\ d \in Ids /\ d # "none" /\ d \notin Sessions
           /\ proc[p].token \in Nat /\ media[d].token \in Nat /\ proc[p].as \in Payload
           /\ blob[d].stage \in Staged /\ blob[d].final \in Payload
           /\ blob[d].stage # "none" /\ blob[d].final # "none" =>
                SameBytes(blob[d].stage, blob[d].final)
  BY UploadId, Standing DEF Linked, UploadsPlaced, UploadRows, UploadRow

(* The objects stay as they are, and the process goes on or ends.          *)
LEMMA OwnerPauses ==
    ASSUME RowTypes, Linked, NEW p \in Procs, NEW d, d = proc[p].id,
           proc[p].pc \in UploadSteps \ {"create", "put"},
           UNCHANGED <<backend, late, media, session, due, blob, leaked>>, Fault \/ UNCHANGED faults,
           NEW pc \in UploadSteps \ {"create", "put"}, NEW as,
           WentAs(p, pc, as) \/ Ended(p),
           WentAs(p, pc, as) => UploadPlaced(p)'
    PROVE  GoesOn({p}, d)
  <1>1. d \in Ids /\ (blob[d].stage # "none" /\ blob[d].final # "none" =>
          SameBytes(blob[d].stage, blob[d].final))
    BY OwnerFacts
  <1>2. Stores(d, blob[d].stage, blob[d].final) /\ ObjectsKept(p, d)
    BY <1>1, Standing DEF ObjectsKept
  <1> QED BY <1>1, <1>2, OwnerStores

LEMMA WentWith ==
    ASSUME NEW p, NEW pc, Went(p, pc)
    PROVE  WentAs(p, pc, proc[p].as)
  BY DEF Went, WentAs

LEMMA PromoteGoes ==
    ASSUME RowTypes, Linked, NEW p \in Procs, Promote(p)
    PROVE  GoesOn({p}, proc[p].id)
  <1> DEFINE d == proc[p].id
             stage == blob[d].stage
  <1>1. proc[p].pc = "promote" /\ proc[p].pc \in UploadSteps \ {"create", "put"}
        /\ "promoted" \in UploadSteps \ {"create", "put"}
    BY DEF Promote, At, UploadSteps
  <1>2. /\ UploadPlaced(p) /\ d \in Ids /\ stage \in Staged
        /\ blob[d].final = "none" /\ proc[p].token = 0
    BY <1>1, OwnerFacts DEF UploadPlaced
  <1>3. UNCHANGED <<backend, late, media, session, due, leaked, faults>>
    BY DEF Promote
  <1>4. CASE blob[d].stage = "none"
    <2>1. Ended(p) /\ blob' = blob
      BY <1>4, Returning DEF Promote
    <2>2. ~WentAs(p, "promoted", "none") BY <2>1 DEF WentAs, Ended
    <2> QED BY <1>1, <1>2, <1>3, <2>1, <2>2, OwnerPauses
  <1>5. CASE blob[d].stage # "none"
    <2>1. blob' = [blob EXCEPT ![d].final = stage] /\ Goto(p, "promoted")
      BY <1>2, <1>5 DEF Promote
    <2>2. stage \in {"good", "bad"}
      BY <1>2, <1>5 DEF Staged
    <2>3. Stores(d, stage, stage)
      BY <1>2, <2>1, <2>2, Finishing DEF Payload, Staged
    <2>4. WentAs(p, "promoted", proc[p].as) BY <1>1, <2>1, Going, WentWith
    <2>5. ObjectsKept(p, d) BY <1>2, <1>3, <2>2, <2>3 DEF ObjectsKept, Stores
    <2>6. UploadPlaced(p)'
      BY <1>1, <1>2, <1>3, <2>2, <2>3, <2>4 DEF UploadPlaced, FoundWhole, WentAs, Stores
    <2>7. SameBytes(stage, stage) BY DEF SameBytes
    <2> QED BY <1>1, <1>3, <2>3, <2>4, <2>5, <2>6, <2>7, OwnerStores
  <1> QED BY <1>4, <1>5

(* The temporary object is deleted, and the owner goes on when it still is *)
(* the owner.                                                              *)
LEMMA StageDropped ==
    ASSUME RowTypes, Linked, NEW p \in Procs, NEW next \in {"commit", "abort"},
           \/ proc[p].pc \in {"promoted", "keep"} /\ next = "commit"
           \/ proc[p].pc = "drop" /\ next = "abort",
           blob' = [blob EXCEPT ![proc[p].id].stage = "none"], Renewed(p, next),
           UNCHANGED <<backend, late, media, session, due, leaked, faults>>
    PROVE  GoesOn({p}, proc[p].id)
  <1> DEFINE d == proc[p].id
  <1>1. proc[p].pc \in UploadSteps \ {"create", "put"} /\ next \in UploadSteps \ {"create", "put"}
    BY DEF UploadSteps
  <1>2. UploadPlaced(p) /\ d \in Ids /\ blob[d].stage \in Staged /\ blob[d].final \in Payload
    BY <1>1, OwnerFacts
  <1>3. Stores(d, "none", blob[d].final)
    BY <1>2, Staging DEF Staged
  <1>4. WentAs(p, next, proc[p].as) \/ Ended(p)
    BY <1>1, Renewing, WentWith
  <1>5. ObjectsKept(p, d)
    BY <1>3 DEF ObjectsKept, Stores
  <1>6. WentAs(p, next, proc[p].as) => UploadPlaced(p)'
    BY <1>2, <1>3 DEF UploadPlaced, FoundWhole, WentAs, Stores
  <1> QED BY <1>1, <1>3, <1>4, <1>5, <1>6, OwnerStores

LEMMA HeadFinalGoes ==
    ASSUME RowTypes, Linked, NEW p \in Procs, HeadFinal(p)
    PROVE  GoesOn({p}, proc[p].id)
  <1> DEFINE d == proc[p].id
             final == blob[d].final
             next == IF final = "none" THEN "drop" ELSE "checksum"
  <1>1. /\ proc[p].pc = "head" /\ proc[p].pc \in UploadSteps \ {"create", "put"}
        /\ next \in UploadSteps \ {"create", "put"} /\ next \in {"drop", "checksum"}
        /\ UNCHANGED <<backend, late, media, session, due, blob, leaked, faults>>
        /\ IF Owns(p) THEN GotoAs(p, next, final) ELSE Return(p)
    BY DEF HeadFinal, At, UploadSteps
  <1> HIDE DEF next
  <1>2. UploadPlaced(p) /\ d \in Ids /\ final \in Payload /\ proc[p].token \in Nat
    BY <1>1, OwnerFacts
  <1>3. CASE Owns(p)
    <2>1. WentAs(p, next, final)
      BY <1>1, <1>2, <1>3, GoingAs DEF GotoAs
    <2>2. UploadPlaced(p)'
      BY <1>1, <1>2, <2>1 DEF UploadPlaced, FoundWhole, WentAs
    <2> QED BY <1>1, <2>1, <2>2, OwnerPauses
  <1>4. CASE ~Owns(p)
    <2>1. Ended(p) /\ ~WentAs(p, next, final)
      BY <1>1, <1>4, Returning DEF WentAs, Ended, UploadSteps
    <2> QED BY <1>1, <2>1, OwnerPauses
  <1> QED BY <1>3, <1>4

LEMMA ChecksumGoes ==
    ASSUME RowTypes, Linked, NEW p \in Procs, Checksum(p)
    PROVE  GoesOn({p}, proc[p].id)
  <1> DEFINE d == proc[p].id
             matches == proc[p].as = "good" /\ blob[d].final \in {"good", "bare"}
             next == IF matches THEN "keep" ELSE "discard"
  <1>1. /\ proc[p].pc = "checksum" /\ proc[p].pc \in UploadSteps \ {"create", "put"}
        /\ next \in UploadSteps \ {"create", "put"} /\ next \in {"keep", "discard"}
        /\ next = "keep" => proc[p].as = "good"
        /\ UNCHANGED <<backend, late, media, session, due, blob, leaked, faults>>
        /\ (Owns(p) /\ GotoAs(p, next, "none")) \/ Return(p)
    BY DEF Checksum, At, UploadSteps
  <1> HIDE DEF next
  <1>2. UploadPlaced(p) /\ d \in Ids /\ proc[p].token \in Nat /\ proc[p].token > 0
    BY <1>1, OwnerFacts DEF UploadPlaced
  <1>3. CASE Owns(p) /\ GotoAs(p, next, "none")
    <2>1. WentAs(p, next, "none")
      BY <1>1, <1>3, GoingAs DEF GotoAs, Payload, Staged
    <2>2. UploadPlaced(p)'
      BY <1>1, <1>2, <2>1 DEF UploadPlaced, FoundWhole, WentAs
    <2> QED BY <1>1, <2>1, <2>2, OwnerPauses
  <1>4. CASE Return(p)
    <2>1. Ended(p) /\ ~WentAs(p, next, "none")
      BY <1>1, <1>4, Returning DEF WentAs, Ended, UploadSteps
    <2> QED BY <1>1, <2>1, OwnerPauses
  <1> QED BY <1>1, <1>3, <1>4

(* The parts of a copy, its completion, and the copy that repairs it.      *)
LEMMA UploadCopies ==
    ASSUME RowTypes, NEW p \in Procs, proc[p].pc \in UploadSteps
    PROVE  Upload(p) /\ Copied(p) = "copied" /\ Repair(p) = "repair"
           /\ (Finalized(p) <=> GotoAs(p, "promoted", "none")) /\ (SourceGone(p) <=> Return(p))
  <1>1. Upload(p)
    BY UploadId DEF Upload
  <1> QED BY <1>1 DEF Copied, Repair, Finalized, SourceGone

LEMMA UploadCopyParts ==
    ASSUME RowTypes, Linked, NEW p \in Procs, CopyParts(p), proc[p].pc \in UploadSteps
    PROVE  GoesOn({p}, proc[p].id)
  <1> DEFINE d == proc[p].id
             stage == blob[d].stage
  <1>1. /\ proc[p].pc = "promote" /\ proc[p].pc \in UploadSteps \ {"create", "put"}
        /\ "copied" \in UploadSteps \ {"create", "put"}
        /\ UNCHANGED <<backend, late, media, session, due, blob, leaked, faults>>
    BY DEF CopyParts, At, UploadSteps
  <1>2. /\ UploadPlaced(p) /\ d \in Ids /\ stage \in Staged
        /\ blob[d].final = "none" /\ proc[p].token = 0
    BY <1>1, OwnerFacts DEF UploadPlaced
  <1>3. CASE stage = "none"
    <2>1. SourceGone(p)
      BY <1>2, <1>3 DEF CopyParts
    <2>2. Ended(p) /\ ~WentAs(p, "copied", stage)
      BY <1>1, <2>1, UploadCopies, Returning DEF WentAs, Ended
    <2> QED BY <1>1, <2>2, OwnerPauses
  <1>4. CASE stage # "none"
    <2>1. GotoAs(p, "copied", stage)
      BY <1>1, <1>2, <1>4, UploadCopies DEF CopyParts
    <2>2. WentAs(p, "copied", stage)
      BY <1>1, <1>2, <2>1, GoingAs DEF GotoAs, Payload
    <2>3. stage \in {"good", "bad"}
      BY <1>2, <1>4 DEF Staged
    <2>4. UploadPlaced(p)'
      BY <1>1, <1>2, <2>2, <2>3 DEF UploadPlaced, FoundWhole, WentAs
    <2> QED BY <1>1, <2>2, <2>4, OwnerPauses
  <1> QED BY <1>3, <1>4

LEMMA UploadCompleteCopy ==
    ASSUME RowTypes, Linked, NEW p \in Procs, CompleteCopy(p), proc[p].pc \in UploadSteps
    PROVE  GoesOn({p}, proc[p].id)
  <1> DEFINE d == proc[p].id
             final == IF proc[p].as = "good" THEN "bare" ELSE "bad"
  <1>1. /\ proc[p].pc = "copied" /\ proc[p].pc \in UploadSteps \ {"create", "put"}
        /\ "repair" \in UploadSteps \ {"create", "put"}
        /\ UNCHANGED <<backend, media, session, due, leaked, faults>>
    BY UploadCopies DEF CompleteCopy, At, UploadSteps
  <1>2. /\ UploadPlaced(p) /\ d \in Ids /\ blob[d].stage \in {proc[p].as, "none"}
        /\ proc[p].as \in {"good", "bad"}
        /\ blob[d].final = "none" /\ proc[p].token = 0
    BY <1>1, OwnerFacts DEF UploadPlaced
  <1>3. /\ blob' = [blob EXCEPT ![d].final = final] /\ late' = late
        /\ GotoAs(p, "repair", "none")
    BY <1>1, <1>2, UploadCopies DEF CompleteCopy
  <1>4. final \in Payload /\ (blob[d].stage # "none" => SameBytes(blob[d].stage, final))
    BY <1>2 DEF Payload, Staged, SameBytes
  <1> HIDE DEF final
  <1>5. Stores(d, blob[d].stage, final)
    BY <1>2, <1>3, <1>4, Finishing
  <1>6. WentAs(p, "repair", "none")
    BY <1>1, <1>3, GoingAs DEF GotoAs, Payload, Staged
  <1>7. ObjectsKept(p, d)
    BY <1>2, <1>3, <1>5 DEF ObjectsKept, Stores
  <1>8. UploadPlaced(p)'
    BY <1>1, <1>2, <1>6 DEF UploadPlaced, FoundWhole, WentAs
  <1> QED BY <1>1, <1>3, <1>4, <1>5, <1>6, <1>7, <1>8, OwnerStores

LEMMA UploadRepairCopy ==
    ASSUME RowTypes, Linked, NEW p \in Procs, RepairCopy(p), proc[p].pc \in UploadSteps
    PROVE  GoesOn({p}, proc[p].id)
  <1> DEFINE d == proc[p].id
             stage == blob[d].stage
  <1>1. /\ proc[p].pc = "repair" /\ proc[p].pc \in UploadSteps \ {"create", "put"}
        /\ "promoted" \in UploadSteps \ {"create", "put"}
        /\ UNCHANGED <<backend, late, media, session, due, leaked, faults>>
    BY UploadCopies DEF RepairCopy, At, UploadSteps
  <1>2. /\ UploadPlaced(p) /\ d \in Ids /\ stage \in Staged /\ blob[d].final \in Payload
        /\ stage # "none" /\ blob[d].final # "none" => SameBytes(stage, blob[d].final)
    BY <1>1, OwnerFacts
  <1>3. proc[p].token = 0
    BY <1>1, <1>2 DEF UploadPlaced
  <1>4. CASE stage = "none"
    <2>1. Return(p) /\ blob' = blob
      BY <1>1, <1>4, UploadCopies DEF RepairCopy
    <2>2. Ended(p) /\ ~WentAs(p, "promoted", "none")
      BY <1>1, <2>1, Returning DEF WentAs, Ended
    <2> QED BY <1>1, <2>1, <2>2, OwnerPauses
  <1>5. CASE stage # "none"
    <2>1. blob' = [blob EXCEPT ![d].final = stage] /\ GotoAs(p, "promoted", "none")
      BY <1>1, <1>5, UploadCopies DEF RepairCopy
    <2>2. WentAs(p, "promoted", "none")
      BY <1>1, <2>1, GoingAs DEF GotoAs, Payload, Staged
    <2>3. stage \in {"good", "bad"}
      BY <1>2, <1>5 DEF Staged
    <2>4. Stores(d, stage, stage)
      BY <1>2, <2>1, <2>3, Finishing DEF Payload, Staged
    <2>5. blob[d].final = "good" => stage = "good"
      BY <1>2, <2>3 DEF SameBytes
    <2>6. ObjectsKept(p, d)
      BY <1>1, <1>3, <2>3, <2>4, <2>5 DEF ObjectsKept, Stores
    <2>7. UploadPlaced(p)'
      BY <1>1, <1>2, <1>3, <2>2, <2>3, <2>4 DEF UploadPlaced, FoundWhole, WentAs, Stores
    <2>8. SameBytes(stage, stage) BY DEF SameBytes
    <2> QED BY <1>1, <2>2, <2>4, <2>6, <2>7, <2>8, OwnerStores
  <1> QED BY <1>4, <1>5

LEMMA OvertakenGoes ==
    ASSUME RowTypes, Linked, NEW p \in Procs, Overtaken(p)
    PROVE  GoesOn({p}, proc[p].id)
  <1>1. /\ proc[p].pc \in UploadSteps \ {"create", "put"} /\ "drop" \in UploadSteps \ {"create", "put"}
        /\ UNCHANGED <<backend, late, media, session, due, blob, leaked, faults>>
    BY DEF Overtaken, At, UploadSteps
  <1>2. Ended(p) /\ ~WentAs(p, "drop", "none")
    BY <1>1, Returning DEF Overtaken, WentAs, Ended
  <1> QED BY <1>1, <1>2, OwnerPauses

LEMMA DiscardFinalGoes ==
    ASSUME RowTypes, Linked, NEW p \in Procs, DiscardFinal(p)
    PROVE  GoesOn({p}, proc[p].id)
  <1> DEFINE d == proc[p].id
  <1>1. /\ proc[p].pc = "discard" /\ Goto(p, "drop")
        /\ blob' = [blob EXCEPT ![d].final = "none"]
        /\ late' = IF Owns(p) THEN late ELSE late \cup {d}
        /\ UNCHANGED <<backend, media, session, due, leaked, faults>>
    BY DEF DiscardFinal, At
  <1>2. proc[p].pc \in UploadSteps \ {"create", "put"} /\ "drop" \in UploadSteps \ {"create", "put"}
    BY <1>1 DEF UploadSteps
  <1>3. /\ UploadPlaced(p) /\ d \in Ids /\ proc[p].token \in Nat /\ proc[p].token > 0
        /\ media[d].token \in Nat /\ (media[d].state = "uploading" => proc[p].token <= media[d].token)
    BY <1>1, <1>2, OwnerFacts DEF UploadPlaced
  <1>4. Stores(d, blob[d].stage, "none")
    BY <1>1, <1>3, Finishing DEF Payload, Staged
  <1>5. WentAs(p, "drop", proc[p].as)
    BY <1>1, <1>2, Going, WentWith
  <1>6. ~(media[d].state = "uploading" /\ media[d].token = 0)
    BY <1>3
  <1>7. Owns(p) => media[d].state # "active"
    BY DEF Owns
  <1>8. ObjectsKept(p, d)
    BY <1>1, <1>4, <1>6, <1>7 DEF ObjectsKept, Stores
  <1>9. UploadPlaced(p)'
    BY <1>1, <1>3, <1>4, <1>5 DEF UploadPlaced, FoundWhole, WentAs, Stores
  <1> QED BY <1>1, <1>2, <1>4, <1>5, <1>8, <1>9, OwnerStores

LEMMA Putting ==
    ASSUME RowTypes, Linked, NEW p \in Procs, At(p, "put"),
           NEW stage \in Staged,
           blob' = [blob EXCEPT ![proc[p].id].stage = IF @ = "none" THEN stage ELSE @],
           NEW next \in {"promote", "drop"}, Renewed(p, next),
           UNCHANGED <<backend, late, media, session, due, leaked>>, Fault \/ UNCHANGED faults
    PROVE  GoesOn({p}, proc[p].id)
  <1> DEFINE d == proc[p].id
  <1>1. proc[p].pc = "put" /\ proc[p].pc \in UploadSteps /\ next \in UploadSteps
    BY DEF At, UploadSteps
  <1>2. UploadPlaced(p) /\ d \in Direct /\ d \in Ids /\ d # "none" /\ d \notin Sessions
    BY <1>1, OwnerFacts
  <1>3. blob[d].stage = "none" /\ blob[d].final = "none" /\ proc[p].token = 0
    BY <1>1, <1>2 DEF UploadPlaced
  <1>4. Stores(d, stage, "none")
    <2>1. blob' = [blob EXCEPT ![d].stage = stage]
      BY <1>3
    <2> QED BY <1>2, <1>3, <2>1, Staging
  <1>5. Went(p, next) \/ Ended(p)
    BY <1>1, Renewing
  <1>6. Moves(p, d) /\ (proc'[p].pc \in UploadSteps => Went(p, next))
    BY <1>5 DEF Went, Ended, UploadSteps
  <1>7. Touches({p}, d)
    BY <1>1, <1>2, <1>4, <1>6, Standing, OwnerTouches DEF RowTypes
  <1>8. Went(p, next) => UploadPlaced(p)' /\ OwnToken(p)
    BY <1>1, <1>2, <1>3, <1>4 DEF UploadPlaced, FoundWhole, Went, Stores, OwnToken
  <1>9. ASSUME NEW q \in Procs \ {p}, proc[q].pc \in UploadSteps, proc[q].id = d
        PROVE  Undisturbed({p}, d, q)
    <2>1. /\ UploadPlaced(q) /\ proc[q].token # 0 /\ proc[q].token \in Nat /\ media[d].token \in Nat
          /\ proc[q].pc # "create"
      BY <1>1, <1>3, <1>9, Neighbours, OwnerFacts
    <2>2. proc[q].pc \notin {"put", "promote", "copied"}
      BY <1>9, <2>1 DEF UploadPlaced
    <2> QED BY <1>3, <2>1, <2>2 DEF Undisturbed
  <1>10. ASSUME NEW e \in Direct, e = d PROVE UploadRow(e)'
    <2>1. UploadRow(e) BY <1>1, <1>10, OwnerFacts
    <2>2. blob'[e].final = "none" /\ blob[e].final = "none" BY <1>3, <1>4, <1>10 DEF Stores
    <2> QED BY <2>1, <2>2 DEF UploadRow
  <1> QED BY <1>2, <1>6, <1>7, <1>8, <1>9, <1>10 DEF GoesOn, UploadGoesOn

LEMMA PutTemporaryGoes ==
    ASSUME RowTypes, Linked, NEW p \in Procs, PutTemporary(p)
    PROVE  GoesOn({p}, proc[p].id)
  <1>1. PICK content \in {"good", "bad"} :
          blob' = [blob EXCEPT ![proc[p].id].stage = IF @ = "none" THEN content ELSE @]
    BY DEF PutTemporary
  <1>2. /\ At(p, "put") /\ Renewed(p, "promote")
        /\ UNCHANGED <<backend, late, media, session, due, leaked, faults>>
    BY DEF PutTemporary
  <1>3. content \in Staged BY DEF Staged
  <1> QED BY <1>1, <1>2, <1>3, Putting

LEMMA PutFailsGoes ==
    ASSUME RowTypes, Linked, NEW p \in Procs, PutFails(p)
    PROVE  GoesOn({p}, proc[p].id)
  <1> DEFINE d == proc[p].id
  <1>1. /\ At(p, "put") /\ Renewed(p, "drop") /\ Fault
        /\ UNCHANGED <<backend, late, media, session, due, leaked>>
        /\ \/ blob' = blob
           \/ blob' = [blob EXCEPT ![d].stage = IF @ = "none" THEN "good" ELSE @]
    BY DEF PutFails
  <1>2. proc[p].pc \in UploadSteps
    BY <1>1 DEF At, UploadSteps
  <1>3. UploadPlaced(p) /\ d \in Ids
    BY <1>2, OwnerFacts
  <1>4. PICK row \in Contents : row = blob[d]
    BY <1>3 DEF RowTypes
  <1>5. blob' = blob => blob' = [blob EXCEPT ![d].stage = IF @ = "none" THEN "none" ELSE @]
    <2>1. blob[d].stage = "none" BY <1>1, <1>3 DEF UploadPlaced, At
    <2>2. [row EXCEPT !.stage = "none"] = row BY <1>4, <2>1 DEF Contents
    <2>3. blob = [blob EXCEPT ![d] = row] BY <1>4 DEF RowTypes
    <2> QED BY <1>4, <2>1, <2>2, <2>3
  <1>6. "none" \in Staged /\ "good" \in Staged
    BY DEF Staged
  <1> QED BY <1>1, <1>5, <1>6, Putting

(* The row is committed or dropped by its owner.                           *)
LEMMA CommitUploadGoes ==
    ASSUME RowTypes, Linked, NEW p \in Procs, CommitUpload(p)
    PROVE  GoesOn({p}, proc[p].id)
  <1> DEFINE d == proc[p].id
             row == [media[d] EXCEPT !.state = "active", !.leased = FALSE]
  <1>1. /\ proc[p].pc = "commit" /\ proc[p].pc \in UploadSteps \ {"create", "put"}
        /\ "drop" \in UploadSteps \ {"create", "put"}
        /\ UNCHANGED <<backend, late, session, due, blob, leaked, faults>>
    BY DEF CommitUpload, At, UploadSteps
  <1>2. /\ UploadPlaced(p) /\ d \in Direct /\ d \in Ids /\ d # "none" /\ d \notin Sessions
        /\ proc[p].token \in Nat /\ media[d].token \in Nat
        /\ UploadRow(d)
    BY <1>1, OwnerFacts
  <1>3. Ended(p)
    BY Returning DEF CommitUpload
  <1>4. Stores(d, blob[d].stage, blob[d].final)
    BY <1>1, <1>2, Standing
  <1>5. CASE ~Owns(p)
    <2>1. media' = media BY <1>5 DEF CommitUpload
    <2>2. ~WentAs(p, "drop", "none") BY <1>3 DEF WentAs, Ended
    <2> QED BY <1>1, <1>3, <2>1, <2>2, OwnerPauses
  <1>6. CASE Owns(p)
    <2>1. media' = [media EXCEPT ![d] = row]
      BY <1>6 DEF CommitUpload
    <2>2. PICK m \in Medium : m = media[d]
      BY <1>2 DEF RowTypes
    <2>3. row \in Medium /\ row.state = "active" /\ row.token = media[d].token
      BY <2>2 DEF Medium, MediaStates
    <2> HIDE DEF row
    <2>4. Writes(d, "active", media[d].token)
      BY <1>2, <2>1, <2>3, Writing
    <2>5. Moves(p, d) /\ proc'[p].pc = "idle"
      BY <1>3 DEF Ended
    <2>6. Touches({p}, d)
      BY <1>1, <1>2, <1>4, <2>4, <2>5, OwnerTouches DEF RowTypes
    <2>7. media[d].state = "uploading" /\ media[d].token = proc[p].token
      BY <1>6 DEF Owns
    <2>8. ASSUME NEW q \in Procs \ {p}, proc[q].pc \in UploadSteps, proc[q].id = d
          PROVE  Undisturbed({p}, d, q)
      <3>1. /\ UploadPlaced(q) /\ proc[q].pc # "create"
            /\ proc[q].token # proc[p].token /\ proc[q].token \in Nat
        BY <1>1, <2>8, Neighbours
      <3>3. media'[d].state = "active" /\ media'[d].token = media[d].token
        BY <2>4 DEF Writes
      <3>4. blob'[d] = blob[d]
        BY <1>1
      <3> QED BY <1>1, <1>2, <2>7, <2>8, <3>1, <3>3, <3>4 DEF Undisturbed, UploadPlaced
    <2>9. proc'[p].pc \notin UploadSteps /\ blob'[d] = blob[d]
      BY <1>1, <2>5 DEF UploadSteps
    <2>10. d \notin late => blob[d].final \in {"good", "bad"}
      BY <1>1, <1>2, <2>7 DEF UploadPlaced, FoundWhole
    <2>11. ASSUME NEW e \in Direct, e = d PROVE UploadRow(e)'
      BY <1>1, <1>2, <2>9, <2>10, <2>11 DEF UploadRow
    <2> QED BY <1>2, <2>6, <2>8, <2>9, <2>11 DEF GoesOn, UploadGoesOn
  <1> QED BY <1>5, <1>6

LEMMA AbortUploadGoes ==
    ASSUME RowTypes, Linked, NEW p \in Procs, AbortUpload(p)
    PROVE  GoesOn({p}, proc[p].id)
  <1> DEFINE d == proc[p].id
             row == [state |-> "none", token |-> 0, leased |-> FALSE]
  <1>1. /\ proc[p].pc = "abort" /\ proc[p].pc \in UploadSteps \ {"create", "put"}
        /\ "drop" \in UploadSteps \ {"create", "put"}
        /\ UNCHANGED <<backend, late, session, due, blob, leaked, faults>>
    BY DEF AbortUpload, At, UploadSteps
  <1>2. /\ UploadPlaced(p) /\ d \in Direct /\ d \in Ids /\ d # "none" /\ d \notin Sessions
        /\ UploadRow(d)
    BY <1>1, OwnerFacts
  <1>3. Ended(p)
    BY Returning DEF AbortUpload
  <1>4. Stores(d, blob[d].stage, blob[d].final)
    BY <1>1, <1>2, Standing
  <1>5. CASE ~Owns(p)
    <2>1. media' = media BY <1>5 DEF AbortUpload
    <2>2. ~WentAs(p, "drop", "none") BY <1>3 DEF WentAs, Ended
    <2> QED BY <1>1, <1>3, <2>1, <2>2, OwnerPauses
  <1>6. CASE Owns(p)
    <2>1. media' = [media EXCEPT ![d] = row]
      BY <1>6 DEF AbortUpload
    <2>3. row \in Medium /\ row.state = "none" /\ row.token = 0
      BY DEF Medium, MediaStates
    <2> HIDE DEF row
    <2>4. Writes(d, "none", 0)
      BY <1>2, <2>1, <2>3, Writing
    <2>5. Moves(p, d) /\ proc'[p].pc = "idle"
      BY <1>3 DEF Ended
    <2>6. Touches({p}, d)
      BY <1>1, <1>2, <1>4, <2>4, <2>5, OwnerTouches DEF RowTypes
    <2>8. ASSUME NEW q \in Procs \ {p}, proc[q].pc \in UploadSteps, proc[q].id = d
          PROVE  Undisturbed({p}, d, q)
      <3>1. UploadPlaced(q) /\ proc[q].pc # "create"
        BY <1>1, <2>8, Neighbours
      <3>2. media'[d].state = "none" /\ blob'[d] = blob[d]
        BY <1>1, <2>4 DEF Writes
      <3> QED BY <1>1, <2>5, <2>8, <3>1, <3>2 DEF Undisturbed, UploadPlaced
    <2>9. proc'[p].pc \notin UploadSteps /\ blob'[d] = blob[d] /\ media'[d].state = "none"
      BY <1>1, <2>4, <2>5 DEF UploadSteps, Writes
    <2>10. ASSUME NEW e \in Direct, e = d PROVE UploadRow(e)'
      BY <1>2, <2>9, <2>10 DEF UploadRow
    <2> QED BY <1>2, <2>6, <2>8, <2>9, <2>10 DEF GoesOn, UploadGoesOn
  <1> QED BY <1>5, <1>6

(* Nobody moves.                                                           *)
LEMMA NoneTouches ==
    ASSUME RowTypes, NEW i \in Ids, UNCHANGED <<backend, late, leaked, proc>>,
           NEW state, NEW token, Writes(i, state, token),
           NEW stage, NEW final, Stores(i, stage, final),
           session' \in [Sessions -> Session], due' \in [Sessions -> BOOLEAN],
           \A s \in Sessions \ {i} : session'[s] = session[s] /\ due'[s] = due[s],
           Fault \/ UNCHANGED faults
    PROVE  Touches({}, i)
  <1>1. RowTypes'
    BY FaultCounted DEF RowTypes, Writes, Stores
  <1> QED BY <1>1 DEF Touches, Writes, Stores

(* A reservation, and the row it is for.                                   *)
LEMMA ReserveQuotaGoes ==
    ASSUME RowTypes, Linked, NEW p \in Procs, NEW d \in Direct, ReserveQuota(p, d)
    PROVE  GoesOn({p}, d)
  <1>1. d \in Ids /\ d # "none" /\ d \notin Sessions
    BY UploadConstants DEF Ids
  <1>2. /\ At(p, "idle") /\ Run(p, "create", d)
        /\ \A q \in Procs : proc[q].id # d
        /\ d \notin leaked /\ d \notin late /\ media[d].state = "none"
        /\ blob[d].stage = "none" /\ blob[d].final = "none"
        /\ UNCHANGED <<backend, late, media, session, due, blob, leaked, faults>>
    BY DEF ReserveQuota
  <1>3. Began(p, "create", d)
    BY <1>1, <1>2, Beginning
  <1>4. Touches({p}, d)
    <2>1. Writes(d, media[d].state, media[d].token) /\ Stores(d, blob[d].stage, blob[d].final)
      BY <1>1, <1>2, Standing
    <2> QED BY <1>1, <1>2, <1>3, <2>1, OneTouches DEF Began, RowTypes
  <1>5. UploadPlaced(p)' /\ OwnToken(p)
    BY <1>1, <1>2, <1>3 DEF Began, Moves, UploadPlaced, FoundWhole, OwnToken
  <1>6. UploadRow(d)'
    BY <1>1, <1>2 DEF UploadRow
  <1> QED BY <1>1, <1>2, <1>4, <1>5, <1>6 DEF GoesOn, UploadGoesOn

LEMMA CreatingAlone ==
    ASSUME RowTypes, Linked, NEW p \in Procs, At(p, "create"), NEW d, d = proc[p].id
    PROVE  /\ d \in Direct /\ d \in Ids /\ d # "none" /\ d \notin Sessions
           /\ proc[p].pc \in UploadSteps
           /\ UploadPlaced(p) /\ proc[p].token = 0
           /\ d \notin leaked /\ media[d].state = "none"
           /\ blob[d].stage = "none" /\ blob[d].final = "none"
           /\ \A q \in Procs \ {p} : proc[q].id # d
  <1>1. proc[p].pc = "create" /\ proc[p].pc \in UploadSteps
    BY DEF At, UploadSteps
  <1>2. UploadPlaced(p) /\ d \in Direct /\ d \in Ids /\ d # "none" /\ d \notin Sessions
    BY <1>1, OwnerFacts
  <1> QED BY <1>1, <1>2 DEF UploadPlaced

LEMMA CreateUploadingGoes ==
    ASSUME RowTypes, Linked, NEW p \in Procs, CreateUploading(p)
    PROVE  GoesOn({p}, proc[p].id)
  <1> DEFINE d == proc[p].id
             row == [state |-> "uploading", token |-> 0, leased |-> TRUE]
  <1>1. /\ At(p, "create") /\ Goto(p, "put") /\ media' = [media EXCEPT ![d] = row]
        /\ UNCHANGED <<backend, late, session, due, blob, leaked, faults>>
    BY DEF CreateUploading
  <1>2. /\ d \in Direct /\ d \in Ids /\ d # "none" /\ d \notin Sessions
        /\ proc[p].pc \in UploadSteps /\ proc[p].token = 0
        /\ blob[d].stage = "none" /\ blob[d].final = "none"
        /\ \A q \in Procs \ {p} : proc[q].id # d
    BY <1>1, CreatingAlone
  <1>3. row \in Medium /\ row.state = "uploading" /\ row.token = 0
    BY DEF Medium, MediaStates
  <1> HIDE DEF row
  <1>4. Writes(d, "uploading", 0)
    BY <1>1, <1>2, <1>3, Writing
  <1>5. Went(p, "put")
    BY <1>1, <1>2, Going DEF UploadSteps
  <1>6. Touches({p}, d)
    BY <1>1, <1>2, <1>4, <1>5, Standing, OwnerTouches DEF Went, RowTypes
  <1>7. UploadPlaced(p)' /\ OwnToken(p)
    BY <1>1, <1>2, <1>4, <1>5 DEF Went, Writes, UploadPlaced, FoundWhole, OwnToken
  <1>8. ASSUME NEW e \in Direct, e = d PROVE UploadRow(e)'
    BY <1>1, <1>2, <1>4, <1>8 DEF UploadRow, Writes
  <1> QED BY <1>1, <1>2, <1>6, <1>7, <1>8 DEF GoesOn, UploadGoesOn

(* The reservation is given back or left behind.                           *)
LEMMA CreateEnds ==
    ASSUME RowTypes, Linked, NEW p \in Procs, At(p, "create"), Return(p),
           leaked' \in {leaked, leaked \cup {proc[p].id}},
           UNCHANGED <<backend, late, media, session, due, blob>>, Fault \/ UNCHANGED faults
    PROVE  GoesOn({p}, proc[p].id)
  <1> DEFINE d == proc[p].id
  <1>1. /\ d \in Direct /\ d \in Ids /\ d # "none" /\ d \notin Sessions
        /\ proc[p].pc \in UploadSteps
        /\ blob[d].stage = "none" /\ blob[d].final = "none"
        /\ \A q \in Procs \ {p} : proc[q].id # d
    BY CreatingAlone
  <1>2. Moves(p, d) /\ proc'[p].pc = "idle"
    BY Returning DEF Ended
  <1>3. Touches({p}, d)
    BY <1>1, <1>2, Standing, OwnerTouches DEF RowTypes
  <1>4. proc'[p].pc \notin UploadSteps
    BY <1>2 DEF UploadSteps
  <1>5. ASSUME NEW e \in Direct, e = d PROVE UploadRow(e)'
    <2>1. media[d].state = "none" BY CreatingAlone
    <2> QED BY <1>1, <1>5, <2>1 DEF UploadRow
  <1> QED BY <1>1, <1>3, <1>4, <1>5 DEF GoesOn, UploadGoesOn

LEMMA CreateRefusedGoes ==
    ASSUME RowTypes, Linked, NEW p \in Procs, CreateRefused(p)
    PROVE  GoesOn({p}, proc[p].id)
  BY CreateEnds DEF CreateRefused

LEMMA ClaimStaleGoes ==
    ASSUME RowTypes, Linked, NEW p \in Procs, NEW d \in Direct, ClaimStale(p, d)
    PROVE  GoesOn({p}, d)
  <1> DEFINE token == media[d].token + 1
             row == [media[d] EXCEPT !.token = token, !.leased = TRUE]
             new == [pc |-> "head", id |-> d, token |-> token, as |-> "none"]
  <1>1. d \in Ids /\ d # "none" /\ d \notin Sessions /\ media[d].token \in Nat
        /\ UploadRow(d)
    BY UploadConstants DEF Ids, RowTypes, Medium, Linked, UploadRows
  <1>2. /\ At(p, "idle") /\ media[d].state = "uploading"
        /\ media' = [media EXCEPT ![d] = row] /\ proc' = [proc EXCEPT ![p] = new]
        /\ UNCHANGED <<backend, late, session, due, blob, leaked, faults>>
    BY DEF ClaimStale
  <1>3. row \in Medium /\ row.state = "uploading" /\ row.token = token
    <2>1. PICK m \in Medium : m = media[d] BY <1>1 DEF RowTypes
    <2>2. token \in Nat BY <1>1
    <2> HIDE DEF token
    <2>3. row = [m EXCEPT !.token = token, !.leased = TRUE] BY <2>1
    <2>4. m.state = "uploading" BY <1>2, <2>1
    <2> QED BY <2>2, <2>3, <2>4 DEF Medium
  <1>4. new \in Process /\ new.pc = "head" /\ new.id = d /\ new.token = token
    BY <1>1 DEF Process, UploadSteps, Payload, Staged
  <1>5. proc[p].id = "none" /\ proc[p].pc \notin UploadSteps
    BY <1>2, Placed DEF At, UploadSteps
  <1> HIDE DEF row, new
  <1>6. Writes(d, "uploading", token)
    BY <1>1, <1>2, <1>3, Writing
  <1>7. Moves(p, d) /\ proc'[p].pc = "head" /\ proc'[p].id = d /\ proc'[p].token = token
    BY <1>1, <1>2, <1>4, <1>5 DEF Moves, RowTypes
  <1>8. Touches({p}, d)
    <2>1. Stores(d, blob[d].stage, blob[d].final) BY <1>1, <1>2, Standing
    <2> QED BY <1>1, <1>2, <1>6, <1>7, <2>1, OneTouches DEF RowTypes
  <1>9. ASSUME NEW q \in Procs \ {p}, proc[q].pc \in UploadSteps, proc[q].id = d
        PROVE  Undisturbed({p}, d, q) /\ proc[q].token # token
    <2>1. UploadPlaced(q) /\ proc[q].token \in Nat
      BY <1>9, OwnerFacts
    <2>2. proc[q].pc # "create" /\ proc[q].token <= media[d].token
      BY <1>2, <1>9, <2>1 DEF UploadPlaced
    <2>3. /\ media'[d].state = "uploading" /\ media'[d].token = token
          /\ blob'[d] = blob[d] /\ token # 0 /\ media[d].token <= token
      BY <1>1, <1>2, <1>6 DEF Writes
    <2>4. Undisturbed({p}, d, q)
      BY <1>2, <1>7, <1>9, <2>1, <2>2, <2>3 DEF Undisturbed, UploadPlaced
    <2> QED BY <1>1, <2>1, <2>2, <2>4
  <1>10. UploadPlaced(p)'
    BY <1>1, <1>6, <1>7 DEF Writes, UploadPlaced, FoundWhole
  <1>11. OwnToken(p)
    BY <1>7, <1>9 DEF OwnToken
  <1>12. UploadRow(d)'
    BY <1>1, <1>2, <1>6 DEF UploadRow, Writes
  <1> QED BY <1>1, <1>2, <1>8, <1>9, <1>10, <1>11, <1>12 DEF GoesOn, UploadGoesOn

(* Nothing an upload depends on changes.                                   *)
LEMMA QuietUpload ==
    ASSUME RowTypes, Linked, NEW A \in SUBSET Procs, NEW d \in Direct, Touches(A, d),
           media'[d].state = media[d].state, media'[d].token = media[d].token,
           blob'[d] = blob[d], leaked' = leaked, late' = late,
           \A p \in A : proc'[p].pc = "idle" /\ proc'[p].id = "none"
    PROVE  GoesOn(A, d)
  <1>1. d \in Ids /\ d # "none" /\ d \notin Sessions /\ media[d].token \in Nat
        /\ UploadRow(d)
    BY UploadConstants DEF Ids, RowTypes, Medium, Linked, UploadRows
  <1>2. ASSUME NEW q \in Procs \ A, proc[q].pc \in UploadSteps, proc[q].id = d
        PROVE  Undisturbed(A, d, q)
    <2>1. UploadPlaced(q) BY <1>2, OwnerFacts
    <2> QED BY <1>1, <1>2, <2>1 DEF Undisturbed, UploadPlaced
  <1>3. \A p \in A : proc'[p].pc \notin UploadSteps
    BY DEF UploadSteps
  <1>4. UploadRow(d)'
    BY <1>1 DEF UploadRow
  <1> QED BY <1>1, <1>2, <1>3, <1>4 DEF GoesOn, UploadGoesOn

LEMMA LeaseGoes ==
    ASSUME RowTypes, Linked, NEW d \in Direct, LeaseLost(d) \/ LeaseEnds(d)
    PROVE  GoesOn({}, d)
  <1> DEFINE row == [media[d] EXCEPT !.leased = FALSE]
  <1>1. /\ media' = [media EXCEPT ![d] = row] /\ (Fault \/ UNCHANGED faults)
        /\ UNCHANGED <<backend, late, session, due, blob, leaked, proc>>
    BY DEF LeaseLost, LeaseEnds
  <1>2. d \in Ids BY DEF Ids
  <1>3. row \in Medium /\ row.state = media[d].state /\ row.token = media[d].token
    <2>1. PICK m \in Medium : m = media[d] BY <1>2 DEF RowTypes
    <2> QED BY <2>1 DEF Medium
  <1> HIDE DEF row
  <1>4. Writes(d, media[d].state, media[d].token)
    BY <1>1, <1>2, <1>3, Writing
  <1>5. Touches({}, d)
    <2>1. Stores(d, blob[d].stage, blob[d].final) BY <1>1, <1>2, Standing
    <2> QED BY <1>1, <1>2, <1>4, <2>1, NoneTouches DEF RowTypes
  <1> QED BY <1>1, <1>4, <1>5, QuietUpload DEF Writes

(* An object that is being deleted.                                        *)
LEMMA DeletedUpload ==
    ASSUME RowTypes, Linked, NEW A \in SUBSET Procs, NEW d \in Direct, Touches(A, d),
           media[d].state \in {"active", "delete_pending"},
           media'[d].state \in {"delete_pending", "deleted"}, media'[d].token = media[d].token,
           blob'[d].stage = blob[d].stage, blob'[d].final \in {blob[d].final, "none"},
           leaked' = leaked, late' = late,
           \A p \in A : proc'[p].pc \in {"idle", "purged"}
    PROVE  GoesOn(A, d)
  <1>1. d \in Ids /\ d # "none" /\ d \notin Sessions /\ media[d].token \in Nat
        /\ UploadRow(d)
    BY UploadConstants DEF Ids, RowTypes, Medium, Linked, UploadRows
  <1>2. ASSUME NEW q \in Procs \ A, proc[q].pc \in UploadSteps, proc[q].id = d
        PROVE  Undisturbed(A, d, q)
    <2>1. UploadPlaced(q) BY <1>2, OwnerFacts
    <2> QED BY <1>1, <1>2, <2>1 DEF Undisturbed, UploadPlaced
  <1>3. \A p \in A : proc'[p].pc \notin UploadSteps
    BY DEF UploadSteps
  <1>4. UploadRow(d)'
    BY <1>1 DEF UploadRow
  <1> QED BY <1>1, <1>2, <1>3, <1>4 DEF GoesOn, UploadGoesOn

-----------------------------------------------------------------------------
(* The steps of a session.                                                 *)

LEMMA SessionFacts ==
    ASSUME RowTypes, Linked, NEW s \in Sessions
    PROVE  /\ s \in Ids /\ s # "none" /\ s \notin Direct
           /\ SessionRow(s)
           /\ session[s].state \in SessionStates /\ session[s].cleaned \in BOOLEAN
           /\ due[s] \in BOOLEAN /\ backend \in {"local", "s3"}
           /\ blob[s].stage \in Staged /\ blob[s].final \in Payload
           /\ blob[s][Target] = IF backend = "local" THEN blob[s].final ELSE blob[s].stage
           /\ session' = session => Settles(s, session[s].state, session[s].cleaned)
  <1>1. s \in Ids /\ s # "none" /\ s \notin Direct
    BY UploadConstants DEF Ids
  <1>2. SessionRow(s)
    BY DEF Linked, SessionRows
  <1>3. session[s].state \in SessionStates /\ session[s].cleaned \in BOOLEAN /\ due[s] \in BOOLEAN
    BY DEF RowTypes, Session
  <1>4. backend \in {"local", "s3"}
    BY UploadConstants DEF RowTypes
  <1>5. blob[s].stage \in Staged /\ blob[s].final \in Payload
    BY <1>1, Standing
  <1>6. blob[s][Target] = IF backend = "local" THEN blob[s].final ELSE blob[s].stage
    BY DEF Target
  <1>7. session' = session => Settles(s, session[s].state, session[s].cleaned)
    BY DEF RowTypes, Settles
  <1> QED BY <1>1, <1>2, <1>3, <1>4, <1>5, <1>6, <1>7

LEMMA WorkerFacts ==
    ASSUME RowTypes, Linked, NEW p \in Procs, proc[p].pc \in SessionSteps
    PROVE  /\ proc[p].id \in Sessions /\ proc[p].id # "none"
           /\ proc[p].as \in SessionStates \cup Staged
           /\ SessionPlaced(p)
  BY SessionId DEF Linked, SessionsPlaced

(* A step on a session is as good as what it does to these rows.           *)
LEMMA SessionStep ==
    ASSUME RowTypes, Linked, NEW A \in SUBSET Procs, NEW s \in Sessions, Touches(A, s),
           SessionForward(s), SessionRow(s)',
           \A p \in A : proc'[p].pc \in SessionSteps => SessionPlaced(p)'
    PROVE  GoesOn(A, s)
  BY SessionFacts DEF GoesOn, SessionGoesOn

LEMMA SessionTouches ==
    ASSUME RowTypes, NEW p \in Procs, NEW s \in Sessions,
           UNCHANGED <<backend, due, leaked>>, late' \in {late, late \cup {s}}, Moves(p, s),
           NEW state, NEW token, Writes(s, state, token),
           NEW stage, NEW final, Stores(s, stage, final),
           NEW now, NEW cleaned, Settles(s, now, cleaned),
           Fault \/ UNCHANGED faults
    PROVE  Touches({p}, s)
  <1>1. s \in Ids BY DEF Ids
  <1>2. /\ session' \in [Sessions -> Session] /\ due' \in [Sessions -> BOOLEAN]
        /\ leaked' \in SUBSET Direct
    BY DEF RowTypes, Settles
  <1>3. \A t \in Sessions \ {s} : session'[t] = session[t] /\ due'[t] = due[t]
    BY DEF Settles
  <1> QED BY <1>1, <1>2, <1>3, OneTouches

(* p looks at a session, or leaves it.                                     *)
LEMMA Looking ==
    ASSUME RowTypes, Linked, NEW p \in Procs, NEW s \in Sessions, Moves(p, s),
           UNCHANGED <<backend, late, media, session, due, blob, leaked>>, Fault \/ UNCHANGED faults,
           proc'[p].pc \in SessionSteps => SessionPlaced(p)'
    PROVE  GoesOn({p}, s)
  <1>1. Touches({p}, s)
    BY SessionFacts, Standing, SessionTouches
  <1>2. SessionForward(s) /\ SessionRow(s)'
    BY UntouchedSession, SessionFacts
  <1> QED BY <1>1, <1>2, SessionStep

LEMMA PutContentGoes ==
    ASSUME RowTypes, Linked, NEW p \in Procs, p \in Clients, NEW s \in Sessions, PutContent(p, s)
    PROVE  GoesOn({p}, s)
  <1>1. /\ At(p, "idle") /\ Run(p, "send", s) /\ backend = "local" /\ session[s].state = "pending"
        /\ UNCHANGED <<backend, late, media, session, due, blob, leaked, faults>>
    BY DEF PutContent
  <1>2. Began(p, "send", s)
    BY <1>1, Beginning, SessionFacts DEF SessionSteps
  <1>3. SessionPlaced(p)'
    BY <1>1, <1>2 DEF Began, SessionPlaced
  <1> QED BY <1>1, <1>2, <1>3, Looking DEF Began

LEMMA CompleteGoes ==
    ASSUME RowTypes, Linked, NEW p \in Procs, NEW s \in Sessions, Complete(p, s)
    PROVE  GoesOn({p}, s)
  <1> DEFINE pc == IF due[s] THEN "expire" ELSE "inspect"
  <1>1. /\ At(p, "idle") /\ Run(p, pc, s) /\ session[s].state = "pending"
        /\ UNCHANGED <<backend, late, media, session, due, blob, leaked, faults>>
    BY DEF Complete
  <1>2. pc \in SessionSteps /\ pc \in {"expire", "inspect"} /\ (pc = "expire" => due[s])
    BY DEF SessionSteps
  <1> HIDE DEF pc
  <1>3. Began(p, pc, s)
    BY <1>1, <1>2, Beginning, SessionFacts
  <1>4. SessionPlaced(p)'
    BY <1>1, <1>2, <1>3 DEF Began, SessionPlaced
  <1> QED BY <1>1, <1>3, <1>4, Looking DEF Began

LEMMA CancelGoes ==
    ASSUME RowTypes, Linked, NEW p \in Procs, NEW s \in Sessions, Cancel(p, s)
    PROVE  GoesOn({p}, s)
  <1>1. /\ At(p, "idle") /\ Run(p, "cancel", s) /\ session[s].state # "none"
        /\ UNCHANGED <<backend, late, media, session, due, blob, leaked, faults>>
    BY DEF Cancel
  <1>2. Began(p, "cancel", s)
    BY <1>1, Beginning, SessionFacts DEF SessionSteps
  <1>3. SessionPlaced(p)'
    BY <1>1, <1>2 DEF Began, SessionPlaced
  <1> QED BY <1>1, <1>2, <1>3, Looking DEF Began

LEMMA RecheckContentGoes ==
    ASSUME RowTypes, Linked, NEW p \in Procs, RecheckContent(p)
    PROVE  GoesOn({p}, proc[p].id)
  <1> DEFINE s == proc[p].id
  <1>1. PICK state : state = session[s].state
    OBVIOUS
  <1>2. /\ proc[p].pc = "recheck" /\ proc[p].pc \in SessionSteps /\ "judge" \in SessionSteps
        /\ proc' = [proc EXCEPT ![p] = [@ EXCEPT !.pc = "judge", !.as = state]]
        /\ UNCHANGED <<backend, late, media, session, due, blob, leaked, faults>>
    BY <1>1 DEF RecheckContent, At, SessionSteps
  <1>3. s \in Sessions /\ SessionPlaced(p) /\ state \in SessionStates
    BY <1>1, <1>2, WorkerFacts, SessionFacts
  <1>4. WentAs(p, "judge", state)
    BY <1>2, <1>3, GoingAs
  <1>5. Moves(p, s) /\ proc'[p].pc = "judge" /\ proc'[p].id = s /\ proc'[p].as = state
    BY <1>4 DEF WentAs
  <1>6. SessionPlaced(p)'
    BY <1>1, <1>2, <1>3, <1>5 DEF SessionPlaced
  <1> QED BY <1>2, <1>3, <1>5, <1>6, Looking

LEMMA InspectGoes ==
    ASSUME RowTypes, Linked, NEW p \in Procs, Inspect(p)
    PROVE  GoesOn({p}, proc[p].id)
  <1> DEFINE s == proc[p].id
  <1>1. /\ proc[p].pc = "inspect" /\ proc[p].pc \in SessionSteps
        /\ UNCHANGED <<backend, late, media, session, due, blob, leaked, faults>>
    BY DEF Inspect, At, SessionSteps
  <1>2. s \in Sessions /\ SessionPlaced(p)
    BY <1>1, WorkerFacts
  <1>3. /\ SessionRow(s) /\ due[s] \in BOOLEAN /\ backend \in {"local", "s3"}
        /\ blob[s].stage \in Staged /\ blob[s].final \in Payload
        /\ blob[s][Target] = IF backend = "local" THEN blob[s].final ELSE blob[s].stage
    BY <1>2, SessionFacts
  <1>4. Uploaded(s) \in Payload
    BY <1>3 DEF Uploaded, Payload
  <1>5. \/ Return(p)
        \/ due[s] /\ Goto(p, "expire")
        \/ Goto(p, "cancel")
        \/ Uploaded(s) = "good" /\ ~due[s] /\ Goto(p, "finalize")
    BY <1>3, <1>4 DEF Inspect, Payload, Staged
  <1>6. Uploaded(s) = "good" /\ ~due[s] => blob[s][Target] = "good"
    BY <1>3 DEF Uploaded, SessionRow
  <1>7. \/ Ended(p)
        \/ due[s] /\ Went(p, "expire")
        \/ Went(p, "cancel")
        \/ blob[s][Target] = "good" /\ Went(p, "finalize")
    BY <1>1, <1>5, <1>6, Returning, Going DEF SessionSteps
  <1>8. Moves(p, s)
    BY <1>7 DEF Went, Ended
  <1>9. Target' = Target
    BY <1>1 DEF Target
  <1>10. proc'[p].pc \in SessionSteps => SessionPlaced(p)'
    BY <1>1, <1>2, <1>7, <1>9 DEF SessionPlaced, Went, Ended, SessionSteps
  <1> QED BY <1>1, <1>2, <1>8, <1>10, Looking

(* A step that only writes the objects of a session.                       *)
LEMMA Storing ==
    ASSUME RowTypes, Linked, NEW p \in Procs, NEW s \in Sessions, Moves(p, s),
           UNCHANGED <<backend, media, session, due, leaked>>, late' \in {late, late \cup {s}},
           Fault \/ UNCHANGED faults,
           NEW stage, NEW final, Stores(s, stage, final),
           session[s].state = "pending" /\ ~due[s] /\ blob[s].final = "good" => final = "good",
           backend = "s3" =>
             /\ stage = blob[s].stage \/ (stage = "none" /\ due[s])
             /\ due[s] /\ stage = "none" /\ blob[s].final = "none" => final = "none" \/ s \in late'
             /\ final # "none" => (stage = "none" /\ due[s]) \/ (stage # "none" /\ SameBytes(stage, final))
             /\ media[s].state = "active" => final = "good",
           proc'[p].pc \in SessionSteps => SessionPlaced(p)'
    PROVE  GoesOn({p}, s)
  <1>1. Touches({p}, s)
    BY SessionFacts, Standing, SessionTouches
  <1>2. /\ SessionRow(s) /\ due[s] \in BOOLEAN /\ backend \in {"local", "s3"}
        /\ blob[s][Target] = IF backend = "local" THEN blob[s].final ELSE blob[s].stage
    BY SessionFacts
  <1>3. blob'[s].stage = stage /\ blob'[s].final = final /\ (s \in late => s \in late')
    BY DEF Stores
  <1>4. blob'[s][Target] = IF backend = "local" THEN blob'[s].final ELSE blob'[s].stage
    BY DEF Target
  <1>5. SessionForward(s)
    BY <1>2, <1>3, <1>4 DEF SessionForward
  <1>6. SessionRow(s)'
    BY <1>2, <1>3 DEF SessionRow
  <1> QED BY <1>1, <1>5, <1>6, SessionStep

LEMMA PutPresignedGoes ==
    ASSUME RowTypes, Linked, NEW s \in Sessions, PutPresigned(s)
    PROVE  GoesOn({}, s)
  <1>1. PICK content \in {"good", "bad"} : blob' = [blob EXCEPT ![s].stage = content]
    BY DEF PutPresigned
  <1>2. /\ backend = "s3" /\ ~due[s] /\ blob[s].stage = "none"
        /\ UNCHANGED <<backend, late, media, session, due, leaked, proc, faults>>
    BY DEF PutPresigned
  <1>3. /\ SessionRow(s) /\ s \in Ids
        /\ blob[s][Target] = IF backend = "local" THEN blob[s].final ELSE blob[s].stage
    BY SessionFacts
  <1>4. Stores(s, content, blob[s].final)
    BY <1>1, <1>3, Staging DEF Staged
  <1>5. Touches({}, s)
    <2>1. session' \in [Sessions -> Session] /\ due' \in [Sessions -> BOOLEAN]
      BY <1>2 DEF RowTypes
    <2>2. Writes(s, media[s].state, media[s].token)
      BY <1>2, <1>3, Standing
    <2> QED BY <1>2, <1>3, <1>4, <2>1, <2>2, NoneTouches
  <1>6. blob[s].final = "none"
    BY <1>2, <1>3 DEF SessionRow
  <1>7. blob'[s].final = "none"
    BY <1>4, <1>6 DEF Stores
  <1>8. SessionForward(s)
    BY <1>2, <1>3, <1>6, <1>7 DEF SessionForward
  <1>9. SessionRow(s)'
    BY <1>2, <1>3, <1>7 DEF SessionRow
  <1> QED BY <1>5, <1>8, <1>9, SessionStep

LEMMA InstallContentGoes ==
    ASSUME RowTypes, Linked, NEW p \in Procs, InstallContent(p)
    PROVE  GoesOn({p}, proc[p].id)
  <1> DEFINE s == proc[p].id
  <1>1. /\ proc[p].pc = "send" /\ proc[p].pc \in SessionSteps
        /\ UNCHANGED <<backend, late, media, session, due, leaked, faults>>
    BY DEF InstallContent, At, SessionSteps
  <1>2. s \in Sessions /\ SessionPlaced(p) /\ s \in Ids
    BY <1>1, WorkerFacts, SessionFacts
  <1>3. backend = "local" /\ p \in Clients /\ session[s].state # "none"
    BY <1>1, <1>2 DEF SessionPlaced
  <1>4. CASE blob[s].final # "none"
    <2>1. Ended(p) /\ blob' = blob
      BY <1>4, Returning DEF InstallContent
    <2>2. Moves(p, s) /\ proc'[p].pc \notin SessionSteps
      BY <2>1 DEF Ended, SessionSteps
    <2> QED BY <1>1, <1>2, <2>1, <2>2, Looking
  <1>5. CASE blob[s].final = "none"
    <2>1. PICK content \in {"good", "bad"} : blob' = [blob EXCEPT ![s].final = content]
      BY <1>5 DEF InstallContent
    <2>2. Stores(s, blob[s].stage, content)
      BY <1>2, <2>1, Finishing DEF Payload, Staged
    <2>3. Went(p, "recheck")
      BY <1>1, <1>5, Going DEF InstallContent, SessionSteps
    <2>4. SessionPlaced(p)' /\ Moves(p, s)
      BY <1>1, <1>3, <2>3 DEF SessionPlaced, Went
    <2> QED BY <1>1, <1>2, <1>3, <1>5, <2>2, <2>4, Storing
  <1> QED BY <1>4, <1>5

LEMMA LateUploadGoes ==
    ASSUME RowTypes, Linked, NEW p \in Procs, LateUpload(p)
    PROVE  GoesOn({p}, proc[p].id)
  <1> DEFINE s == proc[p].id
  <1>1. /\ proc[p].pc = "judge" /\ proc[p].pc \in SessionSteps
        /\ UNCHANGED <<backend, late, media, session, due, leaked, faults>>
    BY DEF LateUpload, At, SessionSteps
  <1>2. /\ s \in Sessions /\ SessionPlaced(p) /\ s \in Ids
        /\ proc[p].as \in SessionStates \ {"none"} /\ (proc[p].as \in Terminal => session[s].state = proc[p].as)
    BY <1>1, WorkerFacts, SessionFacts DEF SessionPlaced
  <1>3. Ended(p)
    BY Returning DEF LateUpload
  <1>4. Moves(p, s) /\ proc'[p].pc \notin SessionSteps
    BY <1>3 DEF Ended, SessionSteps
  <1>5. CASE blob' = blob
    BY <1>1, <1>2, <1>4, <1>5, Looking
  <1>6. CASE blob' # blob
    <2>1. /\ blob' = [blob EXCEPT ![s].final = "none"]
          /\ proc[p].as # "pending" \/ due[s]
      BY <1>6 DEF LateUpload
    <2>2. Stores(s, blob[s].stage, "none")
      BY <1>2, <2>1, Finishing DEF Payload, Staged
    <2>3. ~(session[s].state = "pending" /\ ~due[s])
      BY <1>1, <1>2, <2>1 DEF SessionPlaced, SessionStates, Terminal
    <2>4. backend = "local"
      BY <1>1, <1>2 DEF SessionPlaced
    <2> QED BY <1>1, <1>2, <1>4, <2>2, <2>3, <2>4, Storing
  <1> QED BY <1>5, <1>6

(* p goes on with a session whose final object it leaves as it is.         *)
LEMMA FinalizedGoes ==
    ASSUME RowTypes, Linked, NEW p \in Procs, proc[p].pc \in SessionSteps, Finalized(p)
    PROVE  /\ Moves(p, proc[p].id) /\ proc'[p].id = proc[p].id
           /\ (proc'[p].pc = "expire" /\ due[proc[p].id]) \/ (proc'[p].pc = "complete" /\ ~due[proc[p].id])
  <1> DEFINE s == proc[p].id
             pc == IF due[s] THEN "expire" ELSE "complete"
  <1>1. s \in Sessions /\ s \notin Direct
    BY SessionId
  <1>2. GotoAs(p, pc, "none")
    BY <1>1 DEF Finalized, Upload
  <1>3. pc \in SessionSteps /\ "none" \in SessionStates \cup Staged
    BY DEF SessionSteps, Staged
  <1>4. WentAs(p, pc, "none")
    BY <1>2, <1>3, GoingAs DEF GotoAs
  <1> QED BY <1>4 DEF WentAs

LEMMA FinalizedPlaced ==
    ASSUME RowTypes, Linked, NEW p \in Procs, proc[p].pc \in SessionSteps, Finalized(p),
           UNCHANGED <<backend, session, due>>,
           LET s == proc[p].id IN
             session[s].state = "pending" /\ ~due[s] => \A t \in Sessions : t = s => blob'[t].final = "good"
    PROVE  Moves(p, proc[p].id) /\ SessionPlaced(p)'
  <1> DEFINE s == proc[p].id
  <1>1. SessionPlaced(p) /\ s \in Sessions
    BY WorkerFacts
  <1>2. /\ Moves(p, s) /\ proc'[p].id = s
        /\ (proc'[p].pc = "expire" /\ due[s]) \/ (proc'[p].pc = "complete" /\ ~due[s])
    BY FinalizedGoes
  <1>3. session'[s].state = "pending" /\ ~due'[s] => blob'[s].final = "good"
    BY <1>1
  <1> QED BY <1>1, <1>2, <1>3 DEF SessionPlaced

(* The objects of the session stay as they are.                            *)
LEMMA FinalizedAsIs ==
    ASSUME RowTypes, Linked, NEW p \in Procs, proc[p].pc \in SessionSteps,
           \/ Return(p)
           \/ /\ Finalized(p)
              /\ LET s == proc[p].id IN
                   session[s].state = "pending" /\ ~due[s] => blob[s].final = "good",
           UNCHANGED <<backend, late, media, session, due, blob, leaked, faults>>
    PROVE  GoesOn({p}, proc[p].id)
  <1> DEFINE s == proc[p].id
  <1>1. s \in Sessions
    BY WorkerFacts
  <1>2. CASE Return(p)
    <2>1. Moves(p, s) /\ proc'[p].pc \notin SessionSteps
      BY <1>2, Returning DEF Ended, SessionSteps
    <2> QED BY <1>1, <2>1, Looking
  <1>3. CASE Finalized(p) /\ (session[s].state = "pending" /\ ~due[s] => blob[s].final = "good")
    <2>1. Moves(p, s) /\ SessionPlaced(p)'
      BY <1>3, FinalizedPlaced
    <2> QED BY <1>1, <2>1, Looking
  <1> QED BY <1>2, <1>3

LEMMA SourceGoneGoes ==
    ASSUME RowTypes, Linked, NEW p \in Procs, proc[p].pc \in SessionSteps, SourceGone(p),
           UNCHANGED <<backend, late, media, session, due, blob, leaked, faults>>
    PROVE  GoesOn({p}, proc[p].id)
  <1>1. proc[p].id \notin Direct
    BY SessionId
  <1>2. Return(p) \/ (Finalized(p) /\ blob[proc[p].id].final = "good")
    BY <1>1 DEF SourceGone, Upload
  <1> QED BY <1>2, FinalizedAsIs

LEMMA FinalizeGoes ==
    ASSUME RowTypes, Linked, NEW p \in Procs, Finalize(p)
    PROVE  GoesOn({p}, proc[p].id)
  <1> DEFINE s == proc[p].id
  <1>1. /\ proc[p].pc = "finalize" /\ proc[p].pc \in SessionSteps /\ backend = "local" /\ Finalized(p)
        /\ UNCHANGED <<backend, late, media, session, due, blob, leaked, faults>>
    BY DEF Finalize, At, SessionSteps
  <1>2. s \in Sessions /\ SessionPlaced(p)
    BY <1>1, WorkerFacts
  <1>3. session[s].state = "pending" /\ ~due[s] => blob[s].final = "good"
    BY <1>1, <1>2 DEF SessionPlaced, Target
  <1> QED BY <1>1, <1>3, FinalizedAsIs

(* The steps of the promotion.                                             *)
LEMMA SessionCopies ==
    ASSUME RowTypes, NEW p \in Procs, proc[p].pc \in SessionSteps
    PROVE  /\ Copied(p) = "final_copied" /\ Repair(p) = "final_repair" /\ ~Upload(p)
           /\ "final_copied" \in SessionSteps /\ "final_repair" \in SessionSteps
  BY SessionId DEF Copied, Repair, Upload, SessionSteps

LEMMA SessionCopyParts ==
    ASSUME RowTypes, Linked, NEW p \in Procs, CopyParts(p), proc[p].pc = "finalize"
    PROVE  GoesOn({p}, proc[p].id)
  <1> DEFINE s == proc[p].id
             b == blob[s]
  <1>1. /\ proc[p].pc \in SessionSteps /\ backend = "s3"
        /\ UNCHANGED <<backend, late, media, session, due, blob, leaked, faults>>
    BY DEF CopyParts, SessionSteps
  <1>2. s \in Sessions /\ SessionPlaced(p)
    BY <1>1, WorkerFacts
  <1>3. SessionRow(s) /\ b.stage \in Staged /\ b.final \in Payload /\ due[s] \in BOOLEAN
    BY <1>2, SessionFacts
  <1>4. session[s].state # "none" /\ (session[s].state = "pending" /\ ~due[s] => b.stage = "good")
    BY <1>1, <1>2 DEF SessionPlaced, Target
  <1>5. \/ b.stage = "none" /\ SourceGone(p)
        \/ b.stage # "none" /\ b.final = "none" /\ GotoAs(p, "final_copied", b.stage)
        \/ b.stage # "none" /\ b.final = b.stage /\ Finalized(p)
        \/ b.stage = "good" /\ Goto(p, "final_repair")
        \/ Return(p)
    BY <1>1, SessionCopies DEF CopyParts
  <1>6. CASE b.stage = "none" /\ SourceGone(p)
    BY <1>1, <1>6, SourceGoneGoes
  <1>7. CASE b.stage # "none" /\ b.final = "none" /\ GotoAs(p, "final_copied", b.stage)
    <2>1. WentAs(p, "final_copied", b.stage)
      BY <1>1, <1>3, <1>7, GoingAs, SessionCopies DEF GotoAs
    <2>2. /\ Moves(p, s) /\ proc'[p].pc = "final_copied" /\ proc'[p].id = s
          /\ proc'[p].as = b.stage /\ b.stage \in {"good", "bad"}
      BY <1>3, <1>7, <2>1 DEF WentAs, Staged
    <2>3. SessionPlaced(p)'
      BY <1>1, <1>2, <1>4, <2>2 DEF SessionPlaced
    <2> QED BY <1>1, <1>2, <2>2, <2>3, Looking
  <1>8. CASE b.stage # "none" /\ b.final = b.stage /\ Finalized(p)
    BY <1>1, <1>4, <1>8, FinalizedAsIs
  <1>9. CASE b.stage = "good" /\ Goto(p, "final_repair")
    <2>1. Moves(p, s) /\ proc'[p].pc = "final_repair" /\ proc'[p].id = s
      BY <1>1, <1>9, Going, SessionCopies DEF Went
    <2>2. SessionPlaced(p)'
      BY <1>1, <1>2, <1>4, <1>9, <2>1 DEF SessionPlaced
    <2> QED BY <1>1, <1>2, <2>1, <2>2, Looking
  <1>10. CASE Return(p)
    BY <1>1, <1>10, FinalizedAsIs
  <1> QED BY <1>5, <1>6, <1>7, <1>8, <1>9, <1>10

LEMMA SessionCompleteCopy ==
    ASSUME RowTypes, Linked, NEW p \in Procs, CompleteCopy(p), proc[p].pc = "final_copied"
    PROVE  GoesOn({p}, proc[p].id)
  <1> DEFINE s == proc[p].id
             b == blob[s]
             x == IF proc[p].as = "good" THEN "bare" ELSE "bad"
  <1>1. /\ proc[p].pc \in SessionSteps
        /\ UNCHANGED <<backend, media, session, due, leaked, faults>>
    BY DEF CompleteCopy, SessionSteps
  <1>2. s \in Sessions /\ SessionPlaced(p)
    BY <1>1, WorkerFacts
  <1>3. SessionRow(s) /\ s \in Ids /\ b.stage \in Staged /\ b.final \in Payload /\ due[s] \in BOOLEAN
    BY <1>2, SessionFacts
  <1>4. /\ session[s].state # "none" /\ backend = "s3" /\ proc[p].as \in {"good", "bad"}
        /\ b.stage # proc[p].as => b.stage = "none" /\ due[s]
        /\ session[s].state = "pending" /\ ~due[s] => proc[p].as = "good"
    BY <1>2 DEF SessionPlaced
  <1>5. CASE b.final = "none"
    <2>1. /\ blob' = [blob EXCEPT ![s].final = x]
          /\ late' = IF b.stage = "none" THEN late \cup {s} ELSE late
          /\ GotoAs(p, "final_repair", "none")
      BY <1>1, <1>5, SessionCopies DEF CompleteCopy
    <2>2. Stores(s, b.stage, x)
      BY <1>3, <2>1, Finishing DEF Payload, Staged
    <2>3. /\ Moves(p, s) /\ proc'[p].pc = "final_repair" /\ proc'[p].id = s
      <3>1. "none" \in SessionStates \cup Staged BY DEF Staged
      <3> QED BY <1>1, <2>1, <3>1, GoingAs, SessionCopies DEF GotoAs, WentAs
    <2>4. SessionPlaced(p)'
      BY <1>1, <1>2, <1>4, <2>2, <2>3 DEF SessionPlaced, Stores
    <2>5. b.stage # "none" => SameBytes(b.stage, x)
      BY <1>4 DEF SameBytes
    <2>6. media[s].state # "active"
      BY <1>3, <1>4, <1>5 DEF SessionRow
    <2>7. late' \in {late, late \cup {s}} /\ (b.stage = "none" => s \in late' /\ due[s])
      BY <1>4, <2>1
    <2>8. b.final # "good"
      BY <1>5
    <2> HIDE DEF x
    <2> QED BY <1>1, <1>2, <1>4, <2>2, <2>3, <2>4, <2>5, <2>6, <2>7, <2>8, Storing
  <1>6. CASE b.final # "none"
    <2>1. \/ SourceGone(p) \/ Return(p)
          \/ b.stage # "none" /\ b.stage = b.final /\ Finalized(p)
      BY <1>6 DEF CompleteCopy
    <2>2. UNCHANGED <<blob, late>>
      BY <1>6 DEF CompleteCopy
    <2> QED BY <1>1, <1>4, <2>1, <2>2, SourceGoneGoes, FinalizedAsIs
  <1> QED BY <1>5, <1>6

LEMMA SessionRepairCopy ==
    ASSUME RowTypes, Linked, NEW p \in Procs, RepairCopy(p), proc[p].pc = "final_repair"
    PROVE  GoesOn({p}, proc[p].id)
  <1> DEFINE s == proc[p].id
             stage == blob[s].stage
  <1>1. /\ proc[p].pc \in SessionSteps
        /\ UNCHANGED <<backend, late, media, session, due, leaked, faults>>
    BY DEF RepairCopy, SessionSteps
  <1>2. s \in Sessions /\ SessionPlaced(p)
    BY <1>1, WorkerFacts
  <1>3. SessionRow(s) /\ s \in Ids /\ stage \in Staged /\ due[s] \in BOOLEAN
    BY <1>2, SessionFacts
  <1>4. backend = "s3" /\ (session[s].state = "pending" /\ ~due[s] => stage = "good")
    BY <1>2 DEF SessionPlaced
  <1>5. CASE stage = "none"
    BY <1>1, <1>5, SourceGoneGoes DEF RepairCopy
  <1>6. CASE stage # "none"
    <2>1. blob' = [blob EXCEPT ![s].final = stage] /\ Finalized(p)
      BY <1>6 DEF RepairCopy
    <2>2. Stores(s, stage, stage)
      BY <1>3, <2>1, Finishing DEF Payload
    <2>3. blob'[s].final = stage
      BY <2>2 DEF Stores
    <2>4. Moves(p, s) /\ SessionPlaced(p)'
      BY <1>1, <1>4, <2>1, <2>3, FinalizedPlaced
    <2>5. media[s].state = "active" => stage = "good"
      BY <1>3, <1>4, <1>6 DEF SessionRow, SameBytes, Staged
    <2>6. SameBytes(stage, stage)
      BY DEF SameBytes
    <2> HIDE DEF stage
    <2> QED BY <1>1, <1>2, <1>4, <1>6, <2>2, <2>4, <2>5, <2>6, Storing DEF stage
  <1> QED BY <1>5, <1>6

LEMMA AbortTargetGoes ==
    ASSUME RowTypes, Linked, NEW p \in Procs, AbortTarget(p)
    PROVE  GoesOn({p}, proc[p].id)
  <1> DEFINE s == proc[p].id
  <1>1. /\ proc[p].pc = "clean" /\ proc[p].pc \in SessionSteps /\ Goto(p, "clean_final")
        /\ "clean_final" \in SessionSteps
        /\ UNCHANGED <<backend, late, media, session, due, leaked, faults>>
    BY DEF AbortTarget, At, SessionSteps
  <1>2. s \in Sessions /\ SessionPlaced(p)
    BY <1>1, WorkerFacts
  <1>3. /\ s \in Ids /\ backend \in {"local", "s3"} /\ SessionRow(s)
        /\ blob[s].stage \in Staged /\ blob[s].final \in Payload
    BY <1>2, SessionFacts
  <1>4. Moves(p, s) /\ proc'[p].pc = "clean_final" /\ proc'[p].id = s /\ proc'[p].as = proc[p].as
    BY <1>1, Going DEF Went
  <1>5. /\ due[s] /\ session[s].state \in Terminal /\ session[s].state # "none"
        /\ proc[p].as \in Terminal /\ session[s].state = proc[p].as
    BY <1>1, <1>2 DEF SessionPlaced, Terminal
  <1>6. CASE blob' = blob /\ backend = "local"
    <2>1. SessionPlaced(p)'
      BY <1>1, <1>4, <1>5, <1>6 DEF SessionPlaced
    <2> QED BY <1>1, <1>2, <1>4, <1>6, <2>1, Looking
  <1>7. CASE blob' # blob /\ backend = "local"
    <2>1. blob' = [blob EXCEPT ![s].final = "none"]
      BY <1>7 DEF AbortTarget, Target
    <2>2. Stores(s, blob[s].stage, "none")
      BY <1>3, <2>1, Finishing DEF Payload, Staged
    <2>3. SessionPlaced(p)'
      BY <1>1, <1>4, <1>5, <1>7 DEF SessionPlaced
    <2> QED BY <1>1, <1>2, <1>4, <1>5, <1>7, <2>2, <2>3, Storing DEF Terminal
  <1>8. CASE backend = "s3"
    <2>1. blob' = [blob EXCEPT ![s].stage = "none"]
      BY <1>8 DEF AbortTarget, Target
    <2>2. Stores(s, "none", blob[s].final)
      BY <1>3, <2>1, Staging DEF Staged
    <2>3. SessionPlaced(p)'
      BY <1>1, <1>4, <1>5, <2>2 DEF SessionPlaced, Stores
    <2>4. media[s].state = "active" => blob[s].final = "good"
      BY <1>3, <1>8 DEF SessionRow
    <2> QED BY <1>1, <1>2, <1>4, <1>5, <2>2, <2>3, <2>4, Storing DEF Terminal
  <1> QED BY <1>3, <1>6, <1>7, <1>8

LEMMA AbortFinalGoes ==
    ASSUME RowTypes, Linked, NEW p \in Procs, AbortFinal(p)
    PROVE  GoesOn({p}, proc[p].id)
  <1> DEFINE s == proc[p].id
  <1>1. /\ proc[p].pc = "clean_final" /\ proc[p].pc \in SessionSteps /\ Goto(p, "clean_mark")
        /\ "clean_mark" \in SessionSteps
        /\ UNCHANGED <<backend, late, media, session, due, leaked, faults>>
    BY DEF AbortFinal, At, SessionSteps
  <1>2. s \in Sessions /\ SessionPlaced(p)
    BY <1>1, WorkerFacts
  <1>3. /\ s \in Ids /\ backend \in {"local", "s3"} /\ SessionRow(s)
        /\ blob[s].stage \in Staged /\ blob[s].final \in Payload
    BY <1>2, SessionFacts
  <1>4. Moves(p, s) /\ proc'[p].pc = "clean_mark" /\ proc'[p].id = s /\ proc'[p].as = proc[p].as
    BY <1>1, Going DEF Went
  <1>5. /\ due[s] /\ session[s].state \in Terminal /\ session[s].state # "none"
        /\ proc[p].as \in Terminal /\ session[s].state = proc[p].as
        /\ backend = "s3" => blob[s].stage = "none"
    BY <1>1, <1>2 DEF SessionPlaced, Terminal
  <1>6. CASE backend = "local" \/ proc[p].as = "completed"
    <2>1. blob' = blob
      BY <1>6 DEF AbortFinal
    <2>2. SessionPlaced(p)'
      BY <1>1, <1>4, <1>5, <1>6, <2>1 DEF SessionPlaced
    <2> QED BY <1>1, <1>2, <1>4, <2>1, <2>2, Looking
  <1>7. CASE ~(backend = "local" \/ proc[p].as = "completed")
    <2>1. blob' = [blob EXCEPT ![s].final = "none"]
      BY <1>7 DEF AbortFinal
    <2>2. Stores(s, blob[s].stage, "none")
      BY <1>3, <2>1, Finishing DEF Payload, Staged
    <2>3. SessionPlaced(p)'
      BY <1>1, <1>4, <1>5, <2>2 DEF SessionPlaced, Stores
    <2>4. media[s].state # "active"
      BY <1>3, <1>5, <1>7 DEF SessionRow
    <2> QED BY <1>1, <1>2, <1>4, <1>5, <2>2, <2>3, <2>4, Storing DEF Terminal
  <1> QED BY <1>6, <1>7

(* A step that only writes the session's row.                              *)
LEMMA Ending ==
    ASSUME RowTypes, Linked, NEW p \in Procs, NEW s \in Sessions, Moves(p, s),
           UNCHANGED <<backend, late, media, blob, due, leaked>>, Fault \/ UNCHANGED faults,
           NEW state \in SessionStates \ {"none"}, NEW cleaned \in BOOLEAN, Settles(s, state, cleaned),
           session[s].state \in Terminal => state = session[s].state,
           state = "pending" => session[s].state = "pending",
           \/ cleaned = session[s].cleaned
           \/ /\ state \in Terminal
              /\ backend = "s3" /\ state # "completed" =>
                   due[s] /\ blob[s].stage = "none" /\ (blob[s].final = "none" \/ s \in late),
           proc'[p].pc \in SessionSteps => SessionPlaced(p)'
    PROVE  GoesOn({p}, s)
  <1>1. Touches({p}, s)
    BY SessionFacts, Standing, SessionTouches
  <1>2. /\ SessionRow(s) /\ due[s] \in BOOLEAN /\ session[s].state \in SessionStates
        /\ session[s].cleaned \in BOOLEAN
    BY SessionFacts
  <1>3. session'[s].state = state /\ session'[s].cleaned = cleaned
    BY DEF Settles
  <1>4. SessionForward(s)
    BY <1>2, <1>3 DEF SessionForward
  <1>5. SessionRow(s)'
    <2>1. cleaned => state \in Terminal
      BY <1>2 DEF SessionRow
    <2>2. media[s].state # "none" => state = "completed"
      BY <1>2 DEF SessionRow, Terminal
    <2>3. backend = "s3" /\ cleaned /\ state # "completed" =>
            due[s] /\ blob[s].stage = "none" /\ (blob[s].final = "none" \/ s \in late)
      BY <1>2 DEF SessionRow, Terminal
    <2> QED BY <1>2, <1>3, <2>1, <2>2, <2>3 DEF SessionRow
  <1> QED BY <1>1, <1>4, <1>5, SessionStep

LEMMA CleaningUp ==
    ASSUME RowTypes, NEW p \in Procs, proc[p].pc \in SessionSteps, NEW state \in SessionStates,
           CleanUpAs(p, state)
    PROVE  /\ Moves(p, proc[p].id)
           /\ proc'[p].pc = "clean" /\ proc'[p].id = proc[p].id /\ proc'[p].as = state
  <1>1. "clean" \in SessionSteps
    BY DEF SessionSteps
  <1>2. WentAs(p, "clean", state)
    BY <1>1, GoingAs DEF CleanUpAs
  <1> QED BY <1>2 DEF WentAs

LEMMA ExpireGoes ==
    ASSUME RowTypes, Linked, NEW p \in Procs, ExpireInComplete(p)
    PROVE  GoesOn({p}, proc[p].id)
  <1> DEFINE s == proc[p].id
  <1>1. /\ proc[p].pc = "expire" /\ proc[p].pc \in SessionSteps
        /\ UNCHANGED <<backend, late, media, due, blob, leaked, faults>>
    BY DEF ExpireInComplete, At, SessionSteps
  <1>2. s \in Sessions /\ SessionPlaced(p) /\ session[s].cleaned \in BOOLEAN
    BY <1>1, WorkerFacts, SessionFacts
  <1>3. due[s]
    BY <1>1, <1>2 DEF SessionPlaced
  <1>4. CASE session[s].state \in {"pending", "expired"}
    <2>1. Settle(s, "expired") /\ CleanUpAs(p, "expired")
      BY <1>4 DEF ExpireInComplete, ExpireOne
    <2>2. "expired" \in SessionStates \ {"none"} /\ "expired" \in Terminal /\ "expired" # "pending"
          /\ (session[s].state \in Terminal => "expired" = session[s].state)
      BY <1>4 DEF SessionStates, Terminal
    <2>3. Settles(s, "expired", session[s].cleaned)
      BY <1>2, <2>1, <2>2, Settling
    <2>4. Moves(p, s) /\ proc'[p].pc = "clean" /\ proc'[p].id = s /\ proc'[p].as = "expired"
      BY <1>1, <2>1, <2>2, CleaningUp
    <2>5. SessionPlaced(p)'
      BY <1>1, <1>3, <2>2, <2>3, <2>4 DEF SessionPlaced, Settles
    <2> QED BY <1>1, <1>2, <2>2, <2>3, <2>4, <2>5, Ending
  <1>5. CASE session[s].state \notin {"pending", "expired"}
    <2>1. Ended(p) /\ session' = session
      BY <1>5, Returning DEF ExpireInComplete, ExpireOne
    <2>2. Moves(p, s) /\ proc'[p].pc \notin SessionSteps
      BY <2>1 DEF Ended, SessionSteps
    <2> QED BY <1>1, <1>2, <2>1, <2>2, Looking
  <1> QED BY <1>4, <1>5

LEMMA CancelSessionGoes ==
    ASSUME RowTypes, Linked, NEW p \in Procs, CancelSession(p)
    PROVE  GoesOn({p}, proc[p].id)
  <1> DEFINE s == proc[p].id
             live == session[s].state = "pending"
             now == IF live THEN "cancelled" ELSE session[s].state
             cleans == (live \/ session[s].state = "cancelled") /\ due[s]
  <1>1. /\ proc[p].pc = "cancel" /\ proc[p].pc \in SessionSteps
        /\ IF live THEN Settle(s, "cancelled") ELSE session' = session
        /\ IF cleans THEN CleanUpAs(p, "cancelled") ELSE Return(p)
        /\ UNCHANGED <<backend, late, media, due, blob, leaked, faults>>
    BY DEF CancelSession, At, SessionSteps
  <1>2. s \in Sessions /\ SessionPlaced(p) /\ session[s].cleaned \in BOOLEAN
        /\ session[s].state \in SessionStates
    BY <1>1, WorkerFacts, SessionFacts
  <1>3. "cancelled" \in SessionStates /\ "cancelled" \in Terminal
    BY DEF SessionStates, Terminal
  <1>4. /\ now \in SessionStates \ {"none"} /\ now # "pending"
        /\ session[s].state \in Terminal => now = session[s].state
        /\ cleans => now = "cancelled"
    BY <1>1, <1>2, <1>3 DEF SessionPlaced, Terminal
  <1>5. Settles(s, now, session[s].cleaned)
    BY <1>1, <1>2, <1>3, Settling, SessionFacts
  <1> HIDE DEF now, live
  <1>6. CASE cleans
    <2>1. Moves(p, s) /\ proc'[p].pc = "clean" /\ proc'[p].id = s /\ proc'[p].as = "cancelled"
      BY <1>1, <1>3, <1>6, CleaningUp
    <2>2. SessionPlaced(p)'
      BY <1>1, <1>2, <1>3, <1>4, <1>5, <1>6, <2>1 DEF SessionPlaced, Settles
    <2> QED BY <1>1, <1>2, <1>4, <1>5, <2>1, <2>2, Ending
  <1>7. CASE ~cleans
    <2>1. Ended(p)
      BY <1>1, <1>7, Returning
    <2>2. Moves(p, s) /\ proc'[p].pc \notin SessionSteps
      BY <2>1 DEF Ended, SessionSteps
    <2> QED BY <1>1, <1>2, <1>4, <1>5, <2>2, Ending
  <1> QED BY <1>6, <1>7

LEMMA CleanupDoneGoes ==
    ASSUME RowTypes, Linked, NEW p \in Procs, CleanupDone(p)
    PROVE  GoesOn({p}, proc[p].id)
  <1> DEFINE s == proc[p].id
  <1>1. /\ proc[p].pc = "clean_mark" /\ proc[p].pc \in SessionSteps
        /\ session' = [session EXCEPT ![s].cleaned = TRUE]
        /\ UNCHANGED <<backend, late, media, due, blob, leaked, faults>>
    BY DEF CleanupDone, At, SessionSteps
  <1>2. s \in Sessions /\ SessionPlaced(p) /\ session[s].state \in SessionStates
    BY <1>1, WorkerFacts, SessionFacts
  <1>3. Settles(s, session[s].state, TRUE)
    <2>1. PICK row \in Session : row = session[s]
      BY <1>2 DEF RowTypes
    <2>2. [row EXCEPT !.cleaned = TRUE] \in Session
      BY DEF Session
    <2> QED BY <1>1, <1>2, <2>1, <2>2 DEF RowTypes, Settles, Session
  <1>4. Ended(p)
    BY Returning DEF CleanupDone
  <1>5. Moves(p, s) /\ proc'[p].pc \notin SessionSteps
    BY <1>4 DEF Ended, SessionSteps
  <1>6. /\ session[s].state \in Terminal /\ session[s].state # "none"
        /\ backend = "s3" /\ session[s].state # "completed" =>
             due[s] /\ blob[s].stage = "none" /\ (blob[s].final = "none" \/ s \in late)
    BY <1>1, <1>2 DEF SessionPlaced, Terminal
  <1> QED BY <1>1, <1>2, <1>3, <1>5, <1>6, Ending

LEMMA ExpireDueGoes ==
    ASSUME RowTypes, Linked, NEW p \in Procs, NEW s \in Sessions, ExpireDue(p, s)
    PROVE  GoesOn({p}, s)
  <1> DEFINE state == IF session[s].state = "pending" THEN "expired" ELSE session[s].state
             new == [pc |-> "clean", id |-> s, token |-> 0, as |-> state]
  <1>1. /\ At(p, "idle") /\ Settle(s, state) /\ proc' = [proc EXCEPT ![p] = new]
        /\ due[s] /\ session[s].state \in Terminal \cup {"pending"}
        /\ UNCHANGED <<backend, late, media, due, blob, leaked, faults>>
    BY DEF ExpireDue, NeedsCleanup
  <1>2. session[s].cleaned \in BOOLEAN /\ s \in Ids
    BY SessionFacts
  <1>3. /\ state \in SessionStates \ {"none"} /\ state \in Terminal /\ state # "pending"
        /\ session[s].state \in Terminal => state = session[s].state
    BY <1>1 DEF Terminal, SessionStates
  <1> HIDE DEF state
  <1>4. Settles(s, state, session[s].cleaned)
    BY <1>1, <1>3, Settling
  <1>5. new \in Process /\ new.pc = "clean" /\ new.id = s /\ new.as = state
    BY <1>3 DEF Process, SessionSteps
  <1>6. proc[p].id = "none"
    BY <1>1, Placed DEF At
  <1> HIDE DEF new
  <1>7. Moves(p, s) /\ proc'[p].pc = "clean" /\ proc'[p].id = s /\ proc'[p].as = state
    BY <1>1, <1>5, <1>6 DEF Moves, RowTypes
  <1>8. SessionPlaced(p)'
    BY <1>1, <1>3, <1>4, <1>7 DEF SessionPlaced, Settles
  <1> QED BY <1>1, <1>2, <1>3, <1>4, <1>7, <1>8, Ending

LEMMA CompleteSessionGoes ==
    ASSUME RowTypes, Linked, NEW p \in Procs, CompleteSession(p)
    PROVE  GoesOn({p}, proc[p].id)
  <1>1. /\ proc[p].pc = "complete" /\ proc[p].pc \in SessionSteps
        /\ UNCHANGED <<backend, late, due, blob, leaked, faults>>
    BY DEF CompleteSession, At, SessionSteps
  <1>0. PICK s \in Sessions : s = proc[p].id
    BY <1>1, WorkerFacts
  <1>2. SessionPlaced(p) /\ session[s].cleaned \in BOOLEAN
        /\ due[s] \in BOOLEAN /\ SessionRow(s) /\ s \in Ids
    BY <1>0, <1>1, WorkerFacts, SessionFacts
  <1>3. Ended(p)
    BY Returning DEF CompleteSession
  <1>4. Moves(p, s) /\ proc'[p].pc \notin SessionSteps
    BY <1>0, <1>3 DEF Ended, SessionSteps
  <1>5. CASE session[s].state # "pending"
    <2>1. UNCHANGED <<session, media>> BY <1>0, <1>5 DEF CompleteSession
    <2> QED BY <1>0, <1>1, <1>2, <1>4, <2>1, Looking
  <1>6. CASE session[s].state = "pending" /\ due[s]
    <2>1. Settle(s, "expired") /\ media' = media BY <1>0, <1>6 DEF CompleteSession
    <2>2. "expired" \in SessionStates \ {"none"} BY DEF SessionStates
    <2>3. Settles(s, "expired", session[s].cleaned) BY <1>2, <2>1, <2>2, Settling
    <2>4. session[s].state \notin Terminal BY <1>6 DEF Terminal
    <2> QED BY <1>0, <1>1, <1>2, <1>4, <2>1, <2>2, <2>3, <2>4, Ending
  <1>7. CASE session[s].state = "pending" /\ ~due[s]
    <2>1. Settle(s, "completed") /\ media' = [media EXCEPT ![s].state = "active"]
      BY <1>0, <1>7 DEF CompleteSession
    <2>2. "completed" \in SessionStates BY DEF SessionStates
    <2>3. Settles(s, "completed", session[s].cleaned) BY <1>2, <2>1, <2>2, Settling
    <2>4. Writes(s, "active", media[s].token)
      <3>1. PICK m \in Medium : m = media[s] BY <1>2 DEF RowTypes
      <3>2. [m EXCEPT !.state = "active"] \in Medium BY DEF Medium, MediaStates
      <3> QED BY <1>2, <2>1, <3>1, <3>2 DEF RowTypes, Writes, Medium
    <2>5. Touches({p}, s)
      <3>1. Stores(s, blob[s].stage, blob[s].final) BY <1>1, <1>2, Standing
      <3> QED BY <1>1, <1>2, <1>4, <2>3, <2>4, <3>1, SessionTouches
    <2>6. session'[s].state = "completed" /\ session'[s].cleaned = session[s].cleaned
          /\ media'[s].state = "active"
      BY <2>3, <2>4 DEF Settles, Writes
    <2>7. SessionForward(s)
      BY <1>1, <1>7, <2>6 DEF SessionForward, Terminal
    <2>8. SessionRow(s)'
      <3>1. blob[s].final = "good"
        BY <1>0, <1>1, <1>2, <1>7 DEF SessionPlaced
      <3> QED BY <1>1, <1>2, <2>6, <3>1 DEF SessionRow, Terminal
    <2> QED BY <1>0, <1>2, <1>4, <2>5, <2>7, <2>8, SessionStep
  <1> QED BY <1>0, <1>2, <1>5, <1>6, <1>7

LEMMA CreateSessionGoes ==
    ASSUME RowTypes, Linked, NEW s \in Sessions, CreateSession(s)
    PROVE  GoesOn({}, s)
  <1>1. /\ session[s].state = "none" /\ Settle(s, "pending")
        /\ UNCHANGED <<backend, late, media, due, blob, leaked, proc, faults>>
    BY DEF CreateSession, Settle
  <1>2. /\ SessionRow(s) /\ s \in Ids /\ session[s].cleaned \in BOOLEAN
    BY SessionFacts
  <1>3. Settles(s, "pending", session[s].cleaned)
    BY <1>1, Settling DEF SessionStates
  <1>4. Touches({}, s)
    <2>1. due' \in [Sessions -> BOOLEAN]
      BY <1>1 DEF RowTypes
    <2>2. Writes(s, media[s].state, media[s].token) /\ Stores(s, blob[s].stage, blob[s].final)
      BY <1>1, <1>2, Standing
    <2> QED BY <1>1, <1>2, <1>3, <2>1, <2>2, NoneTouches DEF Settles
  <1>5. session'[s].state = "pending" /\ session'[s].cleaned = session[s].cleaned
    BY <1>3 DEF Settles
  <1>6. SessionForward(s)
    BY <1>1, <1>5 DEF SessionForward, Terminal
  <1>7. SessionRow(s)'
    BY <1>1, <1>2, <1>5 DEF SessionRow, Terminal
  <1> QED BY <1>4, <1>6, <1>7, SessionStep

LEMMA DueGoes ==
    ASSUME RowTypes, Linked, NEW s \in Sessions, Due(s)
    PROVE  GoesOn({}, s)
  <1>1. /\ due' = [due EXCEPT ![s] = TRUE] /\ ~due[s]
        /\ UNCHANGED <<backend, late, media, session, blob, leaked, proc, faults>>
    BY DEF Due
  <1>2. /\ SessionRow(s) /\ s \in Ids
    BY SessionFacts
  <1>3. /\ due' \in [Sessions -> BOOLEAN] /\ due'[s] = TRUE
        /\ \A t \in Sessions \ {s} : due'[t] = due[t]
    BY <1>1 DEF RowTypes
  <1>4. Touches({}, s)
    <2>1. session' \in [Sessions -> Session]
      BY <1>1 DEF RowTypes
    <2>2. Writes(s, media[s].state, media[s].token) /\ Stores(s, blob[s].stage, blob[s].final)
      BY <1>1, <1>2, Standing
    <2> QED BY <1>1, <1>2, <1>3, <2>1, <2>2, NoneTouches
  <1>5. SessionForward(s)
    BY <1>1, <1>3 DEF SessionForward
  <1>6. SessionRow(s)'
    BY <1>1, <1>2, <1>3 DEF SessionRow
  <1> QED BY <1>4, <1>5, <1>6, SessionStep

-----------------------------------------------------------------------------
(* Deletion, and the loss of a process.                                    *)

(* The media row of a session's object goes from active to deleted.        *)
LEMMA DeletedSession ==
    ASSUME RowTypes, Linked, NEW A \in SUBSET Procs, NEW s \in Sessions, Touches(A, s),
           session'[s] = session[s], due'[s] = due[s], late' = late,
           media[s].state \in {"active", "delete_pending"},
           media'[s].state \in {"delete_pending", "deleted"},
           blob'[s].stage = blob[s].stage, blob'[s].final \in {blob[s].final, "none"},
           \A p \in A : proc'[p].pc \in {"idle", "purged"}
    PROVE  GoesOn(A, s)
  <1>1. SessionRow(s) /\ session[s].state = "completed" /\ backend' = backend
    BY SessionFacts DEF SessionRow, Touches
  <1>2. SessionForward(s)
    BY <1>1 DEF SessionForward
  <1>3. SessionRow(s)'
    BY <1>1 DEF SessionRow
  <1>4. \A p \in A : proc'[p].pc \notin SessionSteps
    BY DEF SessionSteps
  <1> QED BY <1>2, <1>3, <1>4, SessionStep

LEMMA Deleted ==
    ASSUME RowTypes, Linked, NEW A \in SUBSET Procs, NEW i \in Ids, Touches(A, i),
           UNCHANGED <<late, session, due, leaked>>,
           media[i].state \in {"active", "delete_pending"},
           NEW state \in {"delete_pending", "deleted"}, Writes(i, state, media[i].token),
           NEW final \in {blob[i].final, "none"}, Stores(i, blob[i].stage, final),
           \A p \in A : proc'[p].pc \in {"idle", "purged"}
    PROVE  GoesOn(A, i)
  <1>1. /\ media'[i].state = state /\ media'[i].token = media[i].token
        /\ blob'[i].stage = blob[i].stage /\ blob'[i].final = final
    BY DEF Writes, Stores
  <1>2. i \in Direct => GoesOn(A, i)
    BY <1>1, DeletedUpload
  <1>3. i \in Sessions => GoesOn(A, i)
    BY <1>1, DeletedSession
  <1> QED BY <1>2, <1>3 DEF Ids

LEMMA ScheduleDeleteGoes ==
    ASSUME RowTypes, Linked, NEW i \in Ids, ScheduleDelete(i)
    PROVE  GoesOn({}, i)
  <1>1. /\ media[i].state = "active" /\ media' = [media EXCEPT ![i].state = "delete_pending"]
        /\ UNCHANGED <<backend, late, session, due, blob, leaked, proc, faults>>
    BY DEF ScheduleDelete
  <1>2. Writes(i, "delete_pending", media[i].token)
    <2>1. PICK m \in Medium : m = media[i] BY DEF RowTypes
    <2>2. [m EXCEPT !.state = "delete_pending"] \in Medium BY DEF Medium, MediaStates
    <2> QED BY <1>1, <2>1, <2>2 DEF RowTypes, Writes, Medium
  <1>3. Stores(i, blob[i].stage, blob[i].final)
    BY <1>1, Standing
  <1>4. Touches({}, i)
    BY <1>1, <1>2, <1>3, NoneTouches DEF RowTypes
  <1> QED BY <1>1, <1>2, <1>3, <1>4, Deleted

LEMMA PurgePayloadGoes ==
    ASSUME RowTypes, Linked, NEW p \in Procs, NEW i \in Ids, PurgePayload(p, i)
    PROVE  GoesOn({p}, i)
  <1>1. /\ At(p, "idle") /\ Run(p, "purged", i)
        /\ media[i].state = "delete_pending" /\ blob' = [blob EXCEPT ![i].final = "none"]
        /\ UNCHANGED <<backend, late, media, session, due, leaked, faults>>
    BY DEF PurgePayload
  <1>2. Began(p, "purged", i)
    BY <1>1, Beginning
  <1>3. Stores(i, blob[i].stage, "none") /\ Writes(i, "delete_pending", media[i].token)
    BY <1>1, Finishing, Standing DEF Payload, Staged
  <1>4. Moves(p, i) /\ proc'[p].pc = "purged"
    BY <1>2 DEF Began
  <1>5. Touches({p}, i)
    BY <1>1, <1>3, <1>4, OneTouches DEF RowTypes
  <1> QED BY <1>1, <1>3, <1>4, <1>5, Deleted

(* A process ends with every row as it was.                                *)
LEMMA Leaving ==
    ASSUME RowTypes, Linked, NEW p \in Procs, NEW i \in Ids, i = proc[p].id, Return(p),
           UNCHANGED <<backend, late, media, session, due, blob, leaked>>, Fault \/ UNCHANGED faults
    PROVE  GoesOn({p}, i)
  <1>1. Moves(p, i) /\ proc'[p].pc = "idle" /\ proc'[p].id = "none"
    BY Returning DEF Ended
  <1>2. Touches({p}, i)
    BY <1>1, Standing, OneTouches DEF RowTypes
  <1>3. proc'[p].pc \notin SessionSteps
    BY <1>1 DEF SessionSteps
  <1>4. i \in Direct => GoesOn({p}, i)
    BY <1>1, <1>2, QuietUpload
  <1>5. i \in Sessions => GoesOn({p}, i)
    BY <1>1, <1>3, Looking
  <1> QED BY <1>4, <1>5 DEF Ids

LEMMA FinalizeDeleteGoes ==
    ASSUME RowTypes, Linked, NEW p \in Procs, FinalizeDelete(p)
    PROVE  GoesOn({p}, proc[p].id)
  <1> DEFINE i == proc[p].id
  <1>1. proc[p].pc = "purged" /\ Return(p)
        /\ UNCHANGED <<backend, late, session, due, blob, leaked, faults>>
    BY DEF FinalizeDelete, At
  <1>2. i \in Ids
    BY <1>1, Placed
  <1>3. CASE media[i].state # "delete_pending"
    <2>1. media' = media BY <1>3 DEF FinalizeDelete
    <2> QED BY <1>1, <1>2, <2>1, Leaving
  <1>4. CASE media[i].state = "delete_pending"
    <2>1. media' = [media EXCEPT ![i].state = "deleted"]
      BY <1>4 DEF FinalizeDelete
    <2>2. Writes(i, "deleted", media[i].token)
      <3>1. PICK m \in Medium : m = media[i] BY <1>2 DEF RowTypes
      <3>2. [m EXCEPT !.state = "deleted"] \in Medium BY DEF Medium, MediaStates
      <3> QED BY <1>2, <2>1, <3>1, <3>2 DEF RowTypes, Writes, Medium
    <2>3. Stores(i, blob[i].stage, blob[i].final)
      BY <1>1, <1>2, Standing
    <2>4. Moves(p, i) /\ proc'[p].pc = "idle"
      BY <1>1, Returning DEF Ended
    <2>5. Touches({p}, i)
      BY <1>1, <1>2, <2>2, <2>3, <2>4, OneTouches DEF RowTypes
    <2> QED BY <1>1, <1>2, <1>4, <2>2, <2>3, <2>4, <2>5, Deleted
  <1> QED BY <1>3, <1>4

LEMMA GoneGoes ==
    ASSUME RowTypes, Linked, NEW p \in Procs, Gone(p)
    PROVE  GoesOn({p}, proc[p].id)
  <1>1. /\ ~At(p, "idle") /\ Return(p) /\ Fault
        /\ UNCHANGED <<backend, late, media, session, due, blob>>
        /\ leaked' = IF At(p, "create") THEN leaked \cup {proc[p].id} ELSE leaked
    BY DEF Gone
  <1>2. proc[p].id \in Ids
    BY <1>1, Placed DEF At
  <1>3. CASE At(p, "create")
    BY <1>1, <1>3, CreateEnds
  <1>4. CASE ~At(p, "create")
    <2>1. leaked' = leaked BY <1>1, <1>4
    <2> QED BY <1>1, <1>2, <2>1, Leaving
  <1> QED BY <1>3, <1>4

-----------------------------------------------------------------------------
(* Every step.                                                             *)

LEMMA ContinueGoes ==
    ASSUME RowTypes, Linked, NEW p \in Procs, Continue(p) \/ PutFails(p) \/ Gone(p)
    PROVE  GoesOn({p}, proc[p].id) /\ proc[p].id \in Ids
  <1>1. GoesOn({p}, proc[p].id)
    <2>1. CASE \/ CreateUploading(p) \/ CreateRefused(p) \/ PutTemporary(p) \/ Promote(p)
               \/ CommitUpload(p) \/ AbortUpload(p) \/ PutFails(p) \/ Gone(p)
      BY <2>1, CreateUploadingGoes, CreateRefusedGoes, PutTemporaryGoes, PromoteGoes,
         CommitUploadGoes, AbortUploadGoes, PutFailsGoes, GoneGoes
    <2>2. CASE Promoted(p) \/ DropTemporary(p) \/ KeepFinal(p)
      BY <2>2, StageDropped DEF Promoted, DropTemporary, KeepFinal, At
    <2>3. CASE HeadFinal(p) \/ Checksum(p) \/ DiscardFinal(p)
      BY <2>3, HeadFinalGoes, ChecksumGoes, DiscardFinalGoes
    <2>4. CASE \/ InstallContent(p) \/ RecheckContent(p) \/ LateUpload(p)
               \/ ExpireInComplete(p) \/ Inspect(p) \/ Finalize(p) \/ CompleteSession(p)
               \/ CancelSession(p)
      BY <2>4, InstallContentGoes, RecheckContentGoes, LateUploadGoes, ExpireGoes, InspectGoes,
         FinalizeGoes, CompleteSessionGoes, CancelSessionGoes
    <2>5. CASE AbortTarget(p) \/ AbortFinal(p) \/ CleanupDone(p) \/ FinalizeDelete(p)
      BY <2>5, AbortTargetGoes, AbortFinalGoes, CleanupDoneGoes, FinalizeDeleteGoes
    <2>6. CASE CopyParts(p)
      <3>1. proc[p].pc = "promote" \/ proc[p].pc = "finalize"
        BY <2>6 DEF CopyParts, At
      <3>2. "promote" \in UploadSteps
        BY DEF UploadSteps
      <3> QED BY <2>6, <3>1, <3>2, UploadCopyParts, SessionCopyParts
    <2>7. CASE CompleteCopy(p)
      BY <2>7, UploadCompleteCopy, SessionCompleteCopy DEF CompleteCopy, Copied, At, UploadSteps
    <2>8. CASE RepairCopy(p)
      BY <2>8, UploadRepairCopy, SessionRepairCopy DEF RepairCopy, Repair, At, UploadSteps
    <2>9. CASE Overtaken(p)
      BY <2>9, OvertakenGoes
    <2> QED BY <2>1, <2>2, <2>3, <2>4, <2>5, <2>6, <2>7, <2>8, <2>9 DEF Continue
  <1>2. proc[p].pc # "idle"
    BY DEF Continue, PutFails, Gone, CreateUploading, CreateRefused, PutTemporary, Promote,
           CopyParts, CompleteCopy, RepairCopy, Overtaken, Copied, Repair, Promoted, CommitUpload, DropTemporary, AbortUpload, HeadFinal, Checksum, KeepFinal,
           DiscardFinal, InstallContent, RecheckContent, LateUpload, ExpireInComplete, Inspect,
           Finalize, CompleteSession, CancelSession, AbortTarget, AbortFinal, CleanupDone,
           FinalizeDelete, At
  <1> QED BY <1>1, <1>2, Placed

-----------------------------------------------------------------------------
(* The ledger: what one step changes in the sets that are counted.         *)

Held == {i \in Ids : media[i].state \in {"active", "delete_pending"}}
Uploading == {d \in Direct : media[d].state = "uploading"}
Pending == {s \in Sessions : session[s].state = "pending"}
Creating == {p \in Procs : At(p, "create")}

One(b) == IF b THEN 1 ELSE 0

LEMMA CountChange ==
    ASSUME NEW S, NEW T, IsFiniteSet(S), NEW x, S \ {x} = T \ {x}
    PROVE  /\ IsFiniteSet(T) /\ Cardinality(S) \in Nat /\ Cardinality(T) \in Nat
           /\ Cardinality(T) = Cardinality(S) + One(x \in T) - One(x \in S)
  <1>0. IsFiniteSet(S \ {x}) /\ Cardinality(S) \in Nat
    BY FS_RemoveElement, FS_CardinalityType
  <1>1. /\ Cardinality(S \ {x}) \in Nat
        /\ Cardinality(S) = Cardinality(S \ {x}) + One(x \in S)
    BY <1>0, FS_RemoveElement, FS_CardinalityType DEF One
  <1>2. IsFiniteSet(T) /\ Cardinality(T) = Cardinality(S \ {x}) + One(x \in T)
    <2>1. CASE x \in T
      <3>1. T = (S \ {x}) \cup {x} BY <2>1
      <3> QED BY <1>0, <1>1, <2>1, <3>1, FS_AddElement DEF One
    <2>2. CASE x \notin T
      <3>1. T = S \ {x} BY <2>2
      <3> QED BY <1>0, <1>1, <2>2, <3>1 DEF One
    <2> QED BY <2>1, <2>2
  <1> QED BY <1>0, <1>1, <1>2, FS_CardinalityType DEF One

LEMMA CountedSets ==
    RowTypes => /\ IsFiniteSet(Held) /\ IsFiniteSet(Uploading) /\ IsFiniteSet(Pending)
                /\ IsFiniteSet(Creating) /\ IsFiniteSet(leaked)
  <1> SUFFICES ASSUME RowTypes
               PROVE  /\ IsFiniteSet(Held) /\ IsFiniteSet(Uploading) /\ IsFiniteSet(Pending)
                      /\ IsFiniteSet(Creating) /\ IsFiniteSet(leaked)
    OBVIOUS
  <1>1. /\ Held \subseteq Ids /\ Uploading \subseteq Ids /\ Pending \subseteq Ids
        /\ Creating \subseteq Procs /\ leaked \subseteq Ids
    BY DEF Held, Uploading, Pending, Creating, RowTypes, Ids
  <1> QED BY <1>1, UploadConstants, FS_Subset

(* What a step of p on the id i books is what changed in their rows.       *)
Counts(p, i) ==
    /\ used' = used + One(media'[i].state \in {"active", "delete_pending"})
                    - One(media[i].state \in {"active", "delete_pending"})
    /\ reserved' = reserved
         + One(i \in Direct /\ media'[i].state = "uploading")
         - One(i \in Direct /\ media[i].state = "uploading")
         + One(i \in Sessions /\ session'[i].state = "pending")
         - One(i \in Sessions /\ session[i].state = "pending")
         + One(p \in Procs /\ proc'[p].pc = "create") - One(p \in Procs /\ proc[p].pc = "create")
         + One(i \in leaked') - One(i \in leaked)
    /\ \/ used' + reserved' <= used + reserved
       \/ Room /\ used' + reserved' = used + reserved + 1

LEMMA LedgerBooked ==
    ASSUME TypeOK, LedgerExact, QuotaKept, NEW A \in SUBSET Procs, NEW i \in Ids, NEW p,
           Touches(A, i), A \subseteq {p}, Counts(p, i)
    PROVE  LedgerExact' /\ QuotaKept' /\ TypeOK'
  <1>1. RowTypes /\ used \in Nat /\ reserved \in Nat
    BY UploadConstants DEF TypeOK, RowTypes, Contents
  <1>2. RowTypes'
    BY DEF Touches
  <1>3. /\ IsFiniteSet(Held) /\ IsFiniteSet(Uploading) /\ IsFiniteSet(Pending)
        /\ IsFiniteSet(Creating) /\ IsFiniteSet(leaked)
    BY <1>1, CountedSets
  <1>4. Held' \ {i} = Held \ {i} /\ Uploading' \ {i} = Uploading \ {i}
    BY DEF Held, Uploading, Touches, Ids
  <1>5. Pending' \ {i} = Pending \ {i} /\ leaked' \ {i} = leaked \ {i}
    BY <1>1, <1>2 DEF Pending, Touches, RowTypes
  <1>6. Creating' \ {p} = Creating \ {p}
    BY DEF Creating, Touches, At
  <1>7. /\ Cardinality(Held) \in Nat /\ Cardinality(Held') \in Nat
        /\ Cardinality(Held') = Cardinality(Held) + One(i \in Held') - One(i \in Held)
    BY <1>3, <1>4, CountChange
  <1>8. /\ Cardinality(Uploading) \in Nat /\ Cardinality(Uploading') \in Nat
        /\ Cardinality(Uploading') =
             Cardinality(Uploading) + One(i \in Uploading') - One(i \in Uploading)
    BY <1>3, <1>4, CountChange
  <1>9. /\ Cardinality(Pending) \in Nat /\ Cardinality(Pending') \in Nat
        /\ Cardinality(Pending') = Cardinality(Pending) + One(i \in Pending') - One(i \in Pending)
    BY <1>3, <1>5, CountChange
  <1>10. /\ Cardinality(Creating) \in Nat /\ Cardinality(Creating') \in Nat
         /\ Cardinality(Creating') =
              Cardinality(Creating) + One(p \in Creating') - One(p \in Creating)
    BY <1>3, <1>6, CountChange
  <1>11. /\ Cardinality(leaked) \in Nat /\ Cardinality(leaked') \in Nat
         /\ Cardinality(leaked') = Cardinality(leaked) + One(i \in leaked') - One(i \in leaked)
    BY <1>3, <1>5, CountChange
  <1>12. /\ used = Cardinality(Held)
         /\ reserved = Cardinality(Uploading) + Cardinality(Pending) + Cardinality(Creating)
                         + Cardinality(leaked)
    BY DEF LedgerExact, Held, Uploading, Pending, Creating
  <1>13. /\ (i \in Held <=> media[i].state \in {"active", "delete_pending"})
         /\ (i \in Held' <=> media'[i].state \in {"active", "delete_pending"})
         /\ (i \in Uploading <=> i \in Direct /\ media[i].state = "uploading")
         /\ (i \in Uploading' <=> i \in Direct /\ media'[i].state = "uploading")
         /\ (i \in Pending <=> i \in Sessions /\ session[i].state = "pending")
         /\ (i \in Pending' <=> i \in Sessions /\ session'[i].state = "pending")
         /\ (p \in Creating <=> p \in Procs /\ proc[p].pc = "create")
         /\ (p \in Creating' <=> p \in Procs /\ proc'[p].pc = "create")
    BY DEF Held, Uploading, Pending, Creating, At
  <1>14. used' = Cardinality(Held')
    BY <1>1, <1>7, <1>12, <1>13 DEF Counts, One
  <1>15. reserved' = Cardinality(Uploading') + Cardinality(Pending') + Cardinality(Creating')
                       + Cardinality(leaked')
    <2> DEFINE u == Cardinality(Uploading)   uu == Cardinality(Uploading')
               s == Cardinality(Pending)     ss == Cardinality(Pending')
               c == Cardinality(Creating)    cc == Cardinality(Creating')
               l == Cardinality(leaked)      ll == Cardinality(leaked')
               ui == One(i \in Direct /\ media[i].state = "uploading")
               uj == One(i \in Direct /\ media'[i].state = "uploading")
               si == One(i \in Sessions /\ session[i].state = "pending")
               sj == One(i \in Sessions /\ session'[i].state = "pending")
               ci == One(p \in Procs /\ proc[p].pc = "create")
               cj == One(p \in Procs /\ proc'[p].pc = "create")
               li == One(i \in leaked)
               lj == One(i \in leaked')
    <2>1. u \in Nat /\ s \in Nat /\ c \in Nat /\ l \in Nat
      BY <1>8, <1>9, <1>10, <1>11
    <2>2. uu = u + uj - ui /\ ss = s + sj - si
      BY <1>8, <1>9, <1>13 DEF One
    <2>3. cc = c + cj - ci /\ ll = l + lj - li
      BY <1>10, <1>11, <1>13 DEF One
    <2>4. /\ ui \in Int /\ uj \in Int /\ si \in Int /\ sj \in Int
          /\ ci \in Int /\ cj \in Int /\ li \in Int /\ lj \in Int
      BY DEF One
    <2>5. reserved = u + s + c + l
      BY <1>12
    <2>6. reserved' = reserved + uj - ui + sj - si + cj - ci + lj - li
      BY DEF Counts
    <2> HIDE DEF u, s, c, l, uu, ss, cc, ll, ui, uj, si, sj, ci, cj, li, lj
    <2>7. reserved' = uu + ss + cc + ll
      BY <2>1, <2>2, <2>3, <2>4, <2>5, <2>6
    <2> QED BY <2>7 DEF uu, ss, cc, ll
  <1>16. LedgerExact'
    BY <1>14, <1>15 DEF LedgerExact, Held, Uploading, Pending, Creating
  <1>17. used' \in Nat /\ reserved' \in Nat
    BY <1>7, <1>8, <1>9, <1>10, <1>11, <1>14, <1>15
  <1>18. QuotaKept'
    BY <1>1, <1>17, UploadConstants DEF Counts, QuotaKept, Room
  <1>19. TypeOK'
    <2>1. used' \in 0 .. Quota /\ reserved' \in 0 .. Quota
      <3>1. Quota \in Nat BY UploadConstants
      <3>2. used' + reserved' <= Quota BY <1>18 DEF QuotaKept
      <3>3. \A a, b \in Nat : a + b <= Quota => a \in 0 .. Quota /\ b \in 0 .. Quota
        BY <3>1
      <3> QED BY <1>17, <3>2, <3>3
    <2> QED BY <1>2, <2>1 DEF TypeOK, RowTypes, Contents
  <1> QED BY <1>16, <1>18, <1>19

(* Nothing that is counted changes.                                        *)
LEMMA NothingBooked ==
    ASSUME TypeOK, NEW p, NEW i, UNCHANGED <<media, session, leaked, used, reserved>>,
           p \in Procs => (proc[p].pc = "create" <=> proc'[p].pc = "create")
    PROVE  Counts(p, i)
  <1>1. used \in Int /\ reserved \in Int
    BY UploadConstants DEF TypeOK
  <1> QED BY <1>1 DEF Counts, One

LEMMA QuietCounts ==
    ASSUME TypeOK, NEW p \in Procs, NEW i \in Ids,
           \/ PutTemporary(p) \/ PutFails(p) \/ Promote(p) \/ Promoted(p) \/ DropTemporary(p)
           \/ CopyParts(p) \/ CompleteCopy(p) \/ RepairCopy(p) \/ Overtaken(p)
           \/ HeadFinal(p) \/ Checksum(p) \/ KeepFinal(p) \/ DiscardFinal(p)
           \/ InstallContent(p) \/ RecheckContent(p) \/ LateUpload(p) \/ Inspect(p)
           \/ Finalize(p) \/ AbortTarget(p) \/ AbortFinal(p) \/ PurgePayload(p, i)
           \/ Gone(p) /\ ~At(p, "create")
           \/ i \in Sessions /\ (PutContent(p, i) \/ Complete(p, i) \/ Cancel(p, i))
    PROVE  Counts(p, i)
  <1>1. RowTypes /\ proc \in [Procs -> Process]
    BY DEF TypeOK, RowTypes, Contents
  <1>2. UNCHANGED <<media, session, leaked, used, reserved>> /\ proc[p].pc # "create"
    BY DEF PutTemporary, PutFails, Promote, Promoted, DropTemporary, HeadFinal, Checksum,
           CopyParts, CompleteCopy, RepairCopy, Overtaken, Copied, Repair,
           KeepFinal, DiscardFinal, InstallContent, RecheckContent, LateUpload, Inspect, Finalize,
           AbortTarget, AbortFinal, PurgePayload, Gone, PutContent, Complete, Cancel, At
  <1>3. proc'[p].pc # "create"
    <2>1. ASSUME NEW pc, Goto(p, pc), pc # "create" PROVE proc'[p].pc # "create"
      <3>1. PICK u \in Process : u = proc[p] BY <1>1
      <3>2. proc'[p] = [u EXCEPT !.pc = pc] BY <1>1, <2>1, <3>1 DEF Goto
      <3> QED BY <2>1, <3>1, <3>2 DEF Process
    <2>2. ASSUME Return(p) PROVE proc'[p].pc # "create"
      BY <1>1, <2>2, Returning DEF Ended
    <2>3. ASSUME NEW pc, Renewed(p, pc), pc # "create" PROVE proc'[p].pc # "create"
      BY <2>1, <2>2, <2>3 DEF Renewed
    <2>4. ASSUME NEW pc, NEW j, Run(p, pc, j), pc # "create" PROVE proc'[p].pc # "create"
      BY <1>1, <2>4 DEF Run
    <2>5. ASSUME NEW pc, NEW as, GotoAs(p, pc, as), pc # "create" PROVE proc'[p].pc # "create"
      <3>1. PICK u \in Process : u = proc[p] BY <1>1
      <3>2. proc'[p] = [u EXCEPT !.pc = pc, !.as = as] BY <1>1, <2>5, <3>1 DEF GotoAs
      <3> QED BY <2>5, <3>1, <3>2 DEF Process
    <2>6. ASSUME Finalized(p) PROVE proc'[p].pc # "create"
      <3>1. GotoAs(p, "promoted", "none") \/ GotoAs(p, "expire", "none") \/ GotoAs(p, "complete", "none")
        BY <2>6 DEF Finalized
      <3> QED BY <2>5, <3>1
    <2>7. ASSUME SourceGone(p) PROVE proc'[p].pc # "create"
      BY <2>2, <2>6, <2>7 DEF SourceGone
    <2>8. Copied(p) # "create" /\ Repair(p) # "create"
      BY DEF Copied, Repair
    <2>9. CASE \/ PutTemporary(p) \/ PutFails(p) \/ Promoted(p) \/ DropTemporary(p) \/ KeepFinal(p)
      BY <2>3, <2>9 DEF PutTemporary, PutFails, Promoted, DropTemporary, KeepFinal
    <2>10. CASE \/ Promote(p) \/ DiscardFinal(p) \/ InstallContent(p) \/ LateUpload(p)
                \/ AbortTarget(p) \/ AbortFinal(p) \/ Gone(p) \/ Overtaken(p)
      BY <2>1, <2>2, <2>10 DEF Promote, DiscardFinal, InstallContent, LateUpload, AbortTarget,
         AbortFinal, Gone, Overtaken
    <2>11. CASE HeadFinal(p) \/ Checksum(p)
      <3>1. \/ Return(p) \/ \E as : \/ GotoAs(p, "drop", as) \/ GotoAs(p, "checksum", as)
                                   \/ GotoAs(p, "keep", as) \/ GotoAs(p, "discard", as)
        BY <2>11, Zenon DEF HeadFinal, Checksum
      <3> QED BY <2>2, <2>5, <3>1
    <2>12. CASE CopyParts(p)
      <3>1. \/ SourceGone(p) \/ Finalized(p) \/ Return(p) \/ Goto(p, Repair(p))
            \/ GotoAs(p, Copied(p), blob[proc[p].id].stage)
        BY <2>12 DEF CopyParts
      <3> QED BY <2>1, <2>2, <2>5, <2>6, <2>7, <2>8, <3>1
    <2>13. CASE CompleteCopy(p)
      <3>1. SourceGone(p) \/ Finalized(p) \/ Return(p) \/ GotoAs(p, Repair(p), "none")
        BY <2>13 DEF CompleteCopy
      <3> QED BY <2>2, <2>5, <2>6, <2>7, <2>8, <3>1
    <2>14. CASE RepairCopy(p) \/ Finalize(p)
      BY <2>6, <2>7, <2>14 DEF RepairCopy, Finalize
    <2>15. CASE RecheckContent(p)
      <3>1. GotoAs(p, "judge", session[proc[p].id].state)
        BY <2>15 DEF RecheckContent, GotoAs
      <3> QED BY <2>5, <3>1
    <2>16. CASE Inspect(p)
      <3> DEFINE s == proc[p].id
      <3>1. due[s] \in BOOLEAN /\ Uploaded(s) \in Payload
        <4>1. p \in Procs /\ proc[p].pc \in SessionSteps
          BY <2>16 DEF Inspect, At, SessionSteps
        <4>2. s \in Sessions BY <1>1, <4>1, SessionId
        <4>3. blob[s].stage \in Staged /\ blob[s].final \in Payload
          BY <1>1, <4>2, Standing DEF Ids
        <4> QED BY <1>1, <4>2, <4>3 DEF RowTypes, Uploaded, Target, Payload
      <3>2. Return(p) \/ Goto(p, "expire") \/ Goto(p, "cancel") \/ Goto(p, "finalize")
        BY <2>16, <3>1 DEF Inspect, Payload, Staged
      <3> QED BY <2>1, <2>2, <3>2
    <2>17. CASE PurgePayload(p, i) \/ PutContent(p, i) \/ Complete(p, i) \/ Cancel(p, i)
      BY <2>4, <2>17 DEF PurgePayload, PutContent, Complete, Cancel
    <2> QED BY <2>9, <2>10, <2>11, <2>12, <2>13, <2>14, <2>15, <2>16, <2>17
  <1> QED BY <1>2, <1>3, NothingBooked

LEMMA CountingFacts ==
    ASSUME TypeOK
    PROVE  /\ RowTypes /\ used \in Int /\ reserved \in Int
           /\ Direct \cap Sessions = {}
           /\ \A d \in Direct : d \in Ids /\ d \notin Sessions
           /\ \A s \in Sessions : s \in Ids /\ s \notin Direct
  BY UploadConstants DEF TypeOK, RowTypes, Contents, Ids

LEMMA ReserveQuotaCounts ==
    ASSUME TypeOK, NEW p \in Procs, NEW d \in Direct, ReserveQuota(p, d)
    PROVE  Counts(p, d)
  <1>1. /\ At(p, "idle") /\ Run(p, "create", d) /\ Room /\ reserved' = reserved + 1
        /\ UNCHANGED <<media, session, leaked, used>>
    BY DEF ReserveQuota
  <1>2. proc[p].pc # "create" /\ proc'[p].pc = "create"
    BY <1>1, CountingFacts DEF At, Run, RowTypes
  <1> QED BY <1>1, <1>2, CountingFacts DEF Counts, One

LEMMA CreateUploadingCounts ==
    ASSUME TypeOK, Linked, NEW p \in Procs, CreateUploading(p)
    PROVE  Counts(p, proc[p].id)
  <1> DEFINE d == proc[p].id
             row == [state |-> "uploading", token |-> 0, leased |-> TRUE]
  <1>1. /\ At(p, "create") /\ Goto(p, "put") /\ media' = [media EXCEPT ![d] = row]
        /\ UNCHANGED <<session, leaked, used, reserved>>
    BY DEF CreateUploading
  <1>2. d \in Direct /\ d \in Ids /\ d \notin Sessions /\ media[d].state = "none"
        /\ proc[p].pc \in UploadSteps
    BY <1>1, CreatingAlone, CountingFacts
  <1>3. proc[p].pc = "create" /\ proc'[p].pc = "put"
    BY <1>1, <1>2, Going, CountingFacts DEF At, UploadSteps, Went
  <1>4. media'[d].state = "uploading"
    BY <1>1, <1>2, CountingFacts DEF RowTypes
  <1> QED BY <1>1, <1>2, <1>3, <1>4, CountingFacts DEF Counts, One

(* The reservation is given back, or becomes one without an owner.         *)
LEMMA CreateEndsCounts ==
    ASSUME TypeOK, Linked, NEW p \in Procs, At(p, "create"), Return(p),
           UNCHANGED <<media, session, used>>,
           \/ reserved' = reserved - 1 /\ leaked' = leaked
           \/ reserved' = reserved /\ leaked' = leaked \cup {proc[p].id}
    PROVE  Counts(p, proc[p].id)
  <1> DEFINE d == proc[p].id
  <1>1. d \notin leaked
    BY CreatingAlone, CountingFacts
  <1>2. proc[p].pc = "create" /\ proc'[p].pc = "idle"
    BY Returning, CountingFacts DEF At, Ended
  <1> HIDE DEF d
  <1>3. Counts(p, d)
    BY <1>1, <1>2, CountingFacts DEF Counts, One, d
  <1> QED BY <1>3 DEF d

(* An owner ends its upload.                                               *)
LEMMA OwnerEndsCounts ==
    ASSUME TypeOK, NEW p \in Procs, CommitUpload(p) \/ AbortUpload(p)
    PROVE  Counts(p, proc[p].id)
  <1> DEFINE d == proc[p].id
  <1>1. /\ proc[p].pc \in UploadSteps /\ proc[p].pc # "create" /\ Return(p)
        /\ UNCHANGED <<session, leaked>>
    BY DEF CommitUpload, AbortUpload, At, UploadSteps
  <1>2. d \in Direct /\ d \in Ids /\ d \notin Sessions
    BY <1>1, UploadId, CountingFacts
  <1>3. proc'[p].pc = "idle"
    BY <1>1, Returning, CountingFacts DEF Ended
  <1>4. CASE UNCHANGED <<media, used, reserved>>
    BY <1>1, <1>3, <1>4, NothingBooked
  <1>5. CASE /\ Owns(p) /\ used' = used + 1 /\ reserved' = reserved - 1
             /\ media' = [media EXCEPT ![d] = [@ EXCEPT !.state = "active", !.leased = FALSE]]
    <2>1. media[d].state = "uploading" BY <1>5 DEF Owns
    <2>2. media'[d].state = "active"
      <3>1. PICK m \in Medium : m = media[d] BY <1>2, CountingFacts DEF RowTypes
      <3> QED BY <1>2, <1>5, <3>1, CountingFacts DEF RowTypes, Medium
    <2> QED BY <1>1, <1>2, <1>3, <1>5, <2>1, <2>2, CountingFacts DEF Counts, One
  <1>6. CASE /\ Owns(p) /\ used' = used /\ reserved' = reserved - 1
             /\ media' = [media EXCEPT ![d] = [state |-> "none", token |-> 0, leased |-> FALSE]]
    <2>1. media[d].state = "uploading" BY <1>6 DEF Owns
    <2>2. media'[d].state = "none"
      BY <1>2, <1>6, CountingFacts DEF RowTypes
    <2> QED BY <1>1, <1>2, <1>3, <1>6, <2>1, <2>2, CountingFacts DEF Counts, One
  <1> QED BY <1>4, <1>5, <1>6 DEF CommitUpload, AbortUpload

(* The state of the media row is counted as before.                        *)
LEMMA SameStateCounts ==
    ASSUME TypeOK, NEW p, NEW i \in Ids, UNCHANGED <<session, leaked, used, reserved>>,
           \/ media'[i].state = media[i].state
           \/ media[i].state = "active" /\ media'[i].state = "delete_pending",
           p \in Procs => (proc[p].pc = "create" <=> proc'[p].pc = "create")
    PROVE  Counts(p, i)
  BY CountingFacts DEF Counts, One

LEMMA ClaimStaleCounts ==
    ASSUME TypeOK, NEW p \in Procs, NEW d \in Direct, ClaimStale(p, d)
    PROVE  Counts(p, d)
  <1> DEFINE token == media[d].token + 1
  <1>1. /\ At(p, "idle")
        /\ media' = [media EXCEPT ![d] = [@ EXCEPT !.token = token, !.leased = TRUE]]
        /\ proc' = [proc EXCEPT ![p] = [pc |-> "head", id |-> d, token |-> token, as |-> "none"]]
        /\ UNCHANGED <<session, leaked, used, reserved>>
    BY DEF ClaimStale
  <1>2. d \in Ids BY DEF Ids
  <1> HIDE DEF token
  <1>3. media'[d].state = media[d].state
    <2>1. PICK m \in Medium : m = media[d] BY <1>2, CountingFacts DEF RowTypes
    <2> QED BY <1>1, <1>2, <2>1, CountingFacts DEF RowTypes, Medium
  <1>4. proc[p].pc # "create" /\ proc'[p].pc # "create"
    BY <1>1, CountingFacts DEF At, RowTypes
  <1> QED BY <1>1, <1>2, <1>3, <1>4, SameStateCounts

LEMMA LeaseCounts ==
    ASSUME TypeOK, NEW p, NEW d \in Direct, LeaseLost(d) \/ LeaseEnds(d)
    PROVE  Counts(p, d)
  <1>1. /\ media' = [media EXCEPT ![d].leased = FALSE]
        /\ UNCHANGED <<session, leaked, used, reserved, proc>>
    BY DEF LeaseLost, LeaseEnds
  <1>2. d \in Ids BY DEF Ids
  <1>3. media'[d].state = media[d].state
    <2>1. PICK m \in Medium : m = media[d] BY <1>2, CountingFacts DEF RowTypes
    <2> QED BY <1>1, <1>2, <2>1, CountingFacts DEF RowTypes, Medium
  <1> QED BY <1>1, <1>2, <1>3, SameStateCounts

LEMMA ScheduleDeleteCounts ==
    ASSUME TypeOK, NEW p, NEW i \in Ids, ScheduleDelete(i)
    PROVE  Counts(p, i)
  <1>1. /\ media[i].state = "active" /\ media' = [media EXCEPT ![i].state = "delete_pending"]
        /\ UNCHANGED <<session, leaked, used, reserved, proc>>
    BY DEF ScheduleDelete
  <1>2. media'[i].state = "delete_pending"
    <2>1. PICK m \in Medium : m = media[i] BY CountingFacts DEF RowTypes
    <2> QED BY <1>1, <2>1, CountingFacts DEF RowTypes, Medium
  <1> QED BY <1>1, <1>2, SameStateCounts

LEMMA FinalizeDeleteCounts ==
    ASSUME TypeOK, NEW p \in Procs, FinalizeDelete(p)
    PROVE  Counts(p, proc[p].id)
  <1> DEFINE i == proc[p].id
  <1>1. proc[p].pc = "purged" /\ Return(p) /\ UNCHANGED <<session, leaked, reserved>>
    BY DEF FinalizeDelete, At
  <1>2. i \in Ids BY <1>1, Placed, CountingFacts
  <1>3. proc[p].pc # "create" /\ proc'[p].pc = "idle"
    BY <1>1, Returning, CountingFacts DEF Ended
  <1>4. CASE media[i].state # "delete_pending"
    BY <1>1, <1>3, <1>4, NothingBooked DEF FinalizeDelete
  <1>5. CASE media[i].state = "delete_pending"
    <2>1. media' = [media EXCEPT ![i].state = "deleted"] /\ used' = used - 1
      BY <1>5 DEF FinalizeDelete
    <2>2. media'[i].state = "deleted"
      <3>1. PICK m \in Medium : m = media[i] BY <1>2, CountingFacts DEF RowTypes
      <3> QED BY <1>2, <2>1, <3>1, CountingFacts DEF RowTypes, Medium
    <2> QED BY <1>1, <1>3, <1>5, <2>1, <2>2, CountingFacts DEF Counts, One
  <1> QED BY <1>4, <1>5

(* A session ends, or stays what it was.                                   *)
LEMMA SessionCounts ==
    ASSUME TypeOK, NEW p, NEW s \in Sessions, UNCHANGED <<media, leaked, used>>,
           \/ session[s].state = "pending" /\ session'[s].state # "pending" /\ reserved' = reserved - 1
           \/ (session[s].state = "pending" <=> session'[s].state = "pending") /\ reserved' = reserved,
           p \in Procs => (proc[p].pc = "create" <=> proc'[p].pc = "create")
    PROVE  Counts(p, s)
  BY CountingFacts DEF Counts, One

LEMMA SettledState ==
    ASSUME TypeOK, NEW s \in Sessions, NEW state, Settle(s, state)
    PROVE  session'[s].state = state
  <1>1. PICK row \in Session : row = session[s] BY CountingFacts DEF RowTypes
  <1> QED BY <1>1, CountingFacts DEF RowTypes, Settle, Session

LEMMA ExpireCounts ==
    ASSUME TypeOK, NEW p \in Procs, ExpireInComplete(p)
    PROVE  Counts(p, proc[p].id)
  <1>1. proc[p].pc = "expire" /\ proc[p].pc \in SessionSteps /\ UNCHANGED <<media, leaked, used>>
    BY DEF ExpireInComplete, At, SessionSteps
  <1>2. PICK s \in Sessions : s = proc[p].id BY <1>1, SessionId, CountingFacts
  <1>3. CASE session[s].state \in {"pending", "expired"}
    <2>1. /\ Settle(s, "expired") /\ CleanUpAs(p, "expired")
          /\ reserved' = IF session[s].state = "pending" THEN reserved - 1 ELSE reserved
      BY <1>2, <1>3 DEF ExpireInComplete, ExpireOne
    <2>2. proc'[p].pc = "clean"
      BY <1>1, <2>1, CleaningUp, CountingFacts DEF SessionStates
    <2>3. session'[s].state = "expired" BY <2>1, SettledState
    <2> QED BY <1>1, <1>2, <1>3, <2>1, <2>2, <2>3, SessionCounts
  <1>4. CASE session[s].state \notin {"pending", "expired"}
    <2>1. Return(p) /\ UNCHANGED <<session, reserved>>
      BY <1>2, <1>4 DEF ExpireInComplete, ExpireOne
    <2>2. proc'[p].pc = "idle" BY <2>1, Returning, CountingFacts DEF Ended
    <2> QED BY <1>1, <2>1, <2>2, NothingBooked
  <1> QED BY <1>3, <1>4

LEMMA CancelSessionCounts ==
    ASSUME TypeOK, NEW p \in Procs, CancelSession(p)
    PROVE  Counts(p, proc[p].id)
  <1>1. proc[p].pc = "cancel" /\ proc[p].pc \in SessionSteps /\ UNCHANGED <<media, leaked, used>>
    BY DEF CancelSession, At, SessionSteps
  <1>2. PICK s \in Sessions : s = proc[p].id BY <1>1, SessionId, CountingFacts
  <1>3. CleanUpAs(p, "cancelled") \/ Return(p)
    BY DEF CancelSession
  <1>4. proc'[p].pc # "create"
    BY <1>1, <1>3, CleaningUp, Returning, CountingFacts DEF SessionStates, Ended
  <1>5. \/ session[s].state = "pending" /\ Settle(s, "cancelled") /\ reserved' = reserved - 1
        \/ session' = session /\ reserved' = reserved
    BY <1>2 DEF CancelSession
  <1> QED BY <1>1, <1>2, <1>4, <1>5, SettledState, SessionCounts

LEMMA CleanupDoneCounts ==
    ASSUME TypeOK, NEW p \in Procs, CleanupDone(p)
    PROVE  Counts(p, proc[p].id)
  <1>1. /\ proc[p].pc = "clean_mark" /\ proc[p].pc \in SessionSteps /\ Return(p)
        /\ UNCHANGED <<media, leaked, used, reserved>>
    BY DEF CleanupDone, At, SessionSteps
  <1>2. PICK s \in Sessions : s = proc[p].id BY <1>1, SessionId, CountingFacts
  <1>3. session' = [session EXCEPT ![s].cleaned = TRUE]
    BY <1>2 DEF CleanupDone
  <1>4. session'[s].state = session[s].state
    <2>1. PICK row \in Session : row = session[s] BY CountingFacts DEF RowTypes
    <2> QED BY <1>3, <2>1, CountingFacts DEF RowTypes, Session
  <1>5. proc'[p].pc = "idle" BY <1>1, Returning, CountingFacts DEF Ended
  <1> QED BY <1>1, <1>2, <1>4, <1>5, SessionCounts

LEMMA ExpireDueCounts ==
    ASSUME TypeOK, NEW p \in Procs, NEW s \in Sessions, ExpireDue(p, s)
    PROVE  Counts(p, s)
  <1> DEFINE state == IF session[s].state = "pending" THEN "expired" ELSE session[s].state
  <1>1. /\ At(p, "idle") /\ Settle(s, state)
        /\ reserved' = IF session[s].state = "pending" THEN reserved - 1 ELSE reserved
        /\ proc' = [proc EXCEPT ![p] = [pc |-> "clean", id |-> s, token |-> 0, as |-> state]]
        /\ UNCHANGED <<media, leaked, used>>
    BY DEF ExpireDue
  <1>2. session'[s].state = state /\ state # "pending" BY <1>1, SettledState
  <1> HIDE DEF state
  <1>3. proc[p].pc # "create" /\ proc'[p].pc # "create"
    BY <1>1, CountingFacts DEF At, RowTypes
  <1> QED BY <1>1, <1>2, <1>3, SessionCounts DEF state

LEMMA CompleteSessionCounts ==
    ASSUME TypeOK, Linked, NEW p \in Procs, CompleteSession(p)
    PROVE  Counts(p, proc[p].id)
  <1>1. /\ proc[p].pc = "complete" /\ proc[p].pc \in SessionSteps /\ Return(p)
        /\ UNCHANGED leaked
    BY DEF CompleteSession, At, SessionSteps
  <1>2. PICK s \in Sessions : s = proc[p].id BY <1>1, SessionId, CountingFacts
  <1>3. s \in Ids /\ s \notin Direct /\ SessionRow(s) /\ due[s] \in BOOLEAN
    BY SessionFacts, CountingFacts
  <1>4. proc'[p].pc = "idle" BY <1>1, Returning, CountingFacts DEF Ended
  <1>5. CASE session[s].state # "pending"
    BY <1>1, <1>2, <1>4, <1>5, NothingBooked DEF CompleteSession
  <1>6. CASE session[s].state = "pending" /\ due[s]
    <2>1. Settle(s, "expired") /\ reserved' = reserved - 1 /\ UNCHANGED <<media, used>>
      BY <1>2, <1>6 DEF CompleteSession
    <2> QED BY <1>1, <1>2, <1>4, <1>6, <2>1, SettledState, SessionCounts
  <1>7. CASE session[s].state = "pending" /\ ~due[s]
    <2>1. /\ Settle(s, "completed") /\ used' = used + 1 /\ reserved' = reserved - 1
          /\ media' = [media EXCEPT ![s].state = "active"]
      BY <1>2, <1>7 DEF CompleteSession
    <2>2. session'[s].state = "completed" BY <2>1, SettledState
    <2>3. media'[s].state = "active"
      <3>1. PICK m \in Medium : m = media[s] BY <1>3, CountingFacts DEF RowTypes
      <3> QED BY <1>3, <2>1, <3>1, CountingFacts DEF RowTypes, Medium
    <2>4. media[s].state = "none"
      BY <1>3, <1>7 DEF SessionRow
    <2> QED BY <1>1, <1>2, <1>3, <1>4, <1>7, <2>1, <2>2, <2>3, <2>4, CountingFacts
            DEF Counts, One
  <1> QED BY <1>3, <1>5, <1>6, <1>7

LEMMA CreateSessionCounts ==
    ASSUME TypeOK, NEW p, NEW s \in Sessions, CreateSession(s)
    PROVE  Counts(p, s)
  <1>1. /\ session[s].state = "none" /\ Settle(s, "pending") /\ Room /\ reserved' = reserved + 1
        /\ UNCHANGED <<media, leaked, used, proc>>
    BY DEF CreateSession, Settle
  <1>2. session'[s].state = "pending" BY <1>1, SettledState
  <1> QED BY <1>1, <1>2, CountingFacts DEF Counts, One

-----------------------------------------------------------------------------
(* Payloads: what a step does to the object of an active row.              *)

PayloadKeptAt(i) ==
    /\ media[i].state # "active" /\ media'[i].state = "active"
         => \/ blob[i].final \in (IF i \in Sessions THEN {"good"} ELSE {"good", "bad"})
            \/ i \in Direct \cap late
    /\ media[i].state = "active" /\ blob[i].final # "none" /\ blob'[i].final # blob[i].final
         => (\E c \in Clients : LateUpload(c)) \/ i \in Direct \cap late'

LEMMA RowsOnlyKeep ==
    ASSUME NEW i, UNCHANGED <<media, blob>>
    PROVE  PayloadKeptAt(i)
  BY DEF PayloadKeptAt

LEMMA StoreOnlyKeeps ==
    ASSUME NEW i, media' = media,
           \/ media[i].state # "active"
           \/ blob[i].final = "none"
           \/ blob'[i].final = blob[i].final
    PROVE  PayloadKeptAt(i)
  BY DEF PayloadKeptAt

LEMMA RowOnlyKeeps ==
    ASSUME NEW i, blob' = blob, media'[i].state # "active"
    PROVE  PayloadKeptAt(i)
  BY DEF PayloadKeptAt

(* The steps of the promotion write the final object only.                 *)
LEMMA PromotionKeeps ==
    ASSUME RowTypes, Linked, NEW p \in Procs, NEW i \in Ids, i = proc[p].id,
           Promote(p) \/ CopyParts(p) \/ CompleteCopy(p) \/ RepairCopy(p),
           proc[p].pc \in UploadSteps \/ proc[p].pc \in SessionSteps,
           media[i].state = "active" /\ blob[i].stage # "none" /\ blob[i].final # "none"
             /\ proc[p].pc = Repair(p) => blob[i].stage = blob[i].final \/ i \in Direct \cap late
    PROVE  PayloadKeptAt(i)
  <1>1. media' = media
    BY DEF Promote, CopyParts, CompleteCopy, RepairCopy
  <1>2. CASE CopyParts(p) \/ blob' = blob
    BY <1>1, <1>2, RowsOnlyKeep DEF CopyParts
  <1>3. CASE Promote(p) /\ blob' # blob
    <2>1. blob' = [blob EXCEPT ![i].final = blob[i].stage] /\ blob[i].final \in {"none", blob[i].stage}
      BY <1>3 DEF Promote
    <2>2. blob[i].stage \in Staged
      BY Standing
    <2>3. blob'[i].final = blob[i].stage
      BY <2>1, <2>2, Finishing DEF Stores, Payload
    <2> QED BY <1>1, <2>1, <2>3, StoreOnlyKeeps
  <1>4. CASE CompleteCopy(p) /\ blob' # blob
    <2>1. blob[i].final = "none"
      BY <1>4 DEF CompleteCopy
    <2> QED BY <1>1, <2>1, StoreOnlyKeeps
  <1>5. CASE RepairCopy(p) /\ blob' # blob
    <2>1. /\ blob' = [blob EXCEPT ![i].final = blob[i].stage] /\ blob[i].stage # "none"
          /\ proc[p].pc = Repair(p) /\ late' = late
      BY <1>5 DEF RepairCopy, At
    <2>2. blob[i].stage \in Staged
      BY Standing
    <2>3. blob'[i].final = blob[i].stage
      BY <2>1, <2>2, Finishing DEF Stores, Payload
    <2> QED BY <1>1, <2>1, <2>3 DEF PayloadKeptAt
  <1> QED BY <1>2, <1>3, <1>4, <1>5

LEMMA UploadKeeps ==
    ASSUME RowTypes, Linked, NEW p \in Procs, proc[p].pc \in UploadSteps,
           \/ CreateUploading(p) \/ CreateRefused(p) \/ PutTemporary(p) \/ PutFails(p)
           \/ Promote(p) \/ CopyParts(p) \/ CompleteCopy(p) \/ RepairCopy(p) \/ Overtaken(p)
           \/ Promoted(p) \/ CommitUpload(p) \/ DropTemporary(p) \/ AbortUpload(p)
           \/ HeadFinal(p) \/ Checksum(p) \/ KeepFinal(p) \/ DiscardFinal(p)
    PROVE  PayloadKeptAt(proc[p].id)
  <1>2. PICK d \in Direct : d = proc[p].id BY UploadId
  <1>3. /\ d \in Ids /\ d \notin Sessions /\ UploadPlaced(p) /\ proc[p].token \in Nat
        /\ blob[d].stage \in Staged /\ blob[d].final \in Payload /\ UploadRow(d)
    BY <1>2, OwnerFacts, Standing DEF Linked, UploadRows
  <1>4. CASE CreateRefused(p) \/ HeadFinal(p) \/ Checksum(p) \/ Overtaken(p)
    BY <1>4, RowsOnlyKeep DEF CreateRefused, HeadFinal, Checksum, Overtaken
  <1>5. CASE CreateUploading(p)
    <2>1. blob' = blob /\ media'[d].state = "uploading"
      BY <1>2, <1>3, <1>5 DEF CreateUploading, RowTypes
    <2> QED BY <1>2, <2>1, RowOnlyKeeps
  <1>6. CASE \/ PutTemporary(p) \/ PutFails(p) \/ Promoted(p) \/ DropTemporary(p) \/ KeepFinal(p)
    <2>1. PICK b \in Contents : b = blob[d] BY <1>3 DEF RowTypes
    <2>2. \A x : [b EXCEPT !.stage = x].final = b.final BY DEF Contents
    <2>3. blob' = blob \/ \E x : blob' = [blob EXCEPT ![d].stage = x]
      BY <1>2, <1>6 DEF PutTemporary, PutFails, Promoted, DropTemporary, KeepFinal
    <2>4. blob'[d].final = blob[d].final
      BY <1>3, <2>1, <2>2, <2>3 DEF RowTypes
    <2>5. media' = media
      BY <1>6 DEF PutTemporary, PutFails, Promoted, DropTemporary, KeepFinal
    <2> QED BY <1>2, <2>4, <2>5, StoreOnlyKeeps
  <1>7. CASE Promote(p) \/ CopyParts(p) \/ CompleteCopy(p) \/ RepairCopy(p)
    <2>1. media[d].state = "active" /\ blob[d].stage # "none" /\ blob[d].final # "none"
            => blob[d].stage = blob[d].final \/ d \in Direct \cap late
      BY <1>2, <1>3 DEF UploadRow, SameBytes, Staged
    <2> QED BY <1>2, <1>3, <1>7, <2>1, PromotionKeeps
  <1>8. CASE DiscardFinal(p)
    <2>1. media' = media /\ late' = IF Owns(p) THEN late ELSE late \cup {d}
      BY <1>2, <1>8 DEF DiscardFinal
    <2>2. media[d].state # "active" \/ d \in Direct \cap late'
      BY <1>2, <2>1 DEF Owns
    <2> QED BY <1>2, <2>1, <2>2 DEF PayloadKeptAt
  <1>9. CASE CommitUpload(p)
    <2>1. CASE ~Owns(p)
      BY <1>9, <2>1, RowsOnlyKeep DEF CommitUpload
    <2>2. CASE Owns(p)
      <3>1. blob' = blob /\ proc[p].pc = "commit"
        BY <1>9 DEF CommitUpload, At
      <3>2. media[d].state = "uploading" /\ media[d].token = proc[p].token
        BY <1>2, <2>2 DEF Owns
      <3>3. blob[d].final \in {"good", "bad"} \/ d \in Direct \cap late
        BY <1>2, <1>3, <3>1, <3>2 DEF UploadPlaced, FoundWhole
      <3> QED BY <1>2, <1>3, <3>1, <3>3 DEF PayloadKeptAt
    <2> QED BY <2>1, <2>2
  <1>10. CASE AbortUpload(p)
    <2>1. CASE ~Owns(p)
      BY <1>10, <2>1, RowsOnlyKeep DEF AbortUpload
    <2>2. CASE Owns(p)
      <3>1. blob' = blob /\ media'[d].state = "none"
        BY <1>2, <1>3, <1>10, <2>2 DEF AbortUpload, RowTypes
      <3> QED BY <1>2, <3>1, RowOnlyKeeps
    <2> QED BY <2>1, <2>2
  <1> QED BY <1>4, <1>5, <1>6, <1>7, <1>8, <1>9, <1>10

LEMMA SessionKeeps ==
    ASSUME RowTypes, Linked, NEW p \in Procs, proc[p].pc \in SessionSteps,
           \/ InstallContent(p) \/ RecheckContent(p) \/ LateUpload(p) \/ ExpireInComplete(p)
           \/ Inspect(p) \/ Finalize(p) \/ CopyParts(p) \/ CompleteCopy(p) \/ RepairCopy(p)
           \/ CompleteSession(p) \/ CancelSession(p)
           \/ AbortTarget(p) \/ AbortFinal(p) \/ CleanupDone(p)
    PROVE  PayloadKeptAt(proc[p].id)
  <1>2. PICK s \in Sessions : s = proc[p].id BY WorkerFacts
  <1>3. /\ SessionPlaced(p) /\ SessionRow(s) /\ s \in Ids /\ due[s] \in BOOLEAN
        /\ backend \in {"local", "s3"} /\ blob[s].stage \in Staged /\ blob[s].final \in Payload
        /\ blob[s][Target] = IF backend = "local" THEN blob[s].final ELSE blob[s].stage
    BY <1>2, WorkerFacts, SessionFacts
  <1>4. CASE \/ RecheckContent(p) \/ ExpireInComplete(p) \/ Inspect(p) \/ Finalize(p)
             \/ CancelSession(p) \/ CleanupDone(p)
    BY <1>4, RowsOnlyKeep
       DEF RecheckContent, ExpireInComplete, Inspect, Finalize, CancelSession, CleanupDone
  <1>5. CASE InstallContent(p)
    <2>1. media' = media BY <1>5 DEF InstallContent
    <2>2. CASE blob[s].final # "none"
      BY <1>2, <1>5, <2>1, <2>2, RowsOnlyKeep DEF InstallContent
    <2>3. CASE blob[s].final = "none"
      BY <1>2, <2>1, <2>3, StoreOnlyKeeps
    <2> QED BY <2>2, <2>3
  <1>6. CASE LateUpload(p)
    <2>1. p \in Clients BY <1>3, <1>6 DEF LateUpload, At, SessionPlaced
    <2>2. media' = media BY <1>6 DEF LateUpload
    <2> QED BY <1>6, <2>1, <2>2 DEF PayloadKeptAt
  <1>7. CASE CopyParts(p) \/ CompleteCopy(p) \/ RepairCopy(p)
    <2>1. proc[p].pc = Repair(p) => backend = "s3"
      BY <1>3, SessionCopies DEF SessionPlaced
    <2>2. media[s].state = "active" /\ blob[s].stage # "none" /\ proc[p].pc = Repair(p)
            => blob[s].stage = blob[s].final
      BY <1>3, <2>1 DEF SessionRow, SameBytes, Staged
    <2> QED BY <1>2, <1>3, <1>7, <2>2, PromotionKeeps
  <1>8. CASE CompleteSession(p)
    <2>1. blob' = blob /\ proc[p].pc = "complete" BY <1>8 DEF CompleteSession, At
    <2>2. CASE session[s].state # "pending" \/ due[s]
      <3>1. media' = media BY <1>2, <1>3, <1>8, <2>2 DEF CompleteSession
      <3> QED BY <2>1, <3>1, RowsOnlyKeep
    <2>3. CASE session[s].state = "pending" /\ ~due[s]
      <3>1. blob[s].final = "good" BY <1>2, <1>3, <2>1, <2>3 DEF SessionPlaced
      <3> QED BY <1>2, <2>1, <3>1 DEF PayloadKeptAt
    <2> QED BY <1>3, <2>2, <2>3
  <1>9. CASE AbortTarget(p)
    <2>1. media' = media /\ proc[p].pc = "clean" BY <1>9 DEF AbortTarget, At
    <2>2. CASE backend = "local" /\ proc[p].as = "completed"
      BY <1>2, <1>9, <2>1, <2>2, RowsOnlyKeep DEF AbortTarget
    <2>3. CASE backend = "local" /\ proc[p].as # "completed"
      <3>1. session[s].state # "completed"
        BY <1>2, <1>3, <2>1, <2>3 DEF SessionPlaced
      <3>2. media[s].state # "active" BY <1>3, <3>1 DEF SessionRow
      <3> QED BY <1>2, <2>1, <3>2, StoreOnlyKeeps
    <2>4. CASE backend = "s3"
      <3>1. blob' = [blob EXCEPT ![s].stage = "none"] BY <1>2, <1>9, <2>4 DEF AbortTarget, Target
      <3>2. blob'[s].final = blob[s].final BY <1>3, <3>1, Staging DEF Stores, Staged
      <3> QED BY <1>2, <2>1, <3>2, StoreOnlyKeeps
    <2> QED BY <1>3, <2>2, <2>3, <2>4
  <1>10. CASE AbortFinal(p)
    <2>1. media' = media /\ proc[p].pc = "clean_final" BY <1>10 DEF AbortFinal, At
    <2>2. CASE backend = "local" \/ proc[p].as = "completed"
      BY <1>2, <1>10, <2>1, <2>2, RowsOnlyKeep DEF AbortFinal
    <2>3. CASE proc[p].as # "completed"
      <3>1. session[s].state # "completed"
        BY <1>2, <1>3, <2>1, <2>3 DEF SessionPlaced
      <3>2. media[s].state # "active" BY <1>3, <3>1 DEF SessionRow
      <3> QED BY <1>2, <2>1, <3>2, StoreOnlyKeeps
    <2> QED BY <2>2, <2>3
  <1> QED BY <1>4, <1>5, <1>6, <1>7, <1>8, <1>9, <1>10

LEMMA DeletionKeeps ==
    ASSUME RowTypes, NEW i \in Ids,
           \/ ScheduleDelete(i)
           \/ \E p \in Procs : PurgePayload(p, i)
           \/ \E p \in Procs : FinalizeDelete(p) /\ i = proc[p].id
    PROVE  PayloadKeptAt(i)
  <1>1. PICK m \in Medium : m = media[i] BY DEF RowTypes
  <1>2. CASE ScheduleDelete(i)
    <2>1. blob' = blob /\ media' = [media EXCEPT ![i].state = "delete_pending"]
      BY <1>2 DEF ScheduleDelete
    <2>2. media'[i].state = "delete_pending" BY <1>1, <2>1 DEF RowTypes, Medium
    <2> QED BY <2>1, <2>2, RowOnlyKeeps
  <1>3. CASE \E p \in Procs : PurgePayload(p, i)
    <2>1. media' = media /\ media[i].state = "delete_pending" BY <1>3 DEF PurgePayload
    <2> QED BY <2>1, StoreOnlyKeeps
  <1>4. ASSUME NEW p \in Procs, FinalizeDelete(p), i = proc[p].id PROVE PayloadKeptAt(i)
    <2>1. CASE media[i].state # "delete_pending"
      BY <1>4, <2>1, RowsOnlyKeep DEF FinalizeDelete
    <2>2. CASE media[i].state = "delete_pending"
      <3>1. blob' = blob /\ media' = [media EXCEPT ![i].state = "deleted"]
        BY <1>4, <2>2 DEF FinalizeDelete
      <3>2. media'[i].state = "deleted" BY <1>1, <3>1 DEF RowTypes, Medium
      <3> QED BY <3>1, <3>2, RowOnlyKeeps
    <2> QED BY <2>1, <2>2
  <1> QED BY <1>2, <1>3, <1>4

LEMMA LeaseKeeps ==
    ASSUME RowTypes, NEW d \in Direct,
           LeaseLost(d) \/ LeaseEnds(d) \/ \E w \in Workers : ClaimStale(w, d)
    PROVE  PayloadKeptAt(d)
  <1>1. d \in Ids BY DEF Ids
  <1>2. PICK m \in Medium : m = media[d] BY <1>1 DEF RowTypes
  <1>3. PICK x : x = media[d].token + 1 OBVIOUS
  <1>4. m.state = "uploading" /\ blob' = blob
    BY <1>2 DEF LeaseLost, LeaseEnds, ClaimStale
  <1>5. \/ media' = [media EXCEPT ![d].leased = FALSE]
        \/ media' = [media EXCEPT ![d] = [m EXCEPT !.token = x, !.leased = TRUE]]
    BY <1>2, <1>3 DEF LeaseLost, LeaseEnds, ClaimStale
  <1>6. /\ [m EXCEPT !.leased = FALSE].state = "uploading"
        /\ [m EXCEPT !.token = x, !.leased = TRUE].state = "uploading"
    BY <1>4 DEF Medium
  <1>7. media'[d].state = "uploading"
    BY <1>1, <1>2, <1>5, <1>6 DEF RowTypes
  <1> QED BY <1>4, <1>7, RowOnlyKeeps

-----------------------------------------------------------------------------
(* Every step.                                                             *)

(* The step works on the one id i, books it, and keeps its payload.        *)
Effect(A, p, i) ==
    /\ GoesOn(A, i)
    /\ A \subseteq {p} /\ Counts(p, i)
    /\ PayloadKeptAt(i)

LEMMA ContinueCounts ==
    ASSUME TypeOK, Linked, NEW p \in Procs, Continue(p) \/ PutFails(p) \/ Gone(p),
           proc[p].id \in Ids
    PROVE  Counts(p, proc[p].id)
  <1>1. CASE \/ PutTemporary(p) \/ PutFails(p) \/ Promote(p) \/ Promoted(p) \/ DropTemporary(p)
             \/ HeadFinal(p) \/ Checksum(p) \/ KeepFinal(p) \/ DiscardFinal(p)
             \/ InstallContent(p) \/ RecheckContent(p) \/ LateUpload(p) \/ Inspect(p)
             \/ CopyParts(p) \/ CompleteCopy(p) \/ RepairCopy(p) \/ Overtaken(p)
             \/ Finalize(p) \/ AbortTarget(p) \/ AbortFinal(p)
             \/ Gone(p) /\ ~At(p, "create")
    BY <1>1, QuietCounts
  <1>2. CASE CreateRefused(p)
    BY <1>2, CreateEndsCounts DEF CreateRefused
  <1>3. CASE Gone(p) /\ At(p, "create")
    BY <1>3, CreateEndsCounts DEF Gone
  <1>4. CASE CreateUploading(p) \/ CommitUpload(p) \/ AbortUpload(p)
    BY <1>4, CreateUploadingCounts, OwnerEndsCounts
  <1>5. CASE \/ ExpireInComplete(p) \/ CompleteSession(p) \/ CancelSession(p) \/ CleanupDone(p)
             \/ FinalizeDelete(p)
    BY <1>5, ExpireCounts, CompleteSessionCounts, CancelSessionCounts, CleanupDoneCounts,
       FinalizeDeleteCounts
  <1> QED BY <1>1, <1>2, <1>3, <1>4, <1>5 DEF Continue

LEMMA ContinueKeeps ==
    ASSUME RowTypes, Linked, NEW p \in Procs, Continue(p) \/ PutFails(p) \/ Gone(p),
           proc[p].id \in Ids
    PROVE  PayloadKeptAt(proc[p].id)
  <1>1. CASE Gone(p)
    BY <1>1, RowsOnlyKeep DEF Gone
  <1>2. CASE FinalizeDelete(p)
    BY <1>2, DeletionKeeps
  <1>3. CASE proc[p].pc \in UploadSteps /\ ~Gone(p)
    <2>1. /\ proc[p].pc \notin SessionSteps /\ proc[p].pc # "purged"
      BY <1>3 DEF UploadSteps, SessionSteps
    <2>2. ~(\/ InstallContent(p) \/ RecheckContent(p) \/ LateUpload(p) \/ ExpireInComplete(p)
            \/ Inspect(p) \/ Finalize(p) \/ CompleteSession(p) \/ CancelSession(p)
            \/ AbortTarget(p) \/ AbortFinal(p) \/ CleanupDone(p) \/ FinalizeDelete(p))
      BY <2>1 DEF InstallContent, RecheckContent, LateUpload, ExpireInComplete, Inspect, Finalize,
         CompleteSession, CancelSession, AbortTarget, AbortFinal, CleanupDone, FinalizeDelete, At,
         SessionSteps
    <2> QED BY <1>3, <2>2, UploadKeeps DEF Continue
  <1>4. CASE proc[p].pc \in SessionSteps /\ ~Gone(p)
    <2>1. /\ proc[p].pc \notin UploadSteps /\ proc[p].pc # "purged"
      BY <1>4 DEF UploadSteps, SessionSteps
    <2>2. ~(\/ CreateUploading(p) \/ CreateRefused(p) \/ PutTemporary(p) \/ PutFails(p)
            \/ Promote(p) \/ Overtaken(p) \/ Promoted(p) \/ CommitUpload(p) \/ DropTemporary(p)
            \/ AbortUpload(p) \/ HeadFinal(p) \/ Checksum(p) \/ KeepFinal(p) \/ DiscardFinal(p)
            \/ FinalizeDelete(p))
      BY <2>1 DEF CreateUploading, CreateRefused, PutTemporary, PutFails, Promote, Overtaken, Promoted,
         CommitUpload, DropTemporary, AbortUpload, HeadFinal, Checksum, KeepFinal, DiscardFinal,
         FinalizeDelete, At, UploadSteps
    <2> QED BY <1>4, <2>2, SessionKeeps DEF Continue
  <1>5. CASE proc[p].pc = "purged" /\ ~Gone(p)
    <2>1. ~(\/ CreateUploading(p) \/ CreateRefused(p) \/ PutTemporary(p) \/ PutFails(p)
            \/ Promote(p) \/ CopyParts(p) \/ CompleteCopy(p) \/ RepairCopy(p) \/ Overtaken(p)
            \/ Promoted(p) \/ CommitUpload(p) \/ DropTemporary(p)
            \/ AbortUpload(p) \/ HeadFinal(p) \/ Checksum(p) \/ KeepFinal(p) \/ DiscardFinal(p)
            \/ InstallContent(p) \/ RecheckContent(p) \/ LateUpload(p) \/ ExpireInComplete(p)
            \/ Inspect(p) \/ Finalize(p) \/ CompleteSession(p) \/ CancelSession(p)
            \/ AbortTarget(p) \/ AbortFinal(p) \/ CleanupDone(p))
      BY <1>5 DEF CreateUploading, CreateRefused, PutTemporary, PutFails, Promote, CopyParts,
         CompleteCopy, RepairCopy, Copied, Repair, Overtaken, Promoted,
         CommitUpload, DropTemporary, AbortUpload, HeadFinal, Checksum, KeepFinal, DiscardFinal,
         InstallContent, RecheckContent, LateUpload, ExpireInComplete, Inspect, Finalize,
         CompleteSession, CancelSession, AbortTarget, AbortFinal, CleanupDone, At
    <2> QED BY <1>2, <1>5, <2>1 DEF Continue
  <1> QED BY <1>1, <1>3, <1>4, <1>5, Placed, UploadConstants

LEMMA EveryStep ==
    ASSUME TypeOK, Linked, Next
    PROVE  \E A \in SUBSET Procs, i \in Ids : \E p : Effect(A, p, i)
  <1> USE CountingFacts
  <1>1. CASE \E p \in Procs : Continue(p) \/ PutFails(p) \/ Gone(p)
    <2>1. PICK p \in Procs : Continue(p) \/ PutFails(p) \/ Gone(p) BY <1>1
    <2>2. GoesOn({p}, proc[p].id) /\ proc[p].id \in Ids BY <2>1, ContinueGoes
    <2>3. Effect({p}, p, proc[p].id)
      BY <2>1, <2>2, ContinueCounts, ContinueKeeps DEF Effect
    <2> QED BY <2>2, <2>3
  <1>2. CASE \E c \in Clients, d \in Direct : ReserveQuota(c, d)
    <2>1. PICK c \in Clients, d \in Direct : ReserveQuota(c, d) BY <1>2
    <2>2. c \in Procs /\ d \in Ids BY DEF Procs
    <2>3. PayloadKeptAt(d) BY <2>1, RowsOnlyKeep DEF ReserveQuota
    <2>4. Effect({c}, c, d)
      BY <2>1, <2>2, <2>3, ReserveQuotaGoes, ReserveQuotaCounts DEF Effect
    <2> QED BY <2>2, <2>4
  <1>3. CASE \E c \in Clients, s \in Sessions : PutContent(c, s) \/ Complete(c, s) \/ Cancel(c, s)
    <2>1. PICK c \in Clients, s \in Sessions : PutContent(c, s) \/ Complete(c, s) \/ Cancel(c, s)
      BY <1>3
    <2>2. c \in Procs /\ s \in Ids BY DEF Procs
    <2>3. PayloadKeptAt(s) BY <2>1, RowsOnlyKeep DEF PutContent, Complete, Cancel
    <2>4. Effect({c}, c, s)
      BY <2>1, <2>2, <2>3, PutContentGoes, CompleteGoes, CancelGoes, QuietCounts DEF Effect
    <2> QED BY <2>2, <2>4
  <1>4. CASE \E s \in Sessions : CreateSession(s) \/ PutPresigned(s) \/ Due(s)
    <2>1. PICK s \in Sessions : CreateSession(s) \/ PutPresigned(s) \/ Due(s) BY <1>4
    <2>2. s \in Ids OBVIOUS
    <2>3. GoesOn({}, s)
      BY <2>1, CreateSessionGoes, PutPresignedGoes, DueGoes
    <2>4. Counts("none", s)
      <3>1. CASE CreateSession(s) BY <3>1, CreateSessionCounts
      <3>2. CASE PutPresigned(s) \/ Due(s) BY <3>2, NothingBooked DEF PutPresigned, Due
      <3> QED BY <2>1, <3>1, <3>2
    <2>5. PayloadKeptAt(s)
      <3>1. CASE CreateSession(s) \/ Due(s) BY <3>1, RowsOnlyKeep DEF CreateSession, Due
      <3>2. CASE PutPresigned(s)
        <4>1. PICK content \in {"good", "bad"} : blob' = [blob EXCEPT ![s].stage = content]
          BY <3>2 DEF PutPresigned
        <4>2. Stores(s, content, blob[s].final) BY <2>2, <4>1, Staging DEF Staged
        <4> QED BY <3>2, <4>2, StoreOnlyKeeps DEF PutPresigned, Stores
      <3> QED BY <2>1, <3>1, <3>2
    <2> QED BY <2>2, <2>3, <2>4, <2>5 DEF Effect
  <1>5. CASE \E w \in Workers, d \in Direct : ClaimStale(w, d)
    <2>1. PICK w \in Workers, d \in Direct : ClaimStale(w, d) BY <1>5
    <2>2. w \in Procs /\ d \in Ids BY DEF Procs
    <2>3. Effect({w}, w, d)
      BY <2>1, <2>2, ClaimStaleGoes, ClaimStaleCounts, LeaseKeeps DEF Effect
    <2> QED BY <2>2, <2>3
  <1>6. CASE \E w \in Workers, s \in Sessions : ExpireDue(w, s)
    <2>1. PICK w \in Workers, s \in Sessions : ExpireDue(w, s) BY <1>6
    <2>2. w \in Procs /\ s \in Ids BY DEF Procs
    <2>3. PayloadKeptAt(s) BY <2>1, RowsOnlyKeep DEF ExpireDue
    <2>4. Effect({w}, w, s)
      BY <2>1, <2>2, <2>3, ExpireDueGoes, ExpireDueCounts DEF Effect
    <2> QED BY <2>2, <2>4
  <1>7. CASE \E w \in Workers, i \in Ids : PurgePayload(w, i)
    <2>1. PICK w \in Workers, i \in Ids : PurgePayload(w, i) BY <1>7
    <2>2. w \in Procs BY DEF Procs
    <2>3. Effect({w}, w, i)
      BY <2>1, <2>2, PurgePayloadGoes, QuietCounts, DeletionKeeps DEF Effect
    <2> QED BY <2>2, <2>3
  <1>8. CASE \E i \in Ids : ScheduleDelete(i)
    <2>1. PICK i \in Ids : ScheduleDelete(i) BY <1>8
    <2>2. Effect({}, "none", i)
      BY <2>1, ScheduleDeleteGoes, ScheduleDeleteCounts, DeletionKeeps DEF Effect
    <2> QED BY <2>2
  <1>9. CASE \E d \in Direct : LeaseLost(d) \/ LeaseEnds(d)
    <2>1. PICK d \in Direct : LeaseLost(d) \/ LeaseEnds(d) BY <1>9
    <2>2. Effect({}, "none", d)
      BY <2>1, LeaseGoes, LeaseCounts, LeaseKeeps DEF Effect
    <2> QED BY <2>2
  <1> QED BY <1>1, <1>2, <1>3, <1>4, <1>5, <1>6, <1>7, <1>8, <1>9 DEF Next

-----------------------------------------------------------------------------
(* The theorems.                                                           *)

LEMMA MediaInit == Init => MediaInv
  <1> SUFFICES ASSUME Init PROVE MediaInv
    OBVIOUS
  <1>1. proc \in [Procs -> Process] /\ \A p \in Procs : proc[p].pc = "idle"
    BY IdleRow DEF Init
  <1>2. /\ media \in [Ids -> Medium] /\ \A i \in Ids : media[i].state = "none"
    BY DEF Init, Medium, MediaStates
  <1>3. /\ session \in [Sessions -> Session]
        /\ \A s \in Sessions : session[s].state = "none" /\ ~session[s].cleaned
    BY DEF Init, Session, SessionStates
  <1>4. /\ blob \in [Ids -> [stage : Staged, final : Payload]]
        /\ \A i \in Ids : blob[i].stage = "none" /\ blob[i].final = "none"
    BY DEF Init, Payload, Staged
  <1>5. /\ backend \in Backends /\ due \in [Sessions -> BOOLEAN]
        /\ leaked = {} /\ late = {} /\ used = 0 /\ reserved = 0 /\ faults = 0
    BY DEF Init
  <1>6. TypeOK
    BY <1>1, <1>2, <1>3, <1>4, <1>5, UploadConstants DEF TypeOK
  <1>7. \A p \in Procs : proc[p].pc \notin UploadSteps /\ proc[p].pc \notin SessionSteps
    BY <1>1 DEF UploadSteps, SessionSteps
  <1>8. SessionRows
    BY <1>2, <1>3, <1>4 DEF SessionRows, SessionRow, Ids
  <1>9. Linked
    BY <1>2, <1>4, <1>7, <1>8
       DEF Linked, UploadsPlaced, SessionsPlaced, TokensDiffer, UploadRows, UploadRow, Ids
  <1>10. LedgerExact
    <2>1. /\ {i \in Ids : media[i].state \in {"active", "delete_pending"}} = {}
          /\ {d \in Direct : media[d].state = "uploading"} = {}
          /\ {s \in Sessions : session[s].state = "pending"} = {}
          /\ {p \in Procs : At(p, "create")} = {}
      BY <1>1, <1>2, <1>3 DEF At, Ids
    <2>2. Cardinality({}) = 0
      BY FS_EmptySet
    <2>3. /\ Cardinality({i \in Ids : media[i].state \in {"active", "delete_pending"}}) = 0
          /\ Cardinality({d \in Direct : media[d].state = "uploading"}) = 0
          /\ Cardinality({s \in Sessions : session[s].state = "pending"}) = 0
          /\ Cardinality({p \in Procs : At(p, "create")}) = 0
          /\ Cardinality(leaked) = 0
      BY <1>5, <2>1, <2>2
    <2> QED BY <1>5, <2>3 DEF LedgerExact
  <1>11. QuotaKept
    BY <1>5, UploadConstants DEF QuotaKept
  <1> QED BY <1>6, <1>9, <1>10, <1>11 DEF MediaInv

LEMMA MediaNext ==
    ASSUME MediaInv, [Next]_vars
    PROVE  (MediaInv' /\ \A i \in Ids : PayloadKeptAt(i)) \/ UNCHANGED vars
  <1> SUFFICES ASSUME Next PROVE MediaInv' /\ \A i \in Ids : PayloadKeptAt(i)
    OBVIOUS
  <1>1. TypeOK /\ Linked /\ LedgerExact /\ QuotaKept /\ RowTypes
    BY CountingFacts DEF MediaInv
  <1>2. PICK A \in SUBSET Procs, i \in Ids : \E p : Effect(A, p, i)
    BY <1>1, EveryStep
  <1>3. PICK p : Effect(A, p, i)
    BY <1>2
  <1>4. Linked' /\ Touches(A, i)
    BY <1>1, <1>3, StaysLinked DEF Effect, GoesOn, UploadGoesOn, SessionGoesOn, Ids
  <1>5. LedgerExact' /\ QuotaKept' /\ TypeOK'
    BY <1>1, <1>3, <1>4, LedgerBooked DEF Effect
  <1>6. ASSUME NEW j \in Ids, j # i PROVE PayloadKeptAt(j)
    BY <1>4, <1>6 DEF Touches, PayloadKeptAt
  <1>7. \A j \in Ids : PayloadKeptAt(j)
    BY <1>3, <1>6 DEF Effect
  <1> QED BY <1>4, <1>5, <1>7 DEF MediaInv

LEMMA MediaStutters == MediaInv /\ UNCHANGED vars => MediaInv'
  <1> SUFFICES ASSUME MediaInv, UNCHANGED vars PROVE MediaInv'
    OBVIOUS
  <1>1. TypeOK'
    BY DEF MediaInv, TypeOK, vars
  <1>2. Linked'
    BY DEF MediaInv, Linked, UploadsPlaced, UploadPlaced, FoundWhole, TokensDiffer, UploadRows,
           UploadRow, SessionsPlaced, SessionPlaced, SessionRows, SessionRow, Target, vars
  <1>3. LedgerExact' /\ QuotaKept'
    BY DEF MediaInv, LedgerExact, QuotaKept, At, vars
  <1> QED BY <1>1, <1>2, <1>3 DEF MediaInv

(* Type correctness, who holds which upload at which point, what each      *)
(* session's rows and objects are, and the ledger, in every reachable      *)
(* state: the inductive invariant of the media uploads (upload.rs,         *)
(* upload_session.rs, reconcile.rs).                                       *)
THEOREM MediaInvariant == Spec => []MediaInv
  <1>1. MediaInv /\ [Next]_vars => MediaInv'
    BY MediaNext, MediaStutters
  <1> QED BY MediaInit, <1>1, PTL DEF Spec

(* The application's quota row is the sum of what media, sessions and the  *)
(* reservations without a row say, after any interleaving of uploads,      *)
(* sessions, reconciliation, expiry, deletion and crashes.                 *)
THEOREM MediaLedgerExact == Spec => []LedgerExact
  <1>1. MediaInv => LedgerExact BY DEF MediaInv
  <1> QED BY <1>1, MediaInvariant, PTL

(* On S3 a session that failed and was cleaned up has nothing under its    *)
(* two keys, whatever requests of whatever promotions were between which   *)
(* two of its deletes.  Only a multipart copy that had its parts before    *)
(* the staged object went and is completed after it leaves an object       *)
(* (promote_temporary, abort_upload of adapter-s3).                        *)
THEOREM FailuresLeaveNothing == Spec => []FailedSessionsLeaveNothing
  <1>1. MediaInv => FailedSessionsLeaveNothing
    BY DEF MediaInv, Linked, SessionRows, SessionRow, FailedSessionsLeaveNothing
  <1> QED BY <1>1, MediaInvariant, PTL

(* A row becomes active over its object only, and no promotion or repair   *)
(* copy, cleanup, rollback or expiry changes the object of an active row;  *)
(* the local upload handler that acts on what it read before the           *)
(* completion may, and a reconciliation that discards after its lease.     *)
THEOREM PayloadsKept == Spec => PayloadKept
  <1>1. MediaInv /\ [Next]_vars => [\A i \in Ids : PayloadKeptAt(i)]_vars
    BY MediaNext
  <1>2. [\A i \in Ids : PayloadKeptAt(i)]_vars =>
          [\A i \in Ids :
              /\ media[i].state # "active" /\ media'[i].state = "active"
                 => \/ blob[i].final \in (IF i \in Sessions THEN {"good"} ELSE {"good", "bad"})
                    \/ i \in Direct \cap late
              /\ media[i].state = "active" /\ blob[i].final # "none" /\ blob'[i].final # blob[i].final
                 => (\E c \in Clients : LateUpload(c)) \/ i \in Direct \cap late']_vars
    BY DEF PayloadKeptAt
  <1> QED BY <1>1, <1>2, MediaInvariant, PTL DEF Spec, PayloadKept

=============================================================================
