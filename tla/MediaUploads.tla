---------------------------- MODULE MediaUploads ----------------------------
(***************************************************************************)
(* The media API's two ways of storing an object under one key: the        *)
(* ordinary upload (the server streams the bytes under a lease) and the    *)
(* upload session (the client sends the bytes to a prepared target and     *)
(* completes the session).  Rows, quota and object store change in         *)
(* separate steps, so every promise below is about what a crash, a lapsed  *)
(* lease or a second process can do between two of them.                   *)
(*                                                                         *)
(* Every object is one unit of quota; all ids want the same object key.    *)
(***************************************************************************)
EXTENDS Integers, FiniteSets

CONSTANTS
    Direct,      \* media ids of ordinary uploads
    Sessions,    \* media ids of upload sessions
    Clients,     \* request handlers
    Workers,     \* background loops
    Backends,    \* storage backends to start with, a subset of {"local", "s3"}
    Quota,       \* units the application may hold
    MaxFaults    \* bound on crashes, storage errors and leases lost by a live owner

Ids == Direct \cup Sessions
Procs == Clients \cup Workers

ASSUME UploadConstants ==
    /\ IsFiniteSet(Ids) /\ IsFiniteSet(Procs)
    /\ Direct \cap Sessions = {} /\ Clients \cap Workers = {}
    /\ "none" \notin Ids
    /\ Backends \subseteq {"local", "s3"}
    /\ Quota \in Nat \ {0} /\ MaxFaults \in Nat

VARIABLES
    backend,     \* the configured object store
    media,       \* media table: state and upload lease
    session,     \* upload_sessions table
    due,         \* session_expires_at has passed
    blob,        \* objects in the store, by id and key
    used, reserved,
    leaked,      \* reservations whose owner is gone before the row existed
    late,        \* sessions whose final object was installed when its source was gone already,
                 \* uploads whose final object a worker discarded after its lease
    proc,        \* what each handler and worker is in the middle of
    faults

vars == <<backend, media, session, due, blob, used, reserved, leaked, late, proc, faults>>

\* What the client declared is "good".  An object that a multipart copy made of
\* it is "bare": the same bytes, without their content type.
Staged == {"none", "good", "bad"}
Payload == Staged \cup {"bare"}
MediaStates == {"none", "uploading", "active", "delete_pending", "deleted"}
SessionStates == {"none", "pending", "completed", "cancelled", "expired"}
Terminal == {"completed", "cancelled", "expired"}
Medium == [state : MediaStates, token : Nat, leased : BOOLEAN]
Session == [state : SessionStates, cleaned : BOOLEAN]

\* Where a handler or a worker can be, with an ordinary upload and with a session;
\* as is what it has read: the bytes it copied, the object it looks at, or the state
\* of a session
UploadSteps ==
    {"create", "put", "promote", "copied", "repair", "promoted", "head", "checksum", "keep",
     "discard", "commit", "drop", "abort"}
SessionSteps ==
    {"send", "recheck", "judge", "inspect", "finalize", "final_copied", "final_repair",
     "complete", "expire", "cancel", "clean", "clean_final", "clean_mark"}
Process ==
    [pc : {"idle"}, id : {"none"}, token : {0}, as : {"none"}]
    \cup [pc : UploadSteps, id : Direct, token : Nat, as : Payload]
    \cup [pc : SessionSteps, id : Sessions, token : {0}, as : SessionStates \cup Staged]
    \cup [pc : {"purged"}, id : Ids, token : {0}, as : {"none"}]

Idle == [pc |-> "idle", id |-> "none", token |-> 0, as |-> "none"]

TypeOK ==
    /\ backend \in Backends
    /\ media \in [Ids -> Medium]
    /\ session \in [Sessions -> Session]
    /\ due \in [Sessions -> BOOLEAN]
    /\ blob \in [Ids -> [stage : Staged, final : Payload]]
    /\ used \in 0 .. Quota /\ reserved \in 0 .. Quota
    /\ leaked \in SUBSET Direct /\ late \in SUBSET Ids
    /\ proc \in [Procs -> Process]
    /\ faults \in 0 .. MaxFaults

Init ==
    /\ backend \in Backends
    /\ media = [i \in Ids |-> [state |-> "none", token |-> 0, leased |-> FALSE]]
    /\ session = [s \in Sessions |-> [state |-> "none", cleaned |-> FALSE]]
    /\ due = [s \in Sessions |-> FALSE]
    /\ blob = [i \in Ids |-> [stage |-> "none", final |-> "none"]]
    /\ used = 0 /\ reserved = 0 /\ leaked = {} /\ late = {}
    /\ proc = [p \in Procs |-> Idle]
    /\ faults = 0

-----------------------------------------------------------------------------
(* What the steps are made of. *)

At(p, pc) == proc[p].pc = pc
Goto(p, pc) == proc' = [proc EXCEPT ![p].pc = pc]
GotoAs(p, pc, as) == proc' = [proc EXCEPT ![p] = [@ EXCEPT !.pc = pc, !.as = as]]
Return(p) == proc' = [proc EXCEPT ![p] = Idle]
Run(p, pc, i) == proc' = [proc EXCEPT ![p] = [pc |-> pc, id |-> i, token |-> 0, as |-> "none"]]

\* The advisory lock on the object identity, the UNIQUE key of the media
\* table (a tombstone keeps its key) and the index on pending sessions.
KeyTaken == \E i \in Ids : media[i].state # "none"
KeyPending == \E s \in Sessions : session[s].state = "pending"

Room == Quota - used - reserved >= 1

\* The prepared target: the local store receives the bytes under the final
\* key, S3 under temporary/uploads/<session>.
Target == IF backend = "local" THEN "final" ELSE "stage"

\* A row is committed, renewed or aborted only by the token of a live lease.
Owns(p) ==
    LET m == media[proc[p].id] IN
    m.state = "uploading" /\ m.leased /\ m.token = proc[p].token

Fault == faults < MaxFaults /\ faults' = faults + 1

-----------------------------------------------------------------------------
(* The ordinary upload, UploadMediaService::upload. *)

\* A request makes up a media id nothing knows yet, finds the key free and
\* reserves, in a transaction of its own.
ReserveQuota(p, d) ==
    /\ At(p, "idle")
    /\ \A q \in Procs : proc[q].id # d
    /\ d \notin leaked \cup late /\ media[d].state = "none"
    /\ blob[d] = [stage |-> "none", final |-> "none"]
    /\ ~KeyTaken /\ Room
    /\ reserved' = reserved + 1
    /\ Run(p, "create", d)
    /\ UNCHANGED <<backend, late, media, session, due, blob, used, leaked, faults>>

CreateUploading(p) ==
    /\ At(p, "create") /\ ~KeyTaken /\ ~KeyPending
    /\ media' = [media EXCEPT ![proc[p].id] =
                   [state |-> "uploading", token |-> 0, leased |-> TRUE]]
    /\ Goto(p, "put")
    /\ UNCHANGED <<backend, late, session, due, blob, used, reserved, leaked, faults>>

\* The row is refused: the reservation is given back, on a best effort.
CreateRefused(p) ==
    /\ At(p, "create") /\ (KeyTaken \/ KeyPending)
    /\ \/ reserved' = reserved - 1 /\ UNCHANGED <<leaked, faults>>
       \/ Fault /\ leaked' = leaked \cup {proc[p].id} /\ UNCHANGED reserved
    /\ Return(p)
    /\ UNCHANGED <<backend, late, media, session, due, blob, used>>

\* A storage step ends by renewing the lease; a lost lease ends the request
\* with everything left as it is.
Renewed(p, pc) == IF Owns(p) THEN Goto(p, pc) ELSE Return(p)

PutTemporary(p) ==
    LET d == proc[p].id IN
    /\ At(p, "put")
    /\ \E content \in {"good", "bad"} :
         blob' = [blob EXCEPT ![d].stage = IF @ = "none" THEN content ELSE @]
    /\ Renewed(p, "promote")
    /\ UNCHANGED <<backend, late, media, session, due, used, reserved, leaked, faults>>

\* Only a failed put rolls back; it may still have stored the bytes.
PutFails(p) ==
    LET d == proc[p].id IN
    /\ At(p, "put") /\ Fault
    /\ blob' \in {blob, [blob EXCEPT ![d].stage = IF @ = "none" THEN "good" ELSE @]}
    /\ Renewed(p, "drop")
    /\ UNCHANGED <<backend, late, media, session, due, used, reserved, leaked>>

\* commit_temporary, on the local backend: a hard link, which replaces nothing
Promote(p) ==
    LET b == blob[proc[p].id] IN
    /\ At(p, "promote") /\ backend = "local"
    /\ IF b.stage # "none" /\ b.final \in {"none", b.stage}
       THEN blob' = [blob EXCEPT ![proc[p].id].final = b.stage] /\ Goto(p, "promoted")
       ELSE Return(p) /\ UNCHANGED blob
    /\ UNCHANGED <<backend, late, media, session, due, used, reserved, leaked, faults>>

\* The temporary object goes once the final one is there.
Promoted(p) ==
    /\ At(p, "promoted")
    /\ blob' = [blob EXCEPT ![proc[p].id].stage = "none"]
    /\ Renewed(p, "commit")
    /\ UNCHANGED <<backend, late, media, session, due, used, reserved, leaked, faults>>

-----------------------------------------------------------------------------
(* promote_temporary on S3, for an ordinary upload and for a session: the   *)
(* parts of a multipart copy, its completion, and a second copy over it     *)
(* that brings the content type.  Everybody else can act in between.        *)

Upload(p) == proc[p].id \in Direct
Copied(p) == IF Upload(p) THEN "copied" ELSE "final_copied"
Repair(p) == IF Upload(p) THEN "repair" ELSE "final_repair"

\* A session looks at the clock before it goes on.
Finalized(p) ==
    GotoAs(p, IF Upload(p) THEN "promoted" ELSE IF due[proc[p].id] THEN "expire" ELSE "complete", "none")

\* Any request may find the source gone; a session is content with a final object
\* of the declared size and type.
SourceGone(p) ==
    IF ~Upload(p) /\ blob[proc[p].id].final = "good" THEN Finalized(p) ELSE Return(p)

\* An equal final object will do, one without its content type is repaired.
CopyParts(p) ==
    LET b == blob[proc[p].id] IN
    /\ At(p, "promote") \/ At(p, "finalize")
    /\ backend = "s3"
    /\ CASE b.stage = "none" -> SourceGone(p)
         [] b.stage # "none" /\ b.final = "none" -> GotoAs(p, Copied(p), b.stage)
         [] b.stage # "none" /\ b.final = b.stage -> Finalized(p)
         [] b.stage = "good" /\ b.final = "bare" -> Goto(p, Repair(p))
         [] OTHER -> Return(p)
    /\ UNCHANGED <<backend, late, media, session, due, blob, used, reserved, leaked, faults>>

\* Seeded fault: the completion is not conditional, as if with a plain copy.
OverwriteFinal(p) ==
    LET i == proc[p].id IN
    /\ At(p, Copied(p))
    /\ blob' = [blob EXCEPT ![i].final = IF proc[p].as = "good" THEN "bare" ELSE "bad"]
    /\ late' = IF ~Upload(p) /\ blob[i].stage = "none" THEN late \cup {i} ELSE late
    /\ GotoAs(p, Repair(p), "none")
    /\ UNCHANGED <<backend, media, session, due, used, reserved, leaked, faults>>

\* The completion is conditional: it never replaces an object.
CompleteCopy(p) ==
    LET i == proc[p].id
        b == blob[i]
    IN
    /\ At(p, Copied(p))
    /\ IF b.final = "none"
       THEN /\ blob' = [blob EXCEPT ![i].final = IF proc[p].as = "good" THEN "bare" ELSE "bad"]
            /\ late' = IF ~Upload(p) /\ b.stage = "none" THEN late \cup {i} ELSE late
            /\ GotoAs(p, Repair(p), "none")
       ELSE /\ CASE b.stage = "none" -> SourceGone(p)
                 [] b.stage = b.final -> Finalized(p)
                 [] OTHER -> Return(p)
            /\ UNCHANGED <<blob, late>>
    /\ UNCHANGED <<backend, media, session, due, used, reserved, leaked, faults>>

\* The second copy replaces what is there.
RepairCopy(p) ==
    LET i == proc[p].id IN
    /\ At(p, Repair(p))
    /\ IF blob[i].stage = "none" THEN SourceGone(p) /\ UNCHANGED blob
       ELSE blob' = [blob EXCEPT ![i].final = blob[i].stage] /\ Finalized(p)
    /\ UNCHANGED <<backend, late, media, session, due, used, reserved, leaked, faults>>

\* The heartbeat of the lease ends the request between two of them.
Overtaken(p) ==
    /\ At(p, "copied") \/ At(p, "repair")
    /\ ~Owns(p)
    /\ Return(p)
    /\ UNCHANGED <<backend, late, media, session, due, blob, used, reserved, leaked, faults>>

-----------------------------------------------------------------------------
(* The end of an ordinary upload. *)

\* Seeded fault: the commit does not ask who holds the row now.
CommitUploadByAnyone(p) ==
    LET d == proc[p].id IN
    /\ At(p, "commit")
    /\ IF media[d].state = "uploading"
       THEN /\ media' = [media EXCEPT ![d] = [@ EXCEPT !.state = "active", !.leased = FALSE]]
            /\ used' = used + 1 /\ reserved' = reserved - 1
       ELSE UNCHANGED <<media, used, reserved>>
    /\ Return(p)
    /\ UNCHANGED <<backend, late, session, due, blob, leaked, faults>>

\* commit_upload: an upload another process already made active is a success.
CommitUpload(p) ==
    LET d == proc[p].id IN
    /\ At(p, "commit")
    /\ IF Owns(p)
       THEN /\ media' = [media EXCEPT ![d] = [@ EXCEPT !.state = "active", !.leased = FALSE]]
            /\ used' = used + 1 /\ reserved' = reserved - 1
       ELSE UNCHANGED <<media, used, reserved>>
    /\ Return(p)
    /\ UNCHANGED <<backend, late, session, due, blob, leaked, faults>>

\* The temporary object is deleted under the lease, then the row is dropped.
DropTemporary(p) ==
    /\ At(p, "drop")
    /\ blob' = [blob EXCEPT ![proc[p].id].stage = "none"]
    /\ Renewed(p, "abort")
    /\ UNCHANGED <<backend, late, media, session, due, used, reserved, leaked, faults>>

\* Seeded fault: the row goes, its reservation stays.
AbortUploadKeepingQuota(p) ==
    LET d == proc[p].id IN
    /\ At(p, "abort")
    /\ IF Owns(p)
       THEN media' = [media EXCEPT ![d] = [state |-> "none", token |-> 0, leased |-> FALSE]]
       ELSE UNCHANGED media
    /\ Return(p)
    /\ UNCHANGED <<backend, late, session, due, blob, used, reserved, leaked, faults>>

AbortUpload(p) ==
    LET d == proc[p].id IN
    /\ At(p, "abort")
    /\ IF Owns(p)
       THEN /\ media' = [media EXCEPT ![d] = [state |-> "none", token |-> 0, leased |-> FALSE]]
            /\ reserved' = reserved - 1
       ELSE UNCHANGED <<media, reserved>>
    /\ Return(p)
    /\ UNCHANGED <<backend, late, session, due, blob, used, leaked, faults>>

-----------------------------------------------------------------------------
(* Reconciliation of uploads whose owner is gone, reconcile_stale_uploads. *)

ClaimStale(w, d) ==
    LET token == media[d].token + 1 IN
    /\ At(w, "idle")
    /\ media[d].state = "uploading" /\ ~media[d].leased
    /\ media' = [media EXCEPT ![d] = [@ EXCEPT !.token = token, !.leased = TRUE]]
    /\ proc' = [proc EXCEPT ![w] = [pc |-> "head", id |-> d, token |-> token, as |-> "none"]]
    /\ UNCHANGED <<backend, late, session, due, blob, used, reserved, leaked, faults>>

\* HEAD reads size and content type, ...
HeadFinal(w) ==
    LET final == blob[proc[w].id].final IN
    /\ At(w, "head")
    /\ IF Owns(w) THEN GotoAs(w, IF final = "none" THEN "drop" ELSE "checksum", final) ELSE Return(w)
    /\ UNCHANGED <<backend, late, media, session, due, blob, used, reserved, leaked, faults>>

\* ... and the bytes are read after it.
Checksum(w) ==
    LET final == blob[proc[w].id].final
        matches == proc[w].as = "good" /\ final \in {"good", "bare"}
    IN
    /\ At(w, "checksum")
    /\ IF final # "none" /\ Owns(w)
       THEN GotoAs(w, IF matches THEN "keep" ELSE "discard", "none") ELSE Return(w)
    /\ UNCHANGED <<backend, late, media, session, due, blob, used, reserved, leaked, faults>>

KeepFinal(w) ==
    /\ At(w, "keep")
    /\ blob' = [blob EXCEPT ![proc[w].id].stage = "none"]
    /\ Renewed(w, "commit")
    /\ UNCHANGED <<backend, late, media, session, due, used, reserved, leaked, faults>>

\* The lease is renewed after the delete only.  The temporary object is deleted
\* whether or not the first delete kept the lease; the row is dropped only if
\* both did.
DiscardFinal(w) ==
    LET d == proc[w].id IN
    /\ At(w, "discard")
    /\ blob' = [blob EXCEPT ![d].final = "none"]
    /\ late' = IF Owns(w) THEN late ELSE late \cup {d}
    /\ Goto(w, "drop")
    /\ UNCHANGED <<backend, media, session, due, used, reserved, leaked, faults>>

-----------------------------------------------------------------------------
(* Upload sessions, UploadSessionService. *)

CreateSession(s) ==
    /\ session[s].state = "none"
    /\ ~KeyTaken /\ ~KeyPending /\ Room
    /\ session' = [session EXCEPT ![s].state = "pending"]
    /\ reserved' = reserved + 1
    /\ UNCHANGED <<backend, late, media, due, blob, used, leaked, proc, faults>>

\* S3: the client holds a signed URL that refuses to replace an object.
PutPresigned(s) ==
    /\ backend = "s3" /\ session[s].state # "none" /\ ~due[s]
    /\ blob[s].stage = "none"
    /\ \E content \in {"good", "bad"} : blob' = [blob EXCEPT ![s].stage = content]
    /\ UNCHANGED <<backend, late, media, session, due, used, reserved, leaked, proc, faults>>

\* Local: put_upload_content checks the session, ...
PutContent(c, s) ==
    /\ At(c, "idle") /\ backend = "local"
    /\ session[s].state = "pending" /\ ~due[s]
    /\ Run(c, "send", s)
    /\ UNCHANGED <<backend, late, media, session, due, blob, used, reserved, leaked, faults>>

\* ... installs the received file, unless one is there already, ...
InstallContent(c) ==
    LET s == proc[c].id IN
    /\ At(c, "send")
    /\ IF blob[s].final # "none" THEN Return(c) /\ UNCHANGED blob
       ELSE /\ \E content \in {"good", "bad"} : blob' = [blob EXCEPT ![s].final = content]
            /\ Goto(c, "recheck")
    /\ UNCHANGED <<backend, late, media, session, due, used, reserved, leaked, faults>>

\* ... and reads the session again,
RecheckContent(c) ==
    /\ At(c, "recheck")
    /\ proc' = [proc EXCEPT ![c] = [@ EXCEPT !.pc = "judge", !.as = session[proc[c].id].state]]
    /\ UNCHANGED <<backend, late, media, session, due, blob, used, reserved, leaked, faults>>

\* removing the file when what it read is no longer writable.
LateUpload(c) ==
    LET s == proc[c].id IN
    /\ At(c, "judge")
    /\ IF (proc[c].as # "pending" \/ due[s]) /\ proc[c].as # "completed"
       THEN blob' = [blob EXCEPT ![s].final = "none"]
       ELSE UNCHANGED blob
    /\ Return(c)
    /\ UNCHANGED <<backend, late, media, session, due, used, reserved, leaked, faults>>

\* The end of a session, in one transaction: its reservation becomes usage
\* or is given back.
Settle(s, state) == session' = [session EXCEPT ![s].state = state]
CleanUpAs(p, state) == proc' = [proc EXCEPT ![p] = [@ EXCEPT !.pc = "clean", !.as = state]]

\* expire_one: a session that is due ends and is cleaned up; one that ended
\* meanwhile is left to whoever ended it.
ExpireOne(c) ==
    LET s == proc[c].id IN
    IF session[s].state \in {"pending", "expired"}
    THEN /\ Settle(s, "expired")
         /\ reserved' = IF session[s].state = "pending" THEN reserved - 1 ELSE reserved
         /\ CleanUpAs(c, "expired")
    ELSE Return(c) /\ UNCHANGED <<session, reserved>>

Complete(c, s) ==
    /\ At(c, "idle") /\ session[s].state = "pending"
    /\ Run(c, IF due[s] THEN "expire" ELSE "inspect", s)
    /\ UNCHANGED <<backend, late, media, session, due, blob, used, reserved, leaked, faults>>

ExpireInComplete(c) ==
    /\ At(c, "expire")
    /\ ExpireOne(c)
    /\ UNCHANGED <<backend, late, media, due, blob, used, leaked, faults>>

\* S3 looks at the final key when the staged object is gone.
Uploaded(s) == IF blob[s][Target] # "none" THEN blob[s][Target] ELSE blob[s].final

Inspect(c) ==
    LET s == proc[c].id IN
    /\ At(c, "inspect")
    /\ CASE Uploaded(s) \in {"none", "bare"} -> Return(c)
         [] Uploaded(s) \in {"good", "bad"} /\ due[s] -> Goto(c, "expire")
         [] Uploaded(s) = "bad" /\ ~due[s] -> Goto(c, "cancel")
         [] Uploaded(s) = "good" /\ ~due[s] -> Goto(c, "finalize")
    /\ UNCHANGED <<backend, late, media, session, due, blob, used, reserved, leaked, faults>>

\* finalize_upload on the local backend has nothing to do.
Finalize(c) ==
    /\ At(c, "finalize") /\ backend = "local"
    /\ Finalized(c)
    /\ UNCHANGED <<backend, late, media, session, due, blob, used, reserved, leaked, faults>>

\* complete_upload_session: the row lock decides between completion,
\* cancellation and the database's own clock.
CompleteSession(c) ==
    LET s == proc[c].id IN
    /\ At(c, "complete")
    /\ CASE session[s].state # "pending" ->
              UNCHANGED <<session, media, used, reserved>>
         [] session[s].state = "pending" /\ due[s] ->
              Settle(s, "expired") /\ reserved' = reserved - 1 /\ UNCHANGED <<media, used>>
         [] session[s].state = "pending" /\ ~due[s] ->
              /\ Settle(s, "completed")
              /\ media' = [media EXCEPT ![s].state = "active"]
              /\ used' = used + 1 /\ reserved' = reserved - 1
    /\ Return(c)
    /\ UNCHANGED <<backend, late, due, blob, leaked, faults>>

Cancel(c, s) ==
    /\ At(c, "idle") /\ session[s].state \in {"pending", "cancelled"}
    /\ Run(c, "cancel", s)
    /\ UNCHANGED <<backend, late, media, session, due, blob, used, reserved, leaked, faults>>

\* cancel_upload_session; the bytes stay until the target cannot be written.
CancelSession(c) ==
    LET s == proc[c].id
        live == session[s].state = "pending" IN
    /\ At(c, "cancel")
    /\ IF live THEN Settle(s, "cancelled") /\ reserved' = reserved - 1
       ELSE UNCHANGED <<session, reserved>>
    /\ IF (live \/ session[s].state = "cancelled") /\ due[s]
       THEN CleanUpAs(c, "cancelled") ELSE Return(c)
    /\ UNCHANGED <<backend, late, media, due, blob, used, leaked, faults>>

\* Seeded fault: a finished session is never picked up again.
NeedsCleanupPending(s) == session[s].state = "pending" /\ due[s]

\* expire_upload_sessions: everything past its expiry that still has bytes
\* to remove, completed sessions included.
NeedsCleanup(s) ==
    /\ due[s]
    /\ session[s].state = "pending" \/ (session[s].state \in Terminal /\ ~session[s].cleaned)

ExpireDue(w, s) ==
    LET state == IF session[s].state = "pending" THEN "expired" ELSE session[s].state IN
    /\ At(w, "idle") /\ NeedsCleanup(s)
    /\ Settle(s, state)
    /\ reserved' = IF session[s].state = "pending" THEN reserved - 1 ELSE reserved
    /\ proc' = [proc EXCEPT ![w] = [pc |-> "clean", id |-> s, token |-> 0, as |-> state]]
    /\ UNCHANGED <<backend, late, media, due, blob, used, leaked, faults>>

\* Seeded fault: the staged object is left for a later round.
AbortTargetLater(p) ==
    /\ At(p, "clean")
    /\ Goto(p, "clean_final")
    /\ UNCHANGED <<backend, late, media, session, due, blob, used, reserved, leaked, faults>>

\* abort_upload of the storage, in two deletes: the target, unless it holds a
\* completed object (local), ...
AbortTarget(p) ==
    LET s == proc[p].id IN
    /\ At(p, "clean")
    /\ blob' = IF backend = "local" /\ proc[p].as = "completed" THEN blob
               ELSE [blob EXCEPT ![s][Target] = "none"]
    /\ Goto(p, "clean_final")
    /\ UNCHANGED <<backend, late, media, session, due, used, reserved, leaked, faults>>

\* ... then the final key a late promotion may have created.
AbortFinal(p) ==
    /\ At(p, "clean_final")
    /\ blob' = IF backend = "local" \/ proc[p].as = "completed" THEN blob
               ELSE [blob EXCEPT ![proc[p].id].final = "none"]
    /\ Goto(p, "clean_mark")
    /\ UNCHANGED <<backend, late, media, session, due, used, reserved, leaked, faults>>

CleanupDone(p) ==
    /\ At(p, "clean_mark")
    /\ session' = [session EXCEPT ![proc[p].id].cleaned = TRUE]
    /\ Return(p)
    /\ UNCHANGED <<backend, late, media, due, blob, used, reserved, leaked, faults>>

-----------------------------------------------------------------------------
(* Deletion of a media object. *)

\* The API, the time to live and keep-latest rules all end here.
ScheduleDelete(i) ==
    /\ media[i].state = "active"
    /\ media' = [media EXCEPT ![i].state = "delete_pending"]
    /\ UNCHANGED <<backend, late, session, due, blob, used, reserved, leaked, proc, faults>>

PurgePayload(w, i) ==
    /\ At(w, "idle") /\ media[i].state = "delete_pending"
    /\ blob' = [blob EXCEPT ![i].final = "none"]
    /\ Run(w, "purged", i)
    /\ UNCHANGED <<backend, late, media, session, due, used, reserved, leaked, faults>>

\* finalize_delete: the tombstone keeps the key; a second one changes nothing.
FinalizeDelete(w) ==
    LET i == proc[w].id IN
    /\ At(w, "purged")
    /\ IF media[i].state = "delete_pending"
       THEN media' = [media EXCEPT ![i].state = "deleted"] /\ used' = used - 1
       ELSE UNCHANGED <<media, used>>
    /\ Return(w)
    /\ UNCHANGED <<backend, late, session, due, blob, reserved, leaked, faults>>

-----------------------------------------------------------------------------
(* The environment. *)

Due(s) ==
    /\ session[s].state # "none" /\ ~due[s]
    /\ due' = [due EXCEPT ![s] = TRUE]
    /\ UNCHANGED <<backend, late, media, session, blob, used, reserved, leaked, proc, faults>>

\* An owner that is still there stalled for longer than its lease, ...
LeaseLost(d) ==
    /\ media[d].state = "uploading" /\ media[d].leased /\ Fault
    /\ \E p \in Procs : proc[p].id = d /\ Owns(p)
    /\ media' = [media EXCEPT ![d].leased = FALSE]
    /\ UNCHANGED <<backend, late, session, due, blob, used, reserved, leaked, proc>>

\* ... or is gone, and nobody renews.
LeaseEnds(d) ==
    /\ media[d].state = "uploading" /\ media[d].leased
    /\ ~\E p \in Procs : proc[p].id = d /\ Owns(p)
    /\ media' = [media EXCEPT ![d].leased = FALSE]
    /\ UNCHANGED <<backend, late, session, due, blob, used, reserved, leaked, proc, faults>>

\* A process dies, or a storage call fails, in the middle of anything; a
\* reservation without a row is then nobody's.
Gone(p) ==
    /\ ~At(p, "idle") /\ Fault
    /\ leaked' = IF At(p, "create") THEN leaked \cup {proc[p].id} ELSE leaked
    /\ Return(p)
    /\ UNCHANGED <<backend, late, media, session, due, blob, used, reserved>>

-----------------------------------------------------------------------------
Continue(p) ==
    \/ CreateUploading(p) \/ CreateRefused(p) \/ PutTemporary(p) \/ Promote(p)
    \/ CopyParts(p) \/ CompleteCopy(p) \/ RepairCopy(p) \/ Overtaken(p)
    \/ Promoted(p) \/ CommitUpload(p) \/ DropTemporary(p) \/ AbortUpload(p)
    \/ HeadFinal(p) \/ Checksum(p) \/ KeepFinal(p) \/ DiscardFinal(p)
    \/ InstallContent(p) \/ RecheckContent(p) \/ LateUpload(p)
    \/ ExpireInComplete(p) \/ Inspect(p) \/ Finalize(p) \/ CompleteSession(p)
    \/ CancelSession(p) \/ AbortTarget(p) \/ AbortFinal(p) \/ CleanupDone(p)
    \/ FinalizeDelete(p)

Next ==
    \/ \E p \in Procs : Continue(p) \/ PutFails(p) \/ Gone(p)
    \/ \E c \in Clients, d \in Direct : ReserveQuota(c, d)
    \/ \E c \in Clients, s \in Sessions : PutContent(c, s) \/ Complete(c, s) \/ Cancel(c, s)
    \/ \E s \in Sessions : CreateSession(s) \/ PutPresigned(s) \/ Due(s)
    \/ \E w \in Workers, d \in Direct : ClaimStale(w, d)
    \/ \E w \in Workers, s \in Sessions : ExpireDue(w, s)
    \/ \E w \in Workers, i \in Ids : PurgePayload(w, i)
    \/ \E i \in Ids : ScheduleDelete(i)
    \/ \E d \in Direct : LeaseLost(d) \/ LeaseEnds(d)

\* Requests and loops that were started go on, the 30 s loop comes round for
\* every row it selects, and time passes.
Fairness ==
    /\ \A p \in Procs : WF_vars(Continue(p))
    /\ \A d \in Direct : WF_vars(LeaseEnds(d)) /\ WF_vars(\E w \in Workers : ClaimStale(w, d))
    /\ \A s \in Sessions : WF_vars(Due(s)) /\ WF_vars(\E w \in Workers : ExpireDue(w, s))
    /\ \A i \in Ids : WF_vars(\E w \in Workers : PurgePayload(w, i))

Spec == Init /\ [][Next]_vars
FairSpec == Spec /\ Fairness

-----------------------------------------------------------------------------
(* Properties. *)

\* The quota ledger is the sum of what the rows say: used for objects that
\* still occupy the store, reserved for uploads and sessions under way and
\* for the reservations whose request died before it had a row
\* (upload.rs reserves in a transaction of its own).
LedgerExact ==
    /\ used = Cardinality({i \in Ids : media[i].state \in {"active", "delete_pending"}})
    /\ reserved = Cardinality({d \in Direct : media[d].state = "uploading"})
                + Cardinality({s \in Sessions : session[s].state = "pending"})
                + Cardinality({p \in Procs : At(p, "create")})
                + Cardinality(leaked)

\* The object of an active row is there and stays as it is: a row becomes active
\* only over a stored object, a session only over the bytes its client declared, and
\* no promotion, repair copy, cleanup, rollback, reconciliation or expiry of any
\* process, however late, replaces or removes it.  Two exceptions are the code's: the
\* local upload handler that acts on a session it read before the completion
\* (handlers_upload.rs put_upload_content), and a reconciliation that judged an
\* object before its promotion was repaired, lost its lease, and discards it from the
\* worker that found it whole and committed it (workers.rs reconcile_stale_uploads).
PayloadKept ==
    [][\A i \in Ids :
          /\ media[i].state # "active" /\ media'[i].state = "active"
             => \/ blob[i].final \in (IF i \in Sessions THEN {"good"} ELSE {"good", "bad"})
                \/ i \in Direct \cap late
          /\ media[i].state = "active" /\ blob[i].final # "none" /\ blob'[i].final # blob[i].final
             => (\E c \in Clients : LateUpload(c)) \/ i \in Direct \cap late']_vars

\* On S3 a session that failed and was cleaned up leaves nothing under its two keys,
\* although promotions that were under way go on: the cleanup removes the staged
\* object before the final one.  The exception is a multipart copy that had its parts
\* before the staged object went and is completed afterwards (promote_temporary): its
\* object stays, and nothing refers to it.  The code contradicts its own comment in
\* abort_upload here, that it "never creates multipart state" (lib.rs).
FailedSessionsLeaveNothing ==
    \A s \in Sessions :
      backend = "s3" /\ session[s].state \in {"cancelled", "expired"} /\ session[s].cleaned
      => blob[s].stage = "none" /\ (blob[s].final = "none" \/ s \in late)

\* Every upload whose owner died is committed or rolled back, every session
\* ends and gives its target back, and every scheduled deletion is finalised.
EverythingSettles ==
    /\ \A d \in Direct : []<>(media[d].state # "uploading")
    /\ \A s \in Sessions : []<>(session[s].state = "none" \/ session[s].cleaned)
    /\ \A i \in Ids : []<>(media[i].state # "delete_pending")
=============================================================================
