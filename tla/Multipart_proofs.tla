-------------------------- MODULE Multipart_proofs --------------------------
(***************************************************************************)
(* Proofs about a multipart upload, for any number of part uploads and     *)
(* completion attempts, any sizes, tags and limits.                        *)
(***************************************************************************)
EXTENDS Multipart, Sums_proofs

Live == {c \in Completers : Open(c)}
Dead(c) == intent[c].state \in {"aborted", "expired"}

-----------------------------------------------------------------------------
(* The inductive invariant.                                                *)

(* The row has a version once it is completed; while it is completing its  *)
(* manifest fits the parts; an attached intent was begun.                  *)
UploadRow ==
    /\ upload.version # None <=> upload.state = "completed"
    /\ upload.state = "completing" => Valid(upload.manifest)
    /\ upload.attached # None => intent[upload.attached].state # "none"

(* At these steps an attempt need not have an intent.                      *)
Unbound == {"start", "claimed", "releasing", "acknowledged", "refused", "stopped"}

(* What an attempt relies on: an intent of its own is begun once, the one  *)
(* it uses was begun, and at the end it is made of the attempt's parts and *)
(* promoted, unless somebody gave it up meanwhile.                         *)
Relies(c) ==
    /\ completer[c].step \in {"start", "claimed"} => intent[c].state = "none"
    /\ Using(c) # None => intent[Using(c)].state # "none"
    /\ completer[c].step \notin Unbound => Using(c) # None
    /\ completer[c].step = "prepared" =>
         /\ EntityTag(intent[Using(c)].sources) = EntityTag(Sources(c))
         /\ Final(Using(c)) \in blobs \cup queued
    /\ completer[c].step = "acknowledged" => upload.state = "completed"

AttemptsRely == \A c \in Completers : Relies(c)

(* Only the final keys of abandoned intents are handed to the GC.          *)
QueuedIsDead == \A c \in Completers : Final(c) \in queued => Dead(c)

(* A part that is not stored yet is no row and not handed to the GC.       *)
UnstoredIsSafe ==
    /\ \A n \in Stored : putter[parts[n]] \notin {"start", "streamed"}
    /\ \A p \in Puts :
         /\ putter[p] \in {"start", "streamed"} => Part(p) \notin queued
         /\ putter[p] = "streamed" => Part(p) \in blobs

(* No acknowledged part of an open upload is handed to the GC.             *)
RowsNotQueued ==
    \A n \in Stored : ~Ended /\ putter[parts[n]] = "acknowledged" => Part(parts[n]) \notin queued

PartsInv ==
    /\ UnstoredIsSafe
    /\ RowsNotQueued
    /\ AcknowledgedPartsKept

CompletionInv ==
    /\ UploadRow
    /\ AttemptsRely
    /\ QueuedIsDead
    /\ OneVersion
    /\ CompletedIsWhole

MultipartInv ==
    /\ TypeOK
    /\ PartsInv
    /\ CompletionInv
    /\ LedgerExact

-----------------------------------------------------------------------------
(* Manifests, sources and keys.                                            *)

LEMMA KeysDiffer ==
    /\ \A p \in Puts : Part(p) \in Keys
    /\ \A c \in Completers : Final(c) \in Keys /\ Temporary(c) \in Keys
    /\ \A p, q : Part(p) = Part(q) => p = q
    /\ \A c, d : Final(c) = Final(d) => c = d
    /\ \A p, c, d : Part(p) # Final(c) /\ Part(p) # Temporary(c) /\ Final(c) # Temporary(d)
BY DEF Part, Final, Temporary, Keys

LEMMA NumbersFinite == IsFiniteSet(Numbers)
<1>1. PartNumber \in Surjection(Puts, Numbers)
  BY PartAssumption DEF Surjection, Numbers
<1> QED BY <1>1, FS_Surjection, PartAssumption

LEMMA BytesType ==
    ASSUME NEW sources \in Partial(Puts)
    PROVE  Bytes(sources) \in Nat
<1>1. PICK D \in SUBSET Numbers : sources \in [D -> Puts]
  BY DEF Partial
<1> DEFINE f == [n \in D |-> Size[sources[n]]]
<1>2. IsFiniteSet(D) /\ \A n \in D : f[n] \in Nat
  BY <1>1, NumbersFinite, FS_Subset, PartAssumption
<1>3. Bytes(sources) = SumOver(f, D)
  BY <1>1 DEF Bytes
<1> HIDE DEF f
<1> QED BY <1>2, <1>3, SumChanges

LEMMA NoPartsType == \A S : NoParts \in Partial(S)
<1>1. NoParts = [n \in {} |-> None] /\ {} \in SUBSET Numbers
  BY DEF NoParts
<1>2. \A S : NoParts \in [{} -> S]
  BY <1>1
<1> QED BY <1>1, <1>2 DEF Partial

(* The parts that a valid manifest selects carry the tags it names.        *)
LEMMA SelectedParts ==
    ASSUME TypeOK, NEW manifest \in Partial(Tags), Valid(manifest)
    PROVE  /\ Selected(manifest) \in Partial(Puts)
           /\ EntityTag(Selected(manifest)) = InOrder(manifest)
<1>1. PICK D \in SUBSET Numbers : manifest \in [D -> Tags]
  BY DEF Partial
<1>2. \A n \in D : parts[n] \in Puts /\ Tag[parts[n]] = manifest[n]
  BY <1>1 DEF Valid, TypeOK, Stored
<1>3. Selected(manifest) = [n \in D |-> parts[n]] /\ Selected(manifest) \in [D -> Puts]
  BY <1>1, <1>2 DEF Selected
<1>4. [n \in DOMAIN Selected(manifest) |-> Tag[Selected(manifest)[n]]] = manifest
  BY <1>1, <1>2, <1>3
<1> QED BY <1>3, <1>4 DEF Partial, EntityTag

-----------------------------------------------------------------------------
(* What the steps write, in terms of one row.                              *)

IntentTypes ==
    /\ intent \in [Completers -> Intent]
    /\ \A c \in Completers : intent[c].token # None <=> intent[c].state = "committing"

(* The intent of d goes to the given state and keeps its sources.          *)
Becomes(d, state) ==
    /\ IntentTypes'
    /\ intent'[d].state = state /\ intent'[d].sources = intent[d].sources
    /\ \A e \in Completers \ {d} : intent'[e] = intent[e]

IntentStates == {"none", "staging", "ready", "committing", "committed", "aborted", "expired"}

LEMMA IntentRow ==
    ASSUME TypeOK, NEW d \in Completers, NEW state \in IntentStates,
           NEW token \in Completers \cup {None}, token # None <=> state = "committing",
           intent' = [intent EXCEPT ![d] = [@ EXCEPT !.state = state, !.token = token]]
    PROVE  Becomes(d, state)
<1>1. PICK row \in Intent : row = intent[d]
  BY DEF TypeOK
<1> DEFINE new == [row EXCEPT !.state = state, !.token = token]
<1>2. /\ new \in Intent /\ new.state = state /\ new.token = token
      /\ new.sources = row.sources
  BY DEF Intent, IntentStates
<1>3. intent' = [intent EXCEPT ![d] = new]
  BY <1>1
<1> HIDE DEF new
<1> QED BY <1>1, <1>2, <1>3 DEF TypeOK, Becomes, IntentTypes

LEMMA IntentState ==
    ASSUME TypeOK, NEW d \in Completers, NEW state \in IntentStates \ {"committing"},
           intent[d].state # "committing", intent' = [intent EXCEPT ![d].state = state]
    PROVE  Becomes(d, state)
<1>1. PICK row \in Intent : row = intent[d]
  BY DEF TypeOK
<1> DEFINE new == [row EXCEPT !.state = state]
<1>2. /\ new \in Intent /\ new.state = state /\ new.token = row.token
      /\ new.sources = row.sources
  BY DEF Intent, IntentStates
<1>3. intent' = [intent EXCEPT ![d] = new]
  BY <1>1
<1> HIDE DEF new
<1> QED BY <1>1, <1>2, <1>3 DEF TypeOK, Becomes, IntentTypes

(* One attempt goes to the given step and keeps what it knows, ...         *)
Advances(c, step) ==
    /\ completer' \in [Completers -> Completer]
    /\ completer'[c].step = step
    /\ completer'[c].using = completer[c].using /\ completer'[c].sources = completer[c].sources
    /\ \A e \in Completers \ {c} : completer'[e] = completer[e]

(* ... or answers.                                                         *)
Answers(c, step) ==
    /\ completer' \in [Completers -> Completer]
    /\ completer'[c].step = step /\ completer'[c].using = None
    /\ \A e \in Completers \ {c} : completer'[e] = completer[e]

LEMMA GotoRow ==
    ASSUME TypeOK, NEW c \in Completers, NEW step \in CompleterSteps, Goto(c, step)
    PROVE  Advances(c, step)
<1>1. PICK row \in Completer : row = completer[c]
  BY DEF TypeOK
<1> DEFINE new == [row EXCEPT !.step = step]
<1>2. /\ new \in Completer /\ new.step = step /\ new.using = row.using
      /\ new.sources = row.sources
  BY DEF Completer
<1>3. completer' = [completer EXCEPT ![c] = new]
  BY <1>1 DEF Goto
<1> HIDE DEF new
<1> QED BY <1>1, <1>2, <1>3 DEF TypeOK, Advances

LEMMA AnswerRow ==
    ASSUME TypeOK, NEW c \in Completers, NEW step \in CompleterSteps, Answer(c, step)
    PROVE  Answers(c, step)
<1> DEFINE new == [IdleCompleter EXCEPT !.step = step]
<1>1. IdleCompleter \in Completer /\ IdleCompleter.using = None
  BY NoPartsType DEF IdleCompleter, Completer, CompleterSteps
<1>2. new \in Completer /\ new.step = step /\ new.using = None
  BY <1>1 DEF Completer
<1>3. completer' = [completer EXCEPT ![c] = new]
  BY DEF Answer
<1> HIDE DEF new
<1> QED BY <1>2, <1>3 DEF TypeOK, Answers

-----------------------------------------------------------------------------
(* What every step but the commit leaves alone.                            *)

RowTypes ==
    /\ upload \in Upload
    /\ upload.token # None <=> upload.state = "completing"
    /\ parts \in [Numbers -> Puts \cup {None}]
    /\ \A n \in Stored : PartNumber[parts[n]] = n
    /\ putter \in [Puts -> PutterSteps]
    /\ completer \in [Completers -> Completer]
    /\ IntentTypes
    /\ expired \in BOOLEAN /\ lapsed \subseteq Completers
    /\ blobs \subseteq Keys /\ queued \subseteq Keys

(* No intent is forgotten, revived or committed, a completed upload stays  *)
(* as it is, and a final key leaves the store through the queue only.      *)
Steady ==
    /\ queued \subseteq queued'
    /\ used' = used /\ upload'.version = upload.version
    /\ upload.state = "completed" \/ upload'.state = "completed" => upload' = upload
    /\ \A d \in Completers :
         /\ Final(d) \in blobs => Final(d) \in blobs' \cup queued
         /\ Final(d) \in queued' => Final(d) \in queued \/ Dead(d)'
         /\ Dead(d) => Dead(d)'
         /\ intent[d].state # "none" =>
              intent'[d].state # "none" /\ intent'[d].sources = intent[d].sources
         /\ intent'[d].state = "committed" <=> intent[d].state = "committed"

(* The reservation follows the set of open intents.                        *)
Balanced ==
    \/ Live' = Live /\ reserved' = reserved
    \/ \E d \in Live : Live' = Live \ {d} /\ reserved' = reserved - Bytes(intent[d].sources)
    \/ \E d \in Completers \ Live :
         Live' = Live \cup {d} /\ reserved' = reserved + Bytes(intent'[d].sources)

(* An attempt stands still, or can rely on what it sees next.              *)
AttemptsGoOn ==
    \A c \in Completers :
        \/ Relies(c)'
        \/ completer'[c] = completer[c] /\ (intent[c].state = "none" => intent'[c].state = "none")

Fine ==
    /\ RowTypes'
    /\ Steady
    /\ Balanced
    /\ UploadRow'
    /\ AttemptsGoOn

LEMMA TypesOfRows == TypeOK => RowTypes
BY DEF TypeOK, RowTypes, IntentTypes

LEMMA FineKeeps ==
    ASSUME TypeOK, CompletionInv, Fine
    PROVE  CompletionInv'
<1>1. UploadRow' /\ Steady
  BY DEF Fine
<1>2. QueuedIsDead'
  BY <1>1 DEF CompletionInv, QueuedIsDead, Steady
<1>3. ASSUME NEW c \in Completers PROVE Relies(c)'
  <2>1. CASE completer'[c] = completer[c] /\ (intent[c].state = "none" => intent'[c].state = "none")
    <3>1. Relies(c) /\ Using(c)' = Using(c) /\ Sources(c)' = Sources(c)
          /\ Using(c) \in Completers \cup {None}
      BY <2>1 DEF CompletionInv, AttemptsRely, Using, Sources, TypeOK, Completer
    <3>2. Using(c) # None => /\ intent'[Using(c)].state # "none"
                             /\ intent'[Using(c)].sources = intent[Using(c)].sources
                             /\ Final(Using(c)) \in blobs \cup queued =>
                                  Final(Using(c)) \in blobs' \cup queued'
      BY <1>1, <3>1 DEF Relies, Steady
    <3>3. upload.state = "completed" => upload'.state = "completed"
      BY <1>1 DEF Steady
    <3> QED BY <2>1, <3>1, <3>2, <3>3 DEF Relies, Unbound
  <2> QED BY <2>1 DEF Fine, AttemptsGoOn
<1>4. OneVersion'
  <2>1. ASSUME NEW c \in Completers
        PROVE  intent'[c].state = "committed" <=> upload'.state = "completed" /\ upload'.version = c
    BY <1>1 DEF CompletionInv, OneVersion, Steady
  <2>2. ASSUME NEW c \in Completers
        PROVE  completer'[c].step = "acknowledged" => upload'.state = "completed"
    BY <1>3 DEF Relies
  <2> QED BY <2>1, <2>2 DEF OneVersion
<1>5. CompletedIsWhole'
  <2> SUFFICES ASSUME upload'.state = "completed" PROVE CompletedIsWhole'
    BY DEF CompletedIsWhole
  <2> DEFINE d == upload.version
  <2>1. upload' = upload /\ upload.state = "completed"
    BY <1>1 DEF Steady
  <2>2. d \in Completers /\ intent[d].state = "committed"
    BY <2>1 DEF CompletionInv, UploadRow, OneVersion, TypeOK, Upload
  <2>3. Final(d) \in blobs /\ Final(d) \notin queued
    BY <2>1, <2>2 DEF CompletionInv, CompletedIsWhole, QueuedIsDead, Dead
  <2>4. Final(d) \in blobs' /\ intent'[d].sources = intent[d].sources
    BY <1>1, <2>2, <2>3 DEF Steady
  <2> QED BY <2>1, <2>4 DEF CompletionInv, CompletedIsWhole
<1> QED BY <1>1, <1>2, <1>3, <1>4, <1>5 DEF CompletionInv, AttemptsRely

(* What the open intents reserve, by attempt.                              *)
Sized == [c \in Completers |-> Bytes(intent[c].sources)]

LEMMA SizedType ==
    ASSUME IntentTypes
    PROVE  \A c \in Completers : Sized[c] = Bytes(intent[c].sources) /\ Sized[c] \in Nat
BY BytesType DEF IntentTypes, Intent, Sized

LEMMA LedgerTypes ==
    IntentTypes /\ upload \in Upload /\ LedgerExact => reserved \in Nat /\ used \in Nat
<1> SUFFICES ASSUME IntentTypes, upload \in Upload, LedgerExact
             PROVE  reserved \in Nat /\ used \in Nat
  OBVIOUS
<1>1. reserved = SumOver(Sized, Live) /\ Live \in SUBSET Completers
  BY DEF LedgerExact, Sized, Live
<1>2. reserved \in Nat
  BY <1>1, SizedType, SumChanges, PartAssumption
<1>3. upload.version \in Completers \cup {None}
  BY DEF Upload
<1>4. used \in Nat
  BY <1>3, BytesType DEF LedgerExact, IntentTypes, Intent
<1> QED BY <1>2, <1>4

LEMMA WithoutOne ==
    ASSUME NEW f, \A c \in Completers : f[c] \in Nat,
           NEW T \in SUBSET Completers, NEW d \in T
    PROVE  SumOver(f, T) = SumOver(f, T \ {d}) + f[d] /\ SumOver(f, T \ {d}) \in Nat
<1>1. T \ {d} \in SUBSET Completers /\ IsFiniteSet(Completers) /\ d \in Completers
  BY PartAssumption
<1>2. SumOver(f, T) = SumOver(f, T \ {d}) + f[d]
  BY <1>1, SumChanges
<1>3. SumOver(f, T \ {d}) \in Nat
  BY <1>1, SumChanges
<1> QED BY <1>2, <1>3

(* The reservation stays exact in every balanced step.                     *)
LEMMA ReservedStep ==
    ASSUME IntentTypes, IntentTypes', Balanced, reserved = SumOver(Sized, Live),
           \A c \in Live : intent'[c].sources = intent[c].sources
    PROVE  reserved' = SumOver(Sized', Live')
<1>1. /\ Live \in SUBSET Completers /\ Live' \in SUBSET Completers
      /\ IsFiniteSet(Completers)
  BY PartAssumption DEF Live
<1>2. /\ \A c \in Completers : Sized[c] = Bytes(intent[c].sources) /\ Sized[c] \in Nat
      /\ \A c \in Completers : Sized'[c] = Bytes(intent'[c].sources) /\ Sized'[c] \in Nat
  <2>1. \A c \in Completers : Sized'[c] = Bytes(intent'[c].sources) /\ Sized'[c] \in Nat
    BY BytesType DEF IntentTypes, Intent, Sized
  <2> QED BY <2>1, SizedType
<1>3. \A c \in Live : Sized'[c] = Sized[c]
  BY <1>1, <1>2
<1>4. ASSUME NEW T \in SUBSET Live
      PROVE  SumOver(Sized, T) = SumOver(Sized', T)
  <2>1. IsFiniteSet(T) /\ \A c \in T : Sized[c] \in Nat /\ Sized'[c] = Sized[c]
    BY <1>1, <1>2, <1>3, FS_Subset
  <2> QED BY <2>1, SumAgrees
<1>5. reserved' = SumOver(Sized', Live')
  <2>1. CASE Live' = Live /\ reserved' = reserved
    BY <1>1, <1>4, <2>1
  <2>2. ASSUME NEW d \in Live, Live' = Live \ {d},
               reserved' = reserved - Bytes(intent[d].sources)
        PROVE  reserved' = SumOver(Sized', Live')
    <3>1. /\ SumOver(Sized, Live) = SumOver(Sized, Live \ {d}) + Sized[d]
          /\ SumOver(Sized, Live \ {d}) \in Nat
      BY <1>1, <1>2, WithoutOne
    <3>2. SumOver(Sized, Live \ {d}) = SumOver(Sized', Live \ {d})
      BY <1>4
    <3> QED BY <1>1, <1>2, <2>2, <3>1, <3>2
  <2>3. ASSUME NEW d \in Completers \ Live, Live' = Live \cup {d},
               reserved' = reserved + Bytes(intent'[d].sources)
        PROVE  reserved' = SumOver(Sized', Live')
    <3>1. SumOver(Sized', Live \cup {d}) = SumOver(Sized', Live) + Sized'[d]
      BY <1>1, <1>2, SumChanges
    <3>2. SumOver(Sized, Live) = SumOver(Sized', Live)
      BY <1>4
    <3> QED BY <1>1, <1>2, <2>3, <3>1, <3>2
  <2> QED BY <2>1, <2>2, <2>3 DEF Balanced
<1> QED BY <1>5

LEMMA LedgerStep ==
    ASSUME TypeOK, CompletionInv, LedgerExact, Fine
    PROVE  LedgerExact'
<1>1. /\ IntentTypes /\ IntentTypes' /\ Steady /\ Balanced
      /\ reserved = SumOver(Sized, Live)
  BY TypesOfRows DEF Fine, RowTypes, LedgerExact, Sized, Live
<1>2. \A c \in Live : intent'[c].sources = intent[c].sources
  BY <1>1 DEF Live, Open, Steady
<1>3. reserved' = SumOver(Sized', Live')
  BY <1>1, <1>2, ReservedStep
<1>4. used' = IF upload'.version = None THEN 0 ELSE Bytes(intent'[upload'.version].sources)
  <2>1. upload'.version = upload.version /\ used' = used /\ upload.version \in Completers \cup {None}
    BY <1>1 DEF Steady, TypeOK, Upload
  <2>2. upload.version # None =>
          intent'[upload.version].sources = intent[upload.version].sources
    BY <1>1, <2>1 DEF Steady, CompletionInv, UploadRow, OneVersion
  <2> QED BY <2>1, <2>2 DEF LedgerExact
<1> QED BY <1>3, <1>4 DEF LedgerExact, Sized, Live

(* Types and ledger after a step that is fine.                             *)
LEMMA FineTypes ==
    ASSUME TypeOK, CompletionInv, LedgerExact, Fine
    PROVE  TypeOK' /\ LedgerExact'
<1>1. LedgerExact' /\ RowTypes'
  BY LedgerStep DEF Fine
<1>2. reserved' \in Nat /\ used' \in Nat
  <2>1. (IntentTypes /\ upload \in Upload /\ LedgerExact)'
    BY <1>1 DEF RowTypes
  <2>2. (reserved \in Nat /\ used \in Nat)'
    BY <2>1, LedgerTypes, PTL
  <2> QED BY <2>2
<1> QED BY <1>1, <1>2 DEF RowTypes, IntentTypes, TypeOK

-----------------------------------------------------------------------------
(* The kinds of steps                                                      *)

(* No intent changes.                                                      *)
LEMMA QuietIsSteady ==
    ASSUME TypeOK, UNCHANGED <<upload, intent, reserved, used>>, queued \subseteq queued',
           \A d \in Completers : /\ Final(d) \in blobs => Final(d) \in blobs' \cup queued
                                 /\ Final(d) \in queued' => Final(d) \in queued
    PROVE  Steady /\ Balanced
BY DEF Steady, Balanced, Dead, Live, Open

(* An open intent stays open.                                              *)
LEMMA MoveIsSteady ==
    ASSUME TypeOK, NEW d \in Completers, NEW state \in {"ready", "committing"},
           Open(d), Becomes(d, state), UNCHANGED <<upload, blobs, queued, reserved, used>>
    PROVE  Steady /\ Balanced
<1>1. Steady
  BY DEF Becomes, Steady, Dead, Open
<1>2. Live' = Live
  BY DEF Becomes, Live, Open
<1> QED BY <1>1, <1>2 DEF Balanced

(* An open intent is given up.                                             *)
LEMMA EndIsSteady ==
    ASSUME TypeOK, NEW d \in Completers, NEW state \in {"aborted", "expired"},
           Open(d), Becomes(d, state), reserved' = reserved - Bytes(intent[d].sources),
           UNCHANGED <<blobs, used>>, queued \subseteq queued',
           \A e \in Completers : Final(e) \in queued' => Final(e) \in queued \/ e = d,
           upload'.version = upload.version,
           upload.state = "completed" \/ upload'.state = "completed" => upload' = upload
    PROVE  Steady /\ Balanced
<1>1. Steady
  BY DEF Becomes, Steady, Dead, Open
<1>2. d \in Live /\ Live' = Live \ {d}
  BY DEF Becomes, Live, Open
<1> QED BY <1>1, <1>2 DEF Balanced

LEMMA RowStays ==
    ASSUME TypeOK, UploadRow, Steady, upload' = upload,
           parts' = parts \/ upload.state # "completing"
    PROVE  UploadRow'
<1>1. upload.attached \in Completers \cup {None}
  BY DEF TypeOK, Upload
<1>2. upload.attached # None => intent'[upload.attached].state # "none"
  BY <1>1 DEF UploadRow, Steady
<1>3. upload.state = "completing" => Valid(upload.manifest)'
  BY DEF UploadRow, Valid, Stored
<1> QED BY <1>2, <1>3 DEF UploadRow

(* An attempt that goes on relies on no more than before.                  *)
Goes(c) ==
    \/ \E step \in CompleterSteps \ {"start", "claimed", "prepared", "acknowledged"} :
         /\ Advances(c, step)
         /\ step \notin Unbound => Using(c) # None
    \/ \E step \in {"refused", "stopped"} : Answers(c, step)
    \/ Answers(c, "acknowledged") /\ upload'.state = "completed"

LEMMA GoesOn ==
    ASSUME TypeOK, AttemptsRely, Steady, NEW c \in Completers, Goes(c),
           \A e \in Completers \ {c} : intent[e].state = "none" => intent'[e].state = "none"
    PROVE  completer' \in [Completers -> Completer] /\ AttemptsGoOn
<1>1. ASSUME NEW step \in CompleterSteps \ {"start", "claimed", "prepared", "acknowledged"},
             Advances(c, step), step \notin Unbound => Using(c) # None
      PROVE  completer' \in [Completers -> Completer] /\ AttemptsGoOn
  <2>1. Using(c)' = Using(c) /\ completer'[c].step = step /\ Using(c) \in Completers \cup {None}
    BY <1>1 DEF Advances, Using, TypeOK, Completer
  <2>2. Using(c) # None => intent'[Using(c)].state # "none"
    BY <2>1 DEF AttemptsRely, Relies, Steady
  <2>3. Relies(c)'
    BY <1>1, <2>1, <2>2 DEF Relies
  <2> QED BY <1>1, <2>3 DEF Advances, AttemptsGoOn
<1>2. ASSUME NEW step \in {"refused", "stopped", "acknowledged"}, Answers(c, step),
             step = "acknowledged" => upload'.state = "completed"
      PROVE  completer' \in [Completers -> Completer] /\ AttemptsGoOn
  <2>1. Relies(c)'
    BY <1>2 DEF Answers, Relies, Using, Unbound
  <2> QED BY <1>2, <2>1 DEF Answers, AttemptsGoOn
<1> QED BY <1>1, <1>2 DEF Goes

(* Only one attempt and the store change.                                  *)
LEMMA QuietAttempt ==
    ASSUME TypeOK, CompletionInv, NEW c \in Completers, Goes(c),
           UNCHANGED <<upload, parts, putter, intent, time, queued, ledger>>,
           blobs' \subseteq Keys,
           \A d \in Completers : Final(d) \in blobs => Final(d) \in blobs'
    PROVE  Fine
<1>1. UNCHANGED <<upload, parts, putter, intent, expired, lapsed, queued, reserved, used>>
  BY DEF time, ledger
<1>2. Steady /\ Balanced
  BY <1>1, QuietIsSteady
<1>3. UploadRow' /\ completer' \in [Completers -> Completer] /\ AttemptsGoOn
  BY <1>1, <1>2, RowStays, GoesOn DEF CompletionInv
<1>4. RowTypes'
  BY <1>1, <1>3 DEF TypeOK, RowTypes, IntentTypes, Stored
<1> QED BY <1>2, <1>3, <1>4 DEF Fine

(* One attempt moves an open intent.                                       *)
LEMMA MovingAttempt ==
    ASSUME TypeOK, CompletionInv, NEW c \in Completers, Goes(c),
           NEW d \in Completers, NEW state \in {"ready", "committing"}, Open(d), Becomes(d, state),
           UNCHANGED <<upload, parts, putter, time, storeVars, ledger>>
    PROVE  Fine
<1>1. UNCHANGED <<upload, parts, putter, expired, lapsed, blobs, queued, reserved, used>>
  BY DEF time, ledger, storeVars
<1>2. Steady /\ Balanced
  BY <1>1, MoveIsSteady
<1>3. \A e \in Completers : intent[e].state = "none" => intent'[e].state = "none"
  BY DEF Becomes, Open
<1>4. UploadRow' /\ completer' \in [Completers -> Completer] /\ AttemptsGoOn
  BY <1>1, <1>2, <1>3, RowStays, GoesOn DEF CompletionInv
<1>5. RowTypes'
  BY <1>1, <1>4 DEF TypeOK, RowTypes, Becomes, Stored
<1> QED BY <1>2, <1>4, <1>5 DEF Fine

LEMMA GotoGoes ==
    ASSUME TypeOK, NEW c \in Completers,
           NEW step \in CompleterSteps \ {"start", "claimed", "prepared", "acknowledged"},
           Goto(c, step), step \notin Unbound => Using(c) # None
    PROVE  Goes(c)
BY GotoRow DEF Goes

LEMMA AnswerGoes ==
    ASSUME TypeOK, NEW c \in Completers, NEW step \in {"refused", "stopped", "acknowledged"},
           Answer(c, step), step = "acknowledged" => upload'.state = "completed"
    PROVE  Goes(c)
BY AnswerRow DEF Goes, CompleterSteps

LEMMA UsingType ==
    ASSUME TypeOK, AttemptsRely, NEW c \in Completers,
           completer[c].step \notin Unbound
    PROVE  Using(c) \in Completers /\ Using(c) # None
BY DEF AttemptsRely, Relies, TypeOK, Completer, Using

-----------------------------------------------------------------------------
(* The completion attempts                                                 *)

LEMMA QuietSteps ==
    ASSUME TypeOK, CompletionInv, NEW c \in Completers
    PROVE  /\ \A manifest \in Partial(Tags) : AnswerClaim(c, manifest) => Fine
           /\ RefuseBegin(c) \/ Compose(c) \/ FailStaging(c) => Fine
           /\ \A cleaned \in BOOLEAN : Promote(c, cleaned) => Fine
           /\ \A linked \in BOOLEAN : PromotionUncertain(c, linked) => Fine
           /\ ReplayCommit(c) \/ GiveUp(c) \/ CrashCompleter(c) => Fine
<1>0. blobs \subseteq Keys /\ AttemptsRely
  BY DEF TypeOK, CompletionInv
<1>1. ASSUME NEW manifest \in Partial(Tags), AnswerClaim(c, manifest) PROVE Fine
  <2>1. Goes(c)
    BY <1>1, AnswerGoes DEF AnswerClaim
  <2> QED BY <1>0, <1>1, <2>1, QuietAttempt DEF AnswerClaim, storeVars
<1>2. ASSUME RefuseBegin(c) PROVE Fine
  <2>1. Goes(c)
    BY <1>2, GotoGoes DEF RefuseBegin, CompleterSteps, Unbound
  <2> QED BY <1>0, <1>2, <2>1, QuietAttempt DEF RefuseBegin, storeVars
<1>3. ASSUME Compose(c) PROVE Fine
  <2>0. Using(c) # None
    BY <1>0, <1>3, UsingType DEF Compose, Unbound
  <2>1. Goes(c)
    BY <1>3, <2>0, GotoGoes DEF Compose, CompleterSteps
  <2> QED BY <1>0, <1>3, <2>1, QuietAttempt, KeysDiffer DEF Compose
<1>4. ASSUME FailStaging(c) PROVE Fine
  <2>0. Using(c) # None
    BY <1>0, <1>4, UsingType DEF FailStaging, Unbound
  <2>1. Goes(c)
    BY <1>4, <2>0, GotoGoes DEF FailStaging, CompleterSteps
  <2> QED BY <1>0, <1>4, <2>1, QuietAttempt DEF FailStaging, storeVars
<1>5. ASSUME NEW cleaned \in BOOLEAN, Promote(c, cleaned) PROVE Fine
  <2>1. Using(c) \in Completers /\ Using(c) # None
    BY <1>0, <1>5, UsingType DEF Promote, Unbound
  <2>2. Goes(c)
    BY <1>5, <2>1, GotoGoes DEF Promote, CompleterSteps
  <2>3. blobs' \subseteq Keys /\ \A d \in Completers : Final(d) \in blobs => Final(d) \in blobs'
    BY <1>0, <1>5, <2>1, KeysDiffer DEF Promote
  <2> QED BY <1>5, <2>2, <2>3, QuietAttempt DEF Promote
<1>6. ASSUME NEW linked \in BOOLEAN, PromotionUncertain(c, linked) PROVE Fine
  <2>1. Using(c) \in Completers
    BY <1>0, <1>6, UsingType DEF PromotionUncertain, Unbound
  <2>2. Goes(c)
    BY <1>6, AnswerGoes DEF PromotionUncertain
  <2>3. blobs' \subseteq Keys /\ \A d \in Completers : Final(d) \in blobs => Final(d) \in blobs'
    BY <1>0, <1>6, <2>1, KeysDiffer DEF PromotionUncertain
  <2> QED BY <1>6, <2>2, <2>3, QuietAttempt DEF PromotionUncertain
<1>7. ASSUME ReplayCommit(c) PROVE Fine
  <2>1. Goes(c)
    BY <1>7, AnswerGoes DEF ReplayCommit
  <2> QED BY <1>0, <1>7, <2>1, QuietAttempt DEF ReplayCommit, storeVars
<1>8. ASSUME GiveUp(c) PROVE Fine
  <2>1. Goes(c)
    BY <1>8, AnswerGoes DEF GiveUp
  <2> QED BY <1>0, <1>8, <2>1, QuietAttempt DEF GiveUp, storeVars
<1>9. ASSUME CrashCompleter(c) PROVE Fine
  <2>1. Goes(c)
    BY <1>9, AnswerGoes DEF CrashCompleter
  <2> QED BY <1>0, <1>9, <2>1, QuietAttempt DEF CrashCompleter, storeVars
<1> QED BY <1>1, <1>2, <1>3, <1>4, <1>5, <1>6, <1>7, <1>8, <1>9

LEMMA MovingSteps ==
    ASSUME TypeOK, CompletionInv, NEW c \in Completers
    PROVE  TakeOver(c) \/ CompleteStaging(c) \/ ClaimIntent(c) \/ PromotionFails(c) => Fine
<1>0. AttemptsRely
  BY DEF CompletionInv
<1>1. ASSUME TakeOver(c) PROVE Fine
  <2> DEFINE d == Using(c)
  <2>1. d \in Completers /\ d # None
    BY <1>1 DEF TakeOver, TypeOK, Completer, Using
  <2>2. Open(d)
    BY <1>1 DEF TakeOver, Resumable, Open
  <2>3. intent' = [intent EXCEPT ![d] = [@ EXCEPT !.state = "committing", !.token = c]]
    BY <1>1 DEF TakeOver
  <2>4. Becomes(d, "committing")
    <3> HIDE DEF d
    <3> QED BY <2>1, <2>3, IntentRow, NoneAssumption DEF IntentStates
  <2>5. Goes(c)
    BY <1>1, <2>1, GotoGoes DEF TakeOver, CompleterSteps
  <2> HIDE DEF d
  <2> QED BY <1>1, <2>1, <2>2, <2>4, <2>5, MovingAttempt DEF TakeOver
<1>2. ASSUME CompleteStaging(c) PROVE Fine
  <2>1. Open(c) /\ Becomes(c, "ready")
    BY <1>2, IntentState DEF CompleteStaging, Open, IntentStates
  <2>2. Using(c) # None
    BY <1>0, <1>2, UsingType DEF CompleteStaging, Unbound
  <2>3. Goes(c)
    BY <1>2, <2>2, GotoGoes DEF CompleteStaging, CompleterSteps
  <2> QED BY <1>2, <2>1, <2>3, MovingAttempt DEF CompleteStaging
<1>3. ASSUME ClaimIntent(c) PROVE Fine
  <2>1. Open(c) /\ Becomes(c, "committing")
    BY <1>3, IntentRow, NoneAssumption DEF ClaimIntent, Open, IntentStates
  <2>2. Using(c) # None
    BY <1>0, <1>3, UsingType DEF ClaimIntent, Unbound
  <2>3. Goes(c)
    BY <1>3, <2>2, GotoGoes DEF ClaimIntent, CompleterSteps
  <2> QED BY <1>3, <2>1, <2>3, MovingAttempt DEF ClaimIntent
<1>4. ASSUME PromotionFails(c) PROVE Fine
  <2> DEFINE d == Using(c)
  <2>1. Using(c) \in Completers
    BY <1>0, <1>4, UsingType DEF PromotionFails, Unbound
  <2>2. Goes(c)
    BY <1>4, AnswerGoes DEF PromotionFails
  <2>3. CASE intent[d].token = c /\ c \notin lapsed /\ ~expired
    <3>1. Open(d)
      BY <2>1, <2>3, NoneAssumption DEF TypeOK, Open
    <3>2. Becomes(d, "ready")
      BY <1>4, <2>1, <2>3, IntentRow DEF PromotionFails, IntentStates
    <3> HIDE DEF d
    <3> QED BY <1>4, <2>1, <2>2, <3>1, <3>2, MovingAttempt DEF PromotionFails, d
  <2>4. CASE ~(intent[d].token = c /\ c \notin lapsed /\ ~expired)
    <3>1. UNCHANGED <<upload, parts, putter, intent, time, blobs, queued, ledger>> /\ blobs \subseteq Keys
      BY <1>4, <2>4 DEF PromotionFails, storeVars, TypeOK
    <3> QED BY <2>2, <3>1, QuietAttempt
  <2> QED BY <2>3, <2>4
<1> QED BY <1>1, <1>2, <1>3, <1>4

LEMMA ClaimStep ==
    ASSUME TypeOK, CompletionInv, NEW c \in Completers, NEW manifest \in Partial(Tags),
           ClaimCompletion(c, manifest)
    PROVE  Fine
<1>1. UNCHANGED <<parts, putter, intent, expired, lapsed, blobs, queued, reserved, used>>
  BY DEF ClaimCompletion, time, storeVars, ledger
<1>2. /\ upload' \in Upload /\ upload'.state = "completing" /\ upload'.token = c
      /\ upload'.manifest = manifest /\ upload'.attached = upload.attached
      /\ upload'.version = upload.version /\ upload.state # "completed"
  BY DEF ClaimCompletion, Ended, TypeOK, Upload
<1>3. Steady /\ Balanced
  BY <1>1, <1>2 DEF Steady, Balanced, Dead, Live, Open
<1>4. upload.attached \in Completers \cup {None}
  BY DEF TypeOK, Upload
<1>5. UploadRow'
  <2>1. Valid(manifest)'
    BY <1>1 DEF ClaimCompletion, Valid, Stored
  <2> QED BY <1>1, <1>2, <2>1 DEF CompletionInv, UploadRow
<1> DEFINE new == [step |-> "claimed", sources |-> Selected(manifest),
                   using |-> upload.attached, seen |-> lapsed, stamped |-> FALSE]
<1>6. new \in Completer /\ new.step = "claimed" /\ new.using = upload.attached
  BY <1>4, SelectedParts DEF ClaimCompletion, Completer, CompleterSteps, TypeOK
<1>7. completer' = [completer EXCEPT ![c] = new]
  BY DEF ClaimCompletion
<1> HIDE DEF new
<1>8. /\ completer' \in [Completers -> Completer] /\ completer'[c] = new
      /\ \A e \in Completers \ {c} : completer'[e] = completer[e]
  BY <1>6, <1>7 DEF TypeOK
<1>9. intent[c].state = "none"
  BY DEF ClaimCompletion, CompletionInv, AttemptsRely, Relies
<1>10. Relies(c)'
  BY <1>1, <1>4, <1>6, <1>8, <1>9
     DEF CompletionInv, UploadRow, Relies, Using, Unbound
<1>11. AttemptsGoOn
  BY <1>1, <1>8, <1>10 DEF AttemptsGoOn
<1>12. RowTypes'
  BY <1>1, <1>2, <1>8, NoneAssumption DEF TypeOK, RowTypes, IntentTypes, Stored
<1> QED BY <1>3, <1>5, <1>11, <1>12 DEF Fine

LEMMA BeginStep ==
    ASSUME TypeOK, CompletionInv, NEW c \in Completers, BeginPut(c)
    PROVE  Fine
<1>1. UNCHANGED <<upload, parts, putter, expired, lapsed, blobs, queued, used>>
  BY DEF BeginPut, time, storeVars
<1>2. intent[c].state = "none" /\ completer[c] \in Completer /\ c # None
  BY NoneAssumption DEF BeginPut, CompletionInv, AttemptsRely, Relies, TypeOK
<1> DEFINE row == [state |-> "staging", token |-> None, sources |-> Sources(c)]
<1>3. row \in Intent /\ row.state = "staging" /\ row.token = None
  BY <1>2 DEF Intent, Sources, Completer
<1>4. intent' = [intent EXCEPT ![c] = row] /\ reserved' = reserved + Bytes(row.sources)
  BY DEF BeginPut
<1> HIDE DEF row
<1>5. /\ intent' \in [Completers -> Intent] /\ intent'[c] = row
      /\ \A e \in Completers \ {c} : intent'[e] = intent[e]
  BY <1>3, <1>4 DEF TypeOK
<1>6. PICK old \in Completer : old = completer[c]
  BY <1>2
<1> DEFINE new == [old EXCEPT !.step = "begun", !.using = c]
<1>7. new \in Completer /\ new.step = "begun" /\ new.using = c
  BY DEF Completer, CompleterSteps
<1>8. completer' = [completer EXCEPT ![c] = new]
  BY <1>6 DEF BeginPut
<1> HIDE DEF new
<1>9. /\ completer' \in [Completers -> Completer] /\ completer'[c] = new
      /\ \A e \in Completers \ {c} : completer'[e] = completer[e]
  BY <1>7, <1>8 DEF TypeOK
<1>10. Steady
  BY <1>1, <1>2, <1>3, <1>5 DEF Steady, Dead
<1>11. Balanced
  <2>1. c \in Completers \ Live /\ Live' = Live \cup {c}
    BY <1>2, <1>3, <1>5 DEF Live, Open
  <2> QED BY <1>4, <1>5, <2>1 DEF Balanced
<1>12. Relies(c)'
  BY <1>2, <1>3, <1>5, <1>7, <1>9 DEF Relies, Using, Unbound
<1>13. AttemptsGoOn
  BY <1>5, <1>9, <1>12 DEF AttemptsGoOn
<1>14. RowTypes'
  BY <1>1, <1>3, <1>5, <1>9 DEF TypeOK, RowTypes, IntentTypes, Stored
<1>15. UploadRow'
  BY <1>1, <1>10, RowStays DEF CompletionInv
<1> QED BY <1>10, <1>11, <1>13, <1>14, <1>15 DEF Fine

LEMMA PrepareStep ==
    ASSUME TypeOK, CompletionInv, NEW c \in Completers, Prepare(c)
    PROVE  Fine
<1>1. UNCHANGED <<upload, parts, putter, intent, expired, lapsed, blobs, queued, reserved, used>>
  BY DEF Prepare, time, storeVars, ledger
<1>2. Steady /\ Balanced
  BY <1>1, QuietIsSteady
<1>3. PICK old \in Completer : old = completer[c]
  BY DEF TypeOK
<1> DEFINE new == [old EXCEPT !.step = "prepared", !.stamped = c \notin lapsed]
<1>4. /\ new \in Completer /\ new.step = "prepared" /\ new.using = Using(c)
      /\ new.sources = Sources(c)
  BY <1>3 DEF Completer, CompleterSteps, Using, Sources
<1>5. completer' = [completer EXCEPT ![c] = new]
  BY <1>3 DEF Prepare
<1> HIDE DEF new
<1>6. /\ completer' \in [Completers -> Completer] /\ completer'[c] = new
      /\ \A e \in Completers \ {c} : completer'[e] = completer[e]
  BY <1>4, <1>5 DEF TypeOK
<1>7. /\ Using(c) # None /\ intent[Using(c)].state # "none"
      /\ EntityTag(intent[Using(c)].sources) = EntityTag(Sources(c)) /\ Final(Using(c)) \in blobs
  BY DEF Prepare, CompletionInv, AttemptsRely, Relies, Unbound
<1>8. Using(c)' = Using(c) /\ Sources(c)' = Sources(c) /\ completer'[c].step = "prepared"
  BY <1>4, <1>6 DEF Using, Sources
<1>9. Relies(c)'
  BY <1>1, <1>7, <1>8 DEF Relies, Unbound
<1>10. AttemptsGoOn
  BY <1>1, <1>6, <1>9 DEF AttemptsGoOn
<1>11. UploadRow' /\ RowTypes'
  BY <1>1, <1>2, <1>6, RowStays DEF CompletionInv, TypeOK, RowTypes, IntentTypes, Stored
<1> QED BY <1>2, <1>10, <1>11 DEF Fine

LEMMA AttachStep ==
    ASSUME TypeOK, CompletionInv, NEW c \in Completers, Attach(c)
    PROVE  Fine
<1>1. UNCHANGED <<parts, putter, intent, expired, lapsed, blobs, queued, reserved, used>>
  BY DEF Attach, time, storeVars, ledger
<1>2. Using(c) \in Completers /\ Using(c) # None /\ AttemptsRely
  BY UsingType DEF Attach, Unbound, CompletionInv
<1>3. /\ upload' \in Upload /\ upload'.state = upload.state /\ upload'.token = upload.token
      /\ upload'.manifest = upload.manifest /\ upload'.attached = Using(c)
      /\ upload'.version = upload.version /\ upload.state = "completing"
  BY <1>2 DEF Attach, OwnsClaim, TypeOK, Upload
<1>4. Steady /\ Balanced
  BY <1>1, <1>3 DEF Steady, Balanced, Dead, Live, Open
<1>5. UploadRow'
  <2>1. Valid(upload.manifest)' /\ intent[Using(c)].state = "committing"
    BY <1>1, <1>3 DEF Attach, Valid, Stored
  <2> QED BY <1>1, <1>3, <2>1 DEF CompletionInv, UploadRow
<1>6. Goes(c)
  BY <1>2, GotoGoes DEF Attach, CompleterSteps
<1>7. completer' \in [Completers -> Completer] /\ AttemptsGoOn
  BY <1>1, <1>2, <1>4, <1>6, GoesOn
<1>8. RowTypes'
  BY <1>1, <1>3, <1>7 DEF TypeOK, RowTypes, IntentTypes, Stored
<1> QED BY <1>4, <1>5, <1>7, <1>8 DEF Fine

-----------------------------------------------------------------------------
(* Ending intents and the upload                                           *)

PartKeys == {Part(p) : p \in Puts}

(* The attached intent, if any, is given up; one that was given up before  *)
(* gives nothing back.                                                     *)
LEMMA GivenUp ==
    ASSUME TypeOK, UploadRow, NEW keys \in SUBSET PartKeys,
           \/ upload.attached = None /\ queued' = queued \cup keys /\ UNCHANGED <<intent, reserved>>
           \/ upload.attached # None /\ AbortAttached(keys),
           UNCHANGED <<blobs, used>>, upload'.version = upload.version,
           upload.state # "completed", upload'.state # "completed"
    PROVE  /\ Steady /\ Balanced /\ IntentTypes' /\ queued' \subseteq Keys
           /\ \A e \in Completers : intent[e].state = "none" => intent'[e].state = "none"
           /\ \A p \in Puts : Part(p) \in queued' <=> Part(p) \in queued \cup keys
<1>0. queued \subseteq Keys /\ keys \subseteq Keys /\ \A c \in Completers : Final(c) \notin keys
  BY KeysDiffer DEF TypeOK, PartKeys
<1>1. CASE upload.attached = None /\ queued' = queued \cup keys /\ UNCHANGED <<intent, reserved>>
  BY <1>0, <1>1 DEF Steady, Balanced, Dead, Live, Open, IntentTypes, TypeOK
<1>2. CASE upload.attached # None /\ AbortAttached(keys)
  <2> DEFINE a == upload.attached
  <2>1. a \in Completers /\ intent[a] \in Intent /\ intent[a].state # "none"
    BY <1>2 DEF TypeOK, Upload, UploadRow
  <2>2. queued' = queued \cup keys \cup {Temporary(a), Final(a)} /\ intent[a].state # "committed"
    BY <1>2 DEF AbortAttached
  <2>3. /\ queued \subseteq queued' /\ queued' \subseteq Keys
        /\ \A e \in Completers : Final(e) \in queued' => Final(e) \in queued \/ e = a
        /\ \A p \in Puts : Part(p) \in queued' <=> Part(p) \in queued \cup keys
    BY <1>0, <2>1, <2>2, KeysDiffer
  <2>4. CASE Open(a)
    <3>1. /\ intent' = [intent EXCEPT ![a] = [@ EXCEPT !.state = "aborted", !.token = None]]
          /\ reserved' = reserved - Bytes(intent[a].sources)
      BY <1>2, <2>4 DEF AbortAttached
    <3> HIDE DEF a
    <3>2. Becomes(a, "aborted")
      BY <2>1, <3>1, IntentRow DEF IntentStates
    <3>3. Steady /\ Balanced
      BY <2>1, <2>3, <2>4, <3>1, <3>2, EndIsSteady
    <3> QED BY <2>3, <2>4, <3>2, <3>3 DEF Becomes, Open
  <2>5. CASE ~Open(a)
    <3>1. UNCHANGED <<intent, reserved>>
      BY <1>2, <2>5 DEF AbortAttached
    <3>2. Dead(a)
      BY <2>1, <2>2, <2>5 DEF Intent, Open, Dead
    <3> HIDE DEF a
    <3>3. Steady /\ Balanced
      BY <2>3, <3>1, <3>2 DEF Steady, Balanced, Dead, Live, Open
    <3> QED BY <2>3, <3>1, <3>3 DEF IntentTypes, TypeOK
  <2> QED BY <2>4, <2>5
<1> QED BY <1>1, <1>2

(* The upload is aborted, by whoever does it.                              *)
LEMMA AbortStep ==
    ASSUME TypeOK, CompletionInv, ~Ended, AbortUpload,
           UNCHANGED <<parts, expired, lapsed, blobs, used>>, putter' \in [Puts -> PutterSteps],
           completer' = completer \/ \E c \in Completers : Goes(c)
    PROVE  /\ Fine /\ Ended'
           /\ \A p \in Puts : Part(p) \in queued' <=> Part(p) \in queued \cup StoredKeys
<1>1. StoredKeys \in SUBSET PartKeys
  BY DEF StoredKeys, PartKeys, Stored, TypeOK
<1>2. /\ upload' \in Upload /\ upload'.state = "aborted" /\ upload'.token = None
      /\ upload'.attached = upload.attached /\ upload'.version = upload.version
      /\ upload.state # "completed"
  BY NoPartsType DEF AbortUpload, Ended, TypeOK, Upload
<1>3. \/ upload.attached = None /\ queued' = queued \cup StoredKeys /\ UNCHANGED <<intent, reserved>>
      \/ upload.attached # None /\ AbortAttached(StoredKeys)
  BY DEF AbortUpload
<1>4. /\ Steady /\ Balanced /\ IntentTypes' /\ queued' \subseteq Keys
      /\ \A e \in Completers : intent[e].state = "none" => intent'[e].state = "none"
      /\ \A p \in Puts : Part(p) \in queued' <=> Part(p) \in queued \cup StoredKeys
  BY <1>1, <1>2, <1>3, GivenUp DEF CompletionInv
<1>5. UploadRow'
  <2>1. upload.attached # None => intent'[upload.attached].state # "none"
    BY <1>4 DEF CompletionInv, UploadRow, Steady, TypeOK, Upload
  <2> QED BY <1>2, <2>1 DEF CompletionInv, UploadRow
<1>6. completer' \in [Completers -> Completer] /\ AttemptsGoOn
  <2>1. CASE completer' = completer
    BY <1>4, <2>1 DEF TypeOK, AttemptsGoOn
  <2>2. ASSUME NEW c \in Completers, Goes(c)
        PROVE  completer' \in [Completers -> Completer] /\ AttemptsGoOn
    BY <1>4, <2>2, GoesOn DEF CompletionInv
  <2> QED BY <2>1, <2>2
<1>7. RowTypes'
  BY <1>2, <1>4, <1>6 DEF TypeOK, RowTypes, Stored
<1> QED BY <1>2, <1>4, <1>5, <1>6, <1>7 DEF Fine, Ended

LEMMA ReleaseStep ==
    ASSUME TypeOK, CompletionInv, NEW c \in Completers, Release(c)
    PROVE  Fine /\ UNCHANGED <<parts, putter, blobs>> /\ (Ended' <=> Ended)
           /\ \A p \in Puts : Part(p) \in queued' <=> Part(p) \in queued
<1>0. Goes(c) /\ UNCHANGED <<parts, putter, expired, lapsed, blobs, used>> /\ blobs \subseteq Keys
  BY AnswerGoes DEF Release, time, TypeOK
<1>1. CASE OwnsClaim(c) /\ AttachedIsOwn(c)
  <2>1. /\ upload' \in Upload /\ upload'.state = "pending" /\ upload'.token = None
        /\ upload'.attached = None /\ upload'.version = upload.version
        /\ upload.state = "completing"
    <3>1. upload' = [upload EXCEPT !.state = "pending", !.token = None,
                                   !.manifest = NoParts, !.attached = None]
      BY <1>1 DEF Release
    <3>2. upload \in Upload /\ upload.state = "completing" /\ NoParts \in Partial(Tags)
      BY <1>1, NoPartsType DEF OwnsClaim, TypeOK
    <3> QED BY <3>1, <3>2 DEF Upload
  <2>2. \/ upload.attached = None /\ queued' = queued \cup {} /\ UNCHANGED <<intent, reserved>>
        \/ upload.attached # None /\ AbortAttached({})
    BY <1>1 DEF Release
  <2>3. /\ Steady /\ Balanced /\ IntentTypes' /\ queued' \subseteq Keys
        /\ \A e \in Completers : intent[e].state = "none" => intent'[e].state = "none"
        /\ \A p \in Puts : Part(p) \in queued' <=> Part(p) \in queued \cup {}
    BY <1>0, <2>1, <2>2, GivenUp DEF CompletionInv
  <2>4. UploadRow'
    BY <2>1 DEF CompletionInv, UploadRow
  <2>5. completer' \in [Completers -> Completer] /\ AttemptsGoOn
    BY <1>0, <2>3, GoesOn DEF CompletionInv
  <2>6. RowTypes'
    BY <1>0, <2>1, <2>3, <2>5 DEF TypeOK, RowTypes, Stored
  <2> QED BY <1>0, <2>1, <2>3, <2>4, <2>5, <2>6 DEF Fine, Ended
<1>2. CASE ~(OwnsClaim(c) /\ AttachedIsOwn(c))
  <2>1. UNCHANGED <<upload, parts, putter, intent, time, blobs, queued, ledger>>
    BY <1>2 DEF Release, ledger
  <2>2. Fine
    BY <1>0, <2>1, QuietAttempt
  <2> QED BY <2>1, <2>2 DEF Ended
<1> QED BY <1>1, <1>2

(* The intent of one attempt is given up, by its handler or by the reaper. *)
LEMMA EndStep ==
    ASSUME TypeOK, CompletionInv, NEW d \in Completers, NEW state \in {"aborted", "expired"},
           Open(d), Becomes(d, state), reserved' = reserved - Bytes(intent[d].sources),
           queued' = queued \cup {Temporary(d), Final(d)},
           UNCHANGED <<upload, parts, putter, expired, lapsed, blobs, used>>,
           completer' = completer \/ \E c \in Completers : Goes(c)
    PROVE  Fine /\ \A p \in Puts : Part(p) \in queued' <=> Part(p) \in queued
<1>1. /\ queued \subseteq queued' /\ queued' \subseteq Keys
      /\ \A e \in Completers : Final(e) \in queued' => Final(e) \in queued \/ e = d
      /\ \A p \in Puts : Part(p) \in queued' <=> Part(p) \in queued
  BY KeysDiffer DEF TypeOK
<1>2. Steady /\ Balanced
  BY <1>1, EndIsSteady
<1>3. \A e \in Completers : intent[e].state = "none" => intent'[e].state = "none"
  BY DEF Becomes, Open
<1>4. completer' \in [Completers -> Completer] /\ AttemptsGoOn
  <2>1. CASE completer' = completer
    BY <1>3, <2>1 DEF TypeOK, AttemptsGoOn
  <2>2. ASSUME NEW c \in Completers, Goes(c)
        PROVE  completer' \in [Completers -> Completer] /\ AttemptsGoOn
    BY <1>2, <1>3, <2>2, GoesOn DEF CompletionInv
  <2> QED BY <2>1, <2>2
<1>5. UploadRow'
  BY <1>2, RowStays DEF CompletionInv
<1>6. RowTypes'
  BY <1>1, <1>4 DEF TypeOK, RowTypes, Becomes, Stored
<1> QED BY <1>1, <1>2, <1>4, <1>5, <1>6 DEF Fine

(* The commit: the only step that makes a version.                         *)
LEMMA CommitStep ==
    ASSUME TypeOK, CompletionInv, LedgerExact, NEW c \in Completers, NEW heard \in BOOLEAN,
           Commit(c, heard)
    PROVE  /\ TypeOK' /\ CompletionInv' /\ LedgerExact' /\ ~Ended /\ Ended'
           /\ UNCHANGED <<parts, putter, blobs>>
           /\ \A p \in Puts : Part(p) \in queued' <=> Part(p) \in queued \cup StoredKeys
<1> DEFINE d == Using(c)
<1>1. d \in Completers /\ d # None /\ AttemptsRely /\ UNCHANGED <<parts, putter, expired, lapsed, blobs>>
  BY UsingType DEF Commit, Unbound, CompletionInv, time
<1>2. /\ intent[d].state = "committing" /\ upload.state = "completing"
      /\ queued' = queued \cup StoredKeys \cup {Temporary(d)}
      /\ reserved' = reserved - Bytes(intent[d].sources)
      /\ used' = used + Bytes(intent[d].sources)
  BY DEF Commit, CommitAllowed
<1>3. Becomes(d, "committed")
  <2>1. intent' = [intent EXCEPT ![d] = [@ EXCEPT !.state = "committed", !.token = None]]
    BY DEF Commit
  <2> HIDE DEF d
  <2> QED BY <1>1, <2>1, IntentRow DEF IntentStates
<1>4. /\ upload' \in Upload /\ upload'.state = "completed" /\ upload'.version = d
      /\ upload'.token = None /\ upload'.manifest = upload.manifest
      /\ upload'.attached = upload.attached
  <2>1. upload' = [upload EXCEPT !.state = "completed", !.token = None, !.version = d]
    BY DEF Commit, CompletedRow
  <2> HIDE DEF d
  <2> QED BY <1>1, <2>1 DEF TypeOK, Upload
<1>5. \E step \in {"acknowledged", "refused"} : Answers(c, step)
  BY AnswerRow DEF Commit, CompleterSteps
<1>6. /\ queued \subseteq queued' /\ queued' \subseteq Keys
      /\ \A e \in Completers : Final(e) \in queued' => Final(e) \in queued
      /\ \A p \in Puts : Part(p) \in queued' <=> Part(p) \in queued \cup StoredKeys
  <2>1. StoredKeys \subseteq PartKeys
    BY DEF StoredKeys, PartKeys, Stored, TypeOK
  <2> HIDE DEF d
  <2> QED BY <1>1, <1>2, <2>1, KeysDiffer DEF TypeOK, PartKeys
<1>7. upload.version = None /\ \A e \in Completers : intent[e].state # "committed"
  BY <1>2 DEF CompletionInv, UploadRow, OneVersion
<1>8. Final(d) \in blobs /\ Final(d) \notin queued
  BY <1>1, <1>2 DEF Commit, CompletionInv, AttemptsRely, Relies, QueuedIsDead, Dead
<1>9. InOrder(upload.manifest) = EntityTag(intent[d].sources)
  <2>1. Valid(upload.manifest) /\ upload.manifest \in Partial(Tags)
    BY <1>2 DEF CompletionInv, UploadRow, TypeOK, Upload
  <2>2. EntityTag(Selected(upload.manifest)) = InOrder(upload.manifest)
    BY <2>1, SelectedParts
  <2>3. /\ EntityTag(Selected(upload.manifest)) = EntityTag(Sources(c))
        /\ EntityTag(intent[d].sources) = EntityTag(Sources(c))
    BY <1>1 DEF Commit, FactsHold, AttemptsRely, Relies
  <2> QED BY <2>2, <2>3
<1> HIDE DEF d
<1>10. UploadRow'
  BY <1>1, <1>3, <1>4 DEF Becomes, CompletionInv, UploadRow, TypeOK, Upload
<1>11. ASSUME NEW e \in Completers PROVE Relies(e)'
  <2>1. CASE e = c
    BY <1>4, <1>5, <2>1 DEF Answers, Relies, Using, Unbound
  <2>2. CASE e # c
    <3>1. /\ completer'[e] = completer[e] /\ Relies(e) /\ Using(e)' = Using(e)
          /\ Sources(e)' = Sources(e) /\ Using(e) \in Completers \cup {None}
      BY <1>1, <1>5, <2>2 DEF Answers, AttemptsRely, Using, Sources, TypeOK, Completer
    <3>2. \A x \in Completers : /\ intent'[x].sources = intent[x].sources
                                /\ intent'[x].state = "none" <=> intent[x].state = "none"
      BY <1>2, <1>3 DEF Becomes
    <3>3. /\ Using(e) # None => intent'[Using(e)].state # "none"
          /\ Using(e) # None => intent'[Using(e)].sources = intent[Using(e)].sources
          /\ intent[e].state = "none" => intent'[e].state = "none"
          /\ Final(Using(e)) \in blobs \cup queued => Final(Using(e)) \in blobs' \cup queued'
      BY <1>1, <1>6, <3>1, <3>2 DEF Relies
    <3> QED BY <1>4, <3>1, <3>3 DEF Relies, Unbound
  <2> QED BY <2>1, <2>2
<1>12. QueuedIsDead'
  BY <1>3, <1>6, <1>8 DEF Becomes, CompletionInv, QueuedIsDead, Dead
<1>13. OneVersion'
  <2>1. ASSUME NEW e \in Completers
        PROVE  /\ intent'[e].state = "committed" <=> upload'.state = "completed" /\ upload'.version = e
               /\ completer'[e].step = "acknowledged" => upload'.state = "completed"
    BY <1>3, <1>4, <1>7 DEF Becomes
  <2> QED BY <2>1 DEF OneVersion
<1>14. CompletedIsWhole'
  <2>1. intent'[d].sources = intent[d].sources
    BY <1>3 DEF Becomes
  <2> QED BY <1>1, <1>4, <1>8, <1>9, <2>1 DEF CompletedIsWhole, EntityTag
<1>15. LedgerExact'
  <2>1. IntentTypes /\ IntentTypes' /\ reserved = SumOver(Sized, Live)
    BY <1>3 DEF Becomes, IntentTypes, TypeOK, LedgerExact, Sized, Live
  <2>2. Balanced
    <3>1. d \in Live /\ Live' = Live \ {d}
      BY <1>1, <1>2, <1>3 DEF Becomes, Live, Open
    <3> QED BY <1>2, <3>1 DEF Balanced
  <2>3. \A e \in Completers : intent'[e].sources = intent[e].sources
    BY <1>3 DEF Becomes
  <2>4. reserved' = SumOver(Sized', Live')
    BY <2>1, <2>2, <2>3, ReservedStep DEF Live
  <2>5. used' = Bytes(intent'[d].sources)
    <3>1. used = 0
      BY <1>7 DEF LedgerExact
    <3>2. Bytes(intent[d].sources) \in Nat
      BY <1>1, <2>1, BytesType DEF IntentTypes, Intent
    <3> QED BY <1>1, <1>2, <2>3, <3>1, <3>2
  <2> QED BY <1>1, <1>4, <2>4, <2>5 DEF LedgerExact, Sized, Live
<1>16. RowTypes'
  BY <1>1, <1>3, <1>4, <1>5, <1>6 DEF TypeOK, RowTypes, Becomes, Answers, Stored
<1>17. TypeOK'
  <2>1. (IntentTypes /\ upload \in Upload /\ LedgerExact)'
    BY <1>15, <1>16 DEF RowTypes
  <2>2. (reserved \in Nat /\ used \in Nat)'
    BY <2>1, LedgerTypes, PTL
  <2> QED BY <1>16, <2>2 DEF RowTypes, IntentTypes, TypeOK
<1>18. ~Ended /\ Ended'
  BY <1>2, <1>4 DEF Ended
<1> QED BY <1>1, <1>6, <1>10, <1>11, <1>12, <1>13, <1>14, <1>15, <1>17, <1>18
        DEF CompletionInv, AttemptsRely

-----------------------------------------------------------------------------
(* The parts                                                               *)

(* A step that leaves the rows alone.                                      *)
LEMMA PartsStay ==
    ASSUME TypeOK, PartsInv, UNCHANGED <<parts, putter>>, Ended' <=> Ended,
           \A p \in Puts : /\ Part(p) \in queued' <=> Part(p) \in queued
                           /\ Part(p) \in blobs => Part(p) \in blobs' \cup queued
    PROVE  PartsInv'
<1>1. Stored' = Stored /\ \A n \in Stored : parts[n] \in Puts
  BY DEF Stored, TypeOK
<1>2. UnstoredIsSafe' /\ RowsNotQueued'
  BY <1>1 DEF PartsInv, UnstoredIsSafe, RowsNotQueued
<1>3. AcknowledgedPartsKept'
  BY <1>1 DEF PartsInv, RowsNotQueued, AcknowledgedPartsKept
<1> QED BY <1>2, <1>3 DEF PartsInv

(* The end of the upload hands every part to the GC.                       *)
LEMMA PartsEnd ==
    ASSUME TypeOK, PartsInv, UNCHANGED <<parts, blobs>>, Ended',
           \A p \in Puts : Part(p) \in queued' <=> Part(p) \in queued \cup StoredKeys,
           \A p \in Puts : \/ putter'[p] = putter[p]
                           \/ putter[p] = "streamed" /\ putter'[p] = "discarding"
    PROVE  PartsInv'
<1>1. Stored' = Stored /\ \A n \in Stored : parts[n] \in Puts
  BY DEF Stored, TypeOK
<1>2. ASSUME NEW p \in Puts
      PROVE  Part(p) \in StoredKeys <=> \E n \in Stored : parts[n] = p
  BY KeysDiffer DEF StoredKeys
<1>3. UnstoredIsSafe'
  BY <1>1, <1>2 DEF PartsInv, UnstoredIsSafe
<1>4. RowsNotQueued'
  BY DEF RowsNotQueued
<1>5. ASSUME NEW p \in Puts, putter'[p] = "acknowledged"
      PROVE  Part(p) \in queued'
  <2>1. putter[p] = "acknowledged"
    BY <1>5
  <2>2. parts[PartNumber[p]] = p => PartNumber[p] \in Stored
    BY PartAssumption, NoneAssumption DEF Stored, Numbers
  <2> QED BY <1>2, <2>1, <2>2 DEF PartsInv, AcknowledgedPartsKept
<1>6. AcknowledgedPartsKept'
  BY <1>5 DEF AcknowledgedPartsKept
<1> QED BY <1>3, <1>4, <1>6 DEF PartsInv

(* A step that no completion attempt and no intent notices.                *)
LEMMA OutsideStep ==
    ASSUME TypeOK, CompletionInv, UNCHANGED <<upload, completer, intent, reserved, used>>,
           parts' = parts \/ upload.state # "completing",
           parts' \in [Numbers -> Puts \cup {None}], (\A n \in Stored : PartNumber[parts[n]] = n)',
           putter' \in [Puts -> PutterSteps], expired' \in BOOLEAN, lapsed' \subseteq Completers,
           blobs' \subseteq Keys, queued' \subseteq Keys, queued \subseteq queued',
           \A d \in Completers : /\ Final(d) \in blobs => Final(d) \in blobs' \cup queued
                                 /\ Final(d) \in queued' => Final(d) \in queued
    PROVE  Fine
<1>1. Steady /\ Balanced
  BY QuietIsSteady
<1>2. UploadRow'
  BY <1>1, RowStays DEF CompletionInv
<1>3. AttemptsGoOn
  BY DEF AttemptsGoOn
<1>4. RowTypes'
  BY DEF TypeOK, RowTypes, IntentTypes
<1> QED BY <1>1, <1>2, <1>3, <1>4 DEF Fine

LEMMA StoreStep ==
    ASSUME TypeOK, CompletionInv, PartsInv, NEW p \in Puts, NEW heard \in BOOLEAN,
           StorePart(p, heard)
    PROVE  Fine /\ PartsInv'
<1> DEFINE n == PartNumber[p]
           old == parts[n]
<1>1. /\ UNCHANGED <<upload, completer, intent, expired, lapsed, blobs, reserved, used>>
      /\ putter[p] = "streamed" /\ upload.state = "pending"
      /\ parts' = [parts EXCEPT ![n] = p] /\ queued' = queued \cup Replaced(p)
      /\ putter' = [putter EXCEPT ![p] = IF heard THEN "acknowledged" ELSE "discarding"]
  BY DEF StorePart, PutGoto, time, ledger
<1>2. n \in Numbers /\ old \in Puts \cup {None} /\ p # None
  BY PartAssumption, NoneAssumption DEF Numbers, TypeOK
<1>3. old # p
  BY <1>1, <1>2 DEF PartsInv, UnstoredIsSafe, Stored
<1>4. /\ parts' \in [Numbers -> Puts \cup {None}] /\ Stored' = Stored \cup {n}
      /\ parts'[n] = p /\ \A m \in Numbers \ {n} : parts'[m] = parts[m]
  BY <1>1, <1>2 DEF TypeOK, Stored
<1>5. /\ putter' \in [Puts -> PutterSteps] /\ putter'[p] \in {"acknowledged", "discarding"}
      /\ \A q \in Puts \ {p} : putter'[q] = putter[q]
  BY <1>1 DEF TypeOK, PutterSteps
<1>6. /\ \A q \in Puts : Part(q) \in queued' <=> Part(q) \in queued \/ q = old
      /\ \A c \in Completers : Final(c) \in queued' => Final(c) \in queued
      /\ queued \subseteq queued' /\ queued' \subseteq Keys
  <2>1. Replaced(p) = {Part(q) : q \in {old} \ {None, p}}
    BY DEF Replaced
  <2> HIDE DEF old
  <2> QED BY <1>1, <1>2, <1>3, <2>1, KeysDiffer, NoneAssumption DEF TypeOK
<1>7. \A m \in Numbers : parts[m] = p => FALSE
  BY <1>1, <1>2 DEF PartsInv, UnstoredIsSafe, Stored
<1>8. old # None => n \in Stored /\ putter[old] \notin {"start", "streamed"}
  BY <1>2 DEF PartsInv, UnstoredIsSafe, Stored
<1> HIDE DEF old
<1>9. \A m \in Stored' : PartNumber[parts'[m]] = m
  BY <1>2, <1>4 DEF TypeOK, Stored
<1>10. \A m \in Stored \ {n} : parts[m] # old /\ parts[m] # p /\ parts[m] \in Puts
  BY <1>7, <1>2 DEF TypeOK, Stored, old
<1>11. \A m \in Stored' :
         \/ m = n /\ parts'[m] = p
         \/ m \in Stored \ {n} /\ parts'[m] = parts[m]
  BY <1>4 DEF Stored
<1>12. UnstoredIsSafe'
  <2>1. ASSUME NEW m \in Stored' PROVE putter'[parts'[m]] \notin {"start", "streamed"}
    BY <1>11, <1>5, <1>10 DEF PartsInv, UnstoredIsSafe
  <2>2. ASSUME NEW q \in Puts
        PROVE  /\ putter'[q] \in {"start", "streamed"} => Part(q) \notin queued'
               /\ putter'[q] = "streamed" => Part(q) \in blobs'
    BY <1>1, <1>5, <1>6, <1>8, NoneAssumption DEF PartsInv, UnstoredIsSafe
  <2> QED BY <2>1, <2>2 DEF UnstoredIsSafe
<1>13. Part(p) \in blobs /\ Part(p) \notin queued /\ Part(p) \notin queued'
  BY <1>1, <1>3, <1>6 DEF PartsInv, UnstoredIsSafe
<1>14. ~Ended /\ ~Ended'
  BY <1>1 DEF Ended
<1>15. RowsNotQueued'
  <2>1. ASSUME NEW m \in Stored', putter'[parts'[m]] = "acknowledged"
        PROVE  Part(parts'[m]) \notin queued'
    <3>1. CASE m = n /\ parts'[m] = p
      BY <1>13, <3>1
    <3>2. CASE m \in Stored \ {n} /\ parts'[m] = parts[m]
      BY <1>5, <1>6, <1>10, <1>14, <2>1, <3>2 DEF PartsInv, RowsNotQueued
    <3> QED BY <1>11, <3>1, <3>2
  <2> QED BY <2>1 DEF RowsNotQueued
<1>16. AcknowledgedPartsKept'
  <2>1. ASSUME NEW m \in Stored', putter'[parts'[m]] = "acknowledged"
        PROVE  Part(parts'[m]) \in blobs'
    BY <1>1, <1>4, <1>5, <1>10, <1>13, <1>14, <2>1 DEF PartsInv, AcknowledgedPartsKept
  <2>2. ASSUME NEW q \in Puts, putter'[q] = "acknowledged"
        PROVE  Part(q) \in queued' \/ (~Ended' /\ parts'[PartNumber[q]] = q)
    <3>1. CASE q = p
      BY <1>4, <1>14, <3>1
    <3>2. CASE q # p
      <4>1. Part(q) \in queued \/ parts[PartNumber[q]] = q
        BY <1>5, <2>2, <3>2 DEF PartsInv, AcknowledgedPartsKept
      <4>2. PartNumber[q] \in Numbers
        BY PartAssumption DEF Numbers
      <4> QED BY <1>4, <1>6, <1>14, <4>1, <4>2 DEF old
    <3> QED BY <3>1, <3>2
  <2> QED BY <2>1, <2>2 DEF AcknowledgedPartsKept
<1>17. Fine
  <2>1. blobs' \subseteq Keys /\ expired' \in BOOLEAN /\ lapsed' \subseteq Completers
    BY <1>1 DEF TypeOK
  <2> QED BY <1>1, <1>4, <1>5, <1>6, <1>9, <2>1, OutsideStep
<1> QED BY <1>12, <1>15, <1>16, <1>17 DEF PartsInv

(* The other steps of one UploadPart handler.                              *)
LEMMA PutterMoves ==
    ASSUME TypeOK, CompletionInv, PartsInv, NEW p \in Puts, NEW step \in PutterSteps,
           step \notin {"start", "acknowledged"}, putter[p] \in {"start", "streamed", "discarding"},
           putter' = [putter EXCEPT ![p] = step],
           UNCHANGED <<upload, parts, completer, intent, time, ledger>>,
           \/ blobs' \in {blobs, blobs \ {Part(p)}} /\ step # "streamed" /\ putter[p] = "streamed"
           \/ blobs' = blobs /\ step # "streamed"
           \/ blobs' = blobs \cup {Part(p)} /\ step = "streamed" /\ putter[p] = "start",
           queued' = queued \/ (queued' = queued \cup {Part(p)} /\ putter[p] = "discarding")
    PROVE  Fine /\ PartsInv'
<1>1. UNCHANGED <<upload, parts, completer, intent, expired, lapsed, reserved, used>>
  BY DEF time, ledger
<1>2. /\ blobs' \subseteq Keys /\ queued' \subseteq Keys /\ queued \subseteq queued'
      /\ \A d \in Completers : /\ Final(d) \in blobs => Final(d) \in blobs'
                               /\ Final(d) \in queued' => Final(d) \in queued
      /\ \A q \in Puts \ {p} : /\ Part(q) \in blobs => Part(q) \in blobs'
                               /\ Part(q) \in queued' => Part(q) \in queued
  BY KeysDiffer DEF TypeOK
<1>3. /\ putter' \in [Puts -> PutterSteps] /\ putter'[p] = step
      /\ \A q \in Puts \ {p} : putter'[q] = putter[q]
  BY DEF TypeOK
<1>4. Fine
  <2>1. parts' \in [Numbers -> Puts \cup {None}] /\ (\A n \in Stored : PartNumber[parts[n]] = n)'
    BY <1>1 DEF TypeOK, Stored
  <2>2. expired' \in BOOLEAN /\ lapsed' \subseteq Completers
    BY <1>1 DEF TypeOK
  <2> QED BY <1>1, <1>2, <1>3, <2>1, <2>2, OutsideStep
<1>5. /\ Stored' = Stored /\ (Ended' <=> Ended)
      /\ \A n \in Stored : parts'[n] = parts[n] /\ parts[n] \in Puts
  BY <1>1 DEF Stored, TypeOK, Ended
<1>6. step = "streamed" => /\ Part(p) \in blobs' /\ Part(p) \notin queued'
                           /\ \A n \in Stored : parts[n] # p
  BY DEF PartsInv, UnstoredIsSafe
<1>7. UnstoredIsSafe'
  <2>1. ASSUME NEW n \in Stored' PROVE putter'[parts'[n]] \notin {"start", "streamed"}
    BY <1>3, <1>5, <1>6 DEF PartsInv, UnstoredIsSafe
  <2>2. ASSUME NEW q \in Puts
        PROVE  /\ putter'[q] \in {"start", "streamed"} => Part(q) \notin queued'
               /\ putter'[q] = "streamed" => Part(q) \in blobs'
    BY <1>2, <1>3, <1>6 DEF PartsInv, UnstoredIsSafe
  <2> QED BY <2>1, <2>2 DEF UnstoredIsSafe
<1>8. \A q \in Puts : putter'[q] = "acknowledged" => q # p /\ putter[q] = "acknowledged"
  BY <1>3
<1>9. RowsNotQueued'
  BY <1>2, <1>5, <1>8 DEF PartsInv, RowsNotQueued
<1>10. AcknowledgedPartsKept'
  BY <1>1, <1>2, <1>5, <1>8 DEF PartsInv, AcknowledgedPartsKept
<1> QED BY <1>4, <1>7, <1>9, <1>10 DEF PartsInv

LEMMA PutterKeeps ==
    ASSUME TypeOK, CompletionInv, PartsInv, NEW p \in Puts, PutterStep(p)
    PROVE  Fine /\ PartsInv'
<1>1. ASSUME StreamPart(p) PROVE Fine /\ PartsInv'
  BY <1>1, PutterMoves DEF StreamPart, PutGoto, PutterSteps
<1>2. ASSUME RefusePart(p) PROVE Fine /\ PartsInv'
  BY <1>2, PutterMoves DEF RefusePart, PutGoto, PutterSteps, storeVars
<1>3. ASSUME DiscardPart(p) PROVE Fine /\ PartsInv'
  BY <1>3, PutterMoves DEF DiscardPart, PutGoto, PutterSteps
<1>4. ASSUME CrashPutter(p) PROVE Fine /\ PartsInv'
  BY <1>4, PutterMoves DEF CrashPutter, PutGoto, PutterSteps, storeVars
<1>5. ASSUME NEW deleted \in BOOLEAN, RejectPart(p, deleted) PROVE Fine /\ PartsInv'
  BY <1>5, PutterMoves DEF RejectPart, PutGoto, PutterSteps
<1>6. ASSUME ExpireByPart(p) PROVE Fine /\ PartsInv'
  <2>1. /\ ~Ended /\ AbortUpload /\ UNCHANGED <<parts, completer, expired, lapsed, blobs, used>>
        /\ putter[p] = "streamed" /\ putter' = [putter EXCEPT ![p] = "discarding"]
    BY <1>6 DEF ExpireByPart, Ended, PutGoto, time
  <2>2. /\ putter' \in [Puts -> PutterSteps]
        /\ \A q \in Puts : \/ putter'[q] = putter[q]
                           \/ putter[q] = "streamed" /\ putter'[q] = "discarding"
    BY <2>1 DEF TypeOK, PutterSteps
  <2> QED BY <2>1, <2>2, AbortStep, PartsEnd
<1> QED BY <1>1, <1>2, <1>3, <1>4, <1>5, <1>6, StoreStep DEF PutterStep

LEMMA FineParts ==
    ASSUME TypeOK, PartsInv, CompletionInv, UNCHANGED <<upload, parts, putter, queued>>,
           \A p \in Puts : Part(p) \in blobs => Part(p) \in blobs'
    PROVE  PartsInv'
BY PartsStay DEF Ended

(* Every step of a completion attempt.                                     *)
LEMMA CompleterKeeps ==
    ASSUME TypeOK, CompletionInv, PartsInv, LedgerExact, NEW c \in Completers, CompleterStep(c)
    PROVE  TypeOK' /\ CompletionInv' /\ PartsInv' /\ LedgerExact'
<1>1. ASSUME Fine, PartsInv'
      PROVE  TypeOK' /\ CompletionInv' /\ PartsInv' /\ LedgerExact'
  BY <1>1, FineTypes, FineKeeps
<1>2. ASSUME UNCHANGED <<parts, putter, blobs, queued>>, upload'.state = upload.state
      PROVE  PartsInv'
  BY <1>2, PartsStay DEF Ended
<1>3. ASSUME NEW manifest \in Partial(Tags),
             ClaimCompletion(c, manifest) \/ AnswerClaim(c, manifest)
      PROVE  Fine /\ PartsInv'
  <2>1. UNCHANGED <<parts, putter, blobs, queued>> /\ (Ended' <=> Ended)
    BY <1>3 DEF ClaimCompletion, AnswerClaim, storeVars, Ended, TypeOK, Upload
  <2>2. PartsInv'
    BY <2>1, PartsStay
  <2> QED BY <1>3, <2>2, ClaimStep, QuietSteps
<1>4. ASSUME ExpireByClaim(c) PROVE Fine /\ PartsInv'
  <2>1. /\ ~Ended /\ AbortUpload /\ UNCHANGED <<parts, putter, expired, lapsed, blobs, used>>
        /\ putter \in [Puts -> PutterSteps]
    BY <1>4 DEF ExpireByClaim, time, TypeOK
  <2>2. Goes(c)
    BY <1>4, AnswerGoes DEF ExpireByClaim
  <2> QED BY <2>1, <2>2, AbortStep, PartsEnd
<1>5. ASSUME TakeOver(c) \/ CompleteStaging(c) \/ ClaimIntent(c) \/ PromotionFails(c)
      PROVE  Fine /\ PartsInv'
  <2>1. UNCHANGED <<parts, putter, blobs, queued, upload>>
    BY <1>5 DEF TakeOver, CompleteStaging, ClaimIntent, PromotionFails, storeVars
  <2> QED BY <1>2, <1>5, <2>1, MovingSteps
<1>6. ASSUME BeginPut(c) \/ Prepare(c) \/ Attach(c)
      PROVE  Fine /\ PartsInv'
  <2>1. UNCHANGED <<parts, putter, blobs, queued>> /\ upload'.state = upload.state
    BY <1>6 DEF BeginPut, Prepare, Attach, storeVars, TypeOK, Upload
  <2> QED BY <1>2, <1>6, <2>1, BeginStep, PrepareStep, AttachStep
<1>7. ASSUME RefuseBegin(c) \/ FailStaging(c) \/ ReplayCommit(c) \/ GiveUp(c) \/ CrashCompleter(c)
      PROVE  Fine /\ PartsInv'
  <2>1. UNCHANGED <<parts, putter, blobs, queued, upload>>
    BY <1>7 DEF RefuseBegin, FailStaging, ReplayCommit, GiveUp, CrashCompleter, storeVars
  <2> QED BY <1>2, <1>7, <2>1, QuietSteps
<1>8. ASSUME \/ Compose(c)
             \/ \E cleaned \in BOOLEAN : Promote(c, cleaned)
             \/ \E linked \in BOOLEAN : PromotionUncertain(c, linked)
      PROVE  Fine /\ PartsInv'
  <2>1. UNCHANGED <<parts, putter, queued, upload>>
    BY <1>8 DEF Compose, Promote, PromotionUncertain
  <2>2. \A p \in Puts : Part(p) \in blobs => Part(p) \in blobs'
    BY <1>8, KeysDiffer DEF Compose, Promote, PromotionUncertain
  <2> QED BY <1>8, <2>1, <2>2, FineParts, QuietSteps
<1>9. ASSUME AbortStaged(c) PROVE Fine /\ PartsInv'
  <2>1. UNCHANGED <<upload, parts, putter, expired, lapsed, blobs, used>>
    BY <1>9 DEF AbortStaged, time
  <2>2. Goes(c)
    BY <1>9, GotoGoes DEF AbortStaged, CompleterSteps, Unbound
  <2>3. CASE intent[c].state \in {"staging", "ready"}
    <3>1. Open(c) /\ Becomes(c, "aborted")
      BY <1>9, <2>3, IntentState DEF AbortStaged, Open, IntentStates
    <3>2. /\ queued' = queued \cup {Temporary(c), Final(c)}
          /\ reserved' = reserved - Bytes(intent[c].sources)
      BY <1>9, <2>3 DEF AbortStaged
    <3>3. Fine /\ \A p \in Puts : Part(p) \in queued' <=> Part(p) \in queued
      BY <2>1, <2>2, <3>1, <3>2, EndStep
    <3> QED BY <2>1, <3>3, PartsStay DEF Ended
  <2>4. CASE intent[c].state \notin {"staging", "ready"}
    <3>1. UNCHANGED <<upload, parts, putter, intent, time, queued, ledger>> /\ blobs \subseteq Keys
      BY <1>9, <2>4 DEF AbortStaged, ledger, TypeOK
    <3> QED BY <1>2, <2>1, <2>2, <3>1, QuietAttempt
  <2> QED BY <2>3, <2>4
<1>10. ASSUME Release(c) PROVE Fine /\ PartsInv'
  BY <1>10, ReleaseStep, PartsStay
<1>11. ASSUME NEW heard \in BOOLEAN, Commit(c, heard)
       PROVE  TypeOK' /\ CompletionInv' /\ PartsInv' /\ LedgerExact'
  BY <1>11, CommitStep, PartsEnd
<1> QED BY <1>1, <1>3, <1>4, <1>5, <1>6, <1>7, <1>8, <1>9, <1>10, <1>11 DEF CompleterStep

LEMMA InvariantStep ==
    ASSUME MultipartInv, [Next]_vars
    PROVE  MultipartInv'
<1>0. TypeOK /\ CompletionInv /\ PartsInv /\ LedgerExact
  BY DEF MultipartInv
<1>1. ASSUME Fine, PartsInv' PROVE MultipartInv'
  BY <1>0, <1>1, FineTypes, FineKeeps DEF MultipartInv
<1>2. ASSUME NEW p \in Puts, PutterStep(p) PROVE MultipartInv'
  BY <1>0, <1>1, <1>2, PutterKeeps
<1>3. ASSUME NEW c \in Completers, CompleterStep(c) PROVE MultipartInv'
  BY <1>0, <1>3, CompleterKeeps DEF MultipartInv
<1>4. ASSUME NEW c \in Completers, ExpireIntent(c) PROVE MultipartInv'
  <2>1. /\ Open(c) /\ queued' = queued \cup {Temporary(c), Final(c)}
        /\ reserved' = reserved - Bytes(intent[c].sources)
        /\ UNCHANGED <<upload, parts, putter, completer, expired, lapsed, blobs, used>>
    BY <1>4 DEF ExpireIntent, Open, time
  <2>2. Becomes(c, "expired")
    BY <1>0, <1>4, IntentRow DEF ExpireIntent, IntentStates
  <2>3. Fine /\ \A p \in Puts : Part(p) \in queued' <=> Part(p) \in queued
    BY <1>0, <2>1, <2>2, EndStep
  <2>4. PartsInv'
    BY <1>0, <2>1, <2>3, PartsStay DEF Ended
  <2> QED BY <1>1, <2>3, <2>4
<1>5. ASSUME Abort \/ Expire \/ LifecycleAbort PROVE MultipartInv'
  <2>1. /\ ~Ended /\ AbortUpload
        /\ UNCHANGED <<parts, putter, completer, expired, lapsed, blobs, used>>
        /\ putter \in [Puts -> PutterSteps]
    BY <1>0, <1>5 DEF Abort, Expire, Expirable, LifecycleAbort, Ended, time, TypeOK
  <2>2. Fine /\ PartsInv'
    BY <1>0, <2>1, AbortStep, PartsEnd
  <2> QED BY <1>1, <2>2
<1>6. ASSUME UNCHANGED <<upload, parts, putter, completer, intent, queued, reserved, used>>,
             expired' \in BOOLEAN, lapsed' \subseteq Completers,
             blobs' \subseteq blobs, \A k \in blobs \ queued : k \in blobs'
      PROVE  MultipartInv'
  <2>1. /\ parts' \in [Numbers -> Puts \cup {None}] /\ putter' \in [Puts -> PutterSteps]
        /\ (\A n \in Stored : PartNumber[parts[n]] = n)'
        /\ blobs' \subseteq Keys /\ queued' \subseteq Keys
    BY <1>0, <1>6 DEF TypeOK, Stored
  <2>2. Fine
    BY <1>0, <1>6, <2>1, OutsideStep
  <2>3. PartsInv'
    BY <1>0, <1>6, PartsStay DEF Ended
  <2> QED BY <1>1, <2>2, <2>3
<1>7. ASSUME NEW c \in Completers, LeaseEnds(c) PROVE MultipartInv'
  BY <1>0, <1>6, <1>7 DEF LeaseEnds, storeVars, ledger, TypeOK
<1>8. ASSUME DeadlinePasses PROVE MultipartInv'
  BY <1>0, <1>6, <1>8 DEF DeadlinePasses, storeVars, ledger, TypeOK
<1>9. ASSUME NEW k \in Keys, Sweep(k) PROVE MultipartInv'
  BY <1>0, <1>6, <1>9 DEF Sweep, time, ledger, TypeOK
<1>10. CASE UNCHANGED vars
  BY <1>0, <1>6, <1>10 DEF vars, time, storeVars, ledger, TypeOK
<1> QED BY <1>2, <1>3, <1>4, <1>5, <1>7, <1>8, <1>9, <1>10 DEF Next

-----------------------------------------------------------------------------
(* The inductive invariant of one multipart upload: types, what the parts  *)
(* and the completion attempts rely on, and the ledger.                    *)
THEOREM MultipartInvariant == Spec => []MultipartInv
<1>1. Init => MultipartInv
  <2> SUFFICES ASSUME Init PROVE MultipartInv
    OBVIOUS
  <2>1. IdleCompleter \in Completer /\ IdleCompleter.step = "start" /\ IdleCompleter.using = None
    BY NoPartsType DEF IdleCompleter, Completer, CompleterSteps
  <2>2. [state |-> "none", token |-> None, sources |-> NoParts] \in Intent
    BY NoPartsType DEF Intent
  <2>3. upload \in Upload /\ upload.state = "pending" /\ upload.token = None
        /\ upload.attached = None /\ upload.version = None
    BY NoPartsType DEF Init, Upload
  <2>4. Stored = {}
    BY DEF Init, Stored
  <2>5. TypeOK
    BY <2>1, <2>2, <2>3, <2>4 DEF Init, TypeOK, PutterSteps
  <2>6. PartsInv
    BY <2>4 DEF Init, PartsInv, UnstoredIsSafe, RowsNotQueued, AcknowledgedPartsKept
  <2>7. ASSUME NEW c \in Completers
        PROVE  completer[c].step = "start" /\ Using(c) = None /\ intent[c].state = "none"
    BY <2>1 DEF Init, Using
  <2>8. CompletionInv
    BY <2>3, <2>7 DEF Init, CompletionInv, UploadRow, AttemptsRely, Relies, QueuedIsDead,
                      OneVersion, CompletedIsWhole, Unbound
  <2>9. LedgerExact
    <3>1. {c \in Completers : Open(c)} = {}
      BY <2>7 DEF Open
    <3>2. SumOver(Sized, {}) = 0
      <4>1. IntentTypes
        BY <2>5 DEF TypeOK, IntentTypes
      <4> QED BY <4>1, SizedType, SumChanges, PartAssumption
    <3> QED BY <2>3, <3>1, <3>2 DEF Init, LedgerExact, Sized
  <2> QED BY <2>5, <2>6, <2>8, <2>9 DEF MultipartInv
<1>2. MultipartInv /\ [Next]_vars => MultipartInv'
  BY InvariantStep
<1> QED BY <1>1, <1>2, PTL DEF Spec

(* An acknowledged part can be read until it is replaced or the upload     *)
(* ends, and is never lost from sight of the cleanup.                      *)
THEOREM PartsAreKept == Spec => []AcknowledgedPartsKept
<1>1. MultipartInv => AcknowledgedPartsKept
  BY DEF MultipartInv, PartsInv
<1> QED BY <1>1, MultipartInvariant, PTL

(* commit_multipart_object_version: a completed upload has a stored object *)
(* made of the parts that its manifest names, whichever attempt won.       *)
THEOREM PublishedIsWhole == Spec => []CompletedIsWhole
<1>1. MultipartInv => CompletedIsWhole
  BY DEF MultipartInv, CompletionInv
<1> QED BY <1>1, MultipartInvariant, PTL

(* However many attempts race, an upload publishes one version, and nobody *)
(* is told of success before.                                              *)
THEOREM PublishesOnce == Spec => []OneVersion
<1>1. MultipartInv => OneVersion
  BY DEF MultipartInv, CompletionInv
<1> QED BY <1>1, MultipartInvariant, PTL

(* The ledger counts each open intent and the published version once,      *)
(* whoever takes over, releases, aborts or expires an attempt.             *)
THEOREM MultipartLedgerExact == Spec => []LedgerExact
<1>1. MultipartInv => LedgerExact
  BY DEF MultipartInv
<1> QED BY <1>1, MultipartInvariant, PTL
=============================================================================
