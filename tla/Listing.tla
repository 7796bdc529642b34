------------------------------ MODULE Listing ------------------------------
(***************************************************************************)
(* The paged listings of a bucket: current objects (ListObjectsV2), object *)
(* versions and multipart uploads.  A client walks one listing page by     *)
(* page, with the marker of the page before, while others write and delete.*)
(*                                                                         *)
(* A key is its place in the C collation.  Folder gives the place of the   *)
(* common prefix ("photos/") a key falls under, or the key itself when it  *)
(* holds no delimiter; the key "photos/" itself is left out.  A null       *)
(* version is found by the id "null" whichever version carries it; every   *)
(* other version by an id of its own, here its generation.                 *)
(***************************************************************************)
EXTENDS Naturals, FiniteSets

CONSTANTS
    Keys,        \* object keys, by their place in the order
    Folder,      \* the entry a key is folded into by the delimiter
    UploadIds,   \* multipart upload ids, by their place in the order
    Limits,      \* max-keys, max-uploads
    Starts,      \* keys a walk may start after
    MaxChanges   \* bound: writes and deletions

ASSUME ListingAssumption ==
    /\ Keys \subseteq Nat \ {0} /\ UploadIds \subseteq Nat \ {0} /\ Limits \subseteq Nat
    /\ IsFiniteSet(Keys) /\ IsFiniteSet(UploadIds) /\ Starts \subseteq Keys /\ Limits # {}
    /\ Folder \in [Keys -> Nat \ {0}] /\ MaxChanges \in Nat
    /\ \A k \in Keys : Folder[k] <= k
    /\ \A j, k \in Keys : j < k => Folder[j] <= Folder[k]
    /\ \A k \in Keys : Folder[k] \in Keys => Folder[k] = k

VARIABLES
    history,   \* committed, visible object_versions of each key
    active,    \* s3_multipart_uploads of each key
    changes,   \* writes and deletions so far; the next generation
    walk,      \* the client's walk: query, marker and progress
    seen,      \* rows returned, and how often
    lasting    \* what has been listable ever since the walk began

listingVars == <<history, active, changes, walk, seen, lasting>>

Kinds == {"objects", "versions", "uploads"}

(* prefix 0 is the empty one; any other is a folder                        *)
Query == [kind : Kinds, prefix : {0} \cup ({Folder[k] : k \in Keys} \ Keys),
          delimiter : BOOLEAN, limit : Limits, start : {0} \cup Starts]

ListedVersion == [gen : 1 .. MaxChanges, null : BOOLEAN, deleted : BOOLEAN]

(* A row of a page: the entry; whether it is a common prefix; the          *)
(* generation or the upload id                                             *)
PageRow == [at : Nat, prefix : BOOLEAN, sub : Nat]

(* marker of the row that ended the last page; id 0 stands for none, and   *)
(* for "null" when null holds                                              *)
Marker == [at : Nat, id : Nat, null : BOOLEAN]
Walk == [query : Query, step : {"writing", "asking", "reading", "done", "failed"},
         marker : Marker, generation : Nat]

ListingTypes ==
    /\ history \in [Keys -> SUBSET ListedVersion]
    /\ active \in [Keys -> SUBSET UploadIds]
    /\ changes \in 0 .. MaxChanges
    /\ walk \in Walk
    /\ DOMAIN seen \subseteq PageRow /\ \A r \in DOMAIN seen : seen[r] \in Nat \ {0}
    /\ lasting \subseteq PageRow

NoMarker == [at |-> 0, id |-> 0, null |-> FALSE]

ListingInit ==
    /\ history = [k \in Keys |-> {}]
    /\ active = [k \in Keys |-> {}]
    /\ changes = 0
    /\ \E kind \in Kinds :
           walk = [query |-> [kind |-> kind, prefix |-> 0, delimiter |-> FALSE,
                              limit |-> CHOOSE n \in Limits : TRUE, start |-> 0],
                   step |-> "writing", marker |-> NoMarker, generation |-> 0]
    /\ seen = [r \in {} |-> 0]
    /\ lasting = {}

-----------------------------------------------------------------------------
(* What a query lists *)

(* the version that is current is the newest (ObjectVersions!HeadIsNewest) *)
Newest(k) == CHOOSE v \in history[k] : \A w \in history[k] : w.gen <= v.gen

(* items as rows of a listing without delimiter: current objects that are  *)
(* not delete markers, every committed version, or every active upload     *)
Items(kind) ==
    CASE kind = "objects" ->
            {[at |-> k, prefix |-> FALSE, sub |-> 0] :
                k \in {j \in Keys : history[j] # {} /\ ~Newest(j).deleted}}
      [] kind = "versions" ->
            UNION {{[at |-> k, prefix |-> FALSE, sub |-> v.gen] : v \in history[k]} : k \in Keys}
      [] kind = "uploads" ->
            UNION {{[at |-> k, prefix |-> FALSE, sub |-> u] : u \in active[k]} : k \in Keys}

Matches(q, r) == q.prefix = 0 \/ Folder[r.at] = q.prefix

(* the row an item appears in: itself, or the common prefix it falls under *)
Entry(q, r) ==
    IF q.delimiter /\ q.prefix = 0 /\ Folder[r.at] # r.at
    THEN [at |-> Folder[r.at], prefix |-> TRUE, sub |-> 0] ELSE r

(* ORDER BY entry_key, is_prefix, generation DESC or upload_id             *)
Before(q, r, s) ==
    \/ r.at < s.at
    \/ r.at = s.at /\ IF q.kind = "versions" THEN r.sub > s.sub ELSE r.sub < s.sub

(* Seeded fault: the next page starts at the marker, not after it.         *)
AfterInclusive(q, m, g, r) ==
    \/ r.at > m.at
    \/ r.at = m.at /\ m.at # 0 /\ ~r.prefix

(* the WHERE of the page after marker m, whose version has generation g    *)
After(q, m, g, r) ==
    \/ r.at > m.at
    \/ /\ r.at = m.at /\ ~r.prefix
       /\ \/ q.kind = "versions" /\ (m.null \/ m.id # 0) /\ r.sub < g
          \/ q.kind = "uploads" /\ m.id # 0 /\ r.sub > m.id

Remaining(q, m, g) ==
    {r \in {Entry(q, i) : i \in {i \in Items(q.kind) : Matches(q, i)}} : After(q, m, g, r)}

(* the first rows of an ordered set                                        *)
FirstOf(q, rows, n) == {r \in rows : Cardinality({s \in rows : Before(q, s, r)}) < n}
LastOf(q, rows) == CHOOSE r \in rows : \A s \in rows : s = r \/ Before(q, s, r)

IsNull(r) == \E v \in history[r.at] : v.gen = r.sub /\ v.null

(* what the client will send back                                          *)
MarkerAt(q, r) ==
    [at |-> r.at,
     id |-> IF q.kind = "objects" \/ r.prefix \/ (q.kind = "versions" /\ IsNull(r)) THEN 0
            ELSE r.sub,
     null |-> q.kind = "versions" /\ ~r.prefix /\ IsNull(r)]

-----------------------------------------------------------------------------
(* The walk *)

(* the first request of the walk, with start-after or a key-marker         *)
Start(q) ==
    /\ walk.step = "writing" /\ q.kind = walk.query.kind
    /\ walk' = [walk EXCEPT !.step = "asking", !.query = q,
                             !.marker = [at |-> q.start, id |-> 0, null |-> FALSE]]
    /\ lasting' = {i \in Items(q.kind) : Matches(q, i)}
    /\ UNCHANGED <<history, active, changes, seen>>

(* a listing of versions first looks the marker's generation up, and is    *)
(* refused when that version is no longer there                            *)
FindMarker ==
    /\ walk.step = "asking"
    /\ LET m == walk.marker
           named == IF walk.query.kind = "versions" /\ (m.null \/ m.id # 0)
                    THEN {v \in history[m.at] : IF m.null THEN v.null ELSE v.gen = m.id /\ ~v.null}
                    ELSE {}
       IN IF walk.query.kind # "versions" \/ (~m.null /\ m.id = 0)
          THEN walk' = [walk EXCEPT !.step = "reading"]
          ELSE IF named = {} THEN walk' = [walk EXCEPT !.step = "failed"]
          ELSE \E v \in named : walk' = [walk EXCEPT !.step = "reading", !.generation = v.gen]
    /\ UNCHANGED <<history, active, changes, seen, lasting>>

(* one row more than a page is fetched to learn whether another follows    *)
ReadPage(kind) ==
    /\ walk.step = "reading" /\ walk.query.kind = kind
    /\ LET q == walk.query
           rows == Remaining(q, walk.marker, walk.generation)
           page == FirstOf(q, rows, q.limit)
           fetched == FirstOf(q, rows, q.limit + 1)
       IN /\ seen' = [r \in DOMAIN seen \cup page |->
                        (IF r \in DOMAIN seen THEN seen[r] ELSE 0) + (IF r \in page THEN 1 ELSE 0)]
          /\ walk' = IF q.limit > 0 /\ Cardinality(fetched) > q.limit
                     THEN [walk EXCEPT !.step = "asking", !.marker = MarkerAt(q, LastOf(q, page))]
                     ELSE [walk EXCEPT !.step = "done"]
    /\ UNCHANGED <<history, active, changes, lasting>>

ListObjects == ReadPage("objects")
ListObjectVersions == ReadPage("versions")
ListMultipartUploads == ReadPage("uploads")

(* a continuation token is bound to the bucket, prefix and delimiter it    *)
(* was issued for: with others the request is refused                      *)
ContinueElsewhere ==
    /\ walk.step = "asking" /\ walk.query.kind = "objects" /\ DOMAIN seen # {}
    /\ walk' = [walk EXCEPT !.step = "failed"]
    /\ UNCHANGED <<history, active, changes, seen, lasting>>

-----------------------------------------------------------------------------
(* What others do meanwhile; only what the walk can see is let happen      *)

Change(kinds) ==
    /\ changes < MaxChanges /\ walk.step \notin {"done", "failed"}
    /\ walk.query.kind \in kinds
    /\ changes' = changes + 1
    /\ UNCHANGED <<walk, seen>>

Last(rows) == lasting' = lasting \cap rows

(* a PUT or a DELETE: a new version or delete marker, which replaces the   *)
(* null version when it is a null version itself.  Replacing is lost on    *)
(* the listing of objects, and a marker is a version like any other        *)
CommitVersion(k, null, deleted) ==
    /\ Change({"objects", "versions"})
    /\ null => walk.query.kind = "versions"
    /\ deleted => walk.query.kind = "objects"
    /\ history' = [history EXCEPT ![k] =
         (IF null THEN {v \in @ : ~v.null} ELSE @)
         \cup {[gen |-> changes + 1, null |-> null, deleted |-> deleted]}]
    /\ Last(Items(walk.query.kind)')
    /\ UNCHANGED active

(* a version deleted by its id, or by a lifecycle rule                     *)
DeleteVersion(k, v) ==
    /\ Change({"objects", "versions"})
    /\ v \in history[k]
    /\ history' = [history EXCEPT ![k] = @ \ {v}]
    /\ Last(Items(walk.query.kind)')
    /\ UNCHANGED active

Initiate(k, u) ==
    /\ Change({"uploads"})
    /\ \A j \in Keys : u \notin active[j]
    /\ active' = [active EXCEPT ![k] = @ \cup {u}]
    /\ UNCHANGED <<history, lasting>>

(* completed, aborted or expired                                           *)
UploadEnds(k, u) ==
    /\ Change({"uploads"})
    /\ u \in active[k]
    /\ active' = [active EXCEPT ![k] = @ \ {u}]
    /\ Last(Items(walk.query.kind)')
    /\ UNCHANGED history

-----------------------------------------------------------------------------
ListingNext ==
    \/ \E q \in Query : Start(q)
    \/ FindMarker
    \/ ListObjects \/ ListObjectVersions \/ ListMultipartUploads
    \/ ContinueElsewhere
    \/ \E k \in Keys, null, deleted \in BOOLEAN : CommitVersion(k, null, deleted)
    \/ \E k \in Keys : \E v \in history[k] : DeleteVersion(k, v)
    \/ \E k \in Keys, u \in UploadIds : Initiate(k, u)
    \/ \E k \in Keys, u \in UploadIds : UploadEnds(k, u)

ListingSpec == ListingInit /\ [][ListingNext]_listingVars

-----------------------------------------------------------------------------
(* A walk to the end misses nothing and repeats nothing of what was there  *)
(* all along: whatever others wrote and deleted between its pages, each    *)
(* lasting item behind the start was returned, itself or as its common     *)
(* prefix, and only once.  Only a listing of versions may return one       *)
(* twice, when the null version its marker names was replaced meanwhile.   *)
ListedOnce ==
    walk.step = "done" /\ walk.query.limit > 0 =>
        \A i \in lasting :
            LET q == walk.query
                e == Entry(q, i)
            IN e.at > q.start =>
                 e \in DOMAIN seen /\ (q.kind # "versions" => seen[e] = 1)

=============================================================================
