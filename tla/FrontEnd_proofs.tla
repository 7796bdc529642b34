-------------------------- MODULE FrontEnd_proofs --------------------------
(***************************************************************************)
(* Proofs about the front end, in three parts: the paged listings of       *)
(* Listing; the bucket requests of BucketApi, with the console; and the    *)
(* object requests of ObjectApi, S3 and WebDAV.  Keys, folders, policies,  *)
(* tenants, names and forms are any.  The parts share no state, except     *)
(* that the object requests run among the bucket requests: their invariant *)
(* contains the one of the bucket requests.                                *)
(***************************************************************************)
EXTENDS ObjectApi, Listing, Sums_proofs

-----------------------------------------------------------------------------
(* Pages of an ordered set                                                 *)

(* A row as the queries of one kind return it: a common prefix stands at   *)
(* no key, and only an item has a generation or an upload id.              *)
Shaped(kind, r) ==
    /\ r \in PageRow /\ r.at # 0
    /\ r.prefix <=> r.at \notin Keys
    /\ r.sub = 0 <=> r.prefix \/ kind = "objects"

(* Generations are handed out in order, and a key has one null version.    *)
HistoryWellFormed ==
    /\ \A k \in Keys : \A v \in history[k] : v.gen <= changes
    /\ \A k \in Keys : \A v, w \in history[k] : v.gen = w.gen \/ (v.null /\ w.null) => v = w

(* Only the marker of a version names it; the null version by its name.    *)
MarkerWellFormed ==
    LET m == walk.marker IN
    /\ m.id # 0 \/ m.null => m.at \in Keys /\ walk.query.kind # "objects"
    /\ m.null => walk.query.kind = "versions"

(* Before the walk begins nothing has been returned.                       *)
NotBegun ==
    walk.step = "writing" => /\ DOMAIN seen = {} /\ lasting = {}
                             /\ walk.marker = NoMarker

(* What has been there all along is there.                                 *)
LastingListed ==
    \A i \in lasting : i \in Items(walk.query.kind) /\ Matches(walk.query, i)

(* A row lies ahead of a client that holds marker m, whatever generation   *)
(* the next page finds for it; named are the versions of the marker's key. *)
Coming(q, m, named, e) ==
    \/ e.at > m.at
    \/ /\ e.at = m.at /\ ~e.prefix
       /\ \/ q.kind = "versions" /\ m.null /\ \A v \in named : v.null => e.sub < v.gen
          \/ q.kind = "versions" /\ ~m.null /\ m.id # 0 /\ e.sub < m.id
          \/ q.kind = "uploads" /\ m.id # 0 /\ e.sub > m.id

(* Each lasting item was returned or lies ahead.                           *)
Ahead(e) ==
    CASE walk.step = "asking" -> Coming(walk.query, walk.marker, history[walk.marker.at], e)
      [] walk.step = "reading" -> After(walk.query, walk.marker, walk.generation, e)
      [] OTHER -> walk.step # "done"

NothingMissed ==
    walk.query.limit > 0 =>
        \A i \in lasting :
            LET e == Entry(walk.query, i) IN
            e.at > walk.query.start => e \in DOMAIN seen \/ Ahead(e)

(* What was returned lies behind, and was returned once, but for versions. *)
Behind(r) == walk.step \in {"asking", "reading"} => ~After(walk.query, walk.marker, 0, r)

NothingRepeated ==
    \A r \in DOMAIN seen :
        /\ Shaped(walk.query.kind, r)
        /\ walk.query.kind # "versions" => seen[r] = 1 /\ Behind(r)

ListingInv ==
    /\ ListingTypes
    /\ HistoryWellFormed /\ MarkerWellFormed /\ NotBegun
    /\ LastingListed /\ NothingMissed /\ NothingRepeated

(* The image of a finite set is finite.                                    *)
LEMMA ImageFinite ==
    ASSUME NEW S, IsFiniteSet(S), NEW f
    PROVE  IsFiniteSet({f[x] : x \in S})
<1> DEFINE T == {f[x] : x \in S}
<1>1. [x \in S |-> f[x]] \in Surjection(S, T)
  BY DEF Surjection
<1> HIDE DEF T
<1>2. IsFiniteSet(T)
  BY <1>1, FS_Surjection
<1> QED BY <1>2 DEF T

-----------------------------------------------------------------------------
(* The order of the rows                                                   *)

LEMMA BeforeIsStrict ==
    ASSUME NEW q, NEW r \in PageRow, NEW s \in PageRow, NEW t \in PageRow
    PROVE  /\ ~Before(q, r, r)
           /\ Before(q, r, s) => ~Before(q, s, r)
           /\ Before(q, r, s) /\ Before(q, s, t) => Before(q, r, t)
<1> r.at \in Nat /\ s.at \in Nat /\ t.at \in Nat /\ r.sub \in Nat /\ s.sub \in Nat /\ t.sub \in Nat
  BY DEF PageRow
<1> QED BY DEF Before

LEMMA BeforeIsTotal ==
    ASSUME NEW q, NEW r, NEW s, Shaped(q.kind, r), Shaped(q.kind, s)
    PROVE  r = s \/ Before(q, r, s) \/ Before(q, s, r)
<1>1. r \in PageRow /\ s \in PageRow
  BY DEF Shaped
<1>2. r.at \in Nat /\ s.at \in Nat /\ r.sub \in Nat /\ s.sub \in Nat
  BY <1>1 DEF PageRow
<1>3. CASE r.at = s.at /\ r.sub = s.sub
  <2>1. r.prefix = s.prefix
    BY <1>1, <1>3 DEF Shaped, PageRow
  <2> QED BY <1>1, <1>3, <2>1 DEF PageRow
<1>4. CASE r.at # s.at
  BY <1>2, <1>4 DEF Before
<1>5. CASE r.at = s.at /\ r.sub # s.sub
  BY <1>2, <1>5 DEF Before
<1> QED BY <1>3, <1>4, <1>5

(* A page that is not empty has a first row, and rows left over have one.  *)
LEMMA FirstRow ==
    ASSUME NEW q, NEW rows, IsFiniteSet(rows), rows # {}, rows \subseteq PageRow
    PROVE  \E r \in rows : \A s \in rows : ~Before(q, s, r)
<1> DEFINE pred(r) == {s \in rows : Before(q, s, r)}
<1> DEFINE B == {pred(r) : r \in rows}
<1>1. B \subseteq SUBSET rows /\ B # {}
  OBVIOUS
<1>2. PICK A \in B : \A C \in B : C \subseteq A => C = A
  <2> HIDE DEF B
  <2> QED BY <1>1, MinimalPart
<1>3. PICK r \in rows : A = pred(r)
  BY <1>2
<1>4. ASSUME NEW s \in rows, Before(q, s, r) PROVE FALSE
  <2>1. pred(s) \subseteq pred(r)
    <3> SUFFICES ASSUME NEW t \in rows, Before(q, t, s) PROVE Before(q, t, r)
      OBVIOUS
    <3> QED BY <1>4, BeforeIsStrict
  <2>2. pred(s) = pred(r)
    BY <1>2, <1>3, <2>1
  <2>3. s \in pred(r) /\ s \notin pred(s)
    BY <1>4, BeforeIsStrict
  <2> QED BY <2>2, <2>3
<1> QED BY <1>3, <1>4

(* ... and a last one, after which the next page goes on.                  *)
LEMMA LastRow ==
    ASSUME NEW q, NEW rows, IsFiniteSet(rows), rows # {}, \A r \in rows : Shaped(q.kind, r)
    PROVE  /\ LastOf(q, rows) \in rows
           /\ \A s \in rows : s = LastOf(q, rows) \/ Before(q, s, LastOf(q, rows))
<1>0. rows \subseteq PageRow
  BY DEF Shaped
<1> DEFINE succ(r) == {s \in rows : Before(q, r, s)}
<1> DEFINE B == {succ(r) : r \in rows}
<1>1. B \subseteq SUBSET rows /\ B # {}
  OBVIOUS
<1>2. PICK A \in B : \A C \in B : C \subseteq A => C = A
  <2> HIDE DEF B
  <2> QED BY <1>1, MinimalPart
<1>3. PICK r \in rows : A = succ(r)
  BY <1>2
<1>4. ASSUME NEW s \in rows, Before(q, r, s) PROVE FALSE
  <2>1. succ(s) \subseteq succ(r)
    <3> SUFFICES ASSUME NEW t \in rows, Before(q, s, t) PROVE Before(q, r, t)
      OBVIOUS
    <3> QED BY <1>0, <1>4, BeforeIsStrict
  <2>2. succ(s) = succ(r)
    BY <1>2, <1>3, <2>1
  <2>3. s \in succ(r) /\ s \notin succ(s)
    BY <1>0, <1>4, BeforeIsStrict
  <2> QED BY <2>2, <2>3
<1>5. \A s \in rows : s = r \/ Before(q, s, r)
  BY <1>4, BeforeIsTotal
<1> QED BY <1>5 DEF LastOf

(* A page holds the rows up to its last one; when no row follows the page, *)
(* it holds them all.  That one more row was asked for tells which it is.  *)
LEMMA PageOfRows ==
    ASSUME NEW q, NEW rows, IsFiniteSet(rows), \A r \in rows : Shaped(q.kind, r),
           NEW n \in Nat, n > 0
    PROVE  LET page == FirstOf(q, rows, n)
               fetched == FirstOf(q, rows, n + 1)
           IN  IF Cardinality(fetched) > n
               THEN /\ LastOf(q, page) \in page
                    /\ \A s \in page : s = LastOf(q, page) \/ Before(q, s, LastOf(q, page))
                    /\ \A s \in rows \ page : Before(q, LastOf(q, page), s)
               ELSE page = rows
<1> DEFINE page == FirstOf(q, rows, n)
           fetched == FirstOf(q, rows, n + 1)
           pred(r) == {s \in rows : Before(q, s, r)}
<1>0. rows \subseteq PageRow
  BY DEF Shaped
<1>1. \A r \in rows : IsFiniteSet(pred(r)) /\ Cardinality(pred(r)) \in Nat
  BY FS_Subset, FS_CardinalityType
<1>2. /\ page = {r \in rows : Cardinality(pred(r)) < n}
      /\ fetched = {r \in rows : Cardinality(pred(r)) < n + 1}
  BY DEF FirstOf
<1>3. page \subseteq fetched /\ fetched \subseteq rows /\ IsFiniteSet(page) /\ IsFiniteSet(fetched)
  <2>1. page \subseteq fetched /\ fetched \subseteq rows
    <3> HIDE DEF pred
    <3> QED BY <1>1, <1>2
  <2>2. page \in SUBSET rows /\ fetched \in SUBSET rows
    BY <2>1
  <2> HIDE DEF page, fetched, pred
  <2> QED BY <2>1, <2>2, FS_Subset
<1>4. ASSUME NEW p \in page, NEW s \in rows, Before(q, s, p) PROVE s \in page
  <2>1. p \in rows
    BY <1>3
  <2>2. pred(s) \in SUBSET pred(p)
    <3> SUFFICES ASSUME NEW t \in rows, Before(q, t, s) PROVE Before(q, t, p)
      OBVIOUS
    <3> QED BY <1>0, <1>4, <2>1, BeforeIsStrict
  <2>3. Cardinality(pred(s)) <= Cardinality(pred(p))
    <3> HIDE DEF pred
    <3> QED BY <1>1, <2>1, <2>2, FS_Subset
  <2> HIDE DEF pred, page
  <2> QED BY <1>1, <1>2, <2>1, <2>3
<1>5. \A s \in rows \ page, p \in page : Before(q, p, s)
  <2> SUFFICES ASSUME NEW s \in rows, s \notin page, NEW p \in page PROVE Before(q, p, s)
    OBVIOUS
  <2>1. p \in rows
    BY <1>3
  <2>2. ~Before(q, s, p) /\ s # p
    BY <1>4
  <2> HIDE DEF page, fetched, pred
  <2> QED BY <2>1, <2>2, BeforeIsTotal
<1>6. rows # {} => page # {}
  <2> SUFFICES ASSUME rows # {} PROVE page # {}
    OBVIOUS
  <2>1. PICK r \in rows : \A s \in rows : ~Before(q, s, r)
    BY <1>0, FirstRow
  <2>2. pred(r) = {}
    BY <2>1
  <2>3. Cardinality(pred(r)) = 0
    BY <2>2, FS_EmptySet
  <2> HIDE DEF pred, page
  <2> QED BY <1>2, <2>3
<1>7. ASSUME page # {}
      PROVE  /\ LastOf(q, page) \in page
             /\ \A s \in page : s = LastOf(q, page) \/ Before(q, s, LastOf(q, page))
  <2>1. \A r \in page : Shaped(q.kind, r)
    BY <1>3
  <2> HIDE DEF page
  <2> QED BY <1>3, <1>7, <2>1, LastRow
<1>8. CASE Cardinality(fetched) > n
  <2>1. rows # {}
    <3> SUFFICES ASSUME rows = {} PROVE FALSE
      OBVIOUS
    <3>1. fetched = {}
      BY <1>3
    <3> HIDE DEF fetched
    <3> QED BY <1>8, <3>1, FS_EmptySet
  <2>2. page # {}
    BY <1>6, <2>1
  <2> HIDE DEF page, fetched
  <2>3. /\ LastOf(q, page) \in page
        /\ \A s \in page : s = LastOf(q, page) \/ Before(q, s, LastOf(q, page))
    BY <1>7, <2>2
  <2>4. \A s \in rows \ page : Before(q, LastOf(q, page), s)
    BY <1>5, <2>3
  <2> USE DEF page, fetched
  <2> QED BY <1>8, <2>3, <2>4
<1>9. CASE ~(Cardinality(fetched) > n)
  <2> SUFFICES ASSUME rows \ page # {} PROVE FALSE
    BY <1>3, <1>9
  <2>1. IsFiniteSet(rows \ page) /\ rows \ page \subseteq PageRow
    BY <1>0, FS_Difference
  <2>2. PICK r \in rows \ page : \A s \in rows \ page : ~Before(q, s, r)
    <3> HIDE DEF page, fetched
    <3> QED BY <2>1, FirstRow
  <2>3. pred(r) = page
    <3>1. \A s \in page : s \in pred(r)
      BY <1>3, <1>5, <2>2
    <3>2. \A s \in pred(r) : s \in page
      BY <2>2
    <3> HIDE DEF page, pred
    <3> QED BY <3>1, <3>2
  <2>4. Cardinality(page) >= n
    <3> HIDE DEF page, pred
    <3>1. ~(Cardinality(pred(r)) < n)
      BY <1>2, <2>2
    <3> QED BY <1>1, <2>2, <2>3, <3>1
  <2>5. page # {}
    <3> HIDE DEF page
    <3> QED BY <1>6, <2>2
  <2>6. Cardinality(page) <= n
    <3> PICK l \in page : l = LastOf(q, page)
      BY <1>7, <2>5
    <3>1. pred(l) = page \ {l}
      <4>1. \A s \in pred(l) : s \in page \ {l}
        BY <1>0, <1>3, <1>4, BeforeIsStrict
      <4>2. \A s \in page \ {l} : s \in pred(l)
        BY <1>3, <1>7, <2>5
      <4> HIDE DEF page, pred
      <4> QED BY <4>1, <4>2
    <3>2. l \in rows /\ Cardinality(pred(l)) < n
      <4> HIDE DEF page, pred
      <4> QED BY <1>2
    <3>3. Cardinality(page \ {l}) = Cardinality(page) - 1 /\ Cardinality(page) \in Nat
      <4> HIDE DEF page, pred
      <4> QED BY <1>3, FS_RemoveElement, FS_CardinalityType
    <3> HIDE DEF page, pred
    <3> QED BY <3>1, <3>2, <3>3
  <2> HIDE DEF page, pred, fetched
  <2>7. Cardinality(page) = n
    BY <1>3, <2>4, <2>6, FS_CardinalityType
  <2>8. r \in fetched /\ r \notin page
    <3>1. Cardinality(pred(r)) < n + 1
      BY <2>3, <2>7
    <3> QED BY <1>2, <2>2, <3>1
  <2>9. Cardinality(page \cup {r}) = n + 1 /\ page \cup {r} \in SUBSET fetched
    BY <1>3, <2>7, <2>8, FS_AddElement
  <2>10. Cardinality(fetched) >= n + 1
    BY <1>3, <2>9, FS_Subset, FS_CardinalityType
  <2> QED BY <1>3, <1>9, <2>10, FS_CardinalityType
<1> QED BY <1>8, <1>9

-----------------------------------------------------------------------------
(* The rows of a listing                                                   *)

LEMMA ItemsShaped ==
    ASSUME ListingTypes, NEW kind \in Kinds
    PROVE  \A i \in Items(kind) : i.at \in Keys /\ Shaped(kind, i)
<1> USE ListingAssumption DEF Shaped, PageRow
<1>1. CASE kind = "objects"
  <2> SUFFICES ASSUME NEW i \in Items(kind) PROVE i.at \in Keys /\ Shaped(kind, i)
    OBVIOUS
  <2>1. i \in {[at |-> k, prefix |-> FALSE, sub |-> 0] :
                  k \in {j \in Keys : history[j] # {} /\ ~Newest(j).deleted}}
    BY <1>1 DEF Items
  <2>2. PICK k \in Keys : i = [at |-> k, prefix |-> FALSE, sub |-> 0]
    BY <2>1
  <2> QED BY <1>1, <2>2
<1>2. CASE kind = "versions"
  <2> SUFFICES ASSUME NEW i \in Items(kind) PROVE i.at \in Keys /\ Shaped(kind, i)
    OBVIOUS
  <2>1. PICK k \in Keys : \E v \in history[k] : i = [at |-> k, prefix |-> FALSE, sub |-> v.gen]
    BY <1>2 DEF Items
  <2>2. PICK v \in history[k] : i = [at |-> k, prefix |-> FALSE, sub |-> v.gen]
    BY <2>1
  <2>3. v \in ListedVersion
    BY <2>2 DEF ListingTypes
  <2>4. v.gen \in Nat \ {0}
    BY <2>3 DEF ListedVersion
  <2> QED BY <1>2, <2>2, <2>4
<1>3. CASE kind = "uploads"
  <2> SUFFICES ASSUME NEW i \in Items(kind) PROVE i.at \in Keys /\ Shaped(kind, i)
    OBVIOUS
  <2>1. PICK k \in Keys : \E u \in active[k] : i = [at |-> k, prefix |-> FALSE, sub |-> u]
    BY <1>3 DEF Items
  <2>2. PICK u \in active[k] : i = [at |-> k, prefix |-> FALSE, sub |-> u]
    BY <2>1
  <2>3. u \in Nat \ {0}
    BY <2>2 DEF ListingTypes
  <2> QED BY <1>3, <2>2, <2>3
<1> QED BY <1>1, <1>2, <1>3 DEF Kinds

(* Folding keeps the shape: a common prefix is a place of its own.         *)
LEMMA EntryShaped ==
    ASSUME NEW q \in Query, NEW i, i.at \in Keys, Shaped(q.kind, i)
    PROVE  Shaped(q.kind, Entry(q, i))
<1>1. CASE q.delimiter /\ q.prefix = 0 /\ Folder[i.at] # i.at
  <2>1. Folder[i.at] \in Nat \ {0} /\ Folder[i.at] \notin Keys
    BY <1>1, ListingAssumption
  <2>2. Entry(q, i) = [at |-> Folder[i.at], prefix |-> TRUE, sub |-> 0]
    BY <1>1 DEF Entry
  <2> QED BY <2>1, <2>2 DEF Shaped, PageRow
<1>2. CASE ~(q.delimiter /\ q.prefix = 0 /\ Folder[i.at] # i.at)
  <2>1. Entry(q, i) = i
    BY <1>2 DEF Entry
  <2> QED BY <2>1
<1> QED BY <1>1, <1>2

(* The rows of one page are finitely many.                                 *)
LEMMA RowsFinite ==
    ASSUME ListingTypes, NEW q \in Query, NEW m, NEW g
    PROVE  /\ IsFiniteSet(Remaining(q, m, g))
           /\ \A r \in Remaining(q, m, g) : Shaped(q.kind, r)
           /\ Remaining(q, m, g) \subseteq PageRow
<1> DEFINE rows == {i \in Items(q.kind) : Matches(q, i)}
<1>0. q.kind \in Kinds
  BY DEF Query
<1>1. \A i \in rows : i.at \in Keys /\ Shaped(q.kind, i)
  BY <1>0, ItemsShaped
<1>2. ASSUME NEW r \in Remaining(q, m, g) PROVE Shaped(q.kind, r)
  <2>1. PICK i \in rows : r = Entry(q, i)
    BY <1>2 DEF Remaining
  <2> HIDE DEF rows
  <2> QED BY <1>1, <2>1, EntryShaped
<1>3. IsFiniteSet(rows)
  <2> DEFINE subs == {0} \cup 1 .. MaxChanges \cup UploadIds
             row(p) == [at |-> p[1], prefix |-> FALSE, sub |-> p[2]]
  <2>1. IsFiniteSet(subs)
    <3>0. MaxChanges \in Int
      BY ListingAssumption
    <3>1. IsFiniteSet({0})
      BY FS_Singleton
    <3>2. IsFiniteSet(1 .. MaxChanges)
      BY <3>0, FS_Interval
    <3>3. IsFiniteSet({0} \cup 1 .. MaxChanges)
      BY <3>1, <3>2, FS_Union
    <3> QED BY <3>3, FS_Union, ListingAssumption
  <2>2. IsFiniteSet(Keys \X subs)
    <3> HIDE DEF subs
    <3> QED BY <2>1, FS_Product, ListingAssumption
  <2>3. IsFiniteSet({row(p) : p \in Keys \X subs})
    <3> DEFINE f == [p \in Keys \X subs |-> row(p)]
    <3>1. \A p \in Keys \X subs : f[p] = row(p)
      OBVIOUS
    <3> HIDE DEF subs, f, row
    <3>2. IsFiniteSet({f[p] : p \in Keys \X subs})
      BY <2>2, ImageFinite
    <3>3. {f[p] : p \in Keys \X subs} = {row(p) : p \in Keys \X subs}
      BY <3>1
    <3> QED BY <3>2, <3>3
  <2>4. ASSUME NEW i \in rows PROVE i \in {row(p) : p \in Keys \X subs}
    <3>1. \E k \in Keys, s \in subs : i = [at |-> k, prefix |-> FALSE, sub |-> s]
      <4>1. CASE q.kind = "objects"
        <5>1. i \in {[at |-> k, prefix |-> FALSE, sub |-> 0] :
                         k \in {j \in Keys : history[j] # {} /\ ~Newest(j).deleted}}
          BY <2>4, <4>1 DEF Items
        <5> QED BY <5>1
      <4>2. CASE q.kind = "versions"
        <5>1. PICK k \in Keys : \E v \in history[k] : i = [at |-> k, prefix |-> FALSE, sub |-> v.gen]
          BY <2>4, <4>2 DEF Items
        <5>2. PICK v \in history[k] : i = [at |-> k, prefix |-> FALSE, sub |-> v.gen]
          BY <5>1
        <5>3. v.gen \in 1 .. MaxChanges
          BY <5>2 DEF ListingTypes, ListedVersion
        <5> QED BY <5>2, <5>3
      <4>3. CASE q.kind = "uploads"
        <5>1. PICK k \in Keys : \E u \in active[k] : i = [at |-> k, prefix |-> FALSE, sub |-> u]
          BY <2>4, <4>3 DEF Items
        <5>2. PICK u \in active[k] : i = [at |-> k, prefix |-> FALSE, sub |-> u]
          BY <5>1
        <5>3. u \in UploadIds
          BY <5>2 DEF ListingTypes
        <5> QED BY <5>2, <5>3
      <4> QED BY <1>0, <4>1, <4>2, <4>3 DEF Kinds
    <3>2. PICK k \in Keys, s \in subs : i = [at |-> k, prefix |-> FALSE, sub |-> s]
      BY <3>1
    <3> HIDE DEF subs
    <3>3. <<k, s>> \in Keys \X subs /\ i = row(<<k, s>>)
      BY <3>2
    <3> HIDE DEF row
    <3> QED BY <3>3
  <2>5. rows \in SUBSET {row(p) : p \in Keys \X subs}
    BY <2>4
  <2> HIDE DEF rows, row, subs
  <2> QED BY <2>3, <2>5, FS_Subset
<1>4. IsFiniteSet({Entry(q, i) : i \in rows})
  <2> HIDE DEF rows
  <2>1. IsFiniteSet({[i \in rows |-> Entry(q, i)][j] : j \in rows})
    BY <1>3, ImageFinite
  <2> QED BY <2>1
<1>5. Remaining(q, m, g) \in SUBSET {Entry(q, i) : i \in rows}
  BY DEF Remaining
<1>6. IsFiniteSet(Remaining(q, m, g))
  <2> HIDE DEF rows
  <2> QED BY <1>4, <1>5, FS_Subset
<1> QED BY <1>2, <1>6 DEF Shaped

-----------------------------------------------------------------------------
(* The steps of the walk                                                   *)

LEMMA WalkTypes ==
    ASSUME ListingTypes
    PROVE  /\ walk.query \in Query /\ walk.marker \in Marker /\ walk.generation \in Nat
           /\ walk.query.kind \in Kinds /\ walk.query.limit \in Nat /\ walk.query.start \in Nat
           /\ walk.marker.at \in Nat /\ walk.marker.id \in Nat /\ walk.marker.null \in BOOLEAN
           /\ walk = [query |-> walk.query, step |-> walk.step, marker |-> walk.marker,
                      generation |-> walk.generation]
<1>1. walk \in Walk
  BY DEF ListingTypes
<1>2. walk.query \in Query /\ walk.marker \in Marker /\ walk.generation \in Nat
  BY <1>1 DEF Walk
<1>3. Limits \subseteq Nat /\ {0} \cup Starts \subseteq Nat
  BY ListingAssumption
<1> QED BY <1>1, <1>2, <1>3 DEF Walk, Query, Marker

LEMMA ItemsUnchanged ==
    ASSUME UNCHANGED <<history, active>>
    PROVE  \A kind \in Kinds : Items(kind)' = Items(kind)
<1>1. \A k : Newest(k)' = Newest(k)
  BY DEF Newest
<1>2. Items("objects")' = Items("objects")
  BY <1>1 DEF Items
<1>3. Items("versions")' = Items("versions") /\ Items("uploads")' = Items("uploads")
  BY DEF Items
<1> QED BY <1>2, <1>3 DEF Kinds

LEMMA ListingInitially == ListingInit => ListingInv
<1> SUFFICES ASSUME ListingInit PROVE ListingInv
  OBVIOUS
<1> USE DEF ListingInit
<1>1. ListingTypes
  <2>1. PICK kind \in Kinds :
           walk = [query |-> [kind |-> kind, prefix |-> 0, delimiter |-> FALSE,
                              limit |-> CHOOSE n \in Limits : TRUE, start |-> 0],
                   step |-> "writing", marker |-> NoMarker, generation |-> 0]
    OBVIOUS
  <2>2. (CHOOSE n \in Limits : TRUE) \in Limits
    BY ListingAssumption
  <2>3. walk.query \in Query
    BY <2>1, <2>2 DEF Query
  <2>4. walk \in Walk
    BY <2>1, <2>3 DEF Walk, Marker, NoMarker
  <2> QED BY <2>4, ListingAssumption DEF ListingTypes
<1>2. HistoryWellFormed
  BY DEF HistoryWellFormed
<1>3. walk.marker = NoMarker /\ walk.step = "writing"
  OBVIOUS
<1>4. MarkerWellFormed
  BY <1>3 DEF MarkerWellFormed, NoMarker
<1> QED BY <1>1, <1>2, <1>3, <1>4
        DEF ListingInv, NotBegun, LastingListed, NothingMissed, NothingRepeated

LEMMA StartStep ==
    ASSUME ListingInv, NEW q \in Query, Start(q)
    PROVE  ListingInv'
<1> USE DEF ListingInv
<1>0. /\ walk.step = "writing" /\ q.kind = walk.query.kind
      /\ walk' = [walk EXCEPT !.step = "asking", !.query = q,
                              !.marker = [at |-> q.start, id |-> 0, null |-> FALSE]]
      /\ lasting' = {i \in Items(q.kind) : Matches(q, i)}
      /\ UNCHANGED <<history, active, changes, seen>>
  BY DEF Start
<1>1. walk.marker = NoMarker /\ DOMAIN seen = {}
  BY <1>0 DEF NotBegun
<1>2. walk' = [query |-> q, step |-> "asking", generation |-> walk.generation,
               marker |-> [at |-> q.start, id |-> 0, null |-> FALSE]]
  BY <1>0, WalkTypes
<1>3. q.kind \in Kinds /\ q.start \in Nat
  <2>1. {0} \cup Starts \subseteq Nat
    BY ListingAssumption
  <2> QED BY <2>1 DEF Query
<1>4. ListingTypes'
  <2>1. walk' \in Walk
    BY <1>2, <1>3, WalkTypes DEF Walk, Marker
  <2>2. lasting' \subseteq PageRow
    BY <1>0, <1>3, ItemsShaped DEF Shaped
  <2> QED BY <1>0, <2>1, <2>2 DEF ListingTypes
<1>5. HistoryWellFormed'
  BY <1>0 DEF HistoryWellFormed
<1>6. MarkerWellFormed' /\ NotBegun'
  BY <1>2 DEF MarkerWellFormed, NotBegun
<1>7. Items(q.kind)' = Items(q.kind)
  BY <1>0, <1>3, ItemsUnchanged
<1>8. LastingListed'
  BY <1>0, <1>2, <1>7 DEF LastingListed
<1>9. NothingMissed'
  <2> SUFFICES ASSUME NEW i \in lasting', Entry(q, i).at > q.start PROVE Ahead(Entry(q, i))'
    BY <1>2 DEF NothingMissed
  <2>1. Coming(q, walk'.marker, history'[walk'.marker.at], Entry(q, i))
    BY <1>2 DEF Coming
  <2> QED BY <1>2, <2>1 DEF Ahead
<1>10. NothingRepeated'
  BY <1>0, <1>1 DEF NothingRepeated
<1> QED BY <1>4, <1>5, <1>6, <1>8, <1>9, <1>10

LEMMA FindMarkerStep ==
    ASSUME ListingInv, FindMarker
    PROVE  ListingInv'
<1> USE DEF ListingInv
<1> DEFINE m == walk.marker
           named == IF walk.query.kind = "versions" /\ (m.null \/ m.id # 0)
                    THEN {v \in history[m.at] : IF m.null THEN v.null ELSE v.gen = m.id /\ ~v.null}
                    ELSE {}
<1>0. /\ walk.step = "asking"
      /\ IF walk.query.kind # "versions" \/ (~m.null /\ m.id = 0)
         THEN walk' = [walk EXCEPT !.step = "reading"]
         ELSE IF named = {} THEN walk' = [walk EXCEPT !.step = "failed"]
         ELSE \E v \in named : walk' = [walk EXCEPT !.step = "reading", !.generation = v.gen]
      /\ UNCHANGED <<history, active, changes, seen, lasting>>
  BY DEF FindMarker
<1>1. \E s \in {"reading", "failed"}, g \in Nat :
         /\ walk' = [walk EXCEPT !.step = s, !.generation = g]
         /\ s = "reading" /\ walk.query.kind = "versions" /\ (m.null \/ m.id # 0)
              => \E v \in named : g = v.gen
  <2>1. CASE walk.query.kind # "versions" \/ (~m.null /\ m.id = 0)
    <3>1. walk' = [walk EXCEPT !.step = "reading", !.generation = walk.generation]
      BY <1>0, <2>1, WalkTypes
    <3> QED BY <2>1, <3>1, WalkTypes
  <2>2. CASE ~(walk.query.kind # "versions" \/ (~m.null /\ m.id = 0)) /\ named = {}
    <3>1. walk' = [walk EXCEPT !.step = "failed", !.generation = walk.generation]
      BY <1>0, <2>2, WalkTypes
    <3> QED BY <2>2, <3>1, WalkTypes
  <2>3. CASE ~(walk.query.kind # "versions" \/ (~m.null /\ m.id = 0)) /\ named # {}
    <3>1. PICK v \in named : walk' = [walk EXCEPT !.step = "reading", !.generation = v.gen]
      BY <1>0, <2>3
    <3>2. v \in history[m.at] /\ m.at \in Keys
      BY <2>3, <3>1 DEF MarkerWellFormed
    <3>3. v.gen \in Nat
      BY <3>2 DEF ListingTypes, ListedVersion
    <3> HIDE DEF named
    <3> QED BY <3>1, <3>3
  <2> QED BY <2>1, <2>2, <2>3
<1>2. PICK s \in {"reading", "failed"}, g \in Nat :
         /\ walk' = [walk EXCEPT !.step = s, !.generation = g]
         /\ s = "reading" /\ walk.query.kind = "versions" /\ (m.null \/ m.id # 0)
              => \E v \in named : g = v.gen
  BY <1>1
<1>3. walk' = [query |-> walk.query, step |-> s, marker |-> walk.marker, generation |-> g]
  BY <1>2, WalkTypes
<1>4. ListingTypes'
  <2>1. walk' \in Walk
    BY <1>3, WalkTypes DEF Walk
  <2> QED BY <1>0, <2>1 DEF ListingTypes
<1>5. HistoryWellFormed'
  BY <1>0 DEF HistoryWellFormed
<1>6. MarkerWellFormed' /\ NotBegun'
  BY <1>3 DEF MarkerWellFormed, NotBegun
<1>7. LastingListed'
  <2>1. \A kind \in Kinds : Items(kind)' = Items(kind)
    BY <1>0, ItemsUnchanged
  <2>2. Items(walk.query.kind)' = Items(walk.query.kind)
    BY <1>3, <2>1, WalkTypes
  <2> QED BY <1>0, <1>3, <2>2 DEF LastingListed
<1>8. NothingMissed'
  <2> SUFFICES ASSUME walk.query.limit > 0, NEW i \in lasting,
                      Entry(walk.query, i).at > walk.query.start,
                      Entry(walk.query, i) \notin DOMAIN seen, s = "reading"
               PROVE  After(walk.query, m, g, Entry(walk.query, i))
    BY <1>0, <1>3 DEF NothingMissed, Ahead
  <2> PICK e : e = Entry(walk.query, i)
    OBVIOUS
  <2>1. Coming(walk.query, m, history[m.at], e)
    BY <1>0 DEF NothingMissed, Ahead
  <2>2. walk.query.kind = "versions" /\ m.null => e.at > m.at \/ (e.at = m.at /\ ~e.prefix /\ e.sub < g)
    BY <1>2, <2>1 DEF Coming
  <2>3. walk.query.kind = "versions" /\ ~m.null /\ m.id # 0
          => e.at > m.at \/ (e.at = m.at /\ ~e.prefix /\ e.sub < g)
    BY <1>2, <2>1 DEF Coming
  <2> HIDE DEF m
  <2> QED BY <2>1, <2>2, <2>3 DEF Coming, After
<1>9. NothingRepeated'
  BY <1>0, <1>3 DEF NothingRepeated, Behind
<1> QED BY <1>4, <1>5, <1>6, <1>7, <1>8, <1>9

(* The marker of a page's last row.                                        *)
LEMMA MarkerNames ==
    ASSUME ListingTypes, NEW q \in Query, NEW r, Shaped(q.kind, r)
    PROVE  LET m == MarkerAt(q, r) IN
           /\ m \in Marker /\ m.at = r.at
           /\ m.id # 0 \/ m.null => ~r.prefix /\ r.at \in Keys /\ q.kind # "objects"
           /\ m.null => q.kind = "versions" /\ IsNull(r)
           /\ ~r.prefix /\ q.kind # "objects" /\ ~m.null => m.id = r.sub /\ m.id # 0
<1>1. r \in PageRow /\ (r.prefix <=> r.at \notin Keys)
  BY DEF Shaped
<1>2. r.at \in Nat /\ r.sub \in Nat /\ r.prefix \in BOOLEAN
  BY <1>1 DEF PageRow
<1>3. IsNull(r) \in BOOLEAN
  BY DEF IsNull
<1> PICK null \in BOOLEAN : null = (q.kind = "versions" /\ ~r.prefix /\ IsNull(r))
  BY <1>2, <1>3
<1> PICK id : id = IF q.kind = "objects" \/ r.prefix \/ (q.kind = "versions" /\ IsNull(r)) THEN 0
                   ELSE r.sub
  OBVIOUS
<1>4. id \in Nat
  BY <1>2
<1>5. MarkerAt(q, r) = [at |-> r.at, id |-> id, null |-> null]
  BY DEF MarkerAt
<1>6. MarkerAt(q, r) \in Marker
  BY <1>2, <1>4, <1>5 DEF Marker
<1>7. r.sub = 0 <=> r.prefix \/ q.kind = "objects"
  BY DEF Shaped
<1>8. id # 0 \/ null => ~r.prefix /\ q.kind # "objects"
  BY <1>7
<1>9. ~r.prefix /\ q.kind # "objects" /\ ~null => id = r.sub /\ id # 0
  BY <1>7
<1> PICK m : m = MarkerAt(q, r)
  OBVIOUS
<1>10. m.at = r.at /\ m.id = id /\ m.null = null
  BY <1>5
<1>11. null => q.kind = "versions" /\ IsNull(r)
  OBVIOUS
<1> QED BY <1>1, <1>6, <1>8, <1>9, <1>10, <1>11

(* The rows after the last one of a page lie ahead of its marker ...       *)
LEMMA AheadOfLast ==
    ASSUME ListingTypes, HistoryWellFormed, NEW q \in Query, NEW r, Shaped(q.kind, r),
           NEW e, Shaped(q.kind, e), Before(q, r, e)
    PROVE  Coming(q, MarkerAt(q, r), history[r.at], e)
<1>1. /\ r.at \in Nat /\ r.sub \in Nat /\ e.at \in Nat /\ e.sub \in Nat
      /\ (r.prefix <=> r.at \notin Keys) /\ (e.prefix <=> e.at \notin Keys)
      /\ (r.sub = 0 <=> r.prefix \/ q.kind = "objects")
      /\ (e.sub = 0 <=> e.prefix \/ q.kind = "objects")
  BY DEF Shaped, PageRow
<1> PICK m : m = MarkerAt(q, r)
  OBVIOUS
<1>2. m.at = r.at
  BY MarkerNames
<1>3. CASE e.at > r.at
  BY <1>2, <1>3 DEF Coming
<1>4. CASE ~(e.at > r.at)
  <2>1. e.at = r.at /\ ~r.prefix /\ ~e.prefix /\ r.at \in Keys /\ q.kind # "objects"
    BY <1>1, <1>4 DEF Before
  <2>2. CASE q.kind = "versions"
    <3>1. e.sub < r.sub
      BY <1>1, <2>1, <2>2 DEF Before
    <3>2. CASE m.null
      <4>1. PICK v \in history[r.at] : v.gen = r.sub /\ v.null
        BY <3>2, MarkerNames DEF IsNull
      <4>2. \A w \in history[r.at] : w.null => w.gen = r.sub
        BY <2>1, <4>1 DEF HistoryWellFormed
      <4> QED BY <1>2, <2>1, <2>2, <3>1, <3>2, <4>2 DEF Coming
    <3>3. CASE ~m.null
      <4>1. m.id = r.sub /\ m.id # 0
        BY <2>1, <3>3, MarkerNames
      <4> QED BY <1>2, <2>1, <2>2, <3>1, <3>3, <4>1 DEF Coming
    <3> QED BY <3>2, <3>3
  <2>3. CASE q.kind # "versions"
    <3>1. q.kind = "uploads"
      BY <2>1, <2>3 DEF Query, Kinds
    <3>2. e.sub > r.sub
      BY <1>1, <2>1, <2>3 DEF Before
    <3>3. m.id = r.sub /\ m.id # 0
      BY <2>1, <2>3, MarkerNames
    <3> QED BY <1>2, <2>1, <3>1, <3>2, <3>3 DEF Coming
  <2> QED BY <2>2, <2>3
<1> QED BY <1>3, <1>4

(* ... and the rows up to it behind.                                       *)
LEMMA BehindLast ==
    ASSUME ListingTypes, NEW q \in Query, NEW r, Shaped(q.kind, r), NEW e, Shaped(q.kind, e),
           e = r \/ Before(q, e, r), q.kind # "versions"
    PROVE  ~After(q, MarkerAt(q, r), 0, e)
<1>1. r.at \in Nat /\ r.sub \in Nat /\ e.at \in Nat /\ e.sub \in Nat
  BY DEF Shaped, PageRow
<1> PICK m : m = MarkerAt(q, r)
  OBVIOUS
<1>2. m.at = r.at
  BY MarkerNames
<1>3. e.at < r.at \/ (e.at = r.at /\ e.sub <= r.sub)
  BY <1>1 DEF Before
<1>4. m.id # 0 => m.id = r.sub
  BY MarkerNames
<1> QED BY <1>1, <1>2, <1>3, <1>4 DEF After

(* What lies behind a marker comes before every row of the next page.      *)
LEMMA BehindIsBefore ==
    ASSUME NEW q \in Query, q.kind # "versions", NEW m \in Marker, NEW g,
           NEW r, Shaped(q.kind, r), After(q, m, g, r),
           NEW e, Shaped(q.kind, e), ~After(q, m, 0, e)
    PROVE  Before(q, e, r)
<1>1. /\ r.at \in Nat /\ r.sub \in Nat /\ e.at \in Nat /\ e.sub \in Nat
      /\ (r.prefix <=> r.at \notin Keys) /\ (e.prefix <=> e.at \notin Keys)
  BY DEF Shaped, PageRow
<1>2. m.at \in Nat /\ m.id \in Nat
  BY DEF Marker
<1>3. e.at <= m.at
  BY <1>1, <1>2 DEF After
<1>4. CASE r.at > m.at
  BY <1>1, <1>2, <1>3, <1>4 DEF Before
<1>5. CASE ~(r.at > m.at)
  <2>1. r.at = m.at /\ ~r.prefix /\ q.kind = "uploads" /\ m.id # 0 /\ r.sub > m.id
    BY <1>5 DEF After
  <2>2. CASE e.at = m.at
    <3>1. ~(e.sub > m.id)
      BY <1>1, <2>1, <2>2 DEF After
    <3> QED BY <1>1, <1>2, <2>1, <2>2, <3>1 DEF Before
  <2>3. CASE e.at # m.at
    BY <1>1, <1>2, <1>3, <2>1, <2>3 DEF Before
  <2> QED BY <2>2, <2>3
<1> QED BY <1>4, <1>5

LEMMA ReadPageStep ==
    ASSUME ListingInv, NEW kind, ReadPage(kind)
    PROVE  ListingInv'
<1> USE DEF ListingInv
<1> PICK q, m, g : q = walk.query /\ m = walk.marker /\ g = walk.generation
  OBVIOUS
<1> PICK rows, page, fetched :
       /\ rows = Remaining(q, m, g)
       /\ page = FirstOf(q, rows, q.limit)
       /\ fetched = FirstOf(q, rows, q.limit + 1)
  OBVIOUS
<1>0. /\ walk.step = "reading"
      /\ seen' = [r \in DOMAIN seen \cup page |->
                    (IF r \in DOMAIN seen THEN seen[r] ELSE 0) + (IF r \in page THEN 1 ELSE 0)]
      /\ walk' = IF q.limit > 0 /\ Cardinality(fetched) > q.limit
                 THEN [walk EXCEPT !.step = "asking", !.marker = MarkerAt(q, LastOf(q, page))]
                 ELSE [walk EXCEPT !.step = "done"]
      /\ UNCHANGED <<history, active, changes, lasting>>
  BY DEF ReadPage
<1>1. /\ q \in Query /\ q.kind \in Kinds /\ q.limit \in Nat /\ m \in Marker /\ g \in Nat
      /\ walk = [query |-> q, step |-> "reading", marker |-> m, generation |-> g]
  BY <1>0, WalkTypes
<1>2. /\ IsFiniteSet(rows) /\ \A r \in rows : Shaped(q.kind, r)
      /\ rows \subseteq PageRow
  BY <1>1, RowsFinite
<1>3. page \subseteq rows
  BY DEF FirstOf
<1>4. DOMAIN seen' = DOMAIN seen \cup page
  BY <1>0
<1>5. \A r \in rows : After(q, m, g, r)
  BY DEF Remaining
<1> PICK more : more = (q.limit > 0 /\ Cardinality(fetched) > q.limit)
  OBVIOUS
<1> PICK last : last = LastOf(q, page)
  OBVIOUS
<1>6. more => /\ last \in page
              /\ \A s \in page : s = last \/ Before(q, s, last)
              /\ \A s \in rows \ page : Before(q, last, s)
  BY <1>1, <1>2, PageOfRows
<1>7. q.limit > 0 /\ ~more => page = rows
  <2> SUFFICES ASSUME q.limit > 0, ~more PROVE page = rows
    OBVIOUS
  <2>1. ~(Cardinality(FirstOf(q, rows, q.limit + 1)) > q.limit)
    OBVIOUS
  <2> QED BY <1>1, <1>2, <2>1, PageOfRows
<1>8. more => walk' = [query |-> q, step |-> "asking", marker |-> MarkerAt(q, last), generation |-> g]
  BY <1>0, <1>1
<1>9. ~more => walk' = [query |-> q, step |-> "done", marker |-> m, generation |-> g]
  BY <1>0, <1>1
<1>10. walk'.query = q
  BY <1>8, <1>9
<1>11. more => last \in rows /\ Shaped(q.kind, last)
  BY <1>2, <1>3, <1>6
<1>12. ListingTypes'
  <2>1. walk' \in Walk
    <3>1. CASE more
      <4>1. MarkerAt(q, last) \in Marker
        BY <1>1, <1>11, <3>1, MarkerNames
      <4> QED BY <1>1, <1>8, <3>1, <4>1 DEF Walk
    <3>2. CASE ~more
      BY <1>1, <1>9, <3>2 DEF Walk
    <3> QED BY <3>1, <3>2
  <2>2. DOMAIN seen' \subseteq PageRow
    BY <1>2, <1>3, <1>4 DEF ListingTypes
  <2>3. \A r \in DOMAIN seen' : seen'[r] \in Nat \ {0}
    <3> SUFFICES ASSUME NEW r \in DOMAIN seen' PROVE seen'[r] \in Nat \ {0}
      OBVIOUS
    <3>1. r \in DOMAIN seen => seen[r] \in Nat \ {0}
      BY DEF ListingTypes
    <3>2. seen'[r] = (IF r \in DOMAIN seen THEN seen[r] ELSE 0) + (IF r \in page THEN 1 ELSE 0)
      BY <1>0, <1>4
    <3> QED BY <1>4, <3>1, <3>2
  <2> QED BY <1>0, <2>1, <2>2, <2>3 DEF ListingTypes
<1>13. HistoryWellFormed'
  BY <1>0 DEF HistoryWellFormed
<1>14. MarkerWellFormed' /\ NotBegun'
  <2>1. CASE more
    <3> PICK k : k = MarkerAt(q, last)
      OBVIOUS
    <3>1. /\ k.at = last.at
          /\ k.id # 0 \/ k.null => last.at \in Keys /\ q.kind # "objects"
          /\ k.null => q.kind = "versions"
      BY <1>1, <1>11, <2>1, MarkerNames
    <3> QED BY <1>8, <2>1, <3>1 DEF MarkerWellFormed, NotBegun
  <2>2. CASE ~more
    BY <1>9, <2>2 DEF MarkerWellFormed, NotBegun
  <2> QED BY <2>1, <2>2
<1>15. LastingListed'
  <2>1. Items(q.kind)' = Items(q.kind)
    BY <1>0, <1>1, ItemsUnchanged
  <2> QED BY <1>0, <1>10, <2>1 DEF LastingListed
<1>16. NothingMissed'
  <2> SUFFICES ASSUME q.limit > 0, NEW i \in lasting, Entry(q, i).at > q.start,
                      Entry(q, i) \notin DOMAIN seen \cup page
               PROVE  Ahead(Entry(q, i))'
    BY <1>0, <1>4, <1>10 DEF NothingMissed
  <2> PICK e : e = Entry(q, i)
    OBVIOUS
  <2>1. After(q, m, g, e)
    BY <1>0 DEF NothingMissed, Ahead
  <2>2. i \in Items(q.kind) /\ Matches(q, i)
    BY DEF LastingListed
  <2>3. e \in rows
    BY <2>1, <2>2 DEF Remaining
  <2>4. more
    BY <1>7, <2>3
  <2>5. Before(q, last, e)
    BY <1>6, <2>3, <2>4
  <2>6. Coming(q, MarkerAt(q, last), history[last.at], e)
    BY <1>1, <1>2, <1>11, <2>3, <2>4, <2>5, AheadOfLast
  <2>7. MarkerAt(q, last).at = last.at
    BY <1>1, <1>11, <2>4, MarkerNames
  <2>8. Coming(walk'.query, walk'.marker, history'[walk'.marker.at], e) /\ walk'.step = "asking"
    BY <1>0, <1>8, <2>4, <2>6, <2>7
  <2>9. Ahead(e)'
    BY <2>8 DEF Ahead
  <2> QED BY <2>9
<1>17. NothingRepeated'
  <2> SUFFICES ASSUME NEW r \in DOMAIN seen \cup page
               PROVE  /\ Shaped(q.kind, r)
                      /\ q.kind # "versions" => seen'[r] = 1 /\ Behind(r)'
    BY <1>4, <1>10 DEF NothingRepeated
  <2>1. r \in DOMAIN seen => Shaped(q.kind, r) /\ (q.kind # "versions" => seen[r] = 1 /\ ~After(q, m, 0, r))
    BY <1>0 DEF NothingRepeated, Behind
  <2>2. Shaped(q.kind, r)
    BY <1>2, <1>3, <2>1
  <2> SUFFICES ASSUME q.kind # "versions" PROVE seen'[r] = 1 /\ Behind(r)'
    BY <2>2
  <2>3. r \in page => After(q, m, 0, r)
    BY <1>3, <1>5 DEF After
  <2>4. seen'[r] = 1
    BY <1>0, <2>1, <2>3
  <2>5. more => r = last \/ Before(q, r, last)
    <3> SUFFICES ASSUME more, r \notin page PROVE Before(q, r, last)
      BY <1>6
    <3>1. Shaped(q.kind, last) /\ After(q, m, g, last)
      BY <1>5, <1>11
    <3> QED BY <1>1, <2>1, <2>2, <3>1, BehindIsBefore
  <2>6. more => ~After(q, MarkerAt(q, last), 0, r)
    BY <1>1, <1>11, <2>2, <2>5, BehindLast
  <2>7. Behind(r)'
    BY <1>8, <1>9, <2>6 DEF Behind
  <2> QED BY <2>4, <2>7
<1> QED BY <1>12, <1>13, <1>14, <1>15, <1>16, <1>17

-----------------------------------------------------------------------------
(* The changes others make                                                 *)

LEMMA EntryOfVersion ==
    ASSUME ListingTypes, HistoryWellFormed, NEW q, NEW i \in Items("versions")
    PROVE  Entry(q, i).sub <= changes
<1>1. PICK k \in Keys : \E v \in history[k] : i = [at |-> k, prefix |-> FALSE, sub |-> v.gen]
  BY DEF Items
<1>2. PICK v \in history[k] : i = [at |-> k, prefix |-> FALSE, sub |-> v.gen]
  BY <1>1
<1>3. v.gen <= changes /\ changes \in Nat
  BY <1>1, <1>2, ListingAssumption DEF HistoryWellFormed, ListingTypes
<1>4. Entry(q, i).sub \in {0, v.gen}
  BY <1>2 DEF Entry
<1> QED BY <1>3, <1>4

(* Whoever changes the rows: the walk goes on when nothing that lasted was *)
(* invented and a new null version is newer than all there was.            *)
LEMMA ChangeKeeps ==
    ASSUME ListingInv, ListingTypes', HistoryWellFormed', LastingListed',
           UNCHANGED <<walk, seen>>, lasting' \subseteq lasting,
           \A k \in Keys : \A v \in history'[k] : v.null => v \in history[k] \/ v.gen > changes
    PROVE  ListingInv'
<1> USE DEF ListingInv
<1> PICK q, m : q = walk.query /\ m = walk.marker
  OBVIOUS
<1>1. MarkerWellFormed'
  BY DEF MarkerWellFormed
<1>2. NotBegun'
  BY DEF NotBegun
<1>3. NothingRepeated'
  BY DEF NothingRepeated, Behind
<1>4. NothingMissed'
  <2> SUFFICES ASSUME q.limit > 0, NEW i \in lasting', Entry(q, i).at > q.start,
                      Entry(q, i) \notin DOMAIN seen
               PROVE  Ahead(Entry(q, i))'
    BY DEF NothingMissed
  <2> PICK e : e = Entry(q, i)
    OBVIOUS
  <2>1. Ahead(e)
    BY DEF NothingMissed
  <2>2. CASE walk.step = "asking" /\ m.null
    <3>1. m.at \in Keys /\ q.kind = "versions"
      BY <2>2 DEF MarkerWellFormed
    <3>2. i \in Items("versions")
      BY <3>1 DEF LastingListed
    <3>3. e.sub <= changes /\ changes \in Nat
      BY <3>2, EntryOfVersion, ListingAssumption DEF ListingTypes
    <3>4. Shaped(q.kind, e)
      <4>1. i.at \in Keys /\ Shaped(q.kind, i)
        BY <3>1, <3>2, WalkTypes, ItemsShaped
      <4> QED BY <4>1, WalkTypes, EntryShaped
    <3>5. e.sub \in Nat
      BY <3>4 DEF Shaped, PageRow
    <3>6. Coming(q, m, history[m.at], e)
      BY <2>1, <2>2 DEF Ahead
    <3>7. ASSUME NEW v \in history'[m.at], v.null,
                 \A w \in history[m.at] : w.null => e.sub < w.gen
          PROVE  e.sub < v.gen
      <4>1. v \in ListedVersion
        BY <3>1, <3>7 DEF ListingTypes
      <4>2. v.gen \in Nat
        BY <4>1 DEF ListedVersion
      <4>3. CASE v \in history[m.at]
        BY <3>7, <4>3
      <4>4. CASE v.gen > changes
        BY <3>3, <3>5, <4>2, <4>4
      <4> QED BY <3>1, <3>7, <4>3, <4>4
    <3>8. Coming(q, m, history'[m.at], e)
      BY <2>2, <3>6, <3>7 DEF Coming
    <3> QED BY <2>2, <3>8 DEF Ahead
  <2>3. CASE walk.step = "asking" /\ ~m.null
    <3>1. Coming(q, m, history[m.at], e)
      BY <2>1, <2>3 DEF Ahead
    <3>2. Coming(q, m, history'[m.at], e)
      BY <2>3, <3>1 DEF Coming
    <3> QED BY <2>3, <3>2 DEF Ahead
  <2>4. CASE walk.step # "asking"
    BY <2>1, <2>4 DEF Ahead
  <2> QED BY <2>2, <2>3, <2>4
<1> QED BY <1>1, <1>2, <1>3, <1>4

LEMMA ContinueElsewhereStep ==
    ASSUME ListingInv, ContinueElsewhere
    PROVE  ListingInv'
<1> USE DEF ListingInv
<1>0. /\ walk.step = "asking" /\ walk' = [walk EXCEPT !.step = "failed"]
      /\ UNCHANGED <<history, active, changes, seen, lasting>>
  BY DEF ContinueElsewhere
<1>1. walk' = [query |-> walk.query, step |-> "failed", marker |-> walk.marker,
               generation |-> walk.generation]
  BY <1>0, WalkTypes
<1>2. ListingTypes'
  <2>1. walk' \in Walk
    BY <1>1, WalkTypes DEF Walk
  <2> QED BY <1>0, <2>1 DEF ListingTypes
<1>3. HistoryWellFormed'
  BY <1>0 DEF HistoryWellFormed
<1>4. MarkerWellFormed' /\ NotBegun'
  BY <1>1 DEF MarkerWellFormed, NotBegun
<1>5. LastingListed'
  <2> PICK kind \in Kinds : kind = walk.query.kind
    BY WalkTypes
  <2>1. Items(kind)' = Items(kind)
    BY <1>0, ItemsUnchanged
  <2> QED BY <1>0, <1>1, <2>1 DEF LastingListed
<1>6. NothingMissed'
  BY <1>0, <1>1 DEF NothingMissed, Ahead
<1>7. NothingRepeated'
  BY <1>0, <1>1 DEF NothingRepeated, Behind
<1> QED BY <1>2, <1>3, <1>4, <1>5, <1>6, <1>7

(* What lasts is listed still, after Last.                                 *)
LEMMA LastKeeps ==
    ASSUME ListingInv, UNCHANGED walk, Last(Items(walk.query.kind)')
    PROVE  LastingListed' /\ lasting' \subseteq lasting
BY DEF Last, LastingListed, ListingInv

LEMMA CommitVersionStep ==
    ASSUME ListingInv, NEW k \in Keys, NEW null \in BOOLEAN, NEW deleted \in BOOLEAN,
           CommitVersion(k, null, deleted)
    PROVE  ListingInv'
<1> USE DEF ListingInv
<1> PICK new : new = [gen |-> changes + 1, null |-> null, deleted |-> deleted]
  OBVIOUS
<1> PICK kept : kept = IF null THEN {v \in history[k] : ~v.null} ELSE history[k]
  OBVIOUS
<1>0. /\ changes < MaxChanges /\ changes' = changes + 1 /\ UNCHANGED <<walk, seen, active>>
      /\ history' = [history EXCEPT ![k] = kept \cup {new}]
      /\ Last(Items(walk.query.kind)')
  BY DEF CommitVersion, Change
<1>1. changes \in Nat /\ changes' \in 1 .. MaxChanges /\ changes' \in 0 .. MaxChanges
  BY <1>0, ListingAssumption DEF ListingTypes
<1>2. new \in ListedVersion
  BY <1>0, <1>1 DEF ListedVersion
<1>3. kept \subseteq history[k] /\ (new.null => \A v \in kept : ~v.null) /\ new.gen = changes + 1
  BY DEF ListingTypes
<1>4. history \in [Keys -> SUBSET ListedVersion]
  BY DEF ListingTypes
<1>5. history' \in [Keys -> SUBSET ListedVersion]
  BY <1>0, <1>2, <1>3, <1>4
<1>6. \A j \in Keys : history'[j] = IF j = k THEN kept \cup {new} ELSE history[j]
  BY <1>0, <1>4
<1>7. LastingListed' /\ lasting' \subseteq lasting
  BY <1>0, LastKeeps
<1>8. ListingTypes'
  BY <1>0, <1>1, <1>5, <1>7 DEF ListingTypes
<1>9. HistoryWellFormed'
  <2>1. ASSUME NEW j \in Keys, NEW v \in history'[j]
        PROVE  v.gen \in Nat /\ v.gen <= changes' /\ (v # new \/ j # k => v \in history[j] /\ v.gen <= changes)
    <3>1. v \in ListedVersion
      BY <1>5, <2>1
    <3>2. v.gen \in Nat
      BY <3>1 DEF ListedVersion
    <3>3. v = new => v.gen <= changes'
      BY <1>0, <1>1, <1>3
    <3>4. v # new \/ j # k => v \in history[j]
      BY <1>3, <1>6
    <3>5. v \in history[j] => v.gen <= changes
      BY DEF HistoryWellFormed
    <3> QED BY <1>0, <1>1, <3>2, <3>3, <3>4, <3>5
  <2>2. ASSUME NEW j \in Keys, NEW v \in history'[j], NEW w \in history'[j],
               v.gen = w.gen \/ (v.null /\ w.null)
        PROVE  v = w
    <3>1. CASE j # k \/ (v # new /\ w # new)
      <4>1. v \in history[j] /\ w \in history[j]
        BY <2>1, <3>1
      <4> QED BY <2>2, <4>1 DEF HistoryWellFormed
    <3>2. CASE j = k /\ v = new /\ w # new
      <4>1. w \in kept /\ w.gen <= changes /\ w.gen \in Nat
        BY <1>6, <2>1, <3>2
      <4> QED BY <1>1, <1>3, <2>2, <3>2, <4>1
    <3>3. CASE j = k /\ w = new /\ v # new
      <4>1. v \in kept /\ v.gen <= changes /\ v.gen \in Nat
        BY <1>6, <2>1, <3>3
      <4> QED BY <1>1, <1>3, <2>2, <3>3, <4>1
    <3> QED BY <3>1, <3>2, <3>3
  <2> QED BY <2>1, <2>2 DEF HistoryWellFormed
<1>10. \A j \in Keys : \A v \in history'[j] : v.null => v \in history[j] \/ v.gen > changes
  <2>1. new.gen > changes
    BY <1>1, <1>3
  <2>2. \A j \in Keys : \A v \in history'[j] : v = new \/ v \in history[j]
    BY <1>3, <1>6
  <2> QED BY <2>1, <2>2
<1> QED BY <1>0, <1>7, <1>8, <1>9, <1>10, ChangeKeeps

LEMMA DeleteVersionStep ==
    ASSUME ListingInv, NEW k \in Keys, NEW d \in history[k], DeleteVersion(k, d)
    PROVE  ListingInv'
<1> USE DEF ListingInv
<1>0. /\ changes < MaxChanges /\ changes' = changes + 1 /\ UNCHANGED <<walk, seen, active>>
      /\ history' = [history EXCEPT ![k] = history[k] \ {d}]
      /\ Last(Items(walk.query.kind)')
  BY DEF DeleteVersion, Change
<1>1. changes \in Nat /\ changes' \in 0 .. MaxChanges
  BY <1>0, ListingAssumption DEF ListingTypes
<1>2. history \in [Keys -> SUBSET ListedVersion]
  BY DEF ListingTypes
<1>3. history' \in [Keys -> SUBSET ListedVersion] /\ \A j \in Keys : history'[j] \subseteq history[j]
  BY <1>0, <1>2
<1>4. LastingListed' /\ lasting' \subseteq lasting
  BY <1>0, LastKeeps
<1>5. ListingTypes'
  BY <1>0, <1>1, <1>3, <1>4 DEF ListingTypes
<1>6. HistoryWellFormed'
  <2>1. ASSUME NEW j \in Keys, NEW v \in history'[j] PROVE v.gen <= changes'
    <3>1. v \in history[j] /\ v \in ListedVersion
      BY <1>2, <1>3
    <3>2. v.gen <= changes /\ v.gen \in Nat
      BY <3>1 DEF HistoryWellFormed, ListedVersion
    <3> QED BY <1>0, <1>1, <3>2
  <2>2. \A j \in Keys : \A v, w \in history'[j] : v.gen = w.gen \/ (v.null /\ w.null) => v = w
    BY <1>3 DEF HistoryWellFormed
  <2> QED BY <2>1, <2>2 DEF HistoryWellFormed
<1>7. \A j \in Keys : \A v \in history'[j] : v.null => v \in history[j] \/ v.gen > changes
  BY <1>3
<1> QED BY <1>0, <1>4, <1>5, <1>6, <1>7, ChangeKeeps

LEMMA InitiateStep ==
    ASSUME ListingInv, NEW k \in Keys, NEW u \in UploadIds, Initiate(k, u)
    PROVE  ListingInv'
<1> USE DEF ListingInv
<1>0. /\ walk.query.kind = "uploads"
      /\ changes < MaxChanges /\ changes' = changes + 1 /\ UNCHANGED <<walk, seen, history, lasting>>
      /\ active' = [active EXCEPT ![k] = active[k] \cup {u}]
  BY DEF Initiate, Change
<1>1. changes \in Nat /\ changes' \in 0 .. MaxChanges
  BY <1>0, ListingAssumption DEF ListingTypes
<1>2. active \in [Keys -> SUBSET UploadIds]
  BY DEF ListingTypes
<1>3. active' \in [Keys -> SUBSET UploadIds] /\ \A j \in Keys : active[j] \subseteq active'[j]
  BY <1>0, <1>2
<1>4. ListingTypes'
  BY <1>0, <1>1, <1>3 DEF ListingTypes
<1>5. HistoryWellFormed'
  <2>1. ASSUME NEW j \in Keys, NEW v \in history[j] PROVE v.gen <= changes'
    <3>1. v \in ListedVersion
      BY DEF ListingTypes
    <3>2. v.gen <= changes /\ v.gen \in Nat
      BY <3>1 DEF HistoryWellFormed, ListedVersion
    <3> QED BY <1>0, <1>1, <3>2
  <2> QED BY <1>0, <2>1 DEF HistoryWellFormed
<1>6. LastingListed'
  <2>1. Items("uploads") \subseteq Items("uploads")'
    BY <1>3 DEF Items
  <2> QED BY <1>0, <2>1 DEF LastingListed
<1> QED BY <1>0, <1>4, <1>5, <1>6, ChangeKeeps

LEMMA UploadEndsStep ==
    ASSUME ListingInv, NEW k \in Keys, NEW u \in UploadIds, UploadEnds(k, u)
    PROVE  ListingInv'
<1> USE DEF ListingInv
<1>0. /\ changes < MaxChanges /\ changes' = changes + 1 /\ UNCHANGED <<walk, seen, history>>
      /\ active' = [active EXCEPT ![k] = active[k] \ {u}]
      /\ Last(Items(walk.query.kind)')
  BY DEF UploadEnds, Change
<1>1. changes \in Nat /\ changes' \in 0 .. MaxChanges
  BY <1>0, ListingAssumption DEF ListingTypes
<1>2. active \in [Keys -> SUBSET UploadIds]
  BY DEF ListingTypes
<1>3. active' \in [Keys -> SUBSET UploadIds]
  BY <1>0, <1>2
<1>4. LastingListed' /\ lasting' \subseteq lasting
  BY <1>0, LastKeeps
<1>5. ListingTypes'
  BY <1>0, <1>1, <1>3, <1>4 DEF ListingTypes
<1>6. HistoryWellFormed'
  <2>1. ASSUME NEW j \in Keys, NEW v \in history[j] PROVE v.gen <= changes'
    <3>1. v \in ListedVersion
      BY DEF ListingTypes
    <3>2. v.gen <= changes /\ v.gen \in Nat
      BY <3>1 DEF HistoryWellFormed, ListedVersion
    <3> QED BY <1>0, <1>1, <3>2
  <2> QED BY <1>0, <2>1 DEF HistoryWellFormed
<1> QED BY <1>0, <1>4, <1>5, <1>6, ChangeKeeps

LEMMA ListingPreserved == ListingInv /\ [ListingNext]_listingVars => ListingInv'
<1> SUFFICES ASSUME ListingInv, [ListingNext]_listingVars PROVE ListingInv'
  OBVIOUS
<1>1. ASSUME NEW q \in Query, Start(q) PROVE ListingInv'
  BY <1>1, StartStep
<1>2. CASE FindMarker
  BY <1>2, FindMarkerStep
<1>3. CASE ListObjects \/ ListObjectVersions \/ ListMultipartUploads
  BY <1>3, ReadPageStep DEF ListObjects, ListObjectVersions, ListMultipartUploads
<1>4. CASE ContinueElsewhere
  BY <1>4, ContinueElsewhereStep
<1>5. ASSUME NEW k \in Keys, NEW null \in BOOLEAN, NEW deleted \in BOOLEAN,
             CommitVersion(k, null, deleted)
      PROVE  ListingInv'
  BY <1>5, CommitVersionStep
<1>6. ASSUME NEW k \in Keys, NEW v \in history[k], DeleteVersion(k, v) PROVE ListingInv'
  BY <1>6, DeleteVersionStep
<1>7. ASSUME NEW k \in Keys, NEW u \in UploadIds, Initiate(k, u) PROVE ListingInv'
  BY <1>7, InitiateStep
<1>8. ASSUME NEW k \in Keys, NEW u \in UploadIds, UploadEnds(k, u) PROVE ListingInv'
  BY <1>8, UploadEndsStep
<1>9. CASE UNCHANGED listingVars
  <2> USE DEF listingVars, ListingInv
  <2>1. ListingTypes' /\ HistoryWellFormed'
    BY <1>9 DEF ListingTypes, HistoryWellFormed
  <2>2. LastingListed'
    <3> PICK kind \in Kinds : kind = walk.query.kind
      BY WalkTypes
    <3>1. Items(kind)' = Items(kind)
      BY <1>9, ItemsUnchanged
    <3> QED BY <1>9, <3>1 DEF LastingListed
  <2> QED BY <1>9, <2>1, <2>2, ChangeKeeps
<1> QED BY <1>1, <1>2, <1>3, <1>4, <1>5, <1>6, <1>7, <1>8, <1>9 DEF ListingNext

(* Every listing keeps its invariant: what a walk has passed was returned, *)
(* and what it has not passed lies ahead.                                  *)
THEOREM ListingInvariant == ListingSpec => []ListingInv
<1> QED BY ListingInitially, ListingPreserved, PTL DEF ListingSpec

(* A walk over a listing to its end returns everything that was there all  *)
(* along, and nothing but a version twice: pages that overlap or leave a   *)
(* gap while others write and delete would break it.                       *)
THEOREM WalkIsComplete == ListingSpec => []ListedOnce
<1>1. ListingInv => ListedOnce
  <2> SUFFICES ASSUME ListingInv, walk.step = "done", walk.query.limit > 0, NEW i \in lasting,
                      Entry(walk.query, i).at > walk.query.start
               PROVE  /\ Entry(walk.query, i) \in DOMAIN seen
                      /\ walk.query.kind # "versions" => seen[Entry(walk.query, i)] = 1
    BY DEF ListedOnce
  <2>1. Entry(walk.query, i) \in DOMAIN seen
    BY DEF ListingInv, NothingMissed, Ahead
  <2> QED BY <2>1 DEF ListingInv, NothingRepeated
<1> QED BY <1>1, ListingInvariant, PTL

-----------------------------------------------------------------------------
(***************************************************************************)
(* Requests on buckets.                                                    *)
(***************************************************************************)

(* A row with an id is a bucket of an application; only such a row is in   *)
(* use, and Object Lock comes with versioning.                             *)
WellKept(b) ==
    /\ b.app = Absent <=> b.id = 0
    /\ b.app = Absent => ~b.used
    /\ b.lock => b.versioning = "Enabled"

(* What one step may do to a row: a change under the same identity, the    *)
(* end of a bucket without objects, or a new bucket under a fresh id.      *)
SameBucket(old, new) ==
    /\ new.app = old.app /\ new.id = old.id
    /\ old.used => new.used
    /\ old.lock => new.lock
    /\ new.corsRev > old.corsRev \/ (new.cors = old.cors /\ new.corsRev = old.corsRev)

RowMoves(old, new, drawn) ==
    /\ new \in Bucket /\ WellKept(new)
    /\ \/ SameBucket(old, new)
       \/ new = NoBucket /\ ~old.used
       \/ old.app = Absent /\ new.id \notin drawn /\ ~new.used

Flights == {req[q].flight[1] : q \in Requests}

(* A request that is under way strayed nowhere; without a signature it     *)
(* gets no further than the operations that need none.                     *)
WellSent(r) ==
    /\ r.pc # "idle" => r.op \in Operations /\ r.name \in Names /\ r.strayed = Absent
    /\ r.pc = "signed" => r.by \in AccessKeys /\ r.todo # <<>>
    /\ r.pc = "identified" /\ r.by = Absent => r.op \in AnonymousOps

(* A preflight that succeeded is good for the document it was judged by.   *)
FlightKept(r, b) ==
    r.pc = "preflighted" =>
        /\ r.flight[1] # 0
        /\ r.flight[1] = b.id =>
             /\ b.corsRev >= r.flight[2]
             /\ b.corsRev = r.flight[2] =>
                  b.app # Absent /\ ActualRequest(Rules(b.cors), r.origin, Method(r.op))

BucketInv ==
    /\ BucketTypes
    /\ \A n \in Names : WellKept(buckets[n])
    /\ \A q \in Requests : WellSent(req[q])
    /\ \A q \in Requests : FlightKept(req[q], buckets[req[q].name])

-----------------------------------------------------------------------------
(* Ids and rules                                                           *)

LEMMA SmallestOf ==
    ASSUME NEW T, T \subseteq Nat, T # {}
    PROVE  \E x \in T : \A y \in T : x <= y
<1> DEFINE R == OpToRel(<, Nat)
<1>1. PICK x \in T : \A y \in T : ~(<<y, x>> \in R)
  BY NatLessThanWellFounded, WFMin
<1>2. \A y \in T : ~(y < x)
  BY <1>1, Zenon DEF OpToRel
<1> QED BY <1>2

(* A fresh id is one that no request, row or upload refers to.             *)
LEMMA FreshIsNew ==
    ASSUME BucketTypes, NEW remembered, IsFiniteSet(remembered)
    PROVE  /\ FreshId(remembered) \in Nat \ {0}
           /\ FreshId(remembered) \notin Flights
           /\ FreshId(remembered) \notin remembered
<1> DEFINE ids == {req[q].id : q \in Requests}
           rowIds == {buckets[n].id : n \in Names}
           known == ids \cup Flights \cup rowIds \cup remembered
<1>1. IsFiniteSet(ids)
  <2> DEFINE f == [q \in Requests |-> req[q].id]
  <2>1. IsFiniteSet({f[q] : q \in Requests})
    <3> HIDE DEF f
    <3> QED BY ImageFinite, ApiAssumption
  <2> QED BY <2>1
<1>2. IsFiniteSet(Flights)
  <2> DEFINE f == [q \in Requests |-> req[q].flight[1]]
  <2>1. IsFiniteSet({f[q] : q \in Requests})
    <3> HIDE DEF f
    <3> QED BY ImageFinite, ApiAssumption
  <2> QED BY <2>1 DEF Flights
<1>3. IsFiniteSet(rowIds)
  <2> DEFINE f == [n \in Names |-> buckets[n].id]
  <2>1. IsFiniteSet({f[n] : n \in Names})
    <3> HIDE DEF f
    <3> QED BY ImageFinite, ApiAssumption
  <2> QED BY <2>1
<1>4. IsFiniteSet(known)
  <2> HIDE DEF ids, rowIds
  <2>1. IsFiniteSet(ids \cup Flights)
    BY <1>1, <1>2, FS_Union
  <2>2. IsFiniteSet((ids \cup Flights) \cup rowIds)
    BY <1>3, <2>1, FS_Union
  <2> QED BY <2>2, FS_Union
<1> PICK n : n = Cardinality(known)
  OBVIOUS
<1>5. n \in Nat
  <2> HIDE DEF known
  <2> QED BY <1>4, FS_CardinalityType
<1> DEFINE free == (1 .. n + 1) \ known
<1>6. free # {}
  <2> SUFFICES ASSUME free = {} PROVE FALSE
    OBVIOUS
  <2>1. 1 .. n + 1 \in SUBSET known
    OBVIOUS
  <2> HIDE DEF known, free
  <2>2. Cardinality(1 .. n + 1) <= n
    BY <1>4, <2>1, FS_Subset
  <2>3. Cardinality(1 .. n + 1) = n + 1
    BY <1>5, FS_Interval
  <2> QED BY <1>5, <2>2, <2>3
<1>7. PICK i \in free : \A j \in free : i <= j
  <2>1. free \subseteq Nat
    BY <1>5
  <2> HIDE DEF free
  <2> QED BY <1>6, <2>1, SmallestOf
<1>8. FreshId(remembered)
        = CHOOSE k \in 1 .. n + 1 : k \notin known /\ \A j \in 1 .. k - 1 : j \in known
  BY DEF FreshId, Flights
<1> HIDE DEF known
<1>9. i \in 1 .. n + 1 /\ i \notin known /\ \A j \in 1 .. i - 1 : j \in known
  BY <1>5, <1>7
<1>10. FreshId(remembered) \in 1 .. n + 1 /\ FreshId(remembered) \notin known
  BY <1>8, <1>9
<1> QED BY <1>5, <1>10 DEF known

(* A request without the headers of its preflight fits at least its rule.  *)
LEMMA PreflightFits ==
    ASSUME NEW rules, DOMAIN rules \subseteq Nat \ {0}, NEW origin, NEW method, NEW headers,
           Preflight(rules, origin, method, headers)
    PROVE  ActualRequest(rules, origin, method)
<1> DEFINE fits(h) == {i \in DOMAIN rules : /\ origin \in rules[i].origins
                                            /\ method \in rules[i].methods
                                            /\ h \subseteq rules[i].headers}
<1>1. fits(headers) # {}
  BY DEF Preflight, MatchingRule
<1>2. fits({}) # {} /\ fits({}) \subseteq Nat \ {0}
  BY <1>1
<1>3. MatchingRule(rules, origin, method, {}) = CHOOSE i \in fits({}) : \A j \in fits({}) : i <= j
  BY <1>2 DEF MatchingRule
<1> PICK T : T = fits({})
  OBVIOUS
<1>4. \E i \in T : \A j \in T : i <= j
  BY <1>2, SmallestOf
<1>5. (CHOOSE i \in T : \A j \in T : i <= j) \in T
  BY <1>4
<1> HIDE DEF fits
<1>6. MatchingRule(rules, origin, method, {}) \in T
  BY <1>3, <1>5
<1> QED BY <1>2, <1>6 DEF ActualRequest

-----------------------------------------------------------------------------
(* What the operations do to a row                                         *)

LEMMA NoBucketKept == NoBucket \in Bucket /\ WellKept(NoBucket) /\ NoBucket.id = 0 /\ NoBucket.app = Absent
  BY DEF NoBucket, Bucket, WellKept

LEMMA NewBucketKept ==
    ASSUME NEW app \in Apps, NEW id \in Nat \ {0}, NEW lock \in BOOLEAN
    PROVE  /\ NewBucket(app, id, lock) \in Bucket /\ WellKept(NewBucket(app, id, lock))
           /\ NewBucket(app, id, lock).app = app /\ NewBucket(app, id, lock).id = id
           /\ ~NewBucket(app, id, lock).used /\ NewBucket(app, id, lock).lock = lock
<1> PICK nb : nb = NoBucket
  OBVIOUS
<1>1. nb \in Bucket /\ ~nb.used
  BY NoBucketKept DEF NoBucket
<1> PICK v \in {"Enabled", "Unversioned"} : v = IF lock THEN "Enabled" ELSE "Unversioned"
  OBVIOUS
<1> PICK new : new = [nb EXCEPT !.app = app, !.id = id, !.lock = lock, !.versioning = v]
  OBVIOUS
<1>2. new = NewBucket(app, id, lock)
  BY DEF NewBucket
<1>3. new \in Bucket /\ new.app = app /\ new.id = id /\ new.lock = lock /\ new.versioning = v /\ ~new.used
  BY <1>1 DEF Bucket
<1>4. app # Absent
  BY ApiAssumption
<1> QED BY <1>2, <1>3, <1>4 DEF WellKept

(* A row keeps its identity when the fields that make it up are kept.      *)
LEMMA KeptIdentity ==
    ASSUME NEW b \in Bucket, WellKept(b), NEW new \in Bucket, NEW drawn,
           new.app = b.app, new.id = b.id, b.used => new.used, b.lock => new.lock,
           new.lock => new.versioning = "Enabled", b.app # Absent,
           new.corsRev > b.corsRev \/ (new.cors = b.cors /\ new.corsRev = b.corsRev)
    PROVE  RowMoves(b, new, drawn)
BY DEF RowMoves, SameBucket, WellKept

LEMMA RowChanges ==
    ASSUME NEW b \in Bucket, WellKept(b), b.app # Absent, NEW drawn
    PROVE  /\ \A d \in DOMAIN PolicyDocs : RowMoves(b, WithPolicy(b, d), drawn)
           /\ RowMoves(b, WithoutPolicy(b), drawn)
           /\ \A d \in DOMAIN CorsDocs : RowMoves(b, WithCors(b, d), drawn)
           /\ RowMoves(b, WithoutCors(b), drawn)
           /\ RowMoves(b, WithTags(b, "tags"), drawn)
           /\ RowMoves(b, WithoutTags(b), drawn)
<1>0. b.policyRev + 1 \in Nat /\ b.corsRev + 1 \in Nat /\ b.tagsRev + 1 \in Nat /\ b.corsRev + 1 > b.corsRev
  BY DEF Bucket
<1>1. ASSUME NEW d \in DOMAIN PolicyDocs \cup {Absent}, NEW k \in Nat
      PROVE  RowMoves(b, [b EXCEPT !.policy = d, !.policyRev = k], drawn)
  <2> PICK new : new = [b EXCEPT !.policy = d, !.policyRev = k]
    OBVIOUS
  <2>1. /\ new \in Bucket /\ new.app = b.app /\ new.id = b.id /\ new.used = b.used
        /\ new.lock = b.lock /\ new.versioning = b.versioning
        /\ new.cors = b.cors /\ new.corsRev = b.corsRev
    BY DEF Bucket
  <2>2. RowMoves(b, new, drawn)
    BY <2>1, KeptIdentity DEF WellKept
  <2> QED BY <2>2
<1>2. ASSUME NEW d \in DOMAIN CorsDocs \cup {Absent}, NEW k \in Nat, k > b.corsRev
      PROVE  RowMoves(b, [b EXCEPT !.cors = d, !.corsRev = k], drawn)
  <2> PICK new : new = [b EXCEPT !.cors = d, !.corsRev = k]
    OBVIOUS
  <2>1. /\ new \in Bucket /\ new.app = b.app /\ new.id = b.id /\ new.used = b.used
        /\ new.lock = b.lock /\ new.versioning = b.versioning /\ new.corsRev = k
    BY DEF Bucket
  <2>2. RowMoves(b, new, drawn)
    BY <1>2, <2>1, KeptIdentity DEF WellKept
  <2> QED BY <2>2
<1>3. ASSUME NEW t \in {"tags", Absent}, NEW k \in Nat
      PROVE  RowMoves(b, [b EXCEPT !.tags = t, !.tagsRev = k], drawn)
  <2> PICK new : new = [b EXCEPT !.tags = t, !.tagsRev = k]
    OBVIOUS
  <2>1. /\ new \in Bucket /\ new.app = b.app /\ new.id = b.id /\ new.used = b.used
        /\ new.lock = b.lock /\ new.versioning = b.versioning
        /\ new.cors = b.cors /\ new.corsRev = b.corsRev
    BY DEF Bucket
  <2>2. RowMoves(b, new, drawn)
    BY <2>1, KeptIdentity DEF WellKept
  <2> QED BY <2>2
<1>4. \A d \in DOMAIN PolicyDocs : RowMoves(b, WithPolicy(b, d), drawn)
  BY <1>0, <1>1 DEF WithPolicy
<1>5. RowMoves(b, WithoutPolicy(b), drawn)
  BY <1>0, <1>1 DEF WithoutPolicy
<1>6. \A d \in DOMAIN CorsDocs : RowMoves(b, WithCors(b, d), drawn)
  BY <1>0, <1>2 DEF WithCors
<1>7. RowMoves(b, WithoutCors(b), drawn)
  BY <1>0, <1>2 DEF WithoutCors
<1>8. RowMoves(b, WithTags(b, "tags"), drawn)
  BY <1>0, <1>3 DEF WithTags
<1>9. RowMoves(b, WithoutTags(b), drawn)
  BY <1>0, <1>3 DEF WithoutTags
<1> QED BY <1>4, <1>5, <1>6, <1>7, <1>8, <1>9

LEMMA ConfigurationChanges ==
    ASSUME NEW b \in Bucket, WellKept(b), b.app # Absent, NEW drawn
    PROVE  /\ \A rules \in {"rules", Absent} : RowMoves(b, WithLifecycle(b, rules), drawn)
           /\ \A status \in {"Enabled", "Suspended"} : MayTransition(b, status) =>
                RowMoves(b, WithVersioning(b, status), drawn)
           /\ \A retention \in {"retention", Absent} : RowMoves(b, WithObjectLock(b, retention), drawn)
           /\ RowMoves(b, [b EXCEPT !.used = TRUE], drawn)
<1>1. ASSUME NEW new \in Bucket, RowMoves(b, new, drawn), SameBucket(b, new)
      PROVE  RowMoves(b, Revised(b, new), drawn)
  <2>0. b.rev + 1 \in Nat
    BY DEF Bucket
  <2> PICK k \in Nat : k = b.rev + 1
    BY <2>0
  <2> PICK new2 : new2 = [new EXCEPT !.rev = k]
    OBVIOUS
  <2>1. /\ new2 \in Bucket /\ new2.app = new.app /\ new2.id = new.id /\ new2.used = new.used
        /\ new2.lock = new.lock /\ new2.versioning = new.versioning
        /\ new2.cors = new.cors /\ new2.corsRev = new.corsRev
    BY DEF Bucket
  <2>2. RowMoves(b, new2, drawn)
    BY <1>1, <2>1, KeptIdentity DEF RowMoves, SameBucket, WellKept
  <2>3. RowMoves(b, b, drawn)
    BY DEF RowMoves, SameBucket
  <2> QED BY <2>2, <2>3 DEF Revised
<1>2. ASSUME NEW rules \in {"rules", Absent}
      PROVE  RowMoves(b, WithLifecycle(b, rules), drawn)
  <2> PICK new : new = [b EXCEPT !.lifecycle = rules]
    OBVIOUS
  <2>1. /\ new \in Bucket /\ new.app = b.app /\ new.id = b.id /\ new.used = b.used
        /\ new.lock = b.lock /\ new.versioning = b.versioning
        /\ new.cors = b.cors /\ new.corsRev = b.corsRev
    BY DEF Bucket
  <2>2. RowMoves(b, new, drawn)
    BY <2>1, KeptIdentity DEF WellKept
  <2>3. SameBucket(b, new)
    BY <2>1 DEF SameBucket
  <2> QED BY <1>1, <2>1, <2>2, <2>3 DEF WithLifecycle
<1>3. ASSUME NEW status \in {"Enabled", "Suspended"}, MayTransition(b, status)
      PROVE  RowMoves(b, WithVersioning(b, status), drawn)
  <2> PICK new : new = [b EXCEPT !.versioning = status]
    OBVIOUS
  <2>1. /\ new \in Bucket /\ new.app = b.app /\ new.id = b.id /\ new.used = b.used
        /\ new.lock = b.lock /\ new.versioning = status
        /\ new.cors = b.cors /\ new.corsRev = b.corsRev
    BY DEF Bucket
  <2>2. b.lock => status = "Enabled"
    BY <1>3 DEF MayTransition, WellKept
  <2>3. RowMoves(b, new, drawn)
    BY <2>1, <2>2, KeptIdentity DEF WellKept
  <2>4. SameBucket(b, new)
    BY <2>1 DEF SameBucket
  <2> QED BY <1>1, <2>1, <2>3, <2>4 DEF WithVersioning
<1>4. ASSUME NEW retention \in {"retention", Absent}
      PROVE  RowMoves(b, WithObjectLock(b, retention), drawn)
  <2> PICK new : new = [b EXCEPT !.lock = TRUE, !.versioning = "Enabled", !.retention = retention]
    OBVIOUS
  <2>1. /\ new \in Bucket /\ new.app = b.app /\ new.id = b.id /\ new.used = b.used
        /\ new.lock /\ new.versioning = "Enabled"
        /\ new.cors = b.cors /\ new.corsRev = b.corsRev
    BY DEF Bucket
  <2>2. RowMoves(b, new, drawn)
    BY <2>1, KeptIdentity DEF WellKept
  <2>3. SameBucket(b, new)
    BY <2>1 DEF SameBucket
  <2> QED BY <1>1, <2>1, <2>2, <2>3 DEF WithObjectLock
<1>5. RowMoves(b, [b EXCEPT !.used = TRUE], drawn)
  BY DEF RowMoves, SameBucket, WellKept, Bucket
<1> QED BY <1>2, <1>3, <1>4, <1>5

-----------------------------------------------------------------------------
(* The operations of an admitted request                                   *)

PolicyReaders == {"GetPolicy", "GetPolicyStatus"}

(* An operation ends its request, or keeps it for the second half of a     *)
(* deletion, and moves at most the row its request names.                  *)
OpDone(q) ==
    /\ req[q].pc \in {"admitted", "deleting"}
    /\ \E r \in Request :
          /\ req' = [req EXCEPT ![q] = r] /\ r.pc \in {"idle", "deleting"} /\ WellSent(r)
          /\ req[q].op \notin PolicyReaders => r.strayed = Absent
    /\ \/ buckets' = buckets
       \/ \E b : /\ RowMoves(buckets[req[q].name], b, Flights)
                 /\ buckets' = [buckets EXCEPT ![req[q].name] = b]
    /\ UNCHANGED <<keys, apps>>

LEMMA IdleRequest ==
    /\ Idle \in Request /\ Idle.pc = "idle"
    /\ \A a \in Apps \cup {Absent} :
         /\ [Idle EXCEPT !.strayed = a] \in Request /\ [Idle EXCEPT !.strayed = a].pc = "idle"
         /\ [Idle EXCEPT !.strayed = a].strayed = a
         /\ WellSent([Idle EXCEPT !.strayed = a])
<1>1. <<>> \in Seq(AllActions) /\ <<0, 0>> \in Nat \X Nat
  OBVIOUS
<1>2. Idle \in Request /\ Idle.pc = "idle"
  BY <1>1 DEF Idle, Request
<1>3. ASSUME NEW a \in Apps \cup {Absent}, NEW r, r = [Idle EXCEPT !.strayed = a]
      PROVE  r \in Request /\ r.pc = "idle" /\ r.strayed = a /\ WellSent(r)
  <2>1. r \in Request /\ r.pc = "idle" /\ r.strayed = a
    BY <1>2, <1>3 DEF Request
  <2> QED BY <2>1 DEF WellSent
<1> QED BY <1>2, <1>3

LEMMA EndedRequest ==
    ASSUME BucketTypes, NEW q \in Requests, NEW app \in Apps \cup {Absent}, Ended(q, app)
    PROVE  \E r \in Request :
              /\ req' = [req EXCEPT ![q] = r] /\ r.pc = "idle" /\ WellSent(r)
              /\ app \in {Absent, req[q].app} => r.strayed = Absent
<1> PICK a \in Apps \cup {Absent} : a = IF app = req[q].app THEN Absent ELSE app
  OBVIOUS
<1> PICK r : r = [Idle EXCEPT !.strayed = a]
  OBVIOUS
<1>1. req' = [req EXCEPT ![q] = r]
  BY DEF Ended
<1>2. r \in Request /\ r.pc = "idle" /\ r.strayed = a /\ WellSent(r)
  BY IdleRequest
<1> QED BY <1>1, <1>2

LEMMA OpContext ==
    ASSUME BucketInv, NEW q \in Requests, req[q].pc \in {"admitted", "deleting"}
    PROVE  /\ req[q] \in Request /\ req[q].name \in Names /\ req[q].app \in Apps \cup {Absent}
           /\ Row(q) \in Bucket /\ WellKept(Row(q)) /\ Row(q) = buckets[req[q].name]
           /\ Row(q).app \in Apps \cup {Absent}
           /\ Found(req[q]) => Row(q).app # Absent /\ Row(q).app = req[q].app
<1>1. req[q] \in Request /\ WellSent(req[q])
  BY DEF BucketInv, BucketTypes
<1>2. req[q].name \in Names /\ req[q].app \in Apps \cup {Absent}
  BY <1>1 DEF Request, WellSent
<1>3. Row(q) = buckets[req[q].name] /\ Row(q) \in Bucket /\ WellKept(Row(q))
  BY <1>2 DEF Row, BucketInv, BucketTypes
<1>4. Row(q).app \in Apps \cup {Absent}
  BY <1>3 DEF Bucket
<1> QED BY <1>1, <1>2, <1>3, <1>4 DEF Found

LEMMA FailDone ==
    ASSUME BucketInv, NEW q \in Requests, req[q].pc \in {"admitted", "deleting"}, Fail(q)
    PROVE  OpDone(q)
<1>1. Ended(q, Absent) /\ UNCHANGED <<buckets, keys, apps>>
  BY DEF Fail, Refused
<1>2. PICK r \in Request : req' = [req EXCEPT ![q] = r] /\ r.pc = "idle" /\ WellSent(r) /\ r.strayed = Absent
  BY <1>1, EndedRequest DEF BucketInv
<1> QED BY <1>1, <1>2 DEF OpDone

LEMMA WriteDone ==
    ASSUME BucketInv, NEW q \in Requests, req[q].pc \in {"admitted", "deleting"}, Found(req[q]),
           NEW b, RowMoves(Row(q), b, Flights), Write(q, b)
    PROVE  OpDone(q)
<1>1. /\ Ended(q, Row(q).app) /\ UNCHANGED <<keys, apps>>
      /\ buckets' = [buckets EXCEPT ![req[q].name] = b]
  BY DEF Write, Row
<1>2. Row(q).app \in Apps \cup {Absent} /\ Row(q).app = req[q].app /\ Row(q) = buckets[req[q].name]
  BY OpContext
<1>3. PICK r \in Request : req' = [req EXCEPT ![q] = r] /\ r.pc = "idle" /\ WellSent(r) /\ r.strayed = Absent
  BY <1>1, <1>2, EndedRequest DEF BucketInv
<1> QED BY <1>1, <1>2, <1>3 DEF OpDone

LEMMA UpdateDone ==
    ASSUME BucketInv, NEW q \in Requests, NEW op, NEW b, Update(q, op, b),
           Found(req[q]) => RowMoves(Row(q), b, Flights)
    PROVE  OpDone(q)
BY FailDone, WriteDone DEF Update, Admitted

LEMMA ReplaceDone ==
    ASSUME BucketInv, NEW q \in Requests, NEW op, NEW body, NEW b, Replace(q, op, body, b),
           body # Malformed /\ Found(req[q]) => RowMoves(Row(q), b, Flights)
    PROVE  OpDone(q)
BY FailDone, UpdateDone DEF Replace, Admitted

(* Every operation on a row writes within its tenant.                      *)
LEMMA WritersDone ==
    ASSUME BucketInv, NEW q \in Requests,
           \/ PutPolicy(q) \/ DeletePolicy(q) \/ PutCors(q) \/ DeleteCors(q)
           \/ PutTagging(q) \/ DeleteTagging(q)
    PROVE  OpDone(q)
<1>0. req[q].pc = "admitted" => Row(q) \in Bucket /\ WellKept(Row(q)) /\ (Found(req[q]) => Row(q).app # Absent)
  BY OpContext
<1>1. CASE PutPolicy(q)
  <2>1. PICK d \in ValidPolicies(req[q].name) : Update(q, "PutPolicy", WithPolicy(Row(q), d))
    BY <1>1 DEF PutPolicy
  <2>2. d \in DOMAIN PolicyDocs /\ req[q].pc = "admitted"
    BY <2>1 DEF ValidPolicies, Update, Admitted
  <2> QED BY <1>0, <2>1, <2>2, RowChanges, UpdateDone
<1>2. CASE DeletePolicy(q)
  BY <1>0, <1>2, RowChanges, UpdateDone DEF DeletePolicy, Update, Admitted
<1>3. CASE PutCors(q)
  <2>1. PICK d \in DOMAIN CorsDocs :
           Replace(q, "PutCors", IF d \in ValidCorsDocs THEN d ELSE Malformed, WithCors(Row(q), d))
    BY <1>3 DEF PutCors
  <2>2. req[q].pc = "admitted"
    BY <2>1 DEF Replace, Admitted
  <2> PICK body : body = IF d \in ValidCorsDocs THEN d ELSE Malformed
    OBVIOUS
  <2>3. Found(req[q]) => RowMoves(Row(q), WithCors(Row(q), d), Flights)
    BY <1>0, <2>2, RowChanges
  <2> QED BY <2>1, <2>3, ReplaceDone
<1>4. CASE DeleteCors(q)
  BY <1>0, <1>4, RowChanges, UpdateDone DEF DeleteCors, Update, Admitted
<1>5. CASE PutTagging(q)
  <2>1. PICK t \in TaggingBodies : Replace(q, "PutTagging", t, WithTags(Row(q), t))
    BY <1>5 DEF PutTagging
  <2>2. req[q].pc = "admitted"
    BY <2>1 DEF Replace, Admitted
  <2>3. t # Malformed => t = "tags"
    BY DEF TaggingBodies
  <2> QED BY <1>0, <2>1, <2>2, <2>3, RowChanges, ReplaceDone
<1>6. CASE DeleteTagging(q)
  BY <1>0, <1>6, RowChanges, UpdateDone DEF DeleteTagging, Update, Admitted
<1> QED BY <1>1, <1>2, <1>3, <1>4, <1>5, <1>6

LEMMA ConfiguratorsDone ==
    ASSUME BucketInv, NEW q \in Requests,
           \/ PutVersioning(q) \/ PutLifecycle(q) \/ DeleteLifecycle(q) \/ PutObjectLock(q) \/ PutObject(q)
    PROVE  OpDone(q)
<1>0. req[q].pc = "admitted" => Row(q) \in Bucket /\ WellKept(Row(q)) /\ (Found(req[q]) => Row(q).app # Absent)
  BY OpContext
<1>1. CASE PutVersioning(q)
  <2>1. PICK v \in VersioningBodies :
           IF MayTransition(Row(q), v)
           THEN Replace(q, "PutVersioning", v, WithVersioning(Row(q), v)) ELSE Fail(q)
    BY <1>1 DEF PutVersioning
  <2>2. req[q].pc = "admitted"
    BY <1>1 DEF PutVersioning, Admitted
  <2>3. v # Malformed => v \in {"Enabled", "Suspended"}
    BY DEF VersioningBodies
  <2>4. CASE MayTransition(Row(q), v)
    BY <1>0, <2>1, <2>2, <2>3, <2>4, ConfigurationChanges, ReplaceDone
  <2> QED BY <2>1, <2>2, <2>4, FailDone
<1>2. CASE PutLifecycle(q)
  <2>1. PICK v \in LifecycleBodies : Replace(q, "PutLifecycle", v, WithLifecycle(Row(q), v))
    BY <1>2 DEF PutLifecycle
  <2>2. req[q].pc = "admitted"
    BY <2>1 DEF Replace, Admitted
  <2>3. v # Malformed => v = "rules"
    BY DEF LifecycleBodies
  <2> QED BY <1>0, <2>1, <2>2, <2>3, ConfigurationChanges, ReplaceDone
<1>3. CASE DeleteLifecycle(q)
  BY <1>0, <1>3, ConfigurationChanges, UpdateDone DEF DeleteLifecycle, Update, Admitted
<1>4. CASE PutObjectLock(q)
  <2>1. PICK v \in ObjectLockBodies : Replace(q, "PutObjectLock", v, WithObjectLock(Row(q), v))
    BY <1>4 DEF PutObjectLock
  <2>2. req[q].pc = "admitted"
    BY <2>1 DEF Replace, Admitted
  <2>3. v # Malformed => v \in {"retention", Absent}
    BY DEF ObjectLockBodies
  <2> QED BY <1>0, <2>1, <2>2, <2>3, ConfigurationChanges, ReplaceDone
<1>5. CASE PutObject(q)
  BY <1>0, <1>5, ConfigurationChanges, UpdateDone DEF PutObject, Update, Admitted
<1> QED BY <1>1, <1>2, <1>3, <1>4, <1>5

LEMMA CreateBucketDone ==
    ASSUME BucketInv, NEW q \in Requests, NEW op, NEW remembered, IsFiniteSet(remembered),
           CreateBucket(q, op, remembered)
    PROVE  OpDone(q)
<1>0. req[q].pc = "admitted"
  BY DEF CreateBucket, Admitted
<1> PICK r : r = req[q]
  OBVIOUS
<1>1. CASE buckets[r.name].app = Absent /\ r.app \in apps
  <2> PICK id, b : id = FreshId(remembered) /\ b = NewBucket(r.app, id, op = "CreateLockedBucket")
    OBVIOUS
  <2>1. r.app \in Apps
    BY <1>1 DEF BucketInv, BucketTypes
  <2>2. id \in Nat \ {0} /\ id \notin Flights
    BY FreshIsNew DEF BucketInv
  <2>3. b \in Bucket /\ WellKept(b) /\ b.id = id /\ ~b.used
    BY <2>1, <2>2, NewBucketKept
  <2>4. RowMoves(buckets[r.name], b, Flights)
    BY <1>1, <2>2, <2>3 DEF RowMoves
  <2>5. /\ buckets' = [buckets EXCEPT ![r.name] = b] /\ Ended(q, r.app) /\ UNCHANGED <<keys, apps>>
    BY <1>1 DEF CreateBucket
  <2>6. PICK rr \in Request : req' = [req EXCEPT ![q] = rr] /\ rr.pc = "idle" /\ WellSent(rr) /\ rr.strayed = Absent
    BY <2>1, <2>5, EndedRequest DEF BucketInv
  <2> QED BY <1>0, <2>4, <2>5, <2>6 DEF OpDone
<1>2. CASE ~(buckets[r.name].app = Absent /\ r.app \in apps)
  <2>1. Fail(q)
    BY <1>2 DEF CreateBucket
  <2> QED BY <1>0, <2>1, FailDone
<1> QED BY <1>1, <1>2

LEMMA DeletersDone ==
    ASSUME BucketInv, NEW q \in Requests, FindForDelete(q) \/ DeleteBucket(q)
    PROVE  OpDone(q)
<1>1. CASE FindForDelete(q)
  <2>0. req[q].pc = "admitted" /\ req[q] \in Request /\ WellSent(req[q])
    BY <1>1 DEF FindForDelete, Admitted, BucketInv, BucketTypes
  <2>1. CASE Found(req[q]) /\ Row(q).id = req[q].id
    <3> PICK r : r = req[q]
      OBVIOUS
    <3> PICK rr : rr = [r EXCEPT !.pc = "deleting"]
      OBVIOUS
    <3>1. rr \in Request /\ rr.pc = "deleting" /\ rr.op = r.op /\ rr.name = r.name /\ rr.strayed = r.strayed
      BY <2>0 DEF Request
    <3>2. WellSent(rr) /\ rr.strayed = Absent
      BY <2>0, <3>1 DEF WellSent
    <3>3. req' = [req EXCEPT ![q] = rr] /\ UNCHANGED <<buckets, keys, apps>>
      BY <1>1, <2>1 DEF FindForDelete
    <3> QED BY <2>0, <3>1, <3>2, <3>3 DEF OpDone
  <2>2. CASE ~(Found(req[q]) /\ Row(q).id = req[q].id)
    BY <1>1, <2>0, <2>2, FailDone DEF FindForDelete
  <2> QED BY <2>1, <2>2
<1>2. CASE DeleteBucket(q)
  <2>1. req[q].pc = "deleting"
    BY <1>2 DEF DeleteBucket
  <2>2. ~Row(q).used => RowMoves(Row(q), NoBucket, Flights)
    BY NoBucketKept DEF RowMoves
  <2> QED BY <1>2, <2>1, <2>2, FailDone, WriteDone DEF DeleteBucket
<1> QED BY <1>1, <1>2

LEMMA ReadersDone ==
    ASSUME BucketInv, NEW q \in Requests, NEW op,
           Read(q, op) \/ HeadBucket(q) \/ (op \in PolicyReaders /\ ReadPolicy(q, op))
    PROVE  OpDone(q)
<1>1. /\ req[q].pc = "admitted" /\ UNCHANGED <<buckets, keys, apps>>
      /\ \E app : /\ Ended(q, app) /\ app \in {Absent, Row(q).app}
                  /\ req[q].op \notin PolicyReaders /\ app # Absent => Found(req[q])
  BY DEF Read, HeadBucket, ReadPolicy, Admitted
<1>2. PICK app : /\ Ended(q, app) /\ app \in {Absent, Row(q).app}
                 /\ req[q].op \notin PolicyReaders /\ app # Absent => Found(req[q])
  BY <1>1
<1>3. Row(q).app \in Apps \cup {Absent} /\ (Found(req[q]) => Row(q).app = req[q].app)
  BY <1>1, OpContext
<1>4. PICK r \in Request : /\ req' = [req EXCEPT ![q] = r] /\ r.pc = "idle" /\ WellSent(r)
                           /\ app \in {Absent, req[q].app} => r.strayed = Absent
  BY <1>2, <1>3, EndedRequest DEF BucketInv
<1> QED BY <1>1, <1>2, <1>3, <1>4 DEF OpDone

-----------------------------------------------------------------------------
(* The invariant of the requests on buckets                                *)

LEMMA FlightKeeps ==
    ASSUME NEW r \in Request, NEW b \in Bucket, FlightKept(r, b), NEW new, NEW drawn,
           RowMoves(b, new, drawn), r.flight[1] \in drawn
    PROVE  FlightKept(r, new)
<1>0. b.corsRev \in Nat /\ new.corsRev \in Nat /\ r.flight[2] \in Nat /\ r.flight[1] \in Nat
  BY DEF Bucket, RowMoves, Request
<1>1. CASE SameBucket(b, new)
  BY <1>0, <1>1 DEF SameBucket, FlightKept
<1>2. CASE new = NoBucket
  BY <1>2, NoBucketKept DEF FlightKept
<1>3. CASE new.id \notin drawn
  BY <1>3 DEF FlightKept
<1> QED BY <1>1, <1>2, <1>3 DEF RowMoves

(* A step keeps the invariant when it moves the rows as allowed and gives  *)
(* the requests it changes what the invariant asks of them.                *)
LEMMA BucketStepKeeps ==
    ASSUME BucketInv, buckets' \in [Names -> Bucket], keys' \in [AccessKeys -> Key], apps' \subseteq Apps,
           \A n \in Names : buckets'[n] = buckets[n] \/ RowMoves(buckets[n], buckets'[n], Flights),
           req' \in [Requests -> Request],
           \A q \in Requests : \/ req'[q] = req[q]
                               \/ WellSent(req'[q]) /\ FlightKept(req'[q], buckets'[req'[q].name])
    PROVE  BucketInv'
<1>1. BucketTypes'
  BY DEF BucketTypes
<1>2. \A n \in Names : WellKept(buckets'[n])
  BY DEF BucketInv, RowMoves
<1>3. \A q \in Requests : WellSent(req'[q])
  BY DEF BucketInv
<1>4. ASSUME NEW q \in Requests, req'[q] = req[q] PROVE FlightKept(req[q], buckets'[req[q].name])
  <2> PICK r, n : r = req[q] /\ n = r.name
    OBVIOUS
  <2>1. CASE r.pc # "preflighted"
    BY <2>1 DEF FlightKept
  <2>2. CASE r.pc = "preflighted"
    <3>1. r \in Request /\ FlightKept(r, buckets[n])
      BY DEF BucketInv, BucketTypes
    <3>2. n \in Names
      BY <2>2 DEF BucketInv, WellSent
    <3>3. buckets[n] \in Bucket /\ r.flight[1] \in Flights
      BY <3>2 DEF BucketInv, BucketTypes, Flights
    <3>4. FlightKept(r, buckets'[n])
      BY <3>1, <3>2, <3>3, FlightKeeps
    <3> QED BY <3>4
  <2> QED BY <2>1, <2>2
<1>5. \A q \in Requests : FlightKept(req'[q], buckets'[req'[q].name])
  BY <1>4
<1> QED BY <1>1, <1>2, <1>3, <1>5 DEF BucketInv

(* The special case of a step that leaves rows and keys alone.             *)
LEMMA RequestStepKeeps ==
    ASSUME BucketInv, UNCHANGED <<buckets, keys, apps>>, NEW q \in Requests,
           NEW r \in Request, req' = [req EXCEPT ![q] = r], WellSent(r),
           FlightKept(r, buckets[r.name])
    PROVE  BucketInv'
<1>1. req' \in [Requests -> Request] /\ \A p \in Requests : req'[p] = IF p = q THEN r ELSE req[p]
  BY DEF BucketInv, BucketTypes
<1>2. buckets' \in [Names -> Bucket] /\ keys' \in [AccessKeys -> Key] /\ apps' \subseteq Apps
  BY DEF BucketInv, BucketTypes
<1> QED BY <1>1, <1>2, BucketStepKeeps

LEMMA RefusedKeeps ==
    ASSUME BucketInv, UNCHANGED <<buckets, keys, apps>>, NEW q \in Requests, Refused(q)
    PROVE  BucketInv'
<1>1. PICK r \in Request : req' = [req EXCEPT ![q] = r] /\ r.pc = "idle" /\ WellSent(r)
  BY EndedRequest DEF Refused, BucketInv
<1>2. FlightKept(r, buckets[r.name])
  BY <1>1 DEF FlightKept
<1> QED BY <1>1, <1>2, RequestStepKeeps

LEMMA OpDoneKeeps ==
    ASSUME BucketInv, NEW q \in Requests, OpDone(q)
    PROVE  BucketInv'
<1>1. PICK r \in Request : req' = [req EXCEPT ![q] = r] /\ r.pc \in {"idle", "deleting"} /\ WellSent(r)
  BY DEF OpDone
<1>2. req' \in [Requests -> Request] /\ \A p \in Requests : req'[p] = IF p = q THEN r ELSE req[p]
  BY <1>1 DEF BucketInv, BucketTypes
<1> PICK n : n = req[q].name
  OBVIOUS
<1>3. n \in Names
  BY OpContext DEF OpDone
<1>4. buckets' \in [Names -> Bucket]
      /\ \A m \in Names : buckets'[m] = buckets[m] \/ RowMoves(buckets[m], buckets'[m], Flights)
  <2>1. buckets \in [Names -> Bucket]
    BY DEF BucketInv, BucketTypes
  <2>2. CASE buckets' = buckets
    BY <2>1, <2>2
  <2>3. ASSUME NEW b, RowMoves(buckets[n], b, Flights), buckets' = [buckets EXCEPT ![n] = b]
        PROVE  buckets' \in [Names -> Bucket]
               /\ \A m \in Names : buckets'[m] = buckets[m] \/ RowMoves(buckets[m], buckets'[m], Flights)
    <3>1. b \in Bucket
      BY <2>3 DEF RowMoves
    <3> QED BY <1>3, <2>1, <2>3, <3>1
  <2> QED BY <2>2, <2>3 DEF OpDone
<1>5. keys' \in [AccessKeys -> Key] /\ apps' \subseteq Apps
  BY DEF OpDone, BucketInv, BucketTypes
<1>6. FlightKept(r, buckets'[r.name])
  BY <1>1 DEF FlightKept
<1> QED BY <1>1, <1>2, <1>4, <1>5, <1>6, BucketStepKeeps

LEMMA OptionsKeeps ==
    ASSUME BucketInv, NEW q \in Requests, NEW n \in Names, NEW op \in BrowserOps,
           NEW origin \in Origins, NEW headers, Options(q, n, op, origin, headers)
    PROVE  BucketInv'
<1> PICK b, r : /\ b = buckets[n]
                /\ r = [Idle EXCEPT !.pc = "preflighted", !.op = op, !.name = n, !.origin = origin,
                                    !.flight = <<b.id, b.corsRev>>]
  OBVIOUS
<1>1. /\ Preflight(CorsRules(n), origin, Method(op), headers)
      /\ req' = [req EXCEPT ![q] = r] /\ UNCHANGED <<buckets, keys, apps>>
  BY DEF Options
<1>2. b \in Bucket /\ WellKept(b) /\ b.id \in Nat /\ b.corsRev \in Nat /\ b.cors \in DOMAIN CorsDocs \cup {Absent}
  BY DEF BucketInv, BucketTypes, Bucket
<1>3. op \in Operations
  BY ApiAssumption
<1> PICK flight \in Nat \X Nat : flight = <<b.id, b.corsRev>>
  BY <1>2
<1> PICK idle : idle = Idle
  OBVIOUS
<1>4. /\ r \in Request /\ r.pc = "preflighted" /\ r.op = op /\ r.name = n /\ r.origin = origin
      /\ r.flight = flight /\ r.strayed = idle.strayed
  <2>1. idle \in Request
    BY IdleRequest
  <2>2. r = [idle EXCEPT !.pc = "preflighted", !.op = op, !.name = n, !.origin = origin, !.flight = flight]
    OBVIOUS
  <2> QED BY <1>3, <2>1, <2>2 DEF Request
<1>5. r.strayed = Absent
  BY <1>4 DEF Idle
<1>6. b.app # Absent
  BY <1>1 DEF CorsRules, Preflight, MatchingRule
<1>7. ActualRequest(Rules(b.cors), origin, Method(op))
  <2>1. CorsRules(n) = Rules(b.cors)
    BY <1>6 DEF CorsRules
  <2>2. DOMAIN Rules(b.cors) \subseteq Nat \ {0}
    BY <1>2, ApiAssumption DEF Rules
  <2> QED BY <1>1, <2>1, <2>2, PreflightFits
<1>8. WellSent(r)
  BY <1>3, <1>4, <1>5 DEF WellSent
<1>9. FlightKept(r, b)
  BY <1>2, <1>4, <1>6, <1>7 DEF FlightKept, WellKept
<1>10. FlightKept(r, buckets[r.name])
  BY <1>4, <1>9
<1> QED BY <1>1, <1>4, <1>8, <1>10, RequestStepKeeps

LEMMA ChecksType ==
    ASSUME NEW op \in Operations
    PROVE  Checks(op) \in Seq(AllActions) /\ Checks(op) # <<>>
<1>1. ActionOf(op) \in AllActions
  BY ApiAssumption
<1>2. {"CreateBucket", "PutBucketObjectLockConfiguration", "PutBucketVersioning"} \subseteq AllActions
  BY DEF AllActions, AccountActions, BucketActions
<1> QED BY <1>1, <1>2 DEF Checks

LEMMA LongTail ==
    ASSUME NEW S, NEW s \in Seq(S), Len(s) > 1
    PROVE  Tail(s) \in Seq(S) /\ Tail(s) # <<>>
<1>1. s # <<>>
  OBVIOUS
<1>2. Tail(s) \in Seq(S) /\ Len(Tail(s)) = Len(s) - 1
  BY <1>1
<1> PICK t \in Seq(S) : t = Tail(s)
  BY <1>2
<1>3. Len(t) # 0
  BY <1>2
<1>4. Len(<<>>) = 0
  OBVIOUS
<1>5. t # <<>>
  BY <1>3, <1>4, Zenon
<1> QED BY <1>5

LEMMA ArriveKeeps ==
    ASSUME BucketInv, NEW q \in Requests, NEW n \in Names, NEW op \in Operations, NEW c \in Clients,
           Arrive(q, n, op, c)
    PROVE  BucketInv'
<1>1. PICK pc, todo, decision, cors, ip, by, idle :
       /\ pc = IF c.by = Absent THEN "identified" ELSE "signed"
       /\ todo = IF c.by = Absent THEN <<>> ELSE Checks(op)
       /\ decision = IF c.by = Absent THEN "ImplicitDeny" ELSE Absent
       /\ cors = ActualRequest(CorsRules(n), req[q].origin, Method(op))
       /\ ip = c.ip /\ by = c.by /\ idle = Idle
  OBVIOUS
<1>2. PICK r : r = [idle EXCEPT !.pc = pc, !.op = op, !.by = by, !.ip = ip, !.name = n,
                                !.todo = todo, !.decision = decision, !.cors = cors]
  OBVIOUS
<1>3. req' = [req EXCEPT ![q] = r] /\ UNCHANGED <<buckets, keys, apps>>
  BY <1>1, <1>2 DEF Arrive
<1>4. by \in AccessKeys \cup {Absent} /\ cors \in BOOLEAN /\ ip \in {d.ip : d \in Clients} \cup {Absent}
  BY <1>1, ApiAssumption DEF ActualRequest
<1>5. /\ pc \in {"identified", "signed"} /\ todo \in Seq(AllActions)
      /\ decision \in Decisions \cup {Absent}
  BY <1>1, ChecksType DEF Decisions
<1>6. /\ r \in Request /\ r.pc = pc /\ r.op = op /\ r.by = by /\ r.name = n /\ r.todo = todo
      /\ r.strayed = idle.strayed
  <2>1. idle \in Request
    BY <1>1, IdleRequest
  <2>2. r.pc = pc /\ r.op = op /\ r.by = by /\ r.name = n /\ r.todo = todo /\ r.strayed = idle.strayed
    BY <1>2, <2>1 DEF Request
  <2>3. r.ip = ip /\ r.decision = decision /\ r.cors = cors
    BY <1>2, <2>1 DEF Request
  <2>4. r.app = idle.app /\ r.id = idle.id /\ r.flight = idle.flight /\ r.origin = idle.origin
    BY <1>2, <2>1 DEF Request
  <2> QED BY <1>2, <1>4, <1>5, <2>1, <2>2, <2>3, <2>4 DEF Request
<1>7. r.strayed = Absent
  BY <1>1, <1>6 DEF Idle
<1>8. by = Absent => op \in AnonymousOps
  BY <1>1, ApiAssumption DEF Arrive, Signed
<1>9. pc = "signed" => by # Absent /\ todo # <<>>
  BY <1>1, ChecksType
<1>10. WellSent(r)
  BY <1>4, <1>6, <1>7, <1>8, <1>9 DEF WellSent
<1>11. FlightKept(r, buckets[r.name])
  BY <1>5, <1>6 DEF FlightKept
<1> QED BY <1>3, <1>6, <1>10, <1>11, RequestStepKeeps

LEMMA DecisionType ==
    ASSUME NEW r, NEW action
    PROVE  IdentityDecision(r, action) \in Decisions
BY DEF IdentityDecision, EvaluateIdentityPolicy, EvaluateStatements, Decisions

LEMMA LoadIdentityKeeps ==
    ASSUME BucketInv, NEW q \in Requests, LoadIdentity(q)
    PROVE  BucketInv'
<1> PICK r, d : r = req[q] /\ d = IdentityDecision(r, Head(r.todo))
  OBVIOUS
<1> PICK next : next = CASE Len(r.todo) > 1 -> "signed"
                         [] r.op \in AccountOps -> "admitted"
                         [] OTHER -> "identified"
  OBVIOUS
<1> PICK app : app = IF next = "admitted" THEN KeyApp[r.by] ELSE Absent
  OBVIOUS
<1> PICK new : new = [r EXCEPT !.pc = next, !.todo = Tail(r.todo), !.decision = d, !.app = app]
  OBVIOUS
<1>1. /\ r.pc = "signed" /\ UNCHANGED <<buckets, keys, apps>>
      /\ Refused(q) \/ req' = [req EXCEPT ![q] = new]
  BY DEF LoadIdentity
<1>2. r \in Request /\ WellSent(r)
  BY DEF BucketInv, BucketTypes
<1>3. r.todo \in Seq(AllActions) /\ r.todo # <<>> /\ r.by \in AccessKeys /\ r.strayed = Absent
      /\ r.op \in Operations /\ r.name \in Names
  BY <1>1, <1>2 DEF WellSent, Request
<1>4. Tail(r.todo) \in Seq(AllActions) /\ (next = "signed" => Tail(r.todo) # <<>>)
  <2>1. next = "signed" => Len(r.todo) > 1
    OBVIOUS
  <2>2. Tail(r.todo) \in Seq(AllActions)
    BY <1>3
  <2> QED BY <1>3, <2>1, <2>2, LongTail
<1> PICK rest \in Seq(AllActions) : rest = Tail(r.todo)
  BY <1>4
<1>5. next \in {"signed", "admitted", "identified"} /\ d \in Decisions /\ app \in Apps \cup {Absent}
  <2>1. next \in {"signed", "admitted", "identified"}
    OBVIOUS
  <2>2. app \in Apps \cup {Absent}
    BY <1>3, ApiAssumption
  <2> QED BY <2>1, <2>2, DecisionType
<1>6. /\ new \in Request /\ new.pc = next /\ new.todo = rest /\ new.by = r.by /\ new.op = r.op
      /\ new.name = r.name /\ new.strayed = r.strayed
  BY <1>2, <1>5 DEF Request
<1>7. WellSent(new)
  BY <1>3, <1>4, <1>5, <1>6, ApiAssumption DEF WellSent
<1>8. FlightKept(new, buckets[new.name])
  BY <1>5, <1>6 DEF FlightKept
<1> QED BY <1>1, <1>6, <1>7, <1>8, RefusedKeeps, RequestStepKeeps

LEMMA AdmitKeeps ==
    ASSUME BucketInv, NEW q \in Requests, Resolve(q) \/ AuthorizeRequest(q)
    PROVE  BucketInv'
<1> PICK r, b : r = req[q] /\ b = buckets[r.name]
  OBVIOUS
<1> PICK new : new = Admit(r, b)
  OBVIOUS
<1>1. /\ r.pc = "identified" /\ UNCHANGED <<buckets, keys, apps>>
      /\ Refused(q) \/ req' = [req EXCEPT ![q] = new]
  BY DEF Resolve, AuthorizeRequest
<1>2. r \in Request /\ WellSent(r) /\ r.name \in Names /\ r.strayed = Absent /\ r.op \in Operations
  BY <1>1 DEF BucketInv, BucketTypes, WellSent
<1>3. b.app \in Apps \cup {Absent} /\ b.id \in Nat
  BY <1>2 DEF BucketInv, BucketTypes, Bucket
<1> PICK app \in Apps \cup {Absent}, id \in Nat : app = b.app /\ id = b.id
  BY <1>3
<1>4. /\ new \in Request /\ new.pc = "admitted" /\ new.op = r.op /\ new.name = r.name /\ new.strayed = r.strayed
  <2>1. new = [r EXCEPT !.pc = "admitted", !.app = app, !.id = id]
    BY DEF Admit
  <2> QED BY <1>2, <2>1 DEF Request
<1>5. WellSent(new) /\ FlightKept(new, buckets[new.name])
  BY <1>2, <1>4 DEF WellSent, FlightKept
<1> QED BY <1>1, <1>4, <1>5, RefusedKeeps, RequestStepKeeps

LEMMA KeysKeep ==
    ASSUME BucketInv, NEW k \in AccessKeys,
           \/ IssueKey(k) \/ RevokeKey(k) \/ DeleteIdentityPolicy(k)
           \/ \E d \in DOMAIN IdentityDocs : PutIdentityPolicy(k, d)
    PROVE  BucketInv'
<1>1. UNCHANGED <<buckets, apps, req>>
  BY DEF IssueKey, RevokeKey, DeleteIdentityPolicy, PutIdentityPolicy
<1>2. keys \in [AccessKeys -> Key]
  BY DEF BucketInv, BucketTypes
<1>3. keys' \in [AccessKeys -> Key]
  BY <1>2 DEF IssueKey, RevokeKey, DeleteIdentityPolicy, PutIdentityPolicy, Key
<1> QED BY <1>1, <1>3, BucketStepKeeps DEF BucketInv, BucketTypes

RowsMove == \A n \in Names : buckets'[n] = buckets[n] \/ RowMoves(buckets[n], buckets'[n], Flights)

LEMMA DeleteApplicationKeeps ==
    ASSUME BucketInv, NEW a \in Apps, DeleteApplication(a)
    PROVE  BucketInv' /\ RowsMove
<1>1. /\ \A n \in Names : buckets[n].app = a => ~buckets[n].used
      /\ apps' = apps \ {a} /\ UNCHANGED req
      /\ keys' = [k \in AccessKeys |-> IF KeyApp[k] = a THEN NoKey ELSE keys[k]]
      /\ buckets' = [n \in Names |-> IF buckets[n].app = a THEN NoBucket ELSE buckets[n]]
  BY DEF DeleteApplication
<1>2. keys' \in [AccessKeys -> Key] /\ apps' \subseteq Apps
  BY <1>1 DEF BucketInv, BucketTypes, Key, NoKey
<1>3. buckets' \in [Names -> Bucket]
  BY <1>1, NoBucketKept DEF BucketInv, BucketTypes
<1>4. \A n \in Names : buckets'[n] = buckets[n] \/ RowMoves(buckets[n], buckets'[n], Flights)
  BY <1>1, NoBucketKept DEF RowMoves
<1> QED BY <1>1, <1>2, <1>3, <1>4, BucketStepKeeps DEF BucketInv, BucketTypes, RowsMove

(* The operations a handler is entered with, taken together.               *)
BucketOps(q) ==
    \/ BucketGet(q) \/ BucketPut(q) \/ BucketDelete(q)
    \/ ListBuckets(q) \/ HeadBucket(q) \/ GetObject(q) \/ PutObject(q)

LEMMA BucketOpsDone ==
    ASSUME BucketInv, NEW q \in Requests, BucketOps(q)
    PROVE  OpDone(q)
<1>1. CASE BucketGet(q)
  <2>1. (\E op : Read(q, op)) \/ (\E op \in PolicyReaders : ReadPolicy(q, op))
    BY <1>1 DEF BucketGet, GetBucketLocation, GetBucketVersioning, GetBucketLifecycle, GetBucketCors,
               GetBucketTagging, GetBucketObjectLock, GetBucketPolicy, GetBucketPolicyStatus, PolicyReaders
  <2> QED BY <2>1, ReadersDone
<1>2. CASE BucketPut(q)
  <2>1. IsFiniteSet({})
    BY FS_EmptySet
  <2> QED BY <1>2, <2>1, CreateBucketDone, WritersDone, ConfiguratorsDone DEF BucketPut
<1>3. CASE BucketDelete(q)
  BY <1>3, DeletersDone, WritersDone, ConfiguratorsDone DEF BucketDelete
<1>4. CASE ListBuckets(q) \/ GetObject(q)
  BY <1>4, ReadersDone DEF ListBuckets, GetObject
<1>5. CASE HeadBucket(q)
  BY <1>5, ReadersDone
<1>6. CASE PutObject(q)
  BY <1>6, ConfiguratorsDone
<1> QED BY <1>1, <1>2, <1>3, <1>4, <1>5, <1>6 DEF BucketOps

LEMMA QuietKept ==
    ASSUME Quiet, buckets \in [Names -> Bucket], \A n \in Names : WellKept(buckets[n])
    PROVE  BucketInv
<1>1. ASSUME NEW k \in AccessKeys, NEW key,
             key = IF k \in Issued THEN [state |-> "active", policy |-> FirstPolicy] ELSE NoKey
      PROVE  key \in Key
  BY <1>1, ApiAssumption DEF Key, NoKey
<1>2. /\ keys = [k \in AccessKeys |-> IF k \in Issued THEN [state |-> "active", policy |-> FirstPolicy]
                                                      ELSE NoKey]
      /\ apps = Apps /\ req = [q \in Requests |-> Idle]
  BY DEF Quiet
<1>3. keys \in [AccessKeys -> Key]
  BY <1>1, <1>2
<1>4. Idle \in Request /\ Idle.pc = "idle"
  BY IdleRequest
<1>5. BucketTypes
  BY <1>2, <1>3, <1>4 DEF BucketTypes
<1>6. \A q \in Requests : WellSent(req[q]) /\ FlightKept(req[q], buckets[req[q].name])
  BY <1>2, <1>4 DEF WellSent, FlightKept
<1> QED BY <1>5, <1>6 DEF BucketInv

LEMMA BucketInitially == Init => BucketInv
<1> SUFFICES ASSUME Init PROVE BucketInv
  OBVIOUS
<1>0. PICK taken \in SUBSET Names : \E first \in [taken -> DOMAIN PolicyDocs \cup {Absent}] :
         buckets = [n \in Names |-> IF n \in taken
             THEN [NewBucket(Founder, 1, FALSE) EXCEPT !.policy = first[n]] ELSE NoBucket]
  BY DEF Init
<1>1. PICK first \in [taken -> DOMAIN PolicyDocs \cup {Absent}] :
         buckets = [n \in Names |-> IF n \in taken
             THEN [NewBucket(Founder, 1, FALSE) EXCEPT !.policy = first[n]] ELSE NoBucket]
  BY <1>0
<1>2. ASSUME NEW n \in Names PROVE buckets[n] \in Bucket /\ WellKept(buckets[n])
  <2>1. CASE n \in taken
    <3> PICK new, d, b : /\ new = NewBucket(Founder, 1, FALSE) /\ d = first[n]
                         /\ b = [new EXCEPT !.policy = d]
      OBVIOUS
    <3>0. d \in DOMAIN PolicyDocs \cup {Absent}
      BY <2>1
    <3>1. new \in Bucket /\ WellKept(new)
      <4>1. Founder \in Apps /\ 1 \in Nat \ {0} /\ FALSE \in BOOLEAN
        BY ApiAssumption
      <4> QED BY <4>1, NewBucketKept
    <3>2. /\ b \in Bucket /\ b.app = new.app /\ b.id = new.id /\ b.used = new.used
          /\ b.lock = new.lock /\ b.versioning = new.versioning
      BY <3>0, <3>1 DEF Bucket
    <3>3. buckets[n] = b
      BY <1>1, <2>1
    <3> QED BY <3>1, <3>2, <3>3 DEF WellKept
  <2>2. CASE n \notin taken
    BY <1>1, <2>2, NoBucketKept
  <2> QED BY <2>1, <2>2
<1>3. buckets \in [Names -> Bucket]
  BY <1>1, <1>2
<1> QED BY <1>2, <1>3, QuietKept DEF Init

(* The steps of the front end, sorted by what they may change.             *)
LEMMA BucketSteps ==
    ASSUME Next
    PROVE  \/ \E q \in Requests : req[q].pc = "idle" /\ \E n \in Names, op \in BrowserOps, o \in Origins, h \in Headers :
                  Options(q, n, op, o, h)
           \/ \E q \in Requests, n \in Names, op \in Operations, c \in Clients : Arrive(q, n, op, c)
           \/ \E q \in Requests : LoadIdentity(q) \/ Resolve(q) \/ AuthorizeRequest(q) \/ BucketOps(q)
           \/ \E k \in AccessKeys : \/ IssueKey(k) \/ RevokeKey(k) \/ DeleteIdentityPolicy(k)
                                    \/ \E d \in DOMAIN IdentityDocs : PutIdentityPolicy(k, d)
           \/ \E a \in Apps : DeleteApplication(a)
BY Zenon DEF Next, BucketOps

LEMMA BucketPreserved == BucketInv /\ [Next]_vars => BucketInv'
<1> SUFFICES ASSUME BucketInv, [Next]_vars PROVE BucketInv'
  OBVIOUS
<1>1. CASE UNCHANGED vars
  BY <1>1 DEF vars, BucketInv, BucketTypes
<1>2. CASE Next
  <2>1. ASSUME NEW q \in Requests, LoadIdentity(q) \/ Resolve(q) \/ AuthorizeRequest(q) \/ BucketOps(q)
        PROVE  BucketInv'
    BY <2>1, LoadIdentityKeeps, AdmitKeeps, BucketOpsDone, OpDoneKeeps
  <2> QED BY <1>2, <2>1, BucketSteps, OptionsKeeps, ArriveKeeps, KeysKeep, DeleteApplicationKeeps
<1> QED BY <1>1, <1>2

(* BucketInv in every reachable state of the bucket requests: rows of the  *)
(* table, requests and preflights stay consistent with one another.        *)
THEOREM BucketInvariant == Spec => []BucketInv
<1> QED BY BucketInitially, BucketPreserved, PTL DEF Spec
-----------------------------------------------------------------------------
(* What a step may never do                                                *)

(* A step moves at most one request, and says from which stage.            *)
LEMMA RequestMoves ==
    ASSUME BucketInv, Next
    PROVE  \/ UNCHANGED req
           \/ \E q \in Requests :
                 /\ \A p \in Requests \ {q} : req'[p] = req[p]
                 /\ \/ req[q].pc \in {"idle", "signed"}
                    \/ \E n \in Names, op \in Operations, c \in Clients : Arrive(q, n, op, c)
                    \/ Resolve(q) \/ AuthorizeRequest(q)
                    \/ OpDone(q)
<1> DEFINE stage(q) == \/ req[q].pc \in {"idle", "signed"}
                       \/ \E n \in Names, op \in Operations, c \in Clients : Arrive(q, n, op, c)
                       \/ Resolve(q) \/ AuthorizeRequest(q)
                       \/ OpDone(q)
           Moves == \E q \in Requests : (\A p \in Requests \ {q} : req'[p] = req[p]) /\ stage(q)
<1>0. ASSUME NEW q \in Requests, stage(q), \E r : req' = [req EXCEPT ![q] = r] PROVE Moves
  BY <1>0 DEF BucketInv, BucketTypes
<1>1. ASSUME NEW q \in Requests, req[q].pc = "idle", NEW n, NEW op, NEW o, NEW h, Options(q, n, op, o, h)
      PROVE  Moves
  <2>1. \E r : req' = [req EXCEPT ![q] = r]
    BY <1>1 DEF Options
  <2> QED BY <1>0, <1>1, <2>1
<1>2. ASSUME NEW q \in Requests, NEW n \in Names, NEW op \in Operations, NEW c \in Clients, Arrive(q, n, op, c)
      PROVE  Moves
  <2>1. \E r : req' = [req EXCEPT ![q] = r]
    BY <1>2 DEF Arrive
  <2> QED BY <1>0, <1>2, <2>1
<1>3. ASSUME NEW q \in Requests, LoadIdentity(q)
      PROVE  Moves
  <2>1. req[q].pc = "signed" /\ \E r : req' = [req EXCEPT ![q] = r]
    BY <1>3 DEF LoadIdentity, Refused, Ended
  <2> QED BY <1>0, <2>1
<1>4. ASSUME NEW q \in Requests, Resolve(q) \/ AuthorizeRequest(q)
      PROVE  Moves
  <2>1. \E r : req' = [req EXCEPT ![q] = r]
    BY <1>4 DEF Resolve, AuthorizeRequest, Refused, Ended
  <2> QED BY <1>0, <1>4, <2>1
<1>5. ASSUME NEW q \in Requests, BucketOps(q)
      PROVE  Moves
  <2>1. OpDone(q)
    BY <1>5, BucketOpsDone
  <2>2. \E r : req' = [req EXCEPT ![q] = r]
    BY <2>1 DEF OpDone
  <2> QED BY <1>0, <2>1, <2>2
<1>6. ASSUME NEW k, \/ IssueKey(k) \/ RevokeKey(k) \/ DeleteIdentityPolicy(k)
                    \/ \E d \in DOMAIN IdentityDocs : PutIdentityPolicy(k, d)
      PROVE  UNCHANGED req
  BY <1>6 DEF IssueKey, RevokeKey, DeleteIdentityPolicy, PutIdentityPolicy
<1>7. ASSUME NEW a, DeleteApplication(a) PROVE UNCHANGED req
  BY <1>7 DEF DeleteApplication
<1> HIDE DEF stage, Moves
<1>8. Moves \/ UNCHANGED req
  BY <1>1, <1>2, <1>3, <1>4, <1>5, <1>6, <1>7, BucketSteps
<1> QED BY <1>8 DEF Moves, stage

LEMMA PcOfStage ==
    ASSUME NEW q \in Requests
    PROVE  /\ (\E n, op, c : Arrive(q, n, op, c)) => req[q].pc \in {"idle", "preflighted"}
           /\ Resolve(q) \/ AuthorizeRequest(q) => req[q].pc = "identified"
           /\ OpDone(q) => req[q].pc \in {"admitted", "deleting"}
BY DEF Arrive, Resolve, AuthorizeRequest, OpDone

(* TenantFence: no request that an authorisation has let through reads or  *)
(* changes a row of another application, whatever happened to the bucket   *)
(* and its name in between; the readers of a bucket policy excepted.       *)
THEOREM TenantIsFenced == Spec => TenantFence
<1>1. BucketInv /\ [Next]_vars =>
        [\A q \in Requests :
            req[q].pc \in {"admitted", "deleting"} /\ req[q].op \notin {"GetPolicy", "GetPolicyStatus"}
            /\ req'[q] /= req[q] => req'[q].strayed = Absent]_vars
  <2> SUFFICES ASSUME BucketInv, Next, NEW q \in Requests,
                      req[q].pc \in {"admitted", "deleting"}, req[q].op \notin PolicyReaders,
                      req'[q] # req[q]
               PROVE  req'[q].strayed = Absent
    BY DEF PolicyReaders
  <2>1. OpDone(q)
    BY RequestMoves, PcOfStage
  <2>2. PICK r \in Request : req' = [req EXCEPT ![q] = r] /\ r.strayed = Absent
    BY <2>1 DEF OpDone
  <2> QED BY <2>2 DEF BucketInv, BucketTypes
<1> QED BY <1>1, BucketInvariant, PTL DEF Spec, TenantFence

(* PreflightIsKept: a preflight that succeeded settles the CORS headers of *)
(* the request it was for, as long as its document is not written again.   *)
THEOREM PreflightHolds == Spec => PreflightIsKept
<1>1. BucketInv /\ [Next]_vars =>
        [\A q \in Requests :
            LET r == req[q]  b == buckets[r.name] IN
            r.pc = "preflighted" /\ r.flight = <<b.id, b.corsRev>> /\ req'[q].pc /= "preflighted"
            => req'[q].cors]_vars
  <2> SUFFICES ASSUME BucketInv, Next, NEW q \in Requests, req[q].pc = "preflighted",
                      req[q].flight = <<buckets[req[q].name].id, buckets[req[q].name].corsRev>>,
                      req'[q].pc # "preflighted"
               PROVE  req'[q].cors
    OBVIOUS
  <2> PICK r, n, b : r = req[q] /\ n = r.name /\ b = buckets[n]
    OBVIOUS
  <2>1. PICK op, m, c : Arrive(q, m, op, c)
    BY RequestMoves, PcOfStage
  <2>2. op = r.op /\ m = n
    BY <2>1 DEF Arrive
  <2>3. r \in Request /\ n \in Names /\ b \in Bucket /\ FlightKept(r, b)
    BY DEF BucketInv, BucketTypes, WellSent
  <2>4. r.flight[1] = b.id /\ r.flight[2] = b.corsRev
    OBVIOUS
  <2>5. b.app # Absent /\ ActualRequest(Rules(b.cors), r.origin, Method(op))
    BY <2>2, <2>3, <2>4 DEF FlightKept
  <2>6. ActualRequest(CorsRules(n), r.origin, Method(op))
    BY <2>5 DEF CorsRules
  <2>7. req'[q].cors = ActualRequest(CorsRules(n), r.origin, Method(op))
    BY <2>1, <2>2 DEF Arrive, Idle, BucketInv, BucketTypes
  <2> QED BY <2>6, <2>7
<1> QED BY <1>1, BucketInvariant, PTL DEF Spec, PreflightIsKept
-----------------------------------------------------------------------------
(* Who a bucket policy lets in                                             *)

LEMMA CallerOfRequest ==
    ASSUME NEW r, NEW action
    PROVE  /\ PolicyRequest(r, action).account = IF r.by /= Absent THEN KeyApp[r.by] ELSE Absent
           /\ PolicyRequest(r, action).context["PrincipalArn"] = r.by
<1>1. "PrincipalArn" \in ConditionKeys
  BY DEF ConditionKeys, StringKeys
<1> QED BY <1>1 DEF PolicyRequest

(* A caller from outside the owner's account is let in by an Allow of the  *)
(* bucket policy alone.                                                    *)
LEMMA AdmittedByStatement ==
    ASSUME NEW decision, NEW doc, NEW owner, NEW target, NEW r,
           r.account # owner, Authorize(decision, doc, owner, target, r) = "Allowed"
    PROVE  \E s \in doc : s.effect = "Allow" /\ StatementMatches(s, "bucket", r)
<1>1. doc # {} /\ EvaluateBucketPolicy(doc, target, r) = "Allow"
  BY DEF Authorize
<1>2. EvaluateStatements(doc, "bucket", r) = "Allow"
  BY <1>1 DEF EvaluateBucketPolicy
<1> QED BY <1>2 DEF EvaluateStatements

(* No principal that policy_status trusts is the principal of an outsider. *)
LEMMA OutsiderIsNotTrusted ==
    ASSUME NEW d \in DOMAIN PolicyDocs, NEW s \in PolicyDocs[d], NEW owner \in Apps,
           NEW r, r.by \in AccessKeys \cup {Absent}, Outsider(r, owner), NEW action,
           StatementMatches(s, "bucket", PolicyRequest(r, action))
    PROVE  /\ ~ MatchesNobody(s.principal)
           /\ ~ ClauseIsTrusted(s.principal, owner)
           /\ \A c \in s.conditions : ~ RestrictsToTrusted(c, owner)
<1> PICK pr : pr = PolicyRequest(r, action)
  OBVIOUS
<1>1. /\ pr.account = IF r.by /= Absent THEN KeyApp[r.by] ELSE Absent
      /\ pr.context["PrincipalArn"] = r.by
  BY CallerOfRequest
<1>2. Absent \notin Apps \cup AccessKeys
  BY ApiAssumption
<1>3. pr.account # owner /\ \A k \in AccessKeys : r.by = k => KeyApp[k] # owner
  BY <1>1, <1>2 DEF Outsider
<1>4. PrincipalMatches(s.principal, pr) /\ \A c \in s.conditions : ConditionMatches(c, pr)
  BY DEF StatementMatches
<1>5. ~ MatchesNobody(s.principal)
  BY <1>4 DEF MatchesNobody, PrincipalMatches, Is
<1>6. ASSUME ClauseIsTrusted(s.principal, owner) PROVE FALSE
  <2>1. PICK p \in s.principal.of : Is(p, pr) /\ p.kind # "any" /\ p.account = owner
    <3>1. s.principal.neg = FALSE
      BY <1>6, PrincipalAssumption DEF ClauseIsTrusted
    <3> QED BY <1>4, <1>6, <3>1 DEF ClauseIsTrusted, PrincipalMatches, PrincipalIsTrusted
  <2>2. p.kind # "account" /\ r.by = p.arn
    BY <1>1, <1>3, <2>1 DEF Is
  <2>3. p.arn # Absent /\ (p.arn \in AccessKeys => KeyApp[p.arn] = p.account)
    BY <2>1, <2>2, PrincipalAssumption
  <2> QED BY <1>3, <2>1, <2>2, <2>3
<1>7. ASSUME NEW c \in s.conditions, RestrictsToTrusted(c, owner) PROVE FALSE
  <2>1. c.key = "PrincipalArn" /\ c.op \in {"StringEquals", "StringLike"}
        /\ \A v \in c.values : v.exact /\ v.account = owner
    BY <1>7 DEF RestrictsToTrusted
  <2>2. ConditionMatches(c, pr)
    BY <1>4
  <2>3. r.by # Absent /\ \E x \in c.values : ValueMatches("PrincipalArn", x, r.by)
    BY <1>1, <2>1, <2>2 DEF ConditionMatches, NegativeOps
  <2>4. PICK x \in c.values : r.by \in x.denotes
    BY <2>3 DEF ValueMatches, Glob
  <2>5. \A k \in x.denotes \cap AccessKeys : KeyApp[k] = x.account
    BY <2>1, PrincipalAssumption
  <2> QED BY <1>3, <2>1, <2>3, <2>4, <2>5
<1> QED BY <1>5, <1>6, <1>7

(* OutsidersOnlyIfPublic: whoever comes from outside the owner's account   *)
(* is let in only by a policy whose status says public, or from an address *)
(* that the policy pins.                                                   *)
THEOREM OutsidersOnlyIfPolicyIsPublic == Spec => OutsidersOnlyIfPublic
<1>1. BucketInv /\ [Next]_vars =>
        [\A q \in Requests :
            LET r == req[q]  b == buckets[r.name] IN
            r.pc = "identified" /\ req'[q].pc = "admitted" /\ Outsider(r, b.app) =>
                IsPublic(Document(b.policy), b.app) \/ Pinned(r, Document(b.policy))]_vars
  <2> SUFFICES ASSUME BucketInv, Next, NEW q \in Requests, req[q].pc = "identified",
                      req'[q].pc = "admitted", Outsider(req[q], buckets[req[q].name].app)
               PROVE  \/ IsPublic(Document(buckets[req[q].name].policy), buckets[req[q].name].app)
                      \/ Pinned(req[q], Document(buckets[req[q].name].policy))
    OBVIOUS
  <2> PICK r, n, b : r = req[q] /\ n = r.name /\ b = buckets[n]
    OBVIOUS
  <2>1. Resolve(q) \/ AuthorizeRequest(q)
    BY RequestMoves, PcOfStage
  <2>2. ~Refused(q)
    BY IdleRequest DEF Refused, Ended, BucketInv, BucketTypes
  <2>3. /\ r \in Request /\ n \in Names /\ b \in Bucket /\ r.by \in AccessKeys \cup {Absent}
        /\ r.by = Absent => r.op \in AnonymousOps
    BY DEF BucketInv, BucketTypes, WellSent, Request
  <2>4. ~Resolve(q)
    <3>1. AnonymousOps \cap OwnerOps = {}
      BY DEF AnonymousOps, OwnerOps
    <3> QED BY <2>2, <2>3, <3>1 DEF Resolve, Outsider
  <2>5. /\ b.app # Absent
        /\ Authorize(r.decision, Document(b.policy), b.app, n, PolicyRequest(r, ActionOf(r.op))) = "Allowed"
    BY <2>1, <2>2, <2>4 DEF AuthorizeRequest
  <2>6. b.app \in Apps /\ b.policy \in DOMAIN PolicyDocs \cup {Absent}
    BY <2>3, <2>5 DEF Bucket
  <2>7. PolicyRequest(r, ActionOf(r.op)).account # b.app
    BY <2>5, CallerOfRequest DEF Outsider
  <2>8. PICK s \in Document(b.policy) : s.effect = "Allow" /\ StatementMatches(s, "bucket", PolicyRequest(r, ActionOf(r.op)))
    BY <2>5, <2>7, AdmittedByStatement
  <2>9. b.policy \in DOMAIN PolicyDocs /\ s \in PolicyDocs[b.policy]
    BY <2>6, <2>8 DEF Document
  <2>10. /\ ~ MatchesNobody(s.principal) /\ ~ ClauseIsTrusted(s.principal, b.app)
         /\ \A c \in s.conditions : ~ RestrictsToTrusted(c, b.app)
    BY <2>3, <2>6, <2>8, <2>9, OutsiderIsNotTrusted
  <2>11. (\E c \in s.conditions : RestrictsToExactIps(c)) => Pinned(r, Document(b.policy))
    BY <2>8 DEF Pinned
  <2>12. (~ \E c \in s.conditions : RestrictsToExactIps(c)) => IsPublic(Document(b.policy), b.app)
    BY <2>8, <2>10 DEF IsPublic, MayGrantPublicAccess
  <2> QED BY <2>11, <2>12
<1> QED BY <1>1, BucketInvariant, PTL DEF Spec, OutsidersOnlyIfPublic

-----------------------------------------------------------------------------
(***************************************************************************)
(* Requests on objects.                                                    *)
(***************************************************************************)

(* The one object of a bucket: numbered versions, none in a bucket that    *)
(* was never used, and retentions under Object Lock only.                  *)
ObjectKept(o, b) ==
    /\ ~b.used => o = NoObject
    /\ \A v \in o.versions : v.no <= o.last
    /\ \A v, w \in o.versions : v.no = w.no => v = w
    /\ ~b.lock => \A v \in o.versions : v.retention = NoRetention

(* An open upload keeps its bucket.                                        *)
UploadKept(u, b) == u.app = b.app /\ b.used

Writers == {"Put", "Copy", "DavPut", "DavCreate", "DavCopy"}
Committers == Writers \cup {"CompleteUpload"}
(* The stages of a write between its intent and its commit                 *)
Writing == {"streaming", "bucketRead", "objectRead", "committing"}
Creators == {"Put", "Copy", "CreateUpload"}

If(condition, action) == IF condition THEN {action} ELSE {}

(* What a request must have been granted before it changes anything.       *)
Required(r) ==
    LET f == r.form IN
    CASE f.op \in Creators ->
            {"PutObject"} \cup If(r.tags, "PutObjectTagging")
            \cup If(f.retention # NoRetention, "PutObjectRetention") \cup If(f.hold, "PutObjectLegalHold")
      [] f.op \in {"CompleteUpload", "DavPut", "DavCreate", "DavCopy"} -> {"PutObject"}
      [] f.op = "Delete" ->
            {IF f.exact THEN "DeleteObjectVersion" ELSE "DeleteObject"}
            \cup If(f.bypass, "BypassGovernanceRetention")
      [] f.op = "DavDelete" -> {"DeleteObject"}
      [] f.op = "PutTags" -> {IF f.exact THEN "PutObjectVersionTagging" ELSE "PutObjectTagging"}
      [] f.op = "DeleteTags" -> {IF f.exact THEN "DeleteObjectVersionTagging" ELSE "DeleteObjectTagging"}
      [] f.op = "PutRetention" -> {"PutObjectRetention"}
      [] f.op = "PutHold" -> {"PutObjectLegalHold"}
      [] OTHER -> {}

Elements(s) == {s[i] : i \in DOMAIN s}

(* The checks still to come of those required                              *)
ToCheck(r) == IF r.pc \in {"signed", "identified"} /\ r.on # "source" THEN Elements(r.todo) ELSE {}

Holds(r, action) == <<action, r.app>> \in r.granted

(* A request under way: what it requires was granted by the application it *)
(* is bound to, or is still to be checked.                                 *)
TaskKept(r, b) ==
    r.pc # "idle" =>
        /\ r.name \in Names /\ r.src \in Names
        /\ \A a \in Required(r) : Holds(r, a) \/ a \in ToCheck(r)
        /\ r.pc \in {"signed", "identified"} => r.form.op \in ObjectOps /\ r.todo # <<>>
        /\ r.on = "source" => r.form.op \in CopyOps /\ r.app # Absent
        /\ r.form.op \in DavOps => r.form = Form(r.form.op) /\ ~r.tags
        /\ r.pc = "prepared" => r.form.op \in Writers
        /\ r.pc \in Writing => r.form.op \in Committers /\ r.app = b.app /\ b.used
        /\ r.form.op = "CompleteUpload" => ~LockRequested(r.form)
        /\ r.form.op = "PutRetention" =>
             IF r.app = Absent THEN r.pc \in {"signed", "identified"} => Head(r.todo) = "PutObjectRetention"
             ELSE Holds(r, "PutObjectRetention")

ObjectInv ==
    /\ BucketInv
    /\ ObjectTypes /\ IsFiniteSet(uploads)
    /\ \A n \in Names : ObjectKept(objects[n], buckets[n])
    /\ \A u \in uploads : UploadKept(u, buckets[u.name])
    /\ \A t \in Tasks : TaskKept(task[t], buckets[task[t].name])
-----------------------------------------------------------------------------
(* Rows under the objects                                                  *)

(* A bucket in use keeps its identity.                                     *)
LEMMA UsedRowStays ==
    ASSUME NEW b, WellKept(b), NEW new, NEW drawn, RowMoves(b, new, drawn), ~SameBucket(b, new)
    PROVE  ~b.used
BY DEF RowMoves, WellKept

LEMMA ObjectRowKept ==
    ASSUME NEW b, WellKept(b), NEW new, NEW drawn, RowMoves(b, new, drawn), NEW o, ObjectKept(o, b)
    PROVE  ObjectKept(o, new)
<1>1. CASE SameBucket(b, new)
  BY <1>1 DEF SameBucket, ObjectKept
<1>2. CASE ~SameBucket(b, new)
  BY <1>2, UsedRowStays DEF ObjectKept, NoObject
<1> QED BY <1>1, <1>2

LEMMA UploadRowKept ==
    ASSUME NEW b, WellKept(b), NEW new, NEW drawn, RowMoves(b, new, drawn), NEW u, UploadKept(u, b)
    PROVE  UploadKept(u, new)
BY UsedRowStays DEF SameBucket, UploadKept

LEMMA TaskRowKept ==
    ASSUME NEW b, WellKept(b), NEW new, NEW drawn, RowMoves(b, new, drawn), NEW r, TaskKept(r, b)
    PROVE  TaskKept(r, new)
<1>1. b.used => new.used /\ new.app = b.app
  BY UsedRowStays DEF SameBucket
<1> QED BY <1>1 DEF TaskKept

(* A step keeps the invariant when it moves the rows as allowed and gives  *)
(* what it changes itself what the invariant asks of it.                   *)
LEMMA ObjectStepKeeps ==
    ASSUME ObjectInv, BucketInv', RowsMove,
           task' \in [Tasks -> Task], objects' \in [Names -> Object], uploads' \subseteq Upload,
           IsFiniteSet(uploads'),
           \A t \in Tasks : task'[t] = task[t] \/ TaskKept(task'[t], buckets'[task'[t].name]),
           \A n \in Names : objects'[n] = objects[n] \/ ObjectKept(objects'[n], buckets'[n]),
           \A u \in uploads' : u \in uploads \/ UploadKept(u, buckets'[u.name])
    PROVE  ObjectInv'
<1>1. ObjectTypes'
  BY DEF ObjectTypes
<1>2. ASSUME NEW n \in Names, ObjectKept(objects[n], buckets[n])
      PROVE  ObjectKept(objects[n], buckets'[n])
  BY <1>2, ObjectRowKept DEF RowsMove, ObjectInv, BucketInv
<1>3. ASSUME NEW u \in uploads, u.name \in Names
      PROVE  UploadKept(u, buckets'[u.name])
  BY <1>3, UploadRowKept DEF RowsMove, ObjectInv, BucketInv
<1>4. ASSUME NEW t \in Tasks
      PROVE  TaskKept(task[t], buckets'[task[t].name])
  <2> PICK r, n : r = task[t] /\ n = r.name
    OBVIOUS
  <2>1. CASE r.pc = "idle"
    BY <2>1 DEF TaskKept
  <2>2. CASE n \in Names
    <3>1. TaskKept(r, buckets[n]) /\ WellKept(buckets[n])
      BY <2>2 DEF ObjectInv, BucketInv
    <3>2. TaskKept(r, buckets'[n])
      BY <2>2, <3>1, TaskRowKept DEF RowsMove
    <3> QED BY <3>2
  <2>3. r.pc = "idle" \/ n \in Names
    BY DEF ObjectInv, TaskKept
  <2> QED BY <2>1, <2>2, <2>3
<1>5. \A n \in Names : ObjectKept(objects'[n], buckets'[n])
  BY <1>2 DEF ObjectInv
<1>6. \A u \in uploads' : UploadKept(u, buckets'[u.name])
  BY <1>3 DEF Upload
<1>7. \A t \in Tasks : TaskKept(task'[t], buckets'[task'[t].name])
  BY <1>4
<1> QED BY <1>1, <1>5, <1>6, <1>7 DEF ObjectInv

LEMMA RememberedIsFinite == ObjectInv => IsFiniteSet(Remembered)
<1> SUFFICES ASSUME ObjectInv PROVE IsFiniteSet(Remembered)
  OBVIOUS
<1>1. IsFiniteSet({task[t].id : t \in Tasks})
  <2> DEFINE f == [t \in Tasks |-> task[t].id]
  <2>1. {f[t] : t \in Tasks} = {task[t].id : t \in Tasks}
    OBVIOUS
  <2> HIDE DEF f
  <2>2. IsFiniteSet(Tasks)
    BY ObjectAssumption
  <2> QED BY <2>1, <2>2, ImageFinite
<1>2. IsFiniteSet({u.id : u \in uploads})
  <2> DEFINE f == [u \in uploads |-> u.id]
  <2>1. {f[u] : u \in uploads} = {u.id : u \in uploads}
    OBVIOUS
  <2> HIDE DEF f
  <2>2. IsFiniteSet(uploads)
    BY DEF ObjectInv
  <2> QED BY <2>1, <2>2, ImageFinite
<1> QED BY <1>1, <1>2, FS_Union DEF Remembered

(* Bucket requests and the console leave the objects alone.                *)
LEMMA BucketStepMoves ==
    ASSUME ObjectInv, BucketStep
    PROVE  BucketInv' /\ RowsMove
<1>0. BucketInv /\ IsFiniteSet(Remembered)
  BY RememberedIsFinite DEF ObjectInv
<1>1. ASSUME NEW q \in Requests, OpDone(q) PROVE BucketInv' /\ RowsMove
  <2> PICK n : n = req[q].name
    OBVIOUS
  <2>1. n \in Names /\ buckets \in [Names -> Bucket]
    BY <1>0, <1>1, OpContext DEF OpDone, BucketInv, BucketTypes
  <2>2. buckets' = buckets \/ \E b : RowMoves(buckets[n], b, Flights) /\ buckets' = [buckets EXCEPT ![n] = b]
    BY <1>1 DEF OpDone
  <2>3. RowsMove
    BY <2>1, <2>2 DEF RowsMove
  <2> QED BY <1>0, <1>1, <2>3, OpDoneKeeps
<1>2. ASSUME buckets' = buckets PROVE RowsMove
  BY <1>2 DEF RowsMove
<1>3. ASSUME NEW q \in Requests, NEW n \in Names, NEW op \in Operations, NEW c \in Clients, Arrive(q, n, op, c)
      PROVE  BucketInv' /\ RowsMove
  BY <1>0, <1>2, <1>3, ArriveKeeps DEF Arrive
<1>4. ASSUME NEW q \in Requests, LoadIdentity(q)
      PROVE  BucketInv' /\ RowsMove
  BY <1>0, <1>2, <1>4, LoadIdentityKeeps DEF LoadIdentity
<1>5. ASSUME NEW q \in Requests, Resolve(q) \/ AuthorizeRequest(q)
      PROVE  BucketInv' /\ RowsMove
  BY <1>0, <1>2, <1>5, AdmitKeeps DEF Resolve, AuthorizeRequest
<1>6. ASSUME NEW q \in Requests,
             \/ CreateBucket(q, "CreateBucket", Remembered) \/ FindForDelete(q) \/ DeleteBucket(q)
             \/ PutPolicy(q) \/ PutVersioning(q) \/ PutObjectLock(q)
      PROVE  OpDone(q)
  BY <1>0, <1>6, CreateBucketDone, DeletersDone, WritersDone, ConfiguratorsDone
<1>7. ASSUME NEW k \in AccessKeys, \/ RevokeKey(k) \/ DeleteIdentityPolicy(k)
                                 \/ \E d \in DOMAIN IdentityDocs : PutIdentityPolicy(k, d)
      PROVE  BucketInv' /\ RowsMove
  BY <1>0, <1>2, <1>7, KeysKeep DEF RevokeKey, DeleteIdentityPolicy, PutIdentityPolicy
<1>8. ASSUME NEW a \in Apps, DeleteApplication(a)
      PROVE  BucketInv' /\ RowsMove
  BY <1>0, <1>8, DeleteApplicationKeeps
<1>9. Contested \subseteq Names
  BY ObjectAssumption
<1> QED BY <1>1, <1>3, <1>4, <1>5, <1>6, <1>7, <1>8, <1>9 DEF BucketStep
-----------------------------------------------------------------------------
(* The checks of a request, as sets                                        *)

LEMMA ElementsOfJoin ==
    ASSUME NEW S, NEW s \in Seq(S), NEW t \in Seq(S)
    PROVE  s \o t \in Seq(S) /\ Elements(s) \cup Elements(t) \subseteq Elements(s \o t)
<1>1. s \o t \in Seq(S) /\ DOMAIN (s \o t) = 1 .. Len(s) + Len(t)
  OBVIOUS
<1>2. ASSUME NEW i \in DOMAIN s PROVE s[i] \in Elements(s \o t)
  <2>1. i \in DOMAIN (s \o t) /\ (s \o t)[i] = s[i]
    BY <1>1
  <2> QED BY <2>1 DEF Elements
<1>3. ASSUME NEW i \in DOMAIN t PROVE t[i] \in Elements(s \o t)
  <2>1. Len(s) + i \in DOMAIN (s \o t) /\ (s \o t)[Len(s) + i] = t[i]
    BY <1>1
  <2> QED BY <2>1 DEF Elements
<1> QED BY <1>1, <1>2, <1>3 DEF Elements

LEMMA ElementsOfOne ==
    ASSUME NEW S, NEW a \in S
    PROVE  /\ <<a>> \in Seq(S) /\ <<a>> # <<>> /\ Head(<<a>>) = a /\ Elements(<<a>>) = {a}
           /\ <<>> \in Seq(S)
BY DEF Elements

LEMMA ElementsOfTail ==
    ASSUME NEW S, NEW s \in Seq(S), s # <<>>
    PROVE  /\ Head(s) \in S /\ Tail(s) \in Seq(S)
           /\ Elements(s) \subseteq {Head(s)} \cup Elements(Tail(s))
           /\ Len(s) = 1 => Elements(s) = {Head(s)}
           /\ Len(s) # 1 => Tail(s) # <<>>
<1>1. Len(s) \in Nat \ {0} /\ DOMAIN s = 1 .. Len(s) /\ Head(s) = s[1] /\ 1 \in DOMAIN s
  OBVIOUS
<1>2. Tail(s) \in Seq(S) /\ DOMAIN Tail(s) = 1 .. Len(s) - 1
  BY <1>1
<1>3. ASSUME NEW i \in DOMAIN s, i # 1 PROVE s[i] \in Elements(Tail(s))
  <2>1. i - 1 \in DOMAIN Tail(s) /\ Tail(s)[i - 1] = s[i]
    BY <1>1, <1>2, <1>3
  <2> QED BY <2>1 DEF Elements
<1>4. Head(s) \in S
  BY <1>1
<1>5. Elements(s) \subseteq {Head(s)} \cup Elements(Tail(s))
  BY <1>1, <1>3 DEF Elements
<1>6. Len(s) = 1 => Elements(s) = {Head(s)}
  BY <1>1 DEF Elements
<1>7. Len(s) # 1 => Tail(s) # <<>>
  <2>1. Len(s) # 1 => Len(s) > 1
    BY <1>1
  <2> QED BY <2>1, LongTail
<1> QED BY <1>2, <1>4, <1>5, <1>6, <1>7

(* A list of checks that begins with first and goes on with action, if it  *)
(* is required.                                                            *)
LEMMA AlsoCovers ==
    ASSUME NEW s \in Seq(AllActions), s # <<>>, NEW required \in BOOLEAN, NEW action \in AllActions
    PROVE  /\ s \o Also(required, action) \in Seq(AllActions) /\ s \o Also(required, action) # <<>>
           /\ Head(s \o Also(required, action)) = Head(s)
           /\ Elements(s) \cup If(required, action) \subseteq Elements(s \o Also(required, action))
<1> PICK rest : rest = Also(required, action)
  OBVIOUS
<1>1. rest \in Seq(AllActions) /\ If(required, action) \subseteq Elements(rest)
  BY ElementsOfOne DEF Also, If
<1>2. s \o rest \in Seq(AllActions) /\ Elements(s) \cup Elements(rest) \subseteq Elements(s \o rest)
  BY <1>1, ElementsOfJoin
<1>3. Len(s) \in Nat \ {0} /\ Len(s \o rest) = Len(s) + Len(rest) /\ Len(rest) \in Nat
  BY <1>1
<1>4. Len(<<>>) = 0 /\ Len(s \o rest) # 0
  BY <1>3
<1>5. s \o rest # <<>>
  BY <1>4, Zenon
<1>6. Head(s \o rest) = Head(s)
  BY <1>1, <1>3
<1> QED BY <1>1, <1>2, <1>5, <1>6

LEMMA ActionsAreActions ==
    {"PutObject", "PutObjectTagging", "PutObjectAcl", "PutObjectRetention", "PutObjectLegalHold",
     "DeleteObject", "DeleteObjectVersion", "BypassGovernanceRetention", "GetObject", "GetObjectVersion",
     "GetObjectTagging", "GetObjectVersionTagging", "PutObjectVersionTagging", "DeleteObjectTagging",
     "DeleteObjectVersionTagging", "GetObjectAcl", "GetObjectVersionAcl", "PutObjectVersionAcl",
     "GetObjectRetention", "GetObjectLegalHold", "ListMultipartUploadParts", "AbortMultipartUpload"}
    \subseteq AllActions
BY DEF AllActions, ObjectActions

LEMMA WantedByPutCovers ==
    ASSUME NEW f \in ObjectForm
    PROVE  /\ WantedByPut(f) \in Seq(AllActions) /\ WantedByPut(f) # <<>>
           /\ {"PutObject"} \cup If(f.tags, "PutObjectTagging")
                \cup If(f.retention # NoRetention, "PutObjectRetention") \cup If(f.hold, "PutObjectLegalHold")
              \subseteq Elements(WantedByPut(f))
<1> DEFINE s0 == <<"PutObject">>
           s1 == s0 \o Also(f.tags, "PutObjectTagging")
           s2 == s1 \o Also(f.acl, "PutObjectAcl")
           s3 == s2 \o Also(f.retention /= NoRetention, "PutObjectRetention")
           s4 == s3 \o Also(f.hold, "PutObjectLegalHold")
<1>0. f.tags \in BOOLEAN /\ f.acl \in BOOLEAN /\ f.hold \in BOOLEAN /\ (f.retention /= NoRetention) \in BOOLEAN
  BY DEF ObjectForm
<1>1. s0 \in Seq(AllActions) /\ s0 # <<>> /\ Elements(s0) = {"PutObject"}
  BY ElementsOfOne, ActionsAreActions
<1>2. s1 \in Seq(AllActions) /\ s1 # <<>> /\ Elements(s0) \cup If(f.tags, "PutObjectTagging") \subseteq Elements(s1)
  <2> HIDE DEF s0
  <2> QED BY <1>0, <1>1, AlsoCovers, ActionsAreActions
<1>3. s2 \in Seq(AllActions) /\ s2 # <<>> /\ Elements(s1) \subseteq Elements(s2)
  <2> HIDE DEF s1
  <2> QED BY <1>0, <1>2, AlsoCovers, ActionsAreActions
<1>4. s3 \in Seq(AllActions) /\ s3 # <<>>
      /\ Elements(s2) \cup If(f.retention # NoRetention, "PutObjectRetention") \subseteq Elements(s3)
  <2> HIDE DEF s2
  <2> QED BY <1>0, <1>3, AlsoCovers, ActionsAreActions
<1>5. s4 \in Seq(AllActions) /\ s4 # <<>>
      /\ Elements(s3) \cup If(f.hold, "PutObjectLegalHold") \subseteq Elements(s4)
  <2> HIDE DEF s3
  <2> QED BY <1>0, <1>4, AlsoCovers, ActionsAreActions
<1>6. WantedByPut(f) = s4
  BY DEF WantedByPut
<1> HIDE DEF s0, s1, s2, s3, s4
<1> QED BY <1>1, <1>2, <1>3, <1>4, <1>5, <1>6
(* The forms of the entries of one batch                                   *)
SameForm(g, f) ==
    g.op = f.op /\ g.exact = f.exact /\ g.bypass = f.bypass /\ g.retention = f.retention /\ g.hold = f.hold

(* The list of checks covers what the request requires; a late copy of tags *)
(* adds its own check.                                                     *)
LEMMA WantedCovers ==
    ASSUME NEW f \in ObjectForm, f.op \in ObjectOps, NEW r, SameForm(r.form, f), r.tags \in BOOLEAN,
           r.tags => f.tags
    PROVE  /\ Wanted(f) \in Seq(AllActions) /\ Wanted(f) # <<>>
           /\ f.op = "PutRetention" => Head(Wanted(f)) = "PutObjectRetention"
           /\ Required(r) \subseteq Elements(Wanted(f))
<1>0. f.exact \in BOOLEAN /\ f.bypass \in BOOLEAN /\ f.tags \in BOOLEAN
  BY DEF ObjectForm
<1>1. CASE f.op \in Creators
  <2>1. Wanted(f) = WantedByPut(f)
    BY <1>1, Zenon DEF Wanted, Creators
  <2>2. Required(r) = {"PutObject"} \cup If(r.tags, "PutObjectTagging")
            \cup If(f.retention # NoRetention, "PutObjectRetention") \cup If(f.hold, "PutObjectLegalHold")
    BY <1>1 DEF Required, Creators, SameForm
  <2>3. If(r.tags, "PutObjectTagging") \subseteq If(f.tags, "PutObjectTagging")
    BY DEF If
  <2>4. f.op # "PutRetention"
    BY <1>1 DEF Creators
  <2> QED BY <2>1, <2>2, <2>3, <2>4, WantedByPutCovers
<1>2. CASE f.op = "Delete"
  <2> PICK a \in AllActions : a = IF f.exact THEN "DeleteObjectVersion" ELSE "DeleteObject"
    BY ActionsAreActions
  <2>1. Wanted(f) = <<a>> \o Also(f.bypass, "BypassGovernanceRetention")
    BY <1>2 DEF Wanted, WantedByDelete
  <2>2. Required(r) = {a} \cup If(f.bypass, "BypassGovernanceRetention")
    BY <1>2 DEF Required, Creators, SameForm
  <2>3. <<a>> \in Seq(AllActions) /\ <<a>> # <<>> /\ Elements(<<a>>) = {a}
    BY ElementsOfOne
  <2>4. "BypassGovernanceRetention" \in AllActions
    BY ActionsAreActions
  <2>5. /\ Wanted(f) \in Seq(AllActions) /\ Wanted(f) # <<>>
        /\ Elements(<<a>>) \cup If(f.bypass, "BypassGovernanceRetention") \subseteq Elements(Wanted(f))
    BY <1>0, <2>1, <2>3, <2>4, AlsoCovers
  <2> QED BY <1>2, <2>2, <2>3, <2>5
<1>3. CASE f.op = "PutRetention"
  <2> PICK a \in AllActions : a = "PutObjectRetention"
    BY ActionsAreActions
  <2>1. Wanted(f) = <<a>> \o Also(f.bypass, "BypassGovernanceRetention")
    BY <1>3 DEF Wanted
  <2>2. Required(r) = {a}
    BY <1>3 DEF Required, Creators, SameForm
  <2>3. <<a>> \in Seq(AllActions) /\ <<a>> # <<>> /\ Elements(<<a>>) = {a} /\ Head(<<a>>) = a
    BY ElementsOfOne
  <2>4. "BypassGovernanceRetention" \in AllActions
    BY ActionsAreActions
  <2> PICK s : s = <<a>>
    OBVIOUS
  <2>5. LET w == s \o Also(f.bypass, "BypassGovernanceRetention")
        IN  /\ w \in Seq(AllActions) /\ w # <<>> /\ Head(w) = Head(s)
            /\ Elements(s) \cup If(f.bypass, "BypassGovernanceRetention") \subseteq Elements(w)
    BY <1>0, <2>3, <2>4, AlsoCovers
  <2> QED BY <2>1, <2>2, <2>3, <2>5
<1>4. CASE f.op \notin Creators \cup {"Delete", "PutRetention"}
  <2>1. \E a \in AllActions : Wanted(f) = <<a>> /\ Required(r) \subseteq {a}
    <3>1. CASE f.op \in {"Get", "GetAcl", "PutAcl", "GetTags"}
      BY <1>0, <3>1, ActionsAreActions DEF Wanted, Required, Creators, SameForm
    <3>2. CASE f.op \in {"PutTags", "DeleteTags"}
      BY <1>0, <3>2, ActionsAreActions DEF Wanted, Required, Creators, SameForm
    <3>3. CASE f.op \in {"GetRetention", "GetHold", "PutHold"}
      BY <3>3, ActionsAreActions DEF Wanted, Required, Creators, SameForm
    <3>4. CASE f.op \in {"UploadPart", "UploadPartCopy", "CompleteUpload", "ListParts", "AbortUpload"}
      BY <3>4, ActionsAreActions DEF Wanted, Required, Creators, SameForm
    <3> QED BY <1>4, <3>1, <3>2, <3>3, <3>4 DEF Creators, ObjectOps
  <2> QED BY <1>4, <2>1, ElementsOfOne
<1> QED BY <1>1, <1>2, <1>3, <1>4
-----------------------------------------------------------------------------
(* Requests                                                                *)

LEMMA FormType == \A op \in ObjectOps \cup DavOps \cup {Absent} : Form(op) \in ObjectForm /\ Form(op).op = op
  BY DEF Form, ObjectForm, Retention

(* The fields of a request, each with its set.                             *)
TaskPc == {"idle", "signed", "identified", "granted", "prepared", "streaming", "bucketRead",
           "objectRead", "committing", "dav"}
TaskOn == {"target", "source", "late"}
Addresses == {c.ip : c \in Clients} \cup {Absent}
Callers == AccessKeys \cup {Absent}
NamesOrNone == Names \cup {Absent}
AppsOrNone == Apps \cup {Absent}
Verdicts == Decisions \cup {Absent}
Todos == Seq(AllActions)
Grants == SUBSET (AllActions \X Apps)
Numbers == SUBSET Nat

LEMMA TaskFields ==
    Task = [pc : TaskPc, form : ObjectForm, by : Callers, ip : Addresses, name : NamesOrNone,
            src : NamesOrNone, on : TaskOn, todo : Todos, decision : Verdicts, app : AppsOrNone,
            id : Nat, srcApp : AppsOrNone, tags : BOOLEAN, granted : Grants,
            null : BOOLEAN, last : Nat, replaced : Numbers]
  BY Zenon DEF Task, TaskPc, TaskOn, Addresses, Callers, NamesOrNone, AppsOrNone, Verdicts, Todos, Grants,
               Numbers

LEMMA IdleTaskKept == IdleTask \in Task /\ IdleTask.pc = "idle" /\ \A b : TaskKept(IdleTask, b)
<1> PICK f : f = Form(Absent)
  OBVIOUS
<1> PICK r : r = IdleTask
  OBVIOUS
<1>1. f \in ObjectForm
  BY FormType
<1>2. r = [pc |-> "idle", form |-> f, by |-> Absent, ip |-> Absent, name |-> Absent,
           src |-> Absent, on |-> "target", todo |-> <<>>, decision |-> Absent, app |-> Absent,
           id |-> 0, srcApp |-> Absent, tags |-> FALSE, granted |-> {},
           null |-> FALSE, last |-> 0, replaced |-> {}]
  BY DEF IdleTask
<1>3. <<>> \in Todos /\ {} \in Grants /\ {} \in Numbers
  BY DEF Todos, Grants, Numbers
<1>4. "idle" \in TaskPc /\ "target" \in TaskOn /\ Absent \in Callers /\ Absent \in Addresses
      /\ Absent \in NamesOrNone /\ Absent \in AppsOrNone /\ Absent \in Verdicts
  BY DEF TaskPc, TaskOn, Callers, Addresses, NamesOrNone, AppsOrNone, Verdicts
<1>5. r \in Task
  BY <1>1, <1>2, <1>3, <1>4, TaskFields
<1> QED BY <1>2, <1>5 DEF TaskKept

(* The requests and the first versions of an instance                      *)
LEMMA FormsGiven ==
    \A f \in Forms : /\ f \in ObjectForm /\ f.op \in ObjectOps
                     /\ f.op = "CompleteUpload" => ~LockRequested(f)
<1>1. ASSUME NEW f \in Forms PROVE f \in ObjectForm /\ f.op \in ObjectOps /\ (f.op = "CompleteUpload" => f = Form(f.op))
  BY <1>1, ObjectAssumption, Zenon
<1>2. ~LockRequested(Form("CompleteUpload"))
  BY DEF Form, LockRequested
<1> QED BY <1>1, <1>2

LEMMA VersionsGiven ==
    \A v \in FirstVersions : /\ v \in ObjectVersion /\ v.no = 1
                             /\ v.retention # NoRetention => ~v.null
  BY ObjectAssumption, Zenon

LEMMA WantedType ==
    ASSUME NEW f \in ObjectForm, f.op \in ObjectOps
    PROVE  Wanted(f) \in Todos
<1> PICK x : x = [form |-> f, tags |-> FALSE]
  OBVIOUS
<1>1. SameForm(x.form, f) /\ x.tags \in BOOLEAN /\ (x.tags => f.tags)
  BY DEF SameForm
<1> QED BY <1>1, WantedCovers DEF Todos

(* A request as it starts, or as a batch goes on with its next entry.      *)
LEMMA SignedTask ==
    ASSUME NEW r \in Task, r.pc \in {"signed", "identified"}, r.name \in Names, r.src \in Names,
           r.on = "target", r.app = Absent, NEW f \in ObjectForm, f.op \in ObjectOps, SameForm(r.form, f),
           r.tags => f.tags, r.todo = Wanted(f), f.op = "CompleteUpload" => ~LockRequested(f)
    PROVE  \A b : TaskKept(r, b)
<1> PICK w, g : w = Wanted(f) /\ g = r.form
  OBVIOUS
<1>1. r.tags \in BOOLEAN
  BY TaskFields
<1>2. w \in Seq(AllActions) /\ w # <<>> /\ Required(r) \subseteq Elements(w)
      /\ (f.op = "PutRetention" => Head(w) = "PutObjectRetention")
  BY <1>1, WantedCovers
<1>3. ToCheck(r) = Elements(w)
  BY DEF ToCheck
<1>4. g.op = f.op /\ g.op \in ObjectOps /\ g.op \notin DavOps
  BY DEF ObjectOps, DavOps, SameForm
<1>5. r.todo = w /\ r.form = g
  OBVIOUS
<1>6. g.op = "CompleteUpload" => ~LockRequested(g)
  BY <1>4 DEF SameForm, LockRequested
<1>7. r.pc # "prepared" /\ r.pc \notin Writing
  BY DEF Writing
<1> QED BY <1>2, <1>3, <1>4, <1>5, <1>6, <1>7 DEF TaskKept

(* What a step of a request may do, apart from the request itself.         *)
LEMMA ArriveObjectTask ==
    ASSUME NEW t \in Tasks, NEW f \in Forms, NEW n \in Names, NEW src \in Names, NEW c \in Clients,
           ArriveObject(t, f, n, src, c)
    PROVE  \E r \in Task : task' = [task EXCEPT ![t] = r] /\ \A b : TaskKept(r, b)
<1>1. PICK i, pc, by, ip, todo, tags, decision :
       /\ i = IdleTask /\ pc = (IF Signed(c) THEN "signed" ELSE "identified") /\ by = c.by /\ ip = c.ip
       /\ todo = Wanted(f) /\ tags = f.tags /\ decision = IF Signed(c) THEN Absent ELSE "ImplicitDeny"
  OBVIOUS
<1>2. PICK r : r = [i EXCEPT !.pc = pc, !.form = f, !.by = by, !.ip = ip, !.name = n, !.src = src,
                         !.todo = todo, !.tags = tags, !.decision = decision]
  OBVIOUS
<1>3. task' = [task EXCEPT ![t] = r]
  BY <1>1, <1>2 DEF ArriveObject, Resume
<1>4. f \in ObjectForm /\ f.op \in ObjectOps
  BY FormsGiven
<1>5. i \in Task /\ i.on = "target" /\ i.app = Absent
  BY <1>1, IdleTaskKept DEF IdleTask
<1>6. /\ r.pc = pc /\ r.form = f /\ r.name = n /\ r.src = src /\ r.on = "target"
      /\ r.todo = todo /\ r.tags = tags /\ r.app = Absent
  BY <1>2, <1>5, TaskFields
<1>7. todo \in Todos
  BY <1>1, <1>4, WantedType
<1>8. c.by \in AccessKeys \cup {Absent}
  BY ApiAssumption
<1>9. /\ pc \in {"signed", "identified"} /\ by \in Callers /\ ip \in Addresses /\ decision \in Verdicts
      /\ n \in NamesOrNone /\ src \in NamesOrNone /\ pc \in TaskPc
  BY <1>1, <1>8 DEF TaskPc, Callers, Addresses, Verdicts, NamesOrNone, Decisions
<1>10. tags \in BOOLEAN
  BY <1>1, <1>4 DEF ObjectForm
<1>11. r \in Task
  BY <1>2, <1>4, <1>5, <1>7, <1>9, <1>10, TaskFields
<1>12. SameForm(r.form, f)
  BY <1>6 DEF SameForm
<1>a. f.op = "CompleteUpload" => ~LockRequested(f)
  BY FormsGiven
<1>13. \A b : TaskKept(r, b)
  BY <1>1, <1>4, <1>6, <1>9, <1>11, <1>12, <1>a, SignedTask
<1> QED BY <1>3, <1>11, <1>13

(* The next entry of a batch, or the end                                   *)
LEMMA NextEntryTask ==
    ASSUME ObjectInv, NEW t \in Tasks, task[t].pc # "idle",
           task[t].form.op \in ObjectOps \/ task[t].form.left = 0, NextEntry(t)
    PROVE  \E r \in Task : task' = [task EXCEPT ![t] = r] /\ \A b : TaskKept(r, b)
<1> PICK r : r = task[t]
  OBVIOUS
<1>1. r \in Task /\ r.name \in Names /\ r.src \in Names
  BY DEF ObjectInv, ObjectTypes, TaskKept
<1>2. CASE r.form.left = 0
  BY <1>2, IdleTaskKept DEF NextEntry, Resume
<1>3. CASE r.form.left # 0
  <2>1. PICK i, f, by, ip, n, src, left, todo :
         /\ i = IdleTask /\ f = r.form /\ by = r.by /\ ip = r.ip /\ n = r.name /\ src = r.src
         /\ left = f.left - 1 /\ todo = Wanted(f)
    OBVIOUS
  <2>2. PICK g : g = [f EXCEPT !.left = left]
    OBVIOUS
  <2>3. PICK s : s = [i EXCEPT !.pc = "signed", !.by = by, !.ip = ip, !.name = n,
                       !.src = src, !.form = g, !.todo = todo]
    OBVIOUS
  <2>4. task' = [task EXCEPT ![t] = s]
    BY <1>3, <2>1, <2>2, <2>3 DEF NextEntry, Resume
  <2>5. f \in ObjectForm /\ f.op \in ObjectOps /\ by \in Callers /\ ip \in Addresses
        /\ n \in Names /\ src \in Names /\ n \in NamesOrNone /\ src \in NamesOrNone
    BY <1>1, <1>3, <2>1, TaskFields DEF NamesOrNone
  <2>6. left \in Nat
    <3>1. f.left \in Nat
      BY <2>5 DEF ObjectForm
    <3> QED BY <1>3, <2>1, <3>1
  <2>7. g \in ObjectForm /\ SameForm(g, f)
    BY <2>2, <2>5, <2>6 DEF ObjectForm, SameForm
  <2>8. i \in Task /\ i.on = "target" /\ i.app = Absent /\ ~i.tags
    BY <2>1, IdleTaskKept DEF IdleTask
  <2>9. todo \in Todos
    BY <2>1, <2>5, WantedType
  <2>10. "signed" \in TaskPc
    BY DEF TaskPc
  <2>11. s \in Task
    BY <2>3, <2>5, <2>7, <2>8, <2>9, <2>10, TaskFields
  <2>12. /\ s.pc = "signed" /\ s.form = g /\ s.name = n /\ s.src = src /\ s.on = "target"
         /\ s.todo = todo /\ ~s.tags /\ s.app = Absent
    BY <2>3, <2>8, TaskFields
  <2>a. f.op = "CompleteUpload" => ~LockRequested(f)
    BY <2>1 DEF ObjectInv, TaskKept
  <2>13. \A b : TaskKept(s, b)
    BY <2>1, <2>5, <2>7, <2>11, <2>12, <2>a, SignedTask
  <2> QED BY <2>4, <2>11, <2>13
<1> QED BY <1>2, <1>3
-----------------------------------------------------------------------------
(* The steps of a request                                                  *)

(* What a step of request t leaves behind.                                 *)
TaskDone(t) ==
    LET r == task[t]
        n == r.name
    IN
    /\ UNCHANGED <<keys, apps, req>>
    /\ \E s \in Task : task' = [task EXCEPT ![t] = s] /\ TaskKept(s, buckets'[s.name])
    /\ \/ buckets' = buckets
       \/ \E b : RowMoves(buckets[n], b, Flights) /\ buckets' = [buckets EXCEPT ![n] = b] /\ n \in Names
    /\ \/ objects' = objects
       \/ /\ buckets' = buckets /\ n \in Names
          /\ \E o \in Object :
                /\ objects' = [objects EXCEPT ![n] = o] /\ ObjectKept(o, buckets[n])
                /\ MayDo(r, buckets[n].app, Needs(objects[n], o, r.form.op = "CompleteUpload", r.replaced))
    /\ \/ uploads' \subseteq uploads
       \/ \E u \in Upload :
             /\ uploads' = uploads \cup {u} /\ UploadKept(u, buckets'[u.name])
             /\ MayDo(r, buckets[u.name].app,
                      {{"PutObject"}} \cup (IF u.tags THEN {{"PutObjectTagging"}} ELSE {}))

(* A step that only moves the request on                                   *)
LEMMA MovesDone ==
    ASSUME NEW t \in Tasks, UNCHANGED <<buckets, keys, apps, req, objects, uploads>>,
           NEW s \in Task, task' = [task EXCEPT ![t] = s], TaskKept(s, buckets[s.name])
    PROVE  TaskDone(t)
BY DEF TaskDone

LEMMA DoneDone ==
    ASSUME NEW t \in Tasks, Done(t)
    PROVE  TaskDone(t)
<1>1. UNCHANGED <<buckets, keys, apps, req, objects, uploads>> /\ task' = [task EXCEPT ![t] = IdleTask]
  BY DEF Done, Goes, Resume, vars
<1> QED BY <1>1, IdleTaskKept, MovesDone

LEMMA DeniedDone ==
    ASSUME ObjectInv, NEW t \in Tasks, task[t].pc \in {"signed", "identified"}, NEW b, Denied(t, b)
    PROVE  TaskDone(t)
<1>1. UNCHANGED <<buckets, keys, apps, req, objects, uploads>>
  BY DEF Denied, vars
<1>2. CASE Resume(t, IdleTask)
  BY <1>1, <1>2, IdleTaskKept, MovesDone DEF Resume
<1>3. CASE NextEntry(t)
  <2>1. task[t].form.op \in ObjectOps /\ task[t].pc # "idle"
    BY DEF ObjectInv, TaskKept
  <2>2. PICK s \in Task : task' = [task EXCEPT ![t] = s] /\ \A c : TaskKept(s, c)
    BY <1>3, <2>1, NextEntryTask
  <2> QED BY <1>1, <2>2, MovesDone
<1> QED BY <1>2, <1>3 DEF Denied

LEMMA TaskContext ==
    ASSUME ObjectInv, NEW t \in Tasks, task[t].pc # "idle"
    PROVE  /\ task[t] \in Task /\ task[t].name \in Names /\ task[t].src \in Names
           /\ TaskKept(task[t], buckets[task[t].name])
           /\ buckets \in [Names -> Bucket] /\ buckets[task[t].name] \in Bucket
           /\ WellKept(buckets[task[t].name])
           /\ objects \in [Names -> Object] /\ objects[task[t].name] \in Object
           /\ ObjectKept(objects[task[t].name], buckets[task[t].name])
BY DEF ObjectInv, ObjectTypes, TaskKept, BucketInv, BucketTypes

LEMMA IdentifyDone ==
    ASSUME ObjectInv, NEW t \in Tasks, Identify(t)
    PROVE  TaskDone(t)
<1> PICK r : r = task[t]
  OBVIOUS
<1>1. r.pc = "signed"
  BY DEF Identify
<1>2. r \in Task /\ TaskKept(r, buckets[r.name])
  BY <1>1, TaskContext
<1>3. CASE Denied(t, buckets[JudgedName(r)])
  BY <1>1, <1>3, DeniedDone
<1>4. CASE ~Denied(t, buckets[JudgedName(r)])
  <2>1. PICK d : d = IdentityDecision(Judged(r), Head(r.todo))
    OBVIOUS
  <2>2. PICK s : s = [r EXCEPT !.pc = "identified", !.decision = d]
    OBVIOUS
  <2>3. task' = [task EXCEPT ![t] = s] /\ UNCHANGED <<buckets, keys, apps, req, objects, uploads>>
    BY <1>4, <2>1, <2>2 DEF Identify, Resume, vars
  <2>4. d \in Verdicts /\ "identified" \in TaskPc
    BY <2>1, DecisionType DEF Verdicts, TaskPc
  <2>5. s \in Task
    BY <1>2, <2>2, <2>4, TaskFields
  <2>6. /\ s.pc = "identified" /\ s.form = r.form /\ s.name = r.name /\ s.src = r.src /\ s.on = r.on
        /\ s.todo = r.todo /\ s.app = r.app /\ s.tags = r.tags /\ s.granted = r.granted
    BY <1>2, <2>2, TaskFields
  <2>7. Required(s) = Required(r)
    BY <2>6 DEF Required
  <2>8. ToCheck(s) = ToCheck(r)
    BY <1>1, <2>6 DEF ToCheck
  <2>9. TaskKept(s, buckets[s.name])
    BY <1>1, <1>2, <2>6, <2>7, <2>8 DEF TaskKept, Holds, Writing
  <2> QED BY <2>3, <2>5, <2>9, MovesDone
<1> QED BY <1>3, <1>4
(* The fields of a request that an action has been allowed for             *)
LEMMA GrantedTask ==
    ASSUME NEW r \in Task, r.pc = "identified", NEW b0, TaskKept(r, b0), NEW b, b.app \in Apps, b.id \in Nat,
           SameTarget(r, b), NEW c
    PROVE  Granted(r, b) \in Task /\ TaskKept(Granted(r, b), c)
<1>1. PICK f, w, a, last, toSource :
       /\ f = r.form /\ w = r.todo /\ a = Head(w) /\ last = (Len(w) = 1)
       /\ toSource = (last /\ r.on = "target" /\ f.op \in CopyOps)
  OBVIOUS
<1>2. PICK pc, on, todo :
       /\ pc = (IF last /\ ~toSource THEN "granted" ELSE "signed")
       /\ on = (IF toSource THEN "source" ELSE r.on)
       /\ todo = (IF toSource THEN <<"GetObject">> ELSE Tail(w))
  OBVIOUS
<1>3. PICK app, id, srcApp, granted :
       /\ app = (IF r.app = Absent THEN b.app ELSE r.app)
       /\ id = (IF r.app = Absent THEN b.id ELSE r.id)
       /\ srcApp = (IF r.on # "source" THEN r.srcApp ELSE b.app)
       /\ granted = (IF r.on # "source" THEN r.granted \cup {<<a, b.app>>} ELSE r.granted)
  OBVIOUS
<1>4. PICK s : s = [r EXCEPT !.pc = pc, !.on = on, !.todo = todo, !.app = app, !.id = id,
                         !.srcApp = srcApp, !.granted = granted]
  OBVIOUS
<1>5. s = Granted(r, b)
  BY <1>1, <1>2, <1>3, <1>4 DEF Granted
<1>6. /\ r.on \in {"target", "source", "late"} /\ r.app \in Apps \cup {Absent} /\ r.id \in Nat
      /\ r.srcApp \in AppsOrNone /\ r.granted \in SUBSET (AllActions \X Apps) /\ w \in Seq(AllActions)
  BY <1>1, TaskFields DEF TaskOn, AppsOrNone, Todos, Grants
<1>7. w # <<>> /\ f.op \in ObjectOps /\ f.op \notin DavOps
  BY <1>1 DEF TaskKept, ObjectOps, DavOps
<1>8. /\ a \in AllActions /\ Tail(w) \in Seq(AllActions)
      /\ Elements(w) \subseteq {a} \cup Elements(Tail(w)) /\ (last => Elements(w) = {a})
      /\ (~last => Tail(w) # <<>>)
  BY <1>1, <1>6, <1>7, ElementsOfTail
<1>9. todo \in Seq(AllActions)
  BY <1>2, <1>8, ElementsOfOne, ActionsAreActions
<1>10. s \in Task
  <2>1. pc \in TaskPc /\ on \in TaskOn /\ todo \in Todos
    BY <1>2, <1>6, <1>9 DEF TaskPc, TaskOn, Todos
  <2>2. app \in AppsOrNone /\ id \in Nat /\ srcApp \in AppsOrNone
    BY <1>3, <1>6 DEF AppsOrNone
  <2>3. granted \in Grants
    BY <1>3, <1>6, <1>8 DEF Grants
  <2> QED BY <1>4, <2>1, <2>2, <2>3, TaskFields
<1>11. /\ s.pc = pc /\ s.form = f /\ s.name = r.name /\ s.src = r.src /\ s.on = on
       /\ s.todo = todo /\ s.app = app /\ s.tags = r.tags /\ s.granted = granted
  BY <1>1, <1>4, TaskFields
<1>12. Required(s) = Required(r)
  BY <1>1, <1>11 DEF Required
<1>13. app # Absent /\ b.app # Absent
  BY <1>3, ApiAssumption
<1>14. \A x : <<x, Absent>> \notin r.granted
  BY <1>6, ApiAssumption
<1>15. r.on # "source" /\ app = b.app => <<a, app>> \in granted
  BY <1>3
<1>16. \A x : Holds(r, x) => Holds(s, x)
  BY <1>3, <1>11, <1>14 DEF Holds
<1>17. \/ r.on = "source" \/ app = b.app
       \/ f.op = "PutRetention" /\ r.app # Absent
  BY <1>1, <1>3 DEF SameTarget
<1>18. f.op = "PutRetention" => Holds(s, "PutObjectRetention")
  <2>1. CASE r.app # Absent
    BY <1>1, <1>16, <2>1 DEF TaskKept
  <2>2. ASSUME r.app = Absent, f.op = "PutRetention" PROVE Holds(s, "PutObjectRetention")
    <3>1. a = "PutObjectRetention"
      BY <1>1, <2>2 DEF TaskKept
    <3>2. r.on # "source"
      BY <2>2 DEF TaskKept
    <3> QED BY <1>3, <1>11, <2>2, <3>1, <3>2 DEF Holds
  <2> QED BY <2>1, <2>2
<1>19. \A x \in Required(s) : Holds(s, x) \/ x \in ToCheck(s)
  <2>1. \A x \in Required(r) : Holds(r, x) \/ x \in ToCheck(r)
    BY DEF TaskKept
  <2>2. CASE r.on = "source"
    BY <1>12, <1>16, <2>1, <2>2 DEF ToCheck
  <2>3. CASE f.op = "PutRetention"
    <3>1. Required(r) = {"PutObjectRetention"}
      BY <1>1, <2>3 DEF Required, Creators
    <3> QED BY <1>12, <1>18, <2>3, <3>1
  <2>4. CASE r.on # "source" /\ f.op # "PutRetention"
    <3>1. Holds(s, a)
      BY <1>11, <1>15, <1>17, <2>4 DEF Holds
    <3>2. \A x \in Required(s) : Holds(s, x) \/ x \in Elements(w)
      BY <1>1, <1>12, <1>16, <2>1, <2>4 DEF ToCheck
    <3>3. CASE last
      BY <1>8, <3>1, <3>2, <3>3
    <3>4. CASE ~last
      <4>1. ~toSource /\ pc = "signed" /\ on # "source" /\ todo = Tail(w)
        BY <1>1, <1>2, <2>4, <3>4
      <4>2. ToCheck(s) = Elements(Tail(w))
        BY <1>11, <4>1 DEF ToCheck
      <4> QED BY <1>8, <3>1, <3>2, <4>2
    <3> QED BY <3>3, <3>4
  <2> QED BY <2>2, <2>3, <2>4
<1>20. pc = "signed" => todo # <<>>
  BY <1>1, <1>2, <1>8, ElementsOfOne, ActionsAreActions
<1>21. on = "source" => f.op \in CopyOps
  BY <1>1, <1>2 DEF TaskKept
<1>22. s.pc \in {"signed", "granted"}
  BY <1>2, <1>11
<1>23. r.name \in Names /\ r.src \in Names
  BY DEF TaskKept
<1>a. f.op = "CompleteUpload" => ~LockRequested(f)
  BY <1>1 DEF TaskKept
<1>b. s.pc # "prepared" /\ s.pc \notin Writing /\ f.op \notin DavOps
  BY <1>7, <1>22 DEF Writing
<1>24. TaskKept(s, c)
  BY <1>7, <1>11, <1>13, <1>18, <1>19, <1>20, <1>21, <1>22, <1>23, <1>a, <1>b DEF TaskKept
<1> QED BY <1>5, <1>10, <1>24

LEMMA GrantDone ==
    ASSUME ObjectInv, NEW t \in Tasks, Grant(t)
    PROVE  TaskDone(t)
<1> PICK r : r = task[t]
  OBVIOUS
<1> PICK n : n = JudgedName(r)
  OBVIOUS
<1> PICK b : b = buckets[n]
  OBVIOUS
<1>1. r.pc = "identified"
  BY DEF Grant
<1>2. r \in Task /\ TaskKept(r, buckets[r.name]) /\ r.name \in Names /\ r.src \in Names
      /\ buckets \in [Names -> Bucket]
  BY <1>1, TaskContext
<1>3. n \in Names
  BY <1>2 DEF JudgedName
<1>4. b.app \in Apps \cup {Absent} /\ b.id \in Nat
  BY <1>2, <1>3 DEF Bucket
<1>5. CASE Denied(t, b)
  BY <1>1, <1>5, DeniedDone
<1>6. CASE ~Denied(t, b)
  <2>1. b.app # Absent
    BY <1>6 DEF Grant
  <2>2. Resume(t, IF SameTarget(r, b) THEN Granted(r, b) ELSE IdleTask)
        /\ UNCHANGED <<buckets, keys, apps, req, objects, uploads>>
    BY <1>6 DEF Grant, vars
  <2>3. CASE SameTarget(r, b)
    <3> PICK s : s = Granted(r, b)
      OBVIOUS
    <3>1. s \in Task /\ TaskKept(s, buckets[s.name])
      BY <1>1, <1>2, <1>4, <2>1, <2>3, GrantedTask
    <3>2. task' = [task EXCEPT ![t] = s]
      BY <2>2, <2>3 DEF Resume
    <3> QED BY <2>2, <3>1, <3>2, MovesDone
  <2>4. CASE ~SameTarget(r, b)
    BY <2>2, <2>4, IdleTaskKept, MovesDone DEF Resume
  <2> QED BY <2>3, <2>4
<1> QED BY <1>5, <1>6
(* Beyond its checks a request only changes its stage and what it has read; *)
(* a completion takes the tags of its upload.                              *)
LEMMA MovedTask ==
    ASSUME NEW r \in Task, NEW b, TaskKept(r, b), r.pc \in {"granted", "prepared", "dav"} \cup Writing,
           NEW s, s.form = r.form, s.name = r.name, s.src = r.src, s.on = r.on, s.app = r.app,
           s.granted = r.granted, s.tags = r.tags \/ r.form.op = "CompleteUpload",
           s.pc \in {"granted", "prepared"} \cup Writing, s.pc = "prepared" => r.form.op \in Writers,
           NEW c, s.pc \in Writing => r.form.op \in Committers /\ r.app = c.app /\ c.used
    PROVE  TaskKept(s, c)
<1>1. Required(s) = Required(r)
  BY DEF Required, Creators
<1>2. ToCheck(r) = {} /\ s.pc \notin {"idle", "signed", "identified"} /\ r.pc \notin {"idle", "signed", "identified"}
  BY DEF ToCheck, Writing
<1>3. \A a : Holds(r, a) <=> Holds(s, a)
  BY DEF Holds
<1>4. "CompleteUpload" \notin DavOps
  BY DEF DavOps
<1> QED BY <1>1, <1>2, <1>3, <1>4 DEF TaskKept

LEMMA HeldTask ==
    ASSUME NEW r \in Task, NEW b, TaskKept(r, b), r.pc \in {"granted", "prepared", "dav"},
           NEW pc \in {"granted", "prepared", "streaming"},
           pc # "granted" => r.form.op \in Writers, NEW c, pc = "streaming" => r.app = c.app /\ c.used
    PROVE  [r EXCEPT !.pc = pc] \in Task /\ TaskKept([r EXCEPT !.pc = pc], c)
           /\ [r EXCEPT !.pc = pc].name = r.name
<1>1. PICK s : s = [r EXCEPT !.pc = pc]
  OBVIOUS
<1>2. /\ s.pc = pc /\ s.form = r.form /\ s.name = r.name /\ s.src = r.src /\ s.on = r.on
      /\ s.app = r.app /\ s.tags = r.tags /\ s.granted = r.granted
  BY <1>1, TaskFields
<1>3. s \in Task
  <2>1. pc \in TaskPc
    BY DEF TaskPc
  <2> QED BY <1>1, <2>1, TaskFields
<1>4. pc \in {"granted", "prepared"} \cup Writing /\ (pc \in Writing => pc = "streaming")
  BY DEF Writing
<1>5. r.form.op \in Writers => r.form.op \in Committers
  BY DEF Committers
<1>6. TaskKept(s, c)
  BY <1>2, <1>4, <1>5, MovedTask
<1> QED BY <1>1, <1>2, <1>3, <1>6

LEMMA HeldDone ==
    ASSUME ObjectInv, NEW t \in Tasks, task[t].pc \in {"granted", "prepared", "dav"},
           NEW pc \in {"granted", "prepared"}, pc # "granted" => task[t].form.op \in Writers,
           Resume(t, [task[t] EXCEPT !.pc = pc]), UNCHANGED <<vars, objects, uploads>>
    PROVE  TaskDone(t)
<1> PICK r, s : r = task[t] /\ s = [task[t] EXCEPT !.pc = pc]
  OBVIOUS
<1>1. r \in Task /\ TaskKept(r, buckets[r.name])
  BY TaskContext
<1>2. s \in Task /\ s.name = r.name /\ TaskKept(s, buckets[r.name])
  BY <1>1, HeldTask
<1>3. task' = [task EXCEPT ![t] = s] /\ UNCHANGED <<buckets, keys, apps, req, objects, uploads>>
  BY DEF Resume, vars
<1> QED BY <1>2, <1>3, MovesDone

LEMMA EnsureLockBucketDone ==
    ASSUME ObjectInv, NEW t \in Tasks, EnsureLockBucket(t)
    PROVE  TaskDone(t)
<1>1. task[t].pc = "granted" /\ task[t].form.op \in Writers
  BY DEF EnsureLockBucket, Ready, Writers
<1>2. \/ Done(t)
      \/ Resume(t, [task[t] EXCEPT !.pc = "prepared"]) /\ UNCHANGED <<vars, objects, uploads>>
  BY DEF EnsureLockBucket
<1> QED BY <1>1, <1>2, DoneDone, HeldDone

(* A late check of copied tags                                             *)
LEMMA ReadCopySourceDone ==
    ASSUME ObjectInv, NEW t \in Tasks, ReadCopySource(t)
    PROVE  TaskDone(t)
<1> PICK r : r = task[t]
  OBVIOUS
<1>1. r.pc = "granted" /\ r.form.op = "Copy" /\ r.on = "source"
  BY DEF ReadCopySource, Ready
<1>2. PICK todo : todo = <<"PutObjectTagging">>
  OBVIOUS
<1>3. PICK s : s = [r EXCEPT !.pc = "signed", !.on = "late", !.tags = TRUE, !.todo = todo]
  OBVIOUS
<1>4. \/ Done(t)
      \/ Resume(t, [r EXCEPT !.pc = "prepared"]) /\ UNCHANGED <<vars, objects, uploads>>
      \/ Resume(t, s) /\ UNCHANGED <<vars, objects, uploads>>
  BY <1>2, <1>3 DEF ReadCopySource
<1>5. r.form.op \in Writers
  BY <1>1 DEF Writers
<1>6. CASE Resume(t, s) /\ UNCHANGED <<vars, objects, uploads>>
  <2>1. r \in Task /\ TaskKept(r, buckets[r.name])
    BY <1>1, TaskContext
  <2>2. todo \in Seq(AllActions) /\ todo # <<>> /\ Elements(todo) = {"PutObjectTagging"}
    BY <1>2, ElementsOfOne, ActionsAreActions
  <2>3. "signed" \in TaskPc /\ "late" \in TaskOn /\ todo \in Todos
    BY <2>2 DEF TaskPc, TaskOn, Todos
  <2>4. s \in Task
    BY <1>3, <2>1, <2>3, TaskFields
  <2>5. /\ s.pc = "signed" /\ s.form = r.form /\ s.name = r.name /\ s.src = r.src /\ s.on = "late"
        /\ s.todo = todo /\ s.app = r.app /\ s.tags /\ s.granted = r.granted
    BY <1>3, <2>1, TaskFields
  <2>6. Required(s) \subseteq Required(r) \cup {"PutObjectTagging"}
    BY <1>1, <2>5 DEF Required, Creators, If
  <2>7. ToCheck(r) = {} /\ ToCheck(s) = {"PutObjectTagging"}
    BY <1>1, <2>2, <2>5 DEF ToCheck
  <2>8. \A x \in Required(r) : Holds(s, x)
    BY <1>1, <2>1, <2>5, <2>7 DEF TaskKept, Holds
  <2>9. r.form.op \in ObjectOps /\ r.form.op \notin DavOps
    BY <1>1 DEF ObjectOps, DavOps
  <2>10. TaskKept(s, buckets[s.name])
    BY <1>1, <2>1, <2>2, <2>5, <2>6, <2>7, <2>8, <2>9 DEF TaskKept, Writing
  <2>11. task' = [task EXCEPT ![t] = s] /\ UNCHANGED <<buckets, keys, apps, req, objects, uploads>>
    BY <1>6 DEF Resume, vars
  <2> QED BY <2>4, <2>10, <2>11, MovesDone
<1> QED BY <1>1, <1>4, <1>5, <1>6, DoneDone, HeldDone

(* A write that begins marks its bucket as used.                           *)
LEMMA BeginPutDone ==
    ASSUME ObjectInv, NEW t \in Tasks, BeginPut(t)
    PROVE  TaskDone(t)
<1> PICK r : r = task[t]
  OBVIOUS
<1> PICK n : n = r.name
  OBVIOUS
<1>1. r.pc \in {"granted", "prepared"} /\ r.form.op \in Writers
  BY DEF BeginPut, PutMayBegin, CopyMayBegin, DavFlushes, DavCopies, Writers
<1>2. CASE Found(r)
  <2>1. PICK b, c : b = buckets[n] /\ c = [buckets[n] EXCEPT !.used = TRUE]
    OBVIOUS
  <2>2. PICK s : s = [r EXCEPT !.pc = "streaming"]
    OBVIOUS
  <2>3. r \in Task /\ TaskKept(r, b) /\ n \in Names /\ b \in Bucket /\ WellKept(b)
        /\ buckets \in [Names -> Bucket]
    BY <1>1, <2>1, TaskContext
  <2>4. RowMoves(b, c, Flights)
    BY <1>2, <2>1, <2>3, ConfigurationChanges DEF Found
  <2>5. c.used /\ c.app = r.app
    BY <1>2, <2>1, <2>3 DEF Found, Bucket
  <2>6. s \in Task /\ TaskKept(s, c) /\ s.name = n
    BY <1>1, <2>2, <2>3, <2>5, HeldTask
  <2>7. /\ buckets' = [buckets EXCEPT ![n] = c] /\ task' = [task EXCEPT ![t] = s]
        /\ UNCHANGED <<keys, apps, req, objects, uploads>>
    BY <1>2, <2>1, <2>2 DEF BeginPut, Resume
  <2>8. buckets'[n] = c
    BY <2>3, <2>7
  <2> QED BY <2>1, <2>3, <2>4, <2>6, <2>7, <2>8 DEF TaskDone
<1>3. CASE ~Found(r)
  BY <1>3, DoneDone DEF BeginPut
<1> QED BY <1>2, <1>3
-----------------------------------------------------------------------------
(* The versions a step adds, removes and amends                            *)

LEMMA NeedsMet ==
    ASSUME NEW r, NEW old, NEW new, NEW byUpload, NEW replaced,
           \A v \in Added(old, new) :
              /\ Holds(r, IF v.marker THEN "DeleteObject" ELSE "PutObject")
              /\ v.tags /\ ~byUpload => Holds(r, "PutObjectTagging")
              /\ v.retention \notin {NoRetention, DefaultRetention} => Holds(r, "PutObjectRetention")
              /\ v.hold => Holds(r, "PutObjectLegalHold"),
           \A v \in Removed(old, new) :
              /\ \E a \in {"DeleteObject", "DeleteObjectVersion", "PutObject"} : Holds(r, a)
              /\ v.retention # NoRetention /\ v.no \notin replaced => Holds(r, "BypassGovernanceRetention"),
           \A x \in Amended(old, new) :
              /\ ~x[1].tags /\ x[2].tags =>
                   \E a \in {"PutObjectTagging", "PutObjectVersionTagging"} : Holds(r, a)
              /\ x[1].tags /\ ~x[2].tags =>
                   \E a \in {"DeleteObjectTagging", "DeleteObjectVersionTagging", "PutObjectTagging",
                             "PutObjectVersionTagging"} : Holds(r, a)
              /\ x[1].retention # x[2].retention => Holds(r, "PutObjectRetention")
              /\ x[1].hold # x[2].hold => Holds(r, "PutObjectLegalHold")
    PROVE  MayDo(r, r.app, Needs(old, new, byUpload, replaced))
<1> SUFFICES ASSUME NEW any \in Needs(old, new, byUpload, replaced) PROVE \E a \in any : Holds(r, a)
  BY DEF MayDo, Holds
<1> PICK added, removed, amended :
      added = Added(old, new) /\ removed = Removed(old, new) /\ amended = Amended(old, new)
  OBVIOUS
<1>1. CASE any \in {{"PutObject"} : v \in {w \in added : ~w.marker}}
  BY <1>1
<1>2. CASE any \in {{"PutObjectTagging"} : v \in {w \in added : w.tags /\ ~byUpload}}
  BY <1>2
<1>3. CASE any \in {{"PutObjectRetention"} : v \in {w \in added :
                                             w.retention \notin {NoRetention, DefaultRetention}}}
  BY <1>3
<1>4. CASE any \in {{"PutObjectLegalHold"} : v \in {w \in added : w.hold}}
  BY <1>4
<1>5. CASE any \in {{"DeleteObject"} : v \in {w \in added : w.marker}}
  BY <1>5
<1>6. CASE any \in {{"DeleteObject", "DeleteObjectVersion", "PutObject"} : v \in removed}
  BY <1>6
<1>7. CASE any \in {{"BypassGovernanceRetention"} :
                       v \in {w \in removed : w.retention /= NoRetention /\ w.no \notin replaced}}
  BY <1>7
<1>8. CASE any \in {{"PutObjectTagging", "PutObjectVersionTagging"} :
                       p \in {x \in amended : ~x[1].tags /\ x[2].tags}}
  BY <1>8
<1>9. CASE any \in {{"DeleteObjectTagging", "DeleteObjectVersionTagging", "PutObjectTagging",
                     "PutObjectVersionTagging"} : p \in {x \in amended : x[1].tags /\ ~x[2].tags}}
  BY <1>9
<1>10. CASE any \in {{"PutObjectRetention"} : p \in {x \in amended : x[1].retention /= x[2].retention}}
  BY <1>10
<1>11. CASE any \in {{"PutObjectLegalHold"} : p \in {x \in amended : x[1].hold /= x[2].hold}}
  BY <1>11
<1> QED BY <1>1, <1>2, <1>3, <1>4, <1>5, <1>6, <1>7, <1>8, <1>9, <1>10, <1>11 DEF Needs

LEMMA KeepFields ==
    ASSUME NEW o \in Object, NEW rows \in SUBSET ObjectVersion
    PROVE  Keep(o, rows) \in Object /\ Keep(o, rows).last = o.last /\ Keep(o, rows).versions = rows
BY DEF Keep, Object

(* Rows are only removed.                                                  *)
LEMMA RemoveRows ==
    ASSUME NEW o \in Object, NEW b, ObjectKept(o, b), NEW rows \in SUBSET o.versions
    PROVE  LET new == Keep(o, rows)
           IN  /\ new \in Object /\ ObjectKept(new, b)
               /\ Added(o, new) = {} /\ Amended(o, new) = {} /\ Removed(o, new) = o.versions \ rows
<1>1. PICK new : new = Keep(o, rows)
  OBVIOUS
<1>2. o.versions \in SUBSET ObjectVersion /\ o.last \in Nat
  BY DEF Object
<1>3. new \in Object /\ new.last = o.last /\ new.versions = rows
  BY <1>1, <1>2, KeepFields
<1>4. \A v \in o.versions : v.no <= o.last /\ v.no \in Nat
  BY <1>2 DEF ObjectKept, ObjectVersion
<1>5. \A v, w \in o.versions : v.no = w.no => v = w
  BY DEF ObjectKept
<1>6. Added(o, new) = {}
  BY <1>2, <1>3, <1>4 DEF Added
<1>7. Amended(o, new) = {}
  BY <1>3, <1>5 DEF Amended
<1>8. Removed(o, new) = o.versions \ rows
  BY <1>3, <1>5 DEF Removed
<1>9. ~b.used => new = NoObject
  <2>1. ASSUME o = NoObject PROVE new = o
    <3>1. rows = {}
      BY <2>1 DEF NoObject
    <3> QED BY <1>1, <2>1, <3>1 DEF Keep, NoObject
  <2> QED BY <2>1 DEF ObjectKept
<1>10. ObjectKept(new, b)
  BY <1>3, <1>4, <1>5, <1>9 DEF ObjectKept
<1> QED BY <1>1, <1>3, <1>6, <1>7, <1>8, <1>10

(* A version is published: it replaces null versions or none.              *)
LEMMA PublishRow ==
    ASSUME NEW o \in Object, NEW b, ObjectKept(o, b), b.used,
           NEW v \in ObjectVersion, v.no = o.last + 1, v.retention # NoRetention => b.lock
    PROVE  LET new == Publish(o, v)
           IN  /\ new \in Object /\ ObjectKept(new, b)
               /\ Added(o, new) \subseteq {v} /\ Amended(o, new) = {}
               /\ \A w \in Removed(o, new) : v.null /\ w \in o.versions \ Opaque(o)
<1>1. PICK rows : rows = IF v.null THEN Opaque(o) ELSE o.versions
  OBVIOUS
<1>2. o.versions \in SUBSET ObjectVersion /\ o.last \in Nat /\ rows \in SUBSET o.versions
  BY <1>1 DEF Object, Opaque
<1>3. PICK kept : kept = IF v.null THEN Keep(o, Opaque(o)) ELSE o
  OBVIOUS
<1>4. kept.last = o.last /\ kept.versions = rows
  BY <1>1, <1>2, <1>3, KeepFields
<1>5. PICK new : new = [last |-> o.last + 1, versions |-> rows \cup {v}]
  OBVIOUS
<1>6. new = Publish(o, v)
  BY <1>3, <1>4, <1>5 DEF Publish, AppendTo
<1>7. new.last = o.last + 1 /\ new.versions = rows \cup {v} /\ new \in Object
  BY <1>2, <1>5 DEF Object
<1>8. \A w \in o.versions : w.no <= o.last /\ w.no \in Nat /\ w.no # v.no /\ w.no <= o.last + 1
  BY <1>2 DEF ObjectKept, ObjectVersion
<1>9. \A u, w \in o.versions : u.no = w.no => u = w
  BY DEF ObjectKept
<1>10. Added(o, new) \subseteq {v}
  BY <1>2, <1>7, <1>8 DEF Added
<1>11. Amended(o, new) = {}
  BY <1>2, <1>7, <1>8, <1>9 DEF Amended
<1>12. Removed(o, new) \subseteq o.versions \ rows
  BY <1>7 DEF Removed
<1>15. \A w \in Removed(o, new) : v.null /\ w \in o.versions \ Opaque(o)
  BY <1>1, <1>12
<1>16. ObjectKept(new, b)
  <2>1. \A w \in new.versions : w.no <= new.last
    BY <1>2, <1>7, <1>8
  <2>2. \A u, w \in new.versions : u.no = w.no => u = w
    BY <1>2, <1>7, <1>8, <1>9
  <2>3. ~b.lock => \A w \in new.versions : w.retention = NoRetention
    BY <1>2, <1>7 DEF ObjectKept
  <2> QED BY <2>1, <2>2, <2>3 DEF ObjectKept
<1> QED BY <1>6, <1>7, <1>10, <1>11, <1>15, <1>16

(* A version is changed in place.                                          *)
LEMMA AmendRow ==
    ASSUME NEW o \in Object, NEW b, ObjectKept(o, b), NEW v \in o.versions, NEW w \in ObjectVersion,
           w.no = v.no, w.retention # NoRetention => b.lock
    PROVE  LET new == Keep(o, (o.versions \ {v}) \cup {w})
           IN  /\ new \in Object /\ ObjectKept(new, b)
               /\ Added(o, new) = {} /\ Removed(o, new) = {}
               /\ \A x \in Amended(o, new) : x[1] = v /\ x[2] = w
<1>1. PICK rows : rows = (o.versions \ {v}) \cup {w}
  OBVIOUS
<1>2. PICK new : new = Keep(o, rows)
  OBVIOUS
<1>3. o.versions \in SUBSET ObjectVersion /\ o.last \in Nat
  BY DEF Object
<1>4. new \in Object /\ new.last = o.last /\ new.versions = rows
  BY <1>1, <1>2, <1>3, KeepFields
<1>5. \A u \in o.versions : u.no <= o.last /\ u.no \in Nat
  BY <1>3 DEF ObjectKept, ObjectVersion
<1>6. \A u, y \in o.versions : u.no = y.no => u = y
  BY DEF ObjectKept
<1>7. \A u \in rows : u.no <= o.last
  BY <1>1, <1>5
<1>8. \A u, y \in rows : u.no = y.no => u = y
  BY <1>1, <1>6
<1>9. Added(o, new) = {}
  BY <1>3, <1>4, <1>5, <1>7, <1>1 DEF Added
<1>10. Removed(o, new) = {}
  BY <1>1, <1>4 DEF Removed
<1>11. ASSUME NEW x \in Amended(o, new) PROVE x[1] = v /\ x[2] = w
  <2>1. x[1] \in o.versions /\ x[2] \in rows /\ x[1].no = x[2].no /\ x[1] # x[2]
    BY <1>4 DEF Amended
  <2> QED BY <1>1, <1>6, <2>1
<1>12. b.used
  BY DEF ObjectKept, NoObject
<1>13. ObjectKept(new, b)
  BY <1>1, <1>4, <1>7, <1>8, <1>12 DEF ObjectKept
<1> QED BY <1>1, <1>2, <1>4, <1>9, <1>10, <1>11, <1>13
LEMMA NewVersionFields ==
    ASSUME ObjectInv, NEW r \in Task, r.name \in Names
    PROVE  LET v == NewVersion(r)
               f == r.form
               b == buckets[r.name]
           IN  /\ v \in ObjectVersion /\ v.no = objects[r.name].last + 1 /\ ~v.marker
               /\ v.tags = r.tags /\ v.hold = f.hold /\ v.null = r.null
               /\ v.retention # NoRetention => b.lock
               /\ v.retention \in {NoRetention, DefaultRetention, f.retention}
<1>1. PICK f, b, no, null, marker, tags, hold, rt :
       /\ f = r.form /\ b = buckets[r.name] /\ no = objects[r.name].last + 1 /\ null = r.null
       /\ marker = FALSE /\ tags = r.tags /\ hold = f.hold /\ rt = FrozenRetention(b, f.retention)
  OBVIOUS
<1>2. PICK v : v = [no |-> no, null |-> null, marker |-> marker, tags |-> tags,
                    retention |-> rt, hold |-> hold]
  OBVIOUS
<1>3. v = NewVersion(r)
  BY <1>1, <1>2 DEF NewVersion, Version
<1>4. no \in Nat
  <2>1. objects[r.name].last \in Nat
    BY DEF ObjectInv, ObjectTypes, Object
  <2> QED BY <1>1, <2>1
<1>5. f.retention \in Retention /\ hold \in BOOLEAN /\ null \in BOOLEAN /\ marker \in BOOLEAN /\ tags \in BOOLEAN
  <2>1. f \in ObjectForm /\ null \in BOOLEAN /\ tags \in BOOLEAN
    BY <1>1, TaskFields
  <2> QED BY <1>1, <2>1 DEF ObjectForm
<1>6. rt \in {NoRetention, DefaultRetention, f.retention} /\ (rt # NoRetention => b.lock)
  BY <1>1 DEF FrozenRetention
<1>7. rt \in Retention
  <2>1. DefaultRetention \in Retention /\ NoRetention \in Retention
    BY DEF DefaultRetention, Retention
  <2> QED BY <1>5, <1>6, <2>1
<1>8. v \in ObjectVersion
  BY <1>2, <1>4, <1>5, <1>7 DEF ObjectVersion
<1>9. v.no = no /\ v.null = null /\ v.marker = marker /\ v.tags = tags /\ v.retention = rt /\ v.hold = hold
  BY <1>2
<1> QED BY <1>1, <1>3, <1>6, <1>8, <1>9

(* The reads before a commit                                               *)
LEMMA ReadsDone ==
    ASSUME ObjectInv, NEW t \in Tasks, ReadBucket(t) \/ ReadObject(t) \/ ReadVersions(t) \/ ClaimCompletion(t)
    PROVE  TaskDone(t)
<1> PICK r : r = task[t]
  OBVIOUS
<1> PICK b, o : b = buckets[r.name] /\ o = objects[r.name]
  OBVIOUS
<1>1. r.pc \in {"granted"} \cup Writing
  BY DEF ReadBucket, ReadObject, ReadVersions, ClaimCompletion, Ready, Writing
<1>2. r \in Task /\ TaskKept(r, b) /\ o \in Object
  BY <1>1, TaskContext DEF Writing
<1>3. ASSUME NEW s \in Task, Goes(t, s), s.form = r.form, s.name = r.name, s.src = r.src, s.on = r.on,
             s.app = r.app, s.granted = r.granted, s.tags = r.tags \/ r.form.op = "CompleteUpload",
             s.pc \in Writing, r.form.op \in Committers /\ r.app = b.app /\ b.used
      PROVE  TaskDone(t)
  <2>1. s.pc # "prepared"
    BY <1>3 DEF Writing
  <2>2. TaskKept(s, b)
    BY <1>1, <1>2, <1>3, <2>1, MovedTask
  <2>3. task' = [task EXCEPT ![t] = s] /\ UNCHANGED <<buckets, keys, apps, req, objects, uploads>>
    BY <1>3 DEF Goes, Resume, vars
  <2> QED BY <1>3, <2>2, <2>3, MovesDone
<1>4. r.pc \in Writing => r.form.op \in Committers /\ r.app = b.app /\ b.used
  BY <1>2 DEF TaskKept, Writing
<1>5. Writing \subseteq TaskPc
  BY DEF TaskPc, Writing
<1>6. CASE ReadBucket(t)
  <2>1. PICK pc, null : pc = "bucketRead" /\ null = (b.versioning # "Enabled")
    OBVIOUS
  <2>2. PICK s : s = [r EXCEPT !.pc = pc, !.null = null]
    OBVIOUS
  <2>3. Goes(t, s) \/ Done(t)
    BY <1>6, <2>1, <2>2 DEF ReadBucket
  <2>4. pc \in Writing /\ null \in BOOLEAN /\ r.pc \in Writing
    BY <1>6, <2>1 DEF Writing, ReadBucket
  <2>5. s \in Task
    BY <1>2, <1>5, <2>2, <2>4, TaskFields
  <2>6. /\ s.pc = pc /\ s.form = r.form /\ s.name = r.name /\ s.src = r.src /\ s.on = r.on
        /\ s.app = r.app /\ s.tags = r.tags /\ s.granted = r.granted
    BY <1>2, <2>2, TaskFields
  <2> QED BY <1>3, <1>4, <2>3, <2>4, <2>5, <2>6, DoneDone
<1>7. CASE ReadObject(t)
  <2>1. PICK pc, last : pc = (IF r.null /\ o.last /= 0 THEN "objectRead" ELSE "committing") /\ last = o.last
    OBVIOUS
  <2>2. PICK s : s = [r EXCEPT !.pc = pc, !.last = last]
    OBVIOUS
  <2>3. Goes(t, s)
    BY <1>7, <2>1, <2>2 DEF ReadObject
  <2>4. pc \in Writing /\ last \in Nat /\ r.pc \in Writing
    BY <1>2, <1>7, <2>1 DEF Writing, ReadObject, Object
  <2>5. s \in Task
    BY <1>2, <1>5, <2>2, <2>4, TaskFields
  <2>6. /\ s.pc = pc /\ s.form = r.form /\ s.name = r.name /\ s.src = r.src /\ s.on = r.on
        /\ s.app = r.app /\ s.tags = r.tags /\ s.granted = r.granted
    BY <1>2, <2>2, TaskFields
  <2> QED BY <1>3, <1>4, <2>3, <2>4, <2>5, <2>6
<1>8. CASE ReadVersions(t)
  <2>1. PICK pc, nulls : pc = "committing" /\ nulls = Nulls(o)
    OBVIOUS
  <2>2. PICK s : s = [r EXCEPT !.pc = pc, !.replaced = nulls]
    OBVIOUS
  <2>3. Goes(t, s)
    BY <1>8, <2>1, <2>2 DEF ReadVersions
  <2>4. pc \in Writing /\ nulls \in Numbers /\ r.pc \in Writing
    <3>1. \A v \in o.versions : v.no \in Nat
      BY <1>2 DEF Object, ObjectVersion
    <3> QED BY <1>8, <2>1, <3>1 DEF Writing, ReadVersions, Nulls, Numbers
  <2>5. s \in Task
    BY <1>2, <1>5, <2>2, <2>4, TaskFields
  <2>6. /\ s.pc = pc /\ s.form = r.form /\ s.name = r.name /\ s.src = r.src /\ s.on = r.on
        /\ s.app = r.app /\ s.tags = r.tags /\ s.granted = r.granted
    BY <1>2, <2>2, TaskFields
  <2> QED BY <1>3, <1>4, <2>3, <2>4, <2>5, <2>6
<1>9. CASE ClaimCompletion(t)
  <2>1. r.pc = "granted" /\ r.form.op = "CompleteUpload"
    BY <1>9 DEF ClaimCompletion, Ready
  <2>2. ASSUME NEW u \in FindUpload(r), Goes(t, [r EXCEPT !.pc = "streaming", !.tags = u.tags])
        PROVE  TaskDone(t)
    <3>1. PICK pc, tags : pc = "streaming" /\ tags = u.tags
      OBVIOUS
    <3>2. PICK s : s = [r EXCEPT !.pc = pc, !.tags = tags]
      OBVIOUS
    <3>3. Goes(t, s)
      BY <2>2, <3>1, <3>2
    <3>4. u \in uploads /\ u.app = r.app /\ u.name = r.name
      BY <2>2 DEF FindUpload, Mine
    <3>5. r.app = b.app /\ b.used
      BY <3>4 DEF ObjectInv, UploadKept
    <3>6. pc \in Writing /\ tags \in BOOLEAN /\ r.form.op \in Committers
      BY <2>1, <3>1, <3>4 DEF Writing, ObjectInv, ObjectTypes, Upload, Committers
    <3>7. s \in Task
      BY <1>2, <1>5, <3>2, <3>6, TaskFields
    <3>8. /\ s.pc = pc /\ s.form = r.form /\ s.name = r.name /\ s.src = r.src /\ s.on = r.on
          /\ s.app = r.app /\ s.granted = r.granted
      BY <1>2, <3>2, TaskFields
    <3> QED BY <1>3, <2>1, <3>3, <3>5, <3>6, <3>7, <3>8
  <2> QED BY <1>9, <2>2, DoneDone DEF ClaimCompletion
<1> QED BY <1>6, <1>7, <1>8, <1>9

(* A commit that finds what it had read publishes what was granted.  The    *)
(* null version it replaces is the one it had found.                       *)
LEMMA CommittedKept ==
    ASSUME ObjectInv, NEW t \in Tasks, task[t].pc = "committing", StillPrepared(task[t])
    PROVE  LET r == task[t]
               b == buckets[r.name]
               o == objects[r.name]
               new == Publish(o, NewVersion(r))
           IN  /\ r.app = b.app /\ new \in Object /\ ObjectKept(new, b)
               /\ MayDo(r, r.app, Needs(o, new, r.form.op = "CompleteUpload", r.replaced))
<1> PICK r : r = task[t]
  OBVIOUS
<1> PICK b, o, f : b = buckets[r.name] /\ o = objects[r.name] /\ f = r.form
  OBVIOUS
<1> PICK v, byUpload, replaced : v = NewVersion(r) /\ byUpload = (f.op = "CompleteUpload") /\ replaced = r.replaced
  OBVIOUS
<1> PICK new : new = Publish(o, v)
  OBVIOUS
<1>1. r.pc = "committing" /\ StillPrepared(r)
  OBVIOUS
<1>2. r \in Task /\ r.name \in Names /\ TaskKept(r, b) /\ o \in Object /\ ObjectKept(o, b)
  BY <1>1, TaskContext
<1>3. f \in ObjectForm /\ r.tags \in BOOLEAN
  BY <1>2, TaskFields
<1>4. /\ v \in ObjectVersion /\ v.no = o.last + 1 /\ ~v.marker /\ v.tags = r.tags /\ v.hold = f.hold
      /\ v.null = r.null /\ (v.retention # NoRetention => b.lock)
      /\ v.retention \in {NoRetention, DefaultRetention, f.retention}
  BY <1>2, NewVersionFields
<1>5. r.app = b.app /\ b.used /\ f.op \in Committers
  BY <1>1, <1>2 DEF TaskKept, Writing
<1>6. /\ new \in Object /\ ObjectKept(new, b)
      /\ Added(o, new) \subseteq {v} /\ Amended(o, new) = {}
      /\ \A w \in Removed(o, new) : v.null /\ w \in o.versions \ Opaque(o)
  BY <1>2, <1>4, <1>5, PublishRow
<1>7. \A w \in Removed(o, new) : w.no \in replaced
  <2>1. r.null => Nulls(o) = replaced
    BY <1>1 DEF StillPrepared
  <2> QED BY <1>4, <1>6, <2>1 DEF Nulls
<1>8. \A a \in Required(r) : Holds(r, a)
  BY <1>1, <1>2 DEF TaskKept, ToCheck
<1>9. Holds(r, "PutObject")
  BY <1>5, <1>8 DEF Required, Committers, Writers, Creators
<1>10. /\ r.tags /\ ~byUpload => Holds(r, "PutObjectTagging")
       /\ f.retention # NoRetention => Holds(r, "PutObjectRetention")
       /\ f.hold => Holds(r, "PutObjectLegalHold")
  <2>1. CASE f.op \in Creators
    <3>1. Required(r) = {"PutObject"} \cup If(r.tags, "PutObjectTagging")
             \cup If(f.retention # NoRetention, "PutObjectRetention") \cup If(f.hold, "PutObjectLegalHold")
      BY <2>1 DEF Required, Creators
    <3> QED BY <1>8, <3>1 DEF If
  <2>2. CASE f.op = "CompleteUpload"
    <3>1. ~LockRequested(f)
      BY <1>1, <1>2, <2>2 DEF TaskKept
    <3> QED BY <2>2, <3>1 DEF LockRequested
  <2>3. CASE f.op \notin Creators \cup {"CompleteUpload"}
    <3>1. f.op \in DavOps
      BY <1>5, <2>3 DEF Committers, Writers, Creators, DavOps
    <3>2. ~r.tags /\ ~f.hold /\ f.retention = NoRetention
      BY <1>1, <1>2, <3>1 DEF TaskKept, Form
    <3> QED BY <3>2
  <2> QED BY <2>1, <2>2, <2>3
<1>11. \A w \in Added(o, new) :
          /\ Holds(r, IF w.marker THEN "DeleteObject" ELSE "PutObject")
          /\ w.tags /\ ~byUpload => Holds(r, "PutObjectTagging")
          /\ w.retention \notin {NoRetention, DefaultRetention} => Holds(r, "PutObjectRetention")
          /\ w.hold => Holds(r, "PutObjectLegalHold")
  <2>1. \A w \in Added(o, new) : w = v
    BY <1>6
  <2> QED BY <1>4, <1>9, <1>10, <2>1
<1>12. MayDo(r, r.app, Needs(o, new, byUpload, replaced))
  BY <1>6, <1>7, <1>9, <1>11, NeedsMet
<1> QED BY <1>5, <1>6, <1>12

LEMMA CommitDone ==
    ASSUME ObjectInv, NEW t \in Tasks, Commit(t) \/ CompleteUpload(t)
    PROVE  TaskDone(t)
<1> PICK r : r = task[t]
  OBVIOUS
<1> PICK n : n = r.name
  OBVIOUS
<1> PICK b, o, new : b = buckets[n] /\ o = objects[n] /\ new = Publish(objects[n], NewVersion(r))
  OBVIOUS
<1>1. /\ r.pc = "committing" /\ task' = [task EXCEPT ![t] = IdleTask]
      /\ UNCHANGED <<buckets, keys, apps, req>> /\ uploads' \subseteq uploads
      /\ objects' = objects \/ (StillPrepared(r) /\ objects' = [objects EXCEPT ![n] = new])
  BY DEF Commit, CompleteUpload, Committed, Resume, vars
<1>2. n \in Names
  BY <1>1, TaskContext
<1>3. CASE objects' = objects
  BY <1>1, <1>3, IdleTaskKept DEF TaskDone
<1>4. CASE StillPrepared(r) /\ objects' = [objects EXCEPT ![n] = new]
  <2>1. /\ r.app = b.app /\ new \in Object /\ ObjectKept(new, b)
        /\ MayDo(r, r.app, Needs(o, new, r.form.op = "CompleteUpload", r.replaced))
    BY <1>1, <1>4, CommittedKept
  <2> QED BY <1>1, <1>2, <1>4, <2>1, IdleTaskKept DEF TaskDone
<1> QED BY <1>1, <1>3, <1>4

(* What deleting leaves of an object, and what it takes                    *)
LEMMA RemovedKept ==
    ASSUME NEW o \in Object, NEW b, ObjectKept(o, b),
           NEW r, NEW bypass \in BOOLEAN, bypass => Holds(r, "BypassGovernanceRetention"),
           NEW byUpload, NEW replaced, NEW rows \in SUBSET o.versions,
           \A v \in o.versions \ rows : ~Locked(v, bypass),
           \E a \in {"DeleteObject", "DeleteObjectVersion", "PutObject"} : Holds(r, a)
    PROVE  Keep(o, rows) \in Object /\ ObjectKept(Keep(o, rows), b)
           /\ MayDo(r, r.app, Needs(o, Keep(o, rows), byUpload, replaced))
<1>1. o.versions \in SUBSET ObjectVersion
  BY DEF Object
<1>2. ASSUME NEW v \in o.versions, ~Locked(v, bypass), v.retention # NoRetention
      PROVE  Holds(r, "BypassGovernanceRetention")
  <2>1. v.retention.mode \in {"governance", "compliance"}
    BY <1>1, <1>2 DEF ObjectVersion, Retention
  <2> QED BY <1>2, <2>1 DEF Locked
<1> PICK new : new = Keep(o, rows)
  OBVIOUS
<1>3. /\ new \in Object /\ ObjectKept(new, b)
      /\ Added(o, new) = {} /\ Amended(o, new) = {} /\ Removed(o, new) = o.versions \ rows
  BY RemoveRows
<1>4. MayDo(r, r.app, Needs(o, new, byUpload, replaced))
  BY <1>2, <1>3, NeedsMet
<1> QED BY <1>3, <1>4

LEMMA UntouchedKept ==
    ASSUME NEW o \in Object, NEW b, ObjectKept(o, b),
           NEW r, NEW bypass \in BOOLEAN, bypass => Holds(r, "BypassGovernanceRetention"),
           NEW byUpload, NEW replaced,
           \E a \in {"DeleteObject", "DeleteObjectVersion", "PutObject"} : Holds(r, a)
    PROVE  o \in Object /\ ObjectKept(o, b) /\ MayDo(r, r.app, Needs(o, o, byUpload, replaced))
<1>1. Keep(o, o.versions) = o
  BY DEF Keep, Object
<1>2. \A v \in o.versions \ o.versions : ~Locked(v, bypass)
  OBVIOUS
<1> QED BY <1>1, <1>2, RemovedKept

LEMMA DeletedVersionKept ==
    ASSUME NEW o \in Object, NEW b, ObjectKept(o, b),
           NEW r, NEW bypass \in BOOLEAN, bypass => Holds(r, "BypassGovernanceRetention"),
           NEW byUpload, NEW replaced, NEW v \in o.versions,
           Holds(r, "DeleteObject") \/ Holds(r, "DeleteObjectVersion")
    PROVE  LET new == DeletedVersion(o, v, bypass)
           IN  new \in Object /\ ObjectKept(new, b) /\ MayDo(r, r.app, Needs(o, new, byUpload, replaced))
<1>1. CASE Locked(v, bypass)
  BY <1>1, UntouchedKept DEF DeletedVersion
<1>2. CASE ~Locked(v, bypass)
  <2> PICK rows : rows = o.versions \ {v}
    OBVIOUS
  <2>1. rows \in SUBSET o.versions /\ \A w \in o.versions \ rows : w = v
    OBVIOUS
  <2>2. DeletedVersion(o, v, bypass) = Keep(o, rows)
    BY <1>2 DEF DeletedVersion
  <2> QED BY <1>2, <2>1, <2>2, RemovedKept
<1> QED BY <1>1, <1>2

LEMMA DeletedHeadKept ==
    ASSUME NEW o \in Object, NEW b \in Bucket, WellKept(b), ObjectKept(o, b),
           NEW r, NEW bypass \in BOOLEAN, bypass => Holds(r, "BypassGovernanceRetention"),
           NEW byUpload, NEW replaced, Holds(r, "DeleteObject")
    PROVE  LET new == DeletedHead(o, b, bypass)
           IN  new \in Object /\ ObjectKept(new, b) /\ MayDo(r, r.app, Needs(o, new, byUpload, replaced))
<1>versions. o.versions \in SUBSET ObjectVersion /\ o.last \in Nat
  BY DEF Object
<1>untouched. o \in Object /\ ObjectKept(o, b) /\ MayDo(r, r.app, Needs(o, o, byUpload, replaced))
  BY UntouchedKept
<1>allowed. \E a \in {"DeleteObject", "DeleteObjectVersion", "PutObject"} : Holds(r, a)
  OBVIOUS
<1>0. PICK no, null, yes, nay, none :
       /\ no = o.last + 1 /\ null = (b.versioning /= "Enabled") /\ yes = TRUE /\ nay = FALSE
       /\ none = NoRetention
  OBVIOUS
<1>a. PICK marker : marker = [no |-> no, null |-> null, marker |-> yes, tags |-> nay,
                               retention |-> none, hold |-> nay]
  OBVIOUS
<1>1. marker = Version(o.last + 1, b.versioning /= "Enabled", TRUE, FALSE, NoRetention, FALSE)
  BY <1>0, <1>a DEF Version
<1>2. /\ marker \in ObjectVersion /\ marker.no = o.last + 1 /\ (marker.null = (b.versioning # "Enabled"))
      /\ marker.marker /\ ~marker.tags /\ marker.retention = NoRetention /\ ~marker.hold
  <2>1. no \in Nat /\ null \in BOOLEAN /\ yes \in BOOLEAN /\ nay \in BOOLEAN /\ none \in Retention
    <3>1. no \in Nat
      BY <1>versions, <1>0
    <3>2. null \in BOOLEAN /\ yes \in BOOLEAN /\ nay \in BOOLEAN /\ none \in Retention
      BY <1>0, Zenon DEF Retention
    <3> QED BY <3>1, <3>2
  <2>2. marker \in ObjectVersion
    BY <1>a, <2>1 DEF ObjectVersion
  <2>3. marker.no = no /\ marker.null = null /\ marker.marker = yes /\ marker.tags = nay
        /\ marker.retention = none /\ marker.hold = nay
    BY <1>a
  <2> QED BY <1>0, <2>2, <2>3
<1>3. ASSUME o.last # 0
      PROVE  LET new == Publish(o, marker)
             IN  new \in Object /\ ObjectKept(new, b) /\ MayDo(r, r.app, Needs(o, new, byUpload, replaced))
  <2> PICK new : new = Publish(o, marker)
    OBVIOUS
  <2>1. b.used
    BY <1>3 DEF ObjectKept, NoObject
  <2>2. /\ new \in Object /\ ObjectKept(new, b)
        /\ Added(o, new) \subseteq {marker} /\ Amended(o, new) = {}
        /\ \A w \in Removed(o, new) : marker.null /\ w \in o.versions \ Opaque(o)
    <3>1. marker.retention # NoRetention => b.lock
      BY <1>2
    <3>2. marker \in ObjectVersion /\ marker.no = o.last + 1
      BY <1>2
    <3> QED BY <2>1, <3>1, <3>2, PublishRow
  <2>3. \A w \in Removed(o, new) : w.retention = NoRetention
    BY <1>2, <2>2 DEF WellKept, ObjectKept
  <2>4. MayDo(r, r.app, Needs(o, new, byUpload, replaced))
    BY <1>2, <2>2, <2>3, NeedsMet
  <2> QED BY <2>2, <2>4
<1>4. CASE o.last = 0
  BY <1>untouched, <1>4 DEF DeletedHead
<1>5. CASE o.last # 0 /\ b.versioning \in {"Enabled", "Suspended"}
           /\ DeletedHead(o, b, bypass) # o
  <2>1. DeletedHead(o, b, bypass) = Publish(o, marker)
    BY <1>1, <1>2, <1>5 DEF DeletedHead, Publish
  <2> QED BY <1>3, <1>5, <2>1
<1>6. CASE DeletedHead(o, b, bypass) = o
  BY <1>untouched, <1>6
<1>7. CASE o.last # 0 /\ b.versioning = "Unversioned" /\ DeletedHead(o, b, bypass) # o
  <2> PICK rows : rows = Opaque(o)
    OBVIOUS
  <2>1. /\ DeletedHead(o, b, bypass) = Keep(o, rows)
        /\ \A v \in o.versions \ rows : ~Locked(v, bypass)
    BY <1>7 DEF DeletedHead
  <2>2. rows \in SUBSET o.versions
    BY DEF Opaque
  <2> QED BY <1>allowed, RemovedKept, <2>1, <2>2
<1>8. b.versioning \in {"Enabled", "Suspended", "Unversioned"}
  BY DEF Bucket
<1> QED BY <1>4, <1>5, <1>6, <1>7, <1>8

LEMMA DeleteOneDone ==
    ASSUME ObjectInv, NEW t \in Tasks, DeleteOne(t)
    PROVE  TaskDone(t)
<1> PICK r : r = task[t]
  OBVIOUS
<1> PICK n : n = r.name
  OBVIOUS
<1> PICK b, o, f : b = buckets[n] /\ o = objects[n] /\ f = r.form
  OBVIOUS
<1>1. r.pc = "granted" /\ f.op \in {"Delete", "DavDelete"}
  BY DEF DeleteOne, Ready
<1>2. /\ r \in Task /\ n \in Names /\ TaskKept(r, b) /\ b \in Bucket /\ WellKept(b)
      /\ o \in Object /\ ObjectKept(o, b) /\ objects \in [Names -> Object]
  BY <1>1, TaskContext
<1>3. f \in ObjectForm /\ f.bypass \in BOOLEAN /\ f.exact \in BOOLEAN
  <2>1. f \in ObjectForm
    BY <1>2, TaskFields
  <2> QED BY <2>1 DEF ObjectForm
<1>4. f.op = "DavDelete" => ~f.exact /\ ~f.bypass /\ f.left = 0
  BY <1>2, <1>1 DEF TaskKept, DavOps, Form
<1>5. PICK s \in Task : task' = [task EXCEPT ![t] = s] /\ \A c : TaskKept(s, c)
  <2>1. NextEntry(t) /\ (f.op \in ObjectOps \/ f.left = 0) /\ r.pc # "idle"
    BY <1>1, <1>4 DEF DeleteOne, ObjectOps
  <2> QED BY <2>1, NextEntryTask
<1>6. UNCHANGED <<buckets, keys, apps, req, uploads>>
  BY DEF DeleteOne, vars
<1>7. \A a \in Required(r) : Holds(r, a)
  BY <1>1, <1>2 DEF TaskKept, ToCheck
<1>8. /\ f.bypass => Holds(r, "BypassGovernanceRetention")
      /\ ~f.exact => Holds(r, "DeleteObject")
      /\ f.exact => Holds(r, "DeleteObjectVersion")
  <2>1. CASE f.op = "Delete"
    <3>1. Required(r) = {IF f.exact THEN "DeleteObjectVersion" ELSE "DeleteObject"}
                        \cup If(f.bypass, "BypassGovernanceRetention")
      BY <2>1 DEF Required, Creators
    <3> QED BY <1>3, <1>7, <3>1 DEF If
  <2>2. CASE f.op = "DavDelete"
    <3>1. Required(r) = {"DeleteObject"}
      BY <2>2 DEF Required, Creators
    <3> QED BY <1>4, <1>7, <2>2, <3>1
  <2> QED BY <1>1, <2>1, <2>2
<1>9. ASSUME NEW new \in Object, ObjectKept(new, b), MayDo(r, r.app, Needs(o, new, f.op = "CompleteUpload", r.replaced)),
             objects' = [objects EXCEPT ![n] = new], r.app = b.app
      PROVE  TaskDone(t)
  BY <1>2, <1>5, <1>6, <1>9 DEF TaskDone
<1>10. CASE objects' = objects
  BY <1>5, <1>6, <1>10, MovesDone
<1>11. CASE Found(r) /\ f.exact /\ \E v \in o.versions :
                objects' = [objects EXCEPT ![n] = DeletedVersion(o, v, f.bypass)]
  <2>1. PICK v \in o.versions : objects' = [objects EXCEPT ![n] = DeletedVersion(o, v, f.bypass)]
    BY <1>11
  <2> PICK new, byUpload : new = DeletedVersion(o, v, f.bypass) /\ byUpload = (f.op = "CompleteUpload")
    OBVIOUS
  <2> PICK bypass, replaced : bypass = f.bypass /\ replaced = r.replaced
    OBVIOUS
  <2>a. /\ bypass \in BOOLEAN /\ (bypass => Holds(r, "BypassGovernanceRetention"))
        /\ Holds(r, "DeleteObject") \/ Holds(r, "DeleteObjectVersion")
    BY <1>3, <1>8, <1>11
  <2>b. o \in Object /\ b \in Bucket /\ WellKept(b) /\ ObjectKept(o, b)
    BY <1>2
  <2>2. new \in Object /\ ObjectKept(new, b) /\ MayDo(r, r.app, Needs(o, new, byUpload, r.replaced))
    BY <2>a, <2>b, <2>1, DeletedVersionKept
  <2>3. r.app = b.app
    BY <1>11 DEF Found
  <2> QED BY <1>9, <2>1, <2>2, <2>3
<1>12. CASE Found(r) /\ ~f.exact /\ objects' = [objects EXCEPT ![n] = DeletedHead(o, b, f.bypass)]
  <2> PICK new, byUpload : new = DeletedHead(o, b, f.bypass) /\ byUpload = (f.op = "CompleteUpload")
    OBVIOUS
  <2> PICK bypass, replaced : bypass = f.bypass /\ replaced = r.replaced
    OBVIOUS
  <2>a. bypass \in BOOLEAN /\ (bypass => Holds(r, "BypassGovernanceRetention")) /\ Holds(r, "DeleteObject")
    BY <1>3, <1>8, <1>12
  <2>b. o \in Object /\ b \in Bucket /\ WellKept(b) /\ ObjectKept(o, b)
    BY <1>2
  <2>1. new \in Object /\ ObjectKept(new, b) /\ MayDo(r, r.app, Needs(o, new, byUpload, r.replaced))
    BY <2>a, <2>b, DeletedHeadKept
  <2>2. r.app = b.app
    BY <1>12 DEF Found
  <2> QED BY <1>9, <1>12, <2>1, <2>2
<1> QED BY <1>10, <1>11, <1>12 DEF DeleteOne

(* What it takes to change version v into w.                               *)
ChangeHeld(r, v, w) ==
    /\ ~v.tags /\ w.tags =>
         \E a \in {"PutObjectTagging", "PutObjectVersionTagging"} : Holds(r, a)
    /\ v.tags /\ ~w.tags =>
         \E a \in {"DeleteObjectTagging", "DeleteObjectVersionTagging", "PutObjectTagging",
                   "PutObjectVersionTagging"} : Holds(r, a)
    /\ v.retention # w.retention => Holds(r, "PutObjectRetention")
    /\ v.hold # w.hold => Holds(r, "PutObjectLegalHold")

LEMMA AmendNeeds ==
    ASSUME NEW r, NEW old, NEW new, NEW byUpload, NEW replaced, NEW v, NEW w,
           Added(old, new) = {}, Removed(old, new) = {}, \A x \in Amended(old, new) : x[1] = v /\ x[2] = w,
           ChangeHeld(r, v, w)
    PROVE  MayDo(r, r.app, Needs(old, new, byUpload, replaced))
<1>1. ASSUME NEW x \in Amended(old, new)
      PROVE  /\ ~x[1].tags /\ x[2].tags =>
                  \E a \in {"PutObjectTagging", "PutObjectVersionTagging"} : Holds(r, a)
             /\ x[1].tags /\ ~x[2].tags =>
                  \E a \in {"DeleteObjectTagging", "DeleteObjectVersionTagging", "PutObjectTagging",
                            "PutObjectVersionTagging"} : Holds(r, a)
             /\ x[1].retention # x[2].retention => Holds(r, "PutObjectRetention")
             /\ x[1].hold # x[2].hold => Holds(r, "PutObjectLegalHold")
  <2>1. x[1] = v /\ x[2] = w
    OBVIOUS
  <2> QED BY <2>1 DEF ChangeHeld
<1> QED BY <1>1, NeedsMet

LEMMA AmendedKept ==
    ASSUME NEW o \in Object, NEW b, ObjectKept(o, b), NEW v \in o.versions, NEW w \in ObjectVersion,
           w.no = v.no, w.retention # NoRetention => b.lock, NEW r, ChangeHeld(r, v, w), NEW byUpload, NEW replaced
    PROVE  LET new == Keep(o, (o.versions \ {v}) \cup {w})
           IN  new \in Object /\ ObjectKept(new, b) /\ MayDo(r, r.app, Needs(o, new, byUpload, replaced))
<1> PICK new : new = Keep(o, (o.versions \ {v}) \cup {w})
  OBVIOUS
<1>1. /\ new \in Object /\ ObjectKept(new, b)
      /\ Added(o, new) = {} /\ Removed(o, new) = {}
      /\ \A x \in Amended(o, new) : x[1] = v /\ x[2] = w
  BY AmendRow
<1>2. MayDo(r, r.app, Needs(o, new, byUpload, replaced))
  BY <1>1, AmendNeeds
<1> QED BY <1>1, <1>2

(* A version is given a new form, for which what it takes is held.         *)
LEMMA AmendOneDone ==
    ASSUME ObjectInv, NEW t \in Tasks, task[t].pc = "granted", Resume(t, IdleTask), UNCHANGED <<vars, uploads>>,
           NEW v \in Candidates(t), NEW w \in ObjectVersion, w.no = v.no,
           w.retention # NoRetention => buckets[task[t].name].lock, ChangeHeld(task[t], v, w),
           objects' = [objects EXCEPT ![task[t].name] =
                          Keep(objects[task[t].name], (objects[task[t].name].versions \ {v}) \cup {w})]
    PROVE  TaskDone(t)
<1> PICK r : r = task[t]
  OBVIOUS
<1> PICK n : n = r.name
  OBVIOUS
<1> PICK b, o, byUpload, replaced :
      b = buckets[n] /\ o = objects[n] /\ byUpload = (r.form.op = "CompleteUpload") /\ replaced = r.replaced
  OBVIOUS
<1> PICK new : new = Keep(o, (o.versions \ {v}) \cup {w})
  OBVIOUS
<1>1. n \in Names /\ o \in Object /\ ObjectKept(o, b) /\ objects \in [Names -> Object]
  BY TaskContext
<1>2. v \in o.versions /\ r.app = b.app
  BY DEF Candidates, Addressed, Found
<1>3. new \in Object /\ ObjectKept(new, b) /\ MayDo(r, r.app, Needs(o, new, byUpload, replaced))
  <2>1. w.retention # NoRetention => b.lock
    OBVIOUS
  <2>2. ChangeHeld(r, v, w)
    OBVIOUS
  <2>3. v \in o.versions /\ w \in ObjectVersion /\ w.no = v.no /\ o \in Object /\ ObjectKept(o, b)
    BY <1>1, <1>2
  <2>4. \A y, z : MayDo(r, r.app, Needs(o, Keep(o, (o.versions \ {v}) \cup {w}), y, z))
    BY <2>1, <2>2, <2>3, AmendedKept
  <2>5. Keep(o, (o.versions \ {v}) \cup {w}) \in Object /\ ObjectKept(Keep(o, (o.versions \ {v}) \cup {w}), b)
    BY <2>1, <2>2, <2>3, AmendedKept
  <2> QED BY <2>4, <2>5
<1>4. task' = [task EXCEPT ![t] = IdleTask] /\ UNCHANGED <<buckets, keys, apps, req, uploads>>
  BY DEF Resume, vars
<1> QED BY <1>1, <1>2, <1>3, <1>4, IdleTaskKept DEF TaskDone

LEMMA AmendDone ==
    ASSUME ObjectInv, NEW t \in Tasks, NEW ops, Ready(t, ops), NEW amended, Amend(t, amended),
           \A v \in DOMAIN amended :
              /\ v \in Candidates(t) /\ amended[v] \in ObjectVersion /\ amended[v].no = v.no
              /\ amended[v].retention # NoRetention => buckets[task[t].name].lock
              /\ ChangeHeld(task[t], v, amended[v])
    PROVE  TaskDone(t)
<1>1. task[t].pc = "granted" /\ Resume(t, IdleTask) /\ UNCHANGED <<vars, uploads>>
  BY DEF Ready, Amend
<1>2. CASE objects' = objects
  BY <1>1, <1>2, DoneDone DEF Done, Goes, Amend
<1>3. ASSUME NEW v \in DOMAIN amended,
             objects' = [objects EXCEPT ![task[t].name] =
                            Keep(objects[task[t].name], (objects[task[t].name].versions \ {v}) \cup {amended[v]})]
      PROVE  TaskDone(t)
  <2> PICK w : w = amended[v]
    OBVIOUS
  <2>1. /\ v \in Candidates(t) /\ w \in ObjectVersion /\ w.no = v.no
        /\ w.retention # NoRetention => buckets[task[t].name].lock
        /\ ChangeHeld(task[t], v, w)
    OBVIOUS
  <2> QED BY <1>1, <1>3, <2>1, AmendOneDone
<1> QED BY <1>2, <1>3 DEF Amend

LEMMA AmendersDone ==
    ASSUME ObjectInv, NEW t \in Tasks, ReplaceTags(t) \/ PutRetention(t) \/ PutHold(t)
    PROVE  TaskDone(t)
<1> PICK r : r = task[t]
  OBVIOUS
<1> PICK n : n = r.name
  OBVIOUS
<1> PICK b, o, f : b = buckets[n] /\ o = objects[n] /\ f = r.form
  OBVIOUS
<1>1. r.pc = "granted" /\ f.op \in {"PutTags", "DeleteTags", "PutRetention", "PutHold"}
  BY DEF ReplaceTags, PutRetention, PutHold, Ready
<1>2. /\ r \in Task /\ n \in Names /\ TaskKept(r, b) /\ o \in Object /\ ObjectKept(o, b)
  BY <1>1, TaskContext
<1>3. f \in ObjectForm
  BY <1>2, TaskFields
<1>4. \A a \in Required(r) : Holds(r, a)
  BY <1>1, <1>2 DEF TaskKept, ToCheck
<1>5. ASSUME NEW v \in Candidates(t)
      PROVE  v \in ObjectVersion /\ (v.retention # NoRetention => b.lock)
  <2>1. v \in o.versions
    BY DEF Candidates, Addressed
  <2> QED BY <1>2, <2>1 DEF Object, ObjectKept
<1>6. CASE ReplaceTags(t)
  <2> PICK tags : tags = (f.op = "PutTags")
    OBVIOUS
  <2> DEFINE amended == [v \in Candidates(t) |-> [v EXCEPT !.tags = tags]]
  <2>1. Ready(t, {"PutTags", "DeleteTags"}) /\ Amend(t, amended)
    BY <1>6 DEF ReplaceTags
  <2>2. /\ f.op = "PutTags" =>
             \E a \in {"PutObjectTagging", "PutObjectVersionTagging"} : Holds(r, a)
        /\ f.op = "DeleteTags" =>
             \E a \in {"DeleteObjectTagging", "DeleteObjectVersionTagging", "PutObjectTagging",
                       "PutObjectVersionTagging"} : Holds(r, a)
        /\ f.op \in {"PutTags", "DeleteTags"}
    <3>1. f.op = "PutTags" => Required(r) = {IF f.exact THEN "PutObjectVersionTagging" ELSE "PutObjectTagging"}
      BY DEF Required, Creators
    <3>2. f.op = "DeleteTags" =>
            Required(r) = {IF f.exact THEN "DeleteObjectVersionTagging" ELSE "DeleteObjectTagging"}
      BY DEF Required, Creators
    <3>3. f.op \in {"PutTags", "DeleteTags"}
      BY <2>1 DEF Ready
    <3> QED BY <1>4, <3>1, <3>2, <3>3
  <2>3. ASSUME NEW v \in Candidates(t), NEW w, w = [v EXCEPT !.tags = tags]
        PROVE  w \in ObjectVersion /\ w.no = v.no /\ w.retention = v.retention /\ w.hold = v.hold /\ w.tags = tags
    <3>1. tags \in BOOLEAN
      OBVIOUS
    <3> QED BY <1>5, <2>3, <3>1 DEF ObjectVersion
  <2>4. DOMAIN amended = Candidates(t) /\ \A v \in Candidates(t) : amended[v] = [v EXCEPT !.tags = tags]
    OBVIOUS
  <2> HIDE DEF amended
  <2>5. ASSUME NEW v \in Candidates(t)
        PROVE  /\ amended[v] \in ObjectVersion /\ amended[v].no = v.no
               /\ amended[v].retention = v.retention /\ amended[v].hold = v.hold /\ amended[v].tags = tags
    BY <2>3, <2>4
  <2>6. DOMAIN amended = Candidates(t)
    BY <2>4
  <2>7. ASSUME NEW v \in Candidates(t)
        PROVE  ChangeHeld(r, v, amended[v])
    BY <2>2, <2>5 DEF ChangeHeld
  <2>8. ASSUME NEW v \in Candidates(t)
        PROVE  /\ amended[v] \in ObjectVersion /\ amended[v].no = v.no
               /\ amended[v].retention # NoRetention => b.lock
    BY <1>5, <2>5
  <2> QED BY <2>1, <2>6, <2>7, <2>8, AmendDone
<1>7. CASE PutRetention(t)
  <2> PICK rt : rt = f.retention
    OBVIOUS
  <2> DEFINE accepted == {v \in Lockable(t) : RetentionAccepted(v.retention, rt, f.bypass)}
             amended == [v \in accepted |-> [v EXCEPT !.retention = rt]]
  <2>1. Ready(t, {"PutRetention"}) /\ Amend(t, amended)
    BY <1>7 DEF PutRetention
  <2>2. Holds(r, "PutObjectRetention")
    <3>1. f.op = "PutRetention"
      BY <2>1 DEF Ready
    <3>2. Required(r) = {"PutObjectRetention"}
      BY <3>1 DEF Required, Creators
    <3> QED BY <1>4, <3>2
  <2>3. ASSUME NEW v \in accepted
        PROVE  v \in Candidates(t) /\ b.lock
    BY DEF Lockable
  <2>4. ASSUME NEW v \in Candidates(t), NEW w, w = [v EXCEPT !.retention = rt]
        PROVE  w \in ObjectVersion /\ w.no = v.no /\ w.tags = v.tags /\ w.hold = v.hold
    <3>1. rt \in Retention
      BY <1>3 DEF ObjectForm
    <3> QED BY <1>5, <2>4, <3>1 DEF ObjectVersion
  <2>5. DOMAIN amended = accepted /\ \A v \in accepted : amended[v] = [v EXCEPT !.retention = rt]
    OBVIOUS
  <2> HIDE DEF amended, accepted
  <2>6. ASSUME NEW v \in accepted
        PROVE  /\ v \in Candidates(t) /\ b.lock /\ amended[v] \in ObjectVersion /\ amended[v].no = v.no
               /\ ChangeHeld(r, v, amended[v])
    BY <2>2, <2>3, <2>4, <2>5 DEF ChangeHeld
  <2> QED BY <2>1, <2>5, <2>6, AmendDone
<1>8. CASE PutHold(t)
  <2> PICK hold : hold = f.hold
    OBVIOUS
  <2> DEFINE amended == [v \in Lockable(t) |-> [v EXCEPT !.hold = hold]]
  <2>1. Ready(t, {"PutHold"}) /\ Amend(t, amended)
    BY <1>8 DEF PutHold
  <2>2. Holds(r, "PutObjectLegalHold")
    <3>1. f.op = "PutHold"
      BY <2>1 DEF Ready
    <3>2. Required(r) = {"PutObjectLegalHold"}
      BY <3>1 DEF Required, Creators
    <3> QED BY <1>4, <3>2
  <2>3. ASSUME NEW v \in Lockable(t)
        PROVE  v \in Candidates(t) /\ b.lock
    BY DEF Lockable
  <2>4. ASSUME NEW v \in Candidates(t), NEW w, w = [v EXCEPT !.hold = hold]
        PROVE  w \in ObjectVersion /\ w.no = v.no /\ w.tags = v.tags /\ w.retention = v.retention
    <3>1. hold \in BOOLEAN
      BY <1>3 DEF ObjectForm
    <3> QED BY <1>5, <2>4, <3>1 DEF ObjectVersion
  <2>5. DOMAIN amended = Lockable(t) /\ \A v \in Lockable(t) : amended[v] = [v EXCEPT !.hold = hold]
    OBVIOUS
  <2> HIDE DEF amended
  <2>6. ASSUME NEW v \in Lockable(t)
        PROVE  /\ v \in Candidates(t) /\ b.lock /\ amended[v] \in ObjectVersion /\ amended[v].no = v.no
               /\ ChangeHeld(r, v, amended[v])
    BY <2>2, <2>3, <2>4, <2>5 DEF ChangeHeld
  <2> QED BY <2>1, <2>5, <2>6, AmendDone
<1> QED BY <1>6, <1>7, <1>8
(* An upload is opened, and ended                                          *)
LEMMA CreateUploadDone ==
    ASSUME ObjectInv, NEW t \in Tasks, CreateUpload(t)
    PROVE  TaskDone(t)
<1> PICK r : r = task[t]
  OBVIOUS
<1> PICK n : n = r.name
  OBVIOUS
<1>1. r.pc = "granted" /\ r.form.op = "CreateUpload"
  BY DEF CreateUpload, Ready
<1>2. CASE Found(r) /\ buckets[n].id = r.id
  <2>1. PICK b, c : b = buckets[n] /\ c = [buckets[n] EXCEPT !.used = TRUE]
    OBVIOUS
  <2>2. PICK u, tags : tags = r.tags /\ u = [app |-> r.app, id |-> r.id, name |-> n, tags |-> r.tags]
    OBVIOUS
  <2>3. r \in Task /\ TaskKept(r, b) /\ n \in Names /\ b \in Bucket /\ WellKept(b)
        /\ buckets \in [Names -> Bucket]
    BY <1>1, <2>1, TaskContext
  <2>4. RowMoves(b, c, Flights)
    BY <1>2, <2>1, <2>3, ConfigurationChanges DEF Found
  <2>5. c.used /\ c.app = r.app /\ r.app = b.app
    BY <1>2, <2>1, <2>3 DEF Found, Bucket
  <2>6. r.app \in Apps \cup {Absent} /\ r.id \in Nat /\ r.tags \in BOOLEAN
    BY <2>3, TaskFields DEF AppsOrNone
  <2>7. u \in Upload /\ u.app = r.app /\ u.name = n /\ u.tags = r.tags
    BY <2>2, <2>3, <2>6 DEF Upload
  <2>8. /\ buckets' = [buckets EXCEPT ![n] = c] /\ task' = [task EXCEPT ![t] = IdleTask]
        /\ UNCHANGED <<keys, apps, req, objects>> /\ uploads' = uploads \cup {u}
    BY <1>2, <2>1, <2>2 DEF CreateUpload, Resume
  <2>9. buckets'[n] = c
    BY <2>3, <2>8
  <2>10. UploadKept(u, buckets'[u.name])
    BY <2>5, <2>7, <2>9 DEF UploadKept
  <2>11. Holds(r, "PutObject") /\ (r.tags => Holds(r, "PutObjectTagging"))
    <3>1. Required(r) = {"PutObject"} \cup If(r.tags, "PutObjectTagging")
            \cup If(r.form.retention # NoRetention, "PutObjectRetention") \cup If(r.form.hold, "PutObjectLegalHold")
      BY <1>1 DEF Required, Creators
    <3>2. \A a \in Required(r) : Holds(r, a)
      BY <1>1, <2>3 DEF TaskKept, ToCheck
    <3> QED BY <3>1, <3>2 DEF If
  <2>12. MayDo(r, buckets[u.name].app,
               {{"PutObject"}} \cup (IF u.tags THEN {{"PutObjectTagging"}} ELSE {}))
    BY <2>1, <2>5, <2>7, <2>11 DEF MayDo, Holds
  <2> QED BY <2>1, <2>3, <2>4, <2>7, <2>8, <2>10, <2>12, IdleTaskKept DEF TaskDone
<1>3. CASE ~(Found(r) /\ buckets[n].id = r.id)
  BY <1>3, DoneDone DEF CreateUpload
<1> QED BY <1>2, <1>3

LEMMA AbortUploadDone ==
    ASSUME ObjectInv, NEW t \in Tasks, AbortUpload(t)
    PROVE  TaskDone(t)
<1>1. CASE Done(t)
  BY <1>1, DoneDone
<1>2. CASE ~Done(t)
  <2>1. task' = [task EXCEPT ![t] = IdleTask] /\ UNCHANGED <<buckets, keys, apps, req, objects>>
        /\ uploads' \subseteq uploads
    BY <1>2 DEF AbortUpload, Resume, vars
  <2> QED BY <2>1, IdleTaskKept DEF TaskDone
<1> QED BY <1>1, <1>2
-----------------------------------------------------------------------------
(* WebDAV                                                                  *)

LEMMA DavArriveTask ==
    ASSUME NEW t \in Tasks, NEW f \in DavForms, NEW n \in Names, NEW src \in Names, NEW c \in Clients,
           DavArrive(t, f, n, src, c)
    PROVE  \E r \in Task : task' = [task EXCEPT ![t] = r] /\ \A b : TaskKept(r, b)
<1>1. PICK i, by, ip, own, granted :
       /\ i = IdleTask /\ by = c.by /\ ip = c.ip /\ own = DavResource(by)
       /\ granted = {<<"PutObject", own>> : p \in KeyPermissions[by] \cap {"media:upload"}}
                         \cup {<<"DeleteObject", own>> : p \in KeyPermissions[by] \cap {"media:delete"}}
  OBVIOUS
<1>2. PICK r : r = [i EXCEPT !.pc = "dav", !.form = f, !.by = by, !.name = n,
                     !.src = src, !.app = own, !.srcApp = own, !.granted = granted]
  OBVIOUS
<1>3. task' = [task EXCEPT ![t] = r] /\ by # Absent /\ Allows(by, f.op)
  BY <1>1, <1>2 DEF DavArrive, Resume
<1>4. f \in ObjectForm /\ f.op \in DavOps /\ f = Form(f.op)
  BY ObjectAssumption, FormType
<1>5. by \in AccessKeys /\ own \in Apps
  BY <1>1, <1>3, ApiAssumption DEF DavResource
<1>6. i \in Task /\ i.on = "target" /\ ~i.tags
  BY <1>1, IdleTaskKept DEF IdleTask
<1>7. granted \in Grants
  BY <1>1, <1>5, ActionsAreActions DEF Grants
<1>8. "dav" \in TaskPc /\ by \in Callers /\ n \in NamesOrNone /\ src \in NamesOrNone /\ own \in AppsOrNone
  BY <1>5 DEF TaskPc, Callers, NamesOrNone, AppsOrNone
<1>9. r \in Task
  BY <1>2, <1>4, <1>6, <1>7, <1>8, TaskFields
<1>10. /\ r.pc = "dav" /\ r.form = f /\ r.name = n /\ r.src = src /\ r.on = "target"
       /\ r.app = own /\ ~r.tags /\ r.granted = granted
  BY <1>2, <1>6, TaskFields
<1>11. \A a \in Required(r) : Holds(r, a)
  <2>1. CASE f.op \in {"DavPut", "DavCreate", "DavCopy"}
    <3>1. Required(r) = {"PutObject"}
      BY <1>10, <2>1 DEF Required, Creators
    <3>2. KeyPermissions[by] \cap {"media:upload"} # {}
      <4>1. {"media:upload"} \in DavRequired(f.op)
        BY <2>1 DEF DavRequired
      <4> QED BY <1>3, <4>1 DEF Allows
    <3>3. <<"PutObject", own>> \in granted
      BY <1>1, <3>2
    <3> QED BY <1>10, <3>1, <3>3 DEF Holds
  <2>2. CASE f.op = "DavDelete"
    <3>1. Required(r) = {"DeleteObject"}
      BY <1>10, <2>2 DEF Required, Creators
    <3>2. KeyPermissions[by] \cap {"media:delete"} # {}
      <4>1. {"media:delete"} \in DavRequired(f.op)
        BY <2>2 DEF DavRequired
      <4> QED BY <1>3, <4>1 DEF Allows
    <3>3. <<"DeleteObject", own>> \in granted
      BY <1>1, <3>2
    <3> QED BY <1>10, <3>1, <3>3 DEF Holds
  <2>3. CASE f.op \in DavOps \ {"DavPut", "DavCreate", "DavCopy", "DavDelete"}
    <3>1. Required(r) = {}
      BY <1>10, <2>3 DEF Required, Creators, DavOps
    <3> QED BY <3>1
  <2> QED BY <1>4, <2>1, <2>2, <2>3
<1>12. f.op # "PutRetention"
  BY <1>4 DEF DavOps
<1>13. f.op # "CompleteUpload" /\ r.pc \notin Writing
  BY <1>4, <1>10 DEF DavOps, Writing
<1>14. \A b : TaskKept(r, b)
  BY <1>4, <1>10, <1>11, <1>12, <1>13 DEF TaskKept
<1> QED BY <1>3, <1>9, <1>14

LEMMA DavReadersDone ==
    ASSUME ObjectInv, NEW t \in Tasks,
           DavOpen(t) \/ DavCopySource(t) \/ DavRemoveFile(t) \/ DavReadDir(t)
    PROVE  TaskDone(t)
<1>1. task[t].pc = "dav"
  BY DEF DavOpen, DavCopySource, DavRemoveFile, DavReadDir, Dav
<1>2. ASSUME NEW pc \in {"granted", "prepared"}, NEW ok, DavProceeds(t, ok, pc),
             pc # "granted" => task[t].form.op \in Writers
      PROVE  TaskDone(t)
  BY <1>1, <1>2, DoneDone, HeldDone DEF DavProceeds, Goes
<1>3. CASE DavOpen(t)
  <2>1. task[t].form.op \in Writers
    BY <1>3 DEF DavOpen, Dav, Writers
  <2> QED BY <1>2, <1>3, <2>1 DEF DavOpen
<1>4. CASE DavCopySource(t)
  <2>1. task[t].form.op \in Writers
    BY <1>4 DEF DavCopySource, Dav, Writers
  <2> QED BY <1>2, <1>4, <2>1 DEF DavCopySource
<1>5. CASE DavRemoveFile(t)
  BY <1>2, <1>5 DEF DavRemoveFile
<1>6. CASE DavReadDir(t)
  BY <1>2, <1>6 DEF DavReadDir
<1> QED BY <1>3, <1>4, <1>5, <1>6

LEMMA DavRemoveDirDone ==
    ASSUME ObjectInv, NEW t \in Tasks, DavRemoveDir(t)
    PROVE  TaskDone(t)
<1> PICK r : r = task[t]
  OBVIOUS
<1> PICK n : n = r.name
  OBVIOUS
<1>1. r.pc = "granted"
  BY DEF DavRemoveDir, Ready
<1>2. n \in Names
  BY <1>1, TaskContext
<1>3. /\ task' = [task EXCEPT ![t] = IdleTask] /\ UNCHANGED <<keys, apps, req, objects, uploads>>
      /\ buckets' = buckets \/ (~buckets[n].used /\ buckets' = [buckets EXCEPT ![n] = NoBucket])
  BY DEF DavRemoveDir, Resume
<1>4. ~buckets[n].used => RowMoves(buckets[n], NoBucket, Flights)
  BY NoBucketKept DEF RowMoves
<1> QED BY <1>2, <1>3, <1>4, IdleTaskKept DEF TaskDone

LEMMA DavCreateDirDone ==
    ASSUME ObjectInv, NEW t \in Tasks, DavCreateDir(t)
    PROVE  TaskDone(t)
<1> PICK r : r = task[t]
  OBVIOUS
<1> PICK n : n = r.name
  OBVIOUS
<1>1. r.pc = "dav"
  BY DEF DavCreateDir, Dav
<1>2. n \in Names
  BY <1>1, TaskContext
<1>3. task' = [task EXCEPT ![t] = IdleTask] /\ UNCHANGED <<keys, apps, req, objects, uploads>>
  BY DEF DavCreateDir, Resume
<1>4. CASE buckets[n].app = Absent /\ r.app \in apps
  <2> PICK id, b : id = FreshId(Remembered) /\ b = NewBucket(r.app, id, FALSE)
    OBVIOUS
  <2>1. BucketTypes
    BY DEF ObjectInv, BucketInv
  <2>2. r.app \in Apps
    BY <1>4, <2>1 DEF BucketTypes
  <2>3. id \in Nat \ {0} /\ id \notin Flights
    BY <2>1, RememberedIsFinite, FreshIsNew
  <2>4. b \in Bucket /\ WellKept(b) /\ b.id = id /\ ~b.used
    BY <2>2, <2>3, NewBucketKept
  <2>5. RowMoves(buckets[n], b, Flights)
    BY <1>4, <2>3, <2>4 DEF RowMoves
  <2>6. buckets' = [buckets EXCEPT ![n] = b]
    BY <1>4 DEF DavCreateDir
  <2> QED BY <1>2, <1>3, <2>5, <2>6, IdleTaskKept DEF TaskDone
<1>5. CASE ~(buckets[n].app = Absent /\ r.app \in apps)
  <2>1. buckets' = buckets
    BY <1>5 DEF DavCreateDir
  <2> QED BY <1>3, <2>1, IdleTaskKept DEF TaskDone
<1> QED BY <1>4, <1>5
-----------------------------------------------------------------------------
(* The invariant of the requests on objects                                *)

LEMMA ObjectStepDone ==
    ASSUME ObjectInv, ObjectStep
    PROVE  \E t \in Tasks : TaskDone(t)
<1>1. ASSUME NEW t \in Tasks, NEW c, Begin(t, c),
             \E r \in Task : task' = [task EXCEPT ![t] = r] /\ \A b : TaskKept(r, b)
      PROVE  TaskDone(t)
  <2>1. UNCHANGED <<buckets, keys, apps, req, objects, uploads>>
    BY <1>1 DEF Begin
  <2> QED BY <1>1, <2>1, MovesDone
<1>2. ASSUME NEW t \in Tasks, NEW f \in Forms, NEW n \in Names, NEW src \in Names, NEW c \in Clients,
             ArriveObject(t, f, n, src, c)
      PROVE  TaskDone(t)
  <2>1. Begin(t, c)
    BY <1>2 DEF ArriveObject
  <2> QED BY <1>1, <1>2, <2>1, ArriveObjectTask
<1>3. ASSUME NEW t \in Tasks, NEW f \in DavForms, NEW n \in Names, NEW src \in Names, NEW c \in Clients,
             DavArrive(t, f, n, src, c)
      PROVE  TaskDone(t)
  <2>1. Begin(t, c)
    BY <1>3 DEF DavArrive
  <2> QED BY <1>1, <1>3, <2>1, DavArriveTask
<1>4. ASSUME NEW t \in Tasks, Authorise(t)
      PROVE  TaskDone(t)
  BY <1>4, IdentifyDone, GrantDone DEF Authorise
<1>5. ASSUME NEW t \in Tasks, ObjectPut(t)
      PROVE  TaskDone(t)
  BY <1>5, DoneDone, ReadCopySourceDone, EnsureLockBucketDone, BeginPutDone, ReadsDone, CommitDone
     DEF ObjectPut, CompareAcl, UploadPart, UploadPartCopy, RefuseSource, AbortPut
<1>6. ASSUME NEW t \in Tasks, Look(t)
      PROVE  TaskDone(t)
  BY <1>6, DoneDone DEF Look, ReadVersion, ReadTags, ReadLock, ReadAcl, ListParts
<1>7. ASSUME NEW t \in Tasks, Operate(t)
      PROVE  TaskDone(t)
  BY <1>7, DeleteOneDone, AmendersDone DEF Operate
<1>8. ASSUME NEW t \in Tasks, ObjectPost(t)
      PROVE  TaskDone(t)
  BY <1>8, CreateUploadDone, ReadsDone, CommitDone, AbortUploadDone DEF ObjectPost
<1>9. ASSUME NEW t \in Tasks, WebDav(t)
      PROVE  TaskDone(t)
  BY <1>9, DoneDone, DavReadersDone, DavRemoveDirDone, DavCreateDirDone
     DEF WebDav, DavRead, DavList, DavPrefix, DavRename
<1>10. Contested \subseteq Names
  BY ObjectAssumption
<1> QED BY <1>2, <1>3, <1>4, <1>5, <1>6, <1>7, <1>8, <1>9, <1>10 DEF ObjectStep

LEMMA TaskDoneKeeps ==
    ASSUME ObjectInv, NEW t \in Tasks, TaskDone(t)
    PROVE  ObjectInv'
<1> PICK n : n = task[t].name
  OBVIOUS
<1>0. BucketInv /\ ObjectTypes /\ IsFiniteSet(uploads) /\ buckets \in [Names -> Bucket]
  BY DEF ObjectInv, BucketInv, BucketTypes
<1>1. buckets' \in [Names -> Bucket] /\ RowsMove
  <2>1. CASE buckets' = buckets
    BY <1>0, <2>1 DEF RowsMove
  <2>2. ASSUME NEW b, RowMoves(buckets[n], b, Flights), buckets' = [buckets EXCEPT ![n] = b]
        PROVE  buckets' \in [Names -> Bucket] /\ RowsMove
    <3>1. b \in Bucket
      BY <2>2 DEF RowMoves
    <3> QED BY <1>0, <2>2, <3>1 DEF RowsMove
  <2> QED BY <2>1, <2>2 DEF TaskDone
<1>2. BucketInv'
  <2>1. keys' \in [AccessKeys -> Key] /\ apps' \subseteq Apps /\ req' = req /\ req \in [Requests -> Request]
    BY <1>0 DEF BucketInv, BucketTypes, TaskDone
  <2> QED BY <1>0, <1>1, <2>1, BucketStepKeeps DEF RowsMove
<1>3. task' \in [Tasks -> Task]
      /\ \A s \in Tasks : task'[s] = task[s] \/ TaskKept(task'[s], buckets'[task'[s].name])
  <2>1. PICK r \in Task : task' = [task EXCEPT ![t] = r] /\ TaskKept(r, buckets'[r.name])
    BY DEF TaskDone
  <2>2. task \in [Tasks -> Task]
    BY <1>0 DEF ObjectTypes
  <2> QED BY <2>1, <2>2
<1>4. objects' \in [Names -> Object]
      /\ \A m \in Names : objects'[m] = objects[m] \/ ObjectKept(objects'[m], buckets'[m])
  <2>1. objects \in [Names -> Object]
    BY <1>0 DEF ObjectTypes
  <2>2. CASE objects' = objects
    BY <2>1, <2>2
  <2>3. ASSUME NEW o \in Object, objects' = [objects EXCEPT ![n] = o], ObjectKept(o, buckets[n]), buckets' = buckets
        PROVE  objects' \in [Names -> Object]
               /\ \A m \in Names : objects'[m] = objects[m] \/ ObjectKept(objects'[m], buckets'[m])
    BY <2>1, <2>3
  <2> QED BY <2>2, <2>3 DEF TaskDone
<1>5. uploads' \subseteq Upload /\ IsFiniteSet(uploads')
      /\ \A u \in uploads' : u \in uploads \/ UploadKept(u, buckets'[u.name])
  <2>1. uploads \subseteq Upload
    BY <1>0 DEF ObjectTypes
  <2>2. CASE uploads' \subseteq uploads
    <3>1. IsFiniteSet(uploads')
      BY <1>0, <2>2, FS_Subset
    <3> QED BY <2>1, <2>2, <3>1
  <2>3. ASSUME NEW u \in Upload, uploads' = uploads \cup {u}, UploadKept(u, buckets'[u.name])
        PROVE  uploads' \subseteq Upload /\ IsFiniteSet(uploads')
               /\ \A w \in uploads' : w \in uploads \/ UploadKept(w, buckets'[w.name])
    <3>1. IsFiniteSet(uploads')
      BY <1>0, <2>3, FS_AddElement
    <3> QED BY <2>1, <2>3, <3>1
  <2> QED BY <2>2, <2>3 DEF TaskDone
<1> QED BY <1>1, <1>2, <1>3, <1>4, <1>5, ObjectStepKeeps

LEMMA ObjectInitially == ObjectInit => ObjectInv
<1> SUFFICES ASSUME ObjectInit PROVE ObjectInv
  OBVIOUS
<1>1. PICK v \in FirstVersions, full \in SUBSET Contested :
        /\ objects = [n \in Names |-> IF n \in full \cup (Names \ Contested)
                                      THEN [last |-> 1, versions |-> {v}] ELSE NoObject]
        /\ \E taken \in SUBSET (Contested \ full), d \in DOMAIN PolicyDocs \cup {Absent} :
              /\ \A n \in Contested : d \in ValidPolicies(n) \cup {Absent}
              /\ buckets = [n \in Names |->
                      CASE n \notin Contested -> Stocked(2, v)
                        [] n \in full -> [Stocked(1, v) EXCEPT !.policy = d]
                        [] n \in taken -> [NewBucket(Founder, 1, FALSE) EXCEPT !.policy = d]
                        [] OTHER -> NoBucket]
  BY Zenon DEF ObjectInit
<1>2. PICK taken \in SUBSET (Contested \ full), d \in DOMAIN PolicyDocs \cup {Absent} :
              buckets = [n \in Names |->
                      CASE n \notin Contested -> Stocked(2, v)
                        [] n \in full -> [Stocked(1, v) EXCEPT !.policy = d]
                        [] n \in taken -> [NewBucket(Founder, 1, FALSE) EXCEPT !.policy = d]
                        [] OTHER -> NoBucket]
  BY <1>1
<1>3. ASSUME NEW id \in Nat \ {0}
      PROVE  Stocked(id, v) \in Bucket /\ WellKept(Stocked(id, v)) /\ Stocked(id, v).used
             /\ (v.retention # NoRetention => Stocked(id, v).lock)
  <2>1. PICK lock, new, b : lock = ~v.null /\ new = NewBucket(Founder, id, lock) /\ b = [new EXCEPT !.used = TRUE]
    OBVIOUS
  <2>2. Founder \in Apps /\ Absent \notin Apps
    BY ApiAssumption
  <2>3. /\ new \in Bucket /\ WellKept(new) /\ new.app \in Apps
        /\ v.retention # NoRetention => new.lock
    <3>1. lock \in BOOLEAN /\ (v.retention # NoRetention => lock)
      BY <2>1, VersionsGiven
    <3> QED BY <2>1, <2>2, <3>1, NewBucketKept
  <2>4. /\ b \in Bucket /\ b.app = new.app /\ b.id = new.id /\ b.used
        /\ b.lock = new.lock /\ b.versioning = new.versioning
    BY <2>1, <2>3 DEF Bucket
  <2>5. b = Stocked(id, v)
    BY <2>1 DEF Stocked
  <2> QED BY <2>2, <2>3, <2>4, <2>5 DEF WellKept
<1>4. ASSUME NEW new \in Bucket, WellKept(new), NEW b, b = [new EXCEPT !.policy = d]
      PROVE  b \in Bucket /\ WellKept(b) /\ b.used = new.used /\ b.lock = new.lock
  <2>1. /\ b \in Bucket /\ b.app = new.app /\ b.id = new.id /\ b.used = new.used
        /\ b.lock = new.lock /\ b.versioning = new.versioning
    BY <1>4 DEF Bucket
  <2> QED BY <1>4, <2>1 DEF WellKept
<1>5. ASSUME NEW n \in Names
      PROVE  /\ buckets[n] \in Bucket /\ WellKept(buckets[n])
             /\ n \in full \cup (Names \ Contested) =>
                  buckets[n].used /\ (v.retention # NoRetention => buckets[n].lock)
  <2>1. CASE n \notin Contested
    <3>1. buckets[n] = Stocked(2, v)
      BY <1>1, <1>2, <2>1
    <3>2. 2 \in Nat \ {0}
      OBVIOUS
    <3> QED BY <1>3, <2>1, <3>1, <3>2
  <2>2. CASE n \in full
    <3>1. buckets[n] = [Stocked(1, v) EXCEPT !.policy = d]
      BY <1>1, <1>2, <2>2
    <3> QED BY <1>3, <1>4, <2>2, <3>1
  <2>3. CASE n \in taken
    <3>1. buckets[n] = [NewBucket(Founder, 1, FALSE) EXCEPT !.policy = d]
      BY <1>2, <2>3
    <3>2. Founder \in Apps /\ 1 \in Nat \ {0} /\ FALSE \in BOOLEAN
      BY ApiAssumption
    <3>3. NewBucket(Founder, 1, FALSE) \in Bucket /\ WellKept(NewBucket(Founder, 1, FALSE))
      BY <3>2, NewBucketKept
    <3> QED BY <1>4, <2>3, <3>1, <3>3
  <2>4. CASE n \in Contested /\ n \notin full \cup taken
    BY <1>2, <2>4, NoBucketKept
  <2> QED BY <2>1, <2>2, <2>3, <2>4
<1>6. BucketInv
  <2>1. buckets \in [Names -> Bucket]
    BY <1>2, <1>5
  <2> QED BY <1>5, <2>1, QuietKept DEF ObjectInit
<1>7. v \in ObjectVersion /\ v.no = 1
  BY VersionsGiven
<1>8. ASSUME NEW n \in Names
      PROVE  objects[n] \in Object /\ ObjectKept(objects[n], buckets[n])
  <2>1. CASE n \in full \cup (Names \ Contested)
    <3>1. objects[n] = [last |-> 1, versions |-> {v}]
      BY <1>1, <2>1
    <3> QED BY <1>5, <1>7, <2>1, <3>1 DEF Object, ObjectKept
  <2>2. CASE n \notin full \cup (Names \ Contested)
    BY <1>1, <2>2 DEF Object, ObjectKept, NoObject
  <2> QED BY <2>1, <2>2
<1>9. task \in [Tasks -> Task] /\ uploads = {} /\ IsFiniteSet({}) /\ \A t \in Tasks : \A b : TaskKept(task[t], b)
  BY IdleTaskKept, FS_EmptySet DEF ObjectInit
<1>10. objects \in [Names -> Object]
  BY <1>1, <1>8
<1> QED BY <1>6, <1>8, <1>9, <1>10 DEF ObjectInv, ObjectTypes

LEMMA ObjectPreserved == ObjectInv /\ [ObjectNext]_allVars => ObjectInv'
<1> SUFFICES ASSUME ObjectInv, [ObjectNext]_allVars PROVE ObjectInv'
  OBVIOUS
<1>1. CASE ObjectStep
  BY <1>1, ObjectStepDone, TaskDoneKeeps
<1>2. CASE BucketStep /\ UNCHANGED objectVars
  <2>1. task' = task /\ objects' = objects /\ uploads' = uploads
    BY <1>2 DEF objectVars
  <2>2. BucketInv' /\ RowsMove
    BY <1>2, BucketStepMoves
  <2>3. task \in [Tasks -> Task] /\ objects \in [Names -> Object] /\ uploads \subseteq Upload /\ IsFiniteSet(uploads)
    BY DEF ObjectInv, ObjectTypes
  <2> QED BY <2>1, <2>2, <2>3, ObjectStepKeeps
<1>3. CASE UNCHANGED allVars
  <2>1. task' = task /\ objects' = objects /\ uploads' = uploads /\ buckets' = buckets /\ keys' = keys
        /\ apps' = apps /\ req' = req
    BY <1>3 DEF allVars, objectVars, vars
  <2>2. BucketInv'
    BY <2>1 DEF ObjectInv, BucketInv, BucketTypes, WellSent, FlightKept, CorsRules
  <2>3. RowsMove
    BY <2>1 DEF RowsMove
  <2>4. task \in [Tasks -> Task] /\ objects \in [Names -> Object] /\ uploads \subseteq Upload /\ IsFiniteSet(uploads)
    BY DEF ObjectInv, ObjectTypes
  <2> QED BY <2>1, <2>2, <2>3, <2>4, ObjectStepKeeps
<1> QED BY <1>1, <1>2, <1>3 DEF ObjectNext

(* An object belongs to the bucket that holds it, whoever takes the name   *)
(* next, and every request under way holds a grant for, or has still to    *)
(* check, each action its change takes.                                    *)
THEOREM ObjectInvariant == ObjectSpec => []ObjectInv
  BY ObjectInitially, ObjectPreserved, PTL DEF ObjectSpec

(* authorize_s3_put_object_target, authorize_s3_copy_source,               *)
(* authorize_s3_object_subresource, authorize_s3_signed_delete_request and *)
(* the WebDAV permissions: whatever changes about an object, the tenant    *)
(* who owns the bucket at that moment had granted every action this takes  *)
(* to the request that did it.                                             *)
THEOREM ChangesHaveGrants == ObjectSpec => ChangesAreGranted
<1>1. ASSUME ObjectInv, ObjectNext, NEW t \in Tasks, task'[t] # task[t]
      PROVE  /\ \A n \in Names : objects'[n] # objects[n] =>
                   MayDo(task[t], buckets[n].app,
                     Needs(objects[n], objects'[n], task[t].form.op = "CompleteUpload", task[t].replaced))
             /\ \A u \in uploads' \ uploads :
                   MayDo(task[t], buckets[u.name].app,
                      {{"PutObject"}} \cup (IF u.tags THEN {{"PutObjectTagging"}} ELSE {}))
  <2>1. ObjectStep
    BY <1>1 DEF ObjectNext, objectVars
  <2>2. PICK s \in Tasks : TaskDone(s)
    BY <1>1, <2>1, ObjectStepDone
  <2>3. s = t
    <3>1. PICK r : task' = [task EXCEPT ![s] = r]
      BY <2>2 DEF TaskDone
    <3> QED BY <1>1, <3>1 DEF ObjectInv, ObjectTypes
  <2>4. objects \in [Names -> Object]
    BY <1>1 DEF ObjectInv, ObjectTypes
  <2> QED BY <2>2, <2>3, <2>4 DEF TaskDone
<1>2. ObjectInv /\ [ObjectNext]_allVars =>
        [\A t \in Tasks : task'[t] /= task[t] =>
          LET r == task[t] IN
          /\ \A n \in Names : objects'[n] /= objects[n] =>
                MayDo(r, buckets[n].app,
                      Needs(objects[n], objects'[n], r.form.op = "CompleteUpload", r.replaced))
          /\ \A u \in uploads' \ uploads :
                MayDo(r, buckets[u.name].app,
                      {{"PutObject"}} \cup (IF u.tags THEN {{"PutObjectTagging"}} ELSE {}))]_allVars
  BY <1>1
<1> QED BY <1>2, ObjectInvariant, PTL DEF ObjectSpec, ChangesAreGranted
=============================================================================
