----------------------- MODULE ObjectVersions_proofs -----------------------
(***************************************************************************)
(* Proofs about the version history of ObjectVersions, for any number of   *)
(* keys, PUTs and delete markers, and, in the second part, about the       *)
(* lifecycle worker of BucketLifecycle that writes the same rows: the      *)
(* history stays consistent beside PUTs and DELETEs, and the worker        *)
(* removes what is due and nothing else, for any rules, days and clock.    *)
(***************************************************************************)
EXTENDS BucketLifecycle, Sums_proofs

(* A bounded set of natural numbers has a largest member, so the promotion *)
(* of the newest remaining version by an exact DELETE is well defined.     *)
LEMMA MaxExists ==
    ASSUME NEW S, S # {}, NEW g \in [S -> Nat], NEW b \in Nat, \A v \in S : g[v] <= b
    PROVE  \E v \in S : \A w \in S : g[w] <= g[v]
<1> DEFINE T == {b - g[v] : v \in S}
<1>1. T \subseteq Nat /\ T # {}
  OBVIOUS
<1> DEFINE R == OpToRel(<, Nat)
<1>2. PICK x \in T : \A y \in T : ~(<<y, x>> \in R)
  <2> HIDE DEF T
  <2> QED BY <1>1, NatLessThanWellFounded, WFMin
<1>3. \A y \in T : ~(y < x)
  BY <1>1, <1>2, Zenon DEF OpToRel
<1>4. PICK v \in S : x = b - g[v]
  OBVIOUS
<1>5. ASSUME NEW w \in S PROVE g[w] <= g[v]
  <2>1. b - g[w] \in T
    OBVIOUS
  <2>2. ~(b - g[w] < b - g[v])
    BY <1>3, <1>4, <2>1
  <2> QED BY <2>2
<1> QED BY <1>5

-----------------------------------------------------------------------------
(* The inductive invariant.                                                *)

(* A row that was inserted belongs to a key.                               *)
RowsWellFormed ==
    \A v \in Ids : IF versions[v].state = "absent"
                   THEN versions[v].key = None ELSE versions[v].key \in Keys

(* HeadIsNewest, without CHOOSE.                                           *)
HeadIsMaximal ==
    \A k \in Keys :
        /\ objects[k].current = None => ActiveOf(k) = {}
        /\ objects[k].current # None =>
             /\ objects[k].current \in ActiveOf(k)
             /\ \A w \in ActiveOf(k) :
                  versions[w].generation <= versions[objects[k].current].generation

(* An object that no PUT has created has no history.                       *)
NoObjectNoHistory ==
    \A k \in Keys : ~objects[k].exists => objects[k].generation = 0

InFlight(p) == put[p].step \in {"bucketRead", "objectRead", "prepared"}

(* What a PUT handler holds between its reads and its transaction.         *)
PutsWellFormed ==
    \A p \in Puts :
        /\ put[p].step # "committed" => versions[p].state = "absent"
        /\ InFlight(p) => put[p].key \in Keys
        /\ put[p].replaced # None => put[p].step = "prepared" /\ put[p].null /\ put[p].exists
        /\ ~put[p].exists => put[p].generation = 0

(* As long as the bucket is Unversioned every version is a null version:   *)
(* versioning is never switched off again.                                 *)
UnversionedIsNull ==
    bucket.versioning = "unversioned" =>
        /\ \A v \in Ids : versions[v].state # "absent" => versions[v].null
        /\ \A p \in Puts : InFlight(p) => put[p].null

HistoryInv ==
    /\ TypeOK
    /\ RowsWellFormed
    /\ HeadIsMaximal
    /\ NoncurrentMarksHistory
    /\ OneActiveNull
    /\ GenerationsOrdered
    /\ GcTasksExact
    /\ NoObjectNoHistory
    /\ PutsWellFormed
    /\ UnversionedIsNull

(* The history at the start is empty.                                      *)
LEMMA InitHistory == Init => HistoryInv
<1> SUFFICES ASSUME Init PROVE HistoryInv
  OBVIOUS
<1> USE IdAssumption, KeyAssumption, TimeAssumption, RetentionAssumption DEF Init, Ids
<1>1. TypeOK
  <2>1. bucket \in Bucket
    <3> DEFINE a == [versioning |-> "unversioned", lock |-> FALSE, default |-> None]
               b == [versioning |-> "enabled", lock |-> TRUE, default |-> None]
    <3>1. a \in Bucket /\ b \in Bucket
      BY DEF Bucket, VersioningStatus
    <3> QED BY <3>1
  <2>2. objects \in [Keys -> Object]
    BY DEF Object
  <2>3. versions \in [Ids -> Version]
    BY DEF Version, AbsentVersion, RetentionRow, NoRetention
  <2>4. put \in [Puts -> Put]
    BY DEF Put, IdlePut, PutSteps
  <2> QED BY <2>1, <2>2, <2>3, <2>4 DEF TypeOK
<1>2. RowsWellFormed /\ HeadIsMaximal /\ NoObjectNoHistory
  BY DEF RowsWellFormed, HeadIsMaximal, NoObjectNoHistory, ActiveOf, Active, AbsentVersion
<1>3. NoncurrentMarksHistory /\ OneActiveNull /\ GenerationsOrdered /\ GcTasksExact
  BY DEF NoncurrentMarksHistory, OneActiveNull, GenerationsOrdered, GcTasksExact,
         Active, AbsentVersion
<1>4. PutsWellFormed /\ UnversionedIsNull
  BY DEF PutsWellFormed, UnversionedIsNull, InFlight, IdlePut, AbsentVersion
<1> QED BY <1>1, <1>2, <1>3, <1>4 DEF HistoryInv

-----------------------------------------------------------------------------
(* The queries of the transactions.                                        *)

(* The search for the active null version finds it when there is one.      *)
LEMMA ActiveNullFinds ==
    ASSUME NEW k \in Keys
    PROVE  /\ ActiveNull(k) \in Ids \cup {None}
           /\ ActiveNull(k) # None => ActiveNull(k) \in ActiveOf(k) /\ versions[ActiveNull(k)].null
           /\ ActiveNull(k) = None => \A v \in ActiveOf(k) : ~versions[v].null
<1> DEFINE nulls == {v \in ActiveOf(k) : versions[v].null}
<1>1. CASE nulls = {}
  BY <1>1 DEF ActiveNull
<1>2. CASE nulls # {}
  <2>1. ActiveNull(k) = CHOOSE v \in nulls : TRUE
    BY <1>2 DEF ActiveNull
  <2>2. ActiveNull(k) \in nulls
    BY <1>2, <2>1
  <2> QED BY <2>2, IdAssumption DEF ActiveOf
<1> QED BY <1>1, <1>2

(* The newest of some active versions is one of them and has the highest   *)
(* generation; it exists as soon as there is any.                          *)
LEMMA NewestFinds ==
    ASSUME TypeOK, GenerationsOrdered, NEW k \in Keys, NEW S \in SUBSET ActiveOf(k)
    PROVE  /\ NewestOf(S) \in S \cup {None}
           /\ NewestOf(S) = None <=> S = {}
           /\ S # {} => \A w \in S : versions[w].generation <= versions[NewestOf(S)].generation
<1>1. CASE S = {}
  BY <1>1 DEF NewestOf
<1>2. CASE S # {}
  <2> DEFINE g == [v \in S |-> versions[v].generation]
             b == objects[k].generation
  <2>1. b \in Nat
    BY DEF TypeOK, Object
  <2>2. g \in [S -> Nat]
    BY DEF TypeOK, Version, ActiveOf
  <2>3. \A v \in S : g[v] <= b
    BY DEF GenerationsOrdered, ActiveOf, Active, TypeOK, Object
  <2>4. \E v \in S : \A w \in S : g[w] <= g[v]
    <3> HIDE DEF g, b
    <3> QED BY <1>2, <2>1, <2>2, <2>3, MaxExists
  <2>5. \E v \in S : \A w \in S : versions[w].generation <= versions[v].generation
    BY <2>4
  <2>6. NewestOf(S) = CHOOSE v \in S : \A w \in S : versions[w].generation <= versions[v].generation
    BY <1>2 DEF NewestOf
  <2>7. NewestOf(S) \in S /\ \A w \in S : versions[w].generation <= versions[NewestOf(S)].generation
    BY <2>5, <2>6
  <2> QED BY <1>2, <2>7, IdAssumption DEF ActiveOf
<1> QED BY <1>1, <1>2

(* The relational form of the invariant is the one the run checks.         *)
LEMMA MaximalIsNewest ==
    TypeOK /\ GenerationsOrdered /\ HeadIsMaximal => HeadIsNewest
<1> SUFFICES ASSUME TypeOK, GenerationsOrdered, HeadIsMaximal, NEW k \in Keys
             PROVE  objects[k].current = NewestOf(ActiveOf(k))
  BY DEF HeadIsNewest
<1> DEFINE n == NewestOf(ActiveOf(k))
           c == objects[k].current
<1>1. /\ n \in ActiveOf(k) \cup {None}
      /\ n = None <=> ActiveOf(k) = {}
      /\ ActiveOf(k) # {} => \A w \in ActiveOf(k) : versions[w].generation <= versions[n].generation
  BY NewestFinds
<1>2. CASE c = None
  BY <1>1, <1>2 DEF HeadIsMaximal
<1>3. CASE c # None
  <2>1. /\ c \in ActiveOf(k)
        /\ \A w \in ActiveOf(k) : versions[w].generation <= versions[c].generation
    BY <1>3 DEF HeadIsMaximal
  <2>2. n \in ActiveOf(k)
    BY <1>1, <2>1
  <2>3. c \in Ids /\ n \in Ids /\ versions[c].generation \in Nat /\ versions[n].generation \in Nat
    BY <2>1, <2>2 DEF ActiveOf, TypeOK, Version
  <2>4. versions[c].generation = versions[n].generation
    BY <1>1, <2>1, <2>2, <2>3
  <2> QED BY <2>1, <2>2, <2>3, <2>4 DEF GenerationsOrdered, ActiveOf, Active
<1> QED BY <1>2, <1>3

-----------------------------------------------------------------------------
(* What each kind of step does to the history.                             *)

(* The part of the invariant that is about rows and head pointers          *)
RowsInv ==
    /\ RowsWellFormed
    /\ HeadIsMaximal
    /\ NoncurrentMarksHistory
    /\ OneActiveNull
    /\ GenerationsOrdered
    /\ NoObjectNoHistory

(* Steps that write no row keep it.                                        *)
LEMMA RowsUntouched ==
    ASSUME RowsInv, UNCHANGED <<objects, versions>>
    PROVE  RowsInv'
BY DEF RowsInv, RowsWellFormed, HeadIsMaximal, NoncurrentMarksHistory, OneActiveNull,
       GenerationsOrdered, NoObjectNoHistory, ActiveOf, Active

(* An update that changes only the lock columns of a present row keeps it. *)
LEMMA RowsRelocked ==
    ASSUME TypeOK, RowsInv, UNCHANGED objects, NEW u \in Ids, Active(u),
           versions' \in [Ids -> Version],
           \A v \in Ids \ {u} : versions'[v] = versions[v],
           versions'[u].state = versions[u].state,
           versions'[u].key = versions[u].key,
           versions'[u].generation = versions[u].generation,
           versions'[u].null = versions[u].null,
           versions'[u].noncurrent = versions[u].noncurrent
    PROVE  RowsInv'
<1>1. \A v \in Ids : /\ versions'[v].state = versions[v].state
                     /\ versions'[v].key = versions[v].key
                     /\ versions'[v].generation = versions[v].generation
                     /\ versions'[v].null = versions[v].null
                     /\ versions'[v].noncurrent = versions[v].noncurrent
  OBVIOUS
<1>2. \A k \in Keys : ActiveOf(k)' = ActiveOf(k)
  BY <1>1 DEF ActiveOf, Active
<1>3. \A k \in Keys : \A w \in ActiveOf(k) : w \in Ids
  BY DEF ActiveOf
<1>4. HeadIsMaximal'
  BY <1>1, <1>2, <1>3 DEF RowsInv, HeadIsMaximal
<1>5. RowsWellFormed'
  BY <1>1 DEF RowsInv, RowsWellFormed, Active
<1>6. NoncurrentMarksHistory' /\ OneActiveNull'
  BY <1>1 DEF RowsInv, NoncurrentMarksHistory, OneActiveNull, Active
<1>7. GenerationsOrdered' /\ NoObjectNoHistory'
  BY <1>1 DEF RowsInv, GenerationsOrdered, NoObjectNoHistory
<1> QED BY <1>4, <1>5, <1>6, <1>7 DEF RowsInv

(* Publishing a version or a marker at the next generation, in place of    *)
(* the active null version when it is itself a null version, keeps it.     *)
LEMMA RowsPublished ==
    ASSUME TypeOK, RowsInv,
           NEW k \in Keys, NEW new \in Ids, NEW row \in Version, NEW old \in Ids \cup {None},
           versions[new].state = "absent",
           row.state = "committed", row.key = k, ~row.noncurrent,
           row.generation = objects[k].generation + 1,
           old # None => old \in ActiveOf(k),
           row.null => \A v \in ActiveOf(k) : versions[v].null => v = old,
           versions' = Published(k, new, row, old),
           objects' = [objects EXCEPT ![k] =
               [exists |-> TRUE, current |-> new, generation |-> objects[k].generation + 1]]
    PROVE  RowsInv' /\ objects' \in [Keys -> Object] /\ versions' \in [Ids -> Version]
<1> DEFINE c == objects[k].current
           g == objects[k].generation
<1>1. /\ objects' \in [Keys -> Object]
      /\ objects'[k] = [exists |-> TRUE, current |-> new, generation |-> g + 1]
      /\ \A j \in Keys \ {k} : objects'[j] = objects[j]
  BY DEF TypeOK, Object
<1>2. g \in Nat /\ c \in Ids \cup {None} /\ new # None /\ new # old /\ new # c
  BY IdAssumption DEF TypeOK, Object, RowsInv, HeadIsMaximal, ActiveOf, Active
<1>3. versions' \in [Ids -> Version]
  <2>1. ASSUME NEW v \in Ids PROVE versions'[v] \in Version
    <3>1. CASE v = new
      BY <3>1 DEF Published
    <3>2. CASE v # new
      <4> DEFINE r == versions[v]
      <4>1. r \in Version /\ (r.noncurrent \/ v = c) \in BOOLEAN
        BY DEF TypeOK
      <4>2. versions'[v] = [r EXCEPT !.noncurrent = r.noncurrent \/ v = c,
                                     !.state = IF v = old THEN "superseded" ELSE r.state]
        BY <3>2 DEF Published
      <4> HIDE DEF r
      <4> QED BY <4>1, <4>2 DEF Version
    <3> QED BY <3>1, <3>2
  <2>2. DOMAIN versions' = Ids /\ versions' = [v \in Ids |-> versions'[v]]
    BY DEF Published
  <2> QED BY <2>1, <2>2
<1>4. versions'[new] = row
  BY DEF Published
<1>5. ASSUME NEW v \in Ids \ {new}
      PROVE  /\ versions'[v].state = IF v = old THEN "superseded" ELSE versions[v].state
             /\ versions'[v].noncurrent = (versions[v].noncurrent \/ v = c)
             /\ versions'[v].key = versions[v].key
             /\ versions'[v].generation = versions[v].generation
             /\ versions'[v].null = versions[v].null
  BY DEF Published, TypeOK, Version
<1>6. c # None => c \in Ids /\ Active(c) /\ versions[c].key = k
  BY DEF RowsInv, HeadIsMaximal, ActiveOf
<1>7. old # None => old \in Ids /\ Active(old) /\ versions[old].key = k
  BY DEF ActiveOf
<1>8. \A v \in Ids : Active(v)' <=> v = new \/ (v # old /\ Active(v))
  BY <1>2, <1>4, <1>5 DEF Active
<1>9. \A v \in Ids : versions[v].state # "absent" => versions[v].key \in Keys
  BY DEF RowsInv, RowsWellFormed
<1>10. \A v \in Ids : versions[v].state # "absent" /\ versions[v].key = k =>
                        versions[v].generation <= g /\ versions[v].generation \in Nat
  BY <1>2 DEF RowsInv, GenerationsOrdered, TypeOK, Version
<1>11. RowsWellFormed'
  <2> SUFFICES ASSUME NEW v \in Ids
               PROVE  IF versions'[v].state = "absent"
                      THEN versions'[v].key = None ELSE versions'[v].key \in Keys
    BY DEF RowsWellFormed
  <2>1. CASE v = new
    BY <2>1, <1>4
  <2>2. CASE v # new /\ versions[v].state = "absent"
    <3>1. versions'[v].state = "absent" /\ versions'[v].key = versions[v].key
      BY IdAssumption, <2>2, <1>2, <1>5, <1>7 DEF Active
    <3> QED BY <2>2, <3>1 DEF RowsInv, RowsWellFormed
  <2>3. CASE v # new /\ versions[v].state # "absent"
    BY <2>3, <1>5, <1>9
  <2> QED BY <2>1, <2>2, <2>3
<1>12. HeadIsMaximal'
  <2> SUFFICES ASSUME NEW j \in Keys
               PROVE  /\ objects'[j].current = None => ActiveOf(j)' = {}
                      /\ objects'[j].current # None =>
                           /\ objects'[j].current \in ActiveOf(j)'
                           /\ \A w \in ActiveOf(j)' :
                                versions'[w].generation <= versions'[objects'[j].current].generation
    BY DEF HeadIsMaximal
  <2>1. CASE j = k
    <3>1. new \in ActiveOf(k)'
      BY <1>4 DEF ActiveOf, Active
    <3>2. ASSUME NEW w \in ActiveOf(k)' PROVE versions'[w].generation <= g + 1
      <4>1. w \in Ids /\ Active(w)' /\ versions'[w].key = k
        BY DEF ActiveOf
      <4>2. CASE w = new
        BY <4>2, <1>2, <1>4
      <4>3. CASE w # new
        BY <4>1, <4>3, <1>2, <1>5, <1>8, <1>10 DEF Active
      <4> QED BY <4>2, <4>3
    <3> QED BY <2>1, <3>1, <3>2, <1>1, <1>2, <1>4
  <2>2. CASE j # k
    <3>1. \A v \in Ids : v \in ActiveOf(j)' <=> v \in ActiveOf(j)
      <4>1. ASSUME NEW v \in Ids PROVE v \in ActiveOf(j)' <=> v \in ActiveOf(j)
        <5>1. CASE v = new
          BY <2>2, <5>1, <1>4 DEF ActiveOf, Active
        <5>2. CASE v # new
          BY IdAssumption, <2>2, <5>2, <1>2, <1>5, <1>7, <1>8 DEF ActiveOf
        <5> QED BY <5>1, <5>2
      <4> QED BY <4>1
    <3>2. ActiveOf(j)' = ActiveOf(j) /\ new \notin ActiveOf(j)
      BY <3>1 DEF ActiveOf, Active
    <3>3. \A v \in ActiveOf(j) : v \in Ids \ {new}
      BY <3>2 DEF ActiveOf
    <3> QED BY <2>2, <3>2, <3>3, <1>1, <1>5 DEF RowsInv, HeadIsMaximal
  <2> QED BY <2>1, <2>2
<1>13. NoncurrentMarksHistory'
  <2> SUFFICES ASSUME NEW v \in Ids, Active(v)'
               PROVE  versions'[v].noncurrent <=> objects'[versions'[v].key].current # v
    BY DEF NoncurrentMarksHistory
  <2>1. CASE v = new
    BY <2>1, <1>1, <1>4
  <2>2. CASE v # new
    <3>1. Active(v) /\ versions[v].key \in Keys
      BY <2>2, <1>8, <1>9 DEF Active
    <3>2. versions[v].noncurrent <=> objects[versions[v].key].current # v
      BY <3>1 DEF RowsInv, NoncurrentMarksHistory
    <3>3. /\ versions'[v].key = versions[v].key
          /\ versions'[v].noncurrent <=> versions[v].noncurrent \/ v = c
      BY <2>2, <1>5
    <3>4. CASE versions[v].key = k
      <4>1. objects'[k].current = new
        BY <1>1
      <4> QED BY <2>2, <3>2, <3>3, <3>4, <4>1, Zenon
    <3>5. CASE versions[v].key # k
      <4>1. objects'[versions[v].key] = objects[versions[v].key] /\ v # c
        BY IdAssumption, <3>1, <3>5, <1>1, <1>2, <1>6
      <4> QED BY <3>2, <3>3, <4>1, Zenon
    <3> QED BY <3>4, <3>5
  <2> QED BY <2>1, <2>2
<1>14. OneActiveNull'
  <2> SUFFICES ASSUME NEW v \in Ids, NEW w \in Ids, Active(v)', Active(w)',
                      versions'[v].null, versions'[w].null, versions'[v].key = versions'[w].key
               PROVE  v = w
    BY DEF OneActiveNull
  <2>1. ASSUME NEW x \in Ids \ {new}, Active(x)', versions'[x].null, row.null
        PROVE  versions'[x].key # k
    BY <2>1, <1>5, <1>8 DEF ActiveOf
  <2>2. CASE v = new \/ w = new
    BY <2>1, <2>2, <1>4
  <2>3. CASE v # new /\ w # new
    BY <2>3, <1>5, <1>8 DEF RowsInv, OneActiveNull
  <2> QED BY <2>2, <2>3
<1>15. GenerationsOrdered'
  <2> SUFFICES ASSUME NEW v \in Ids, versions'[v].state # "absent"
               PROVE  /\ versions'[v].generation \in 1..objects'[versions'[v].key].generation
                      /\ \A w \in Ids \ {v} : versions'[w].key = versions'[v].key =>
                            versions'[w].generation # versions'[v].generation
    BY DEF GenerationsOrdered
  <2>1. \A w \in Ids : versions[w].state = "absent" => versions[w].key \notin Keys
    BY KeyAssumption DEF RowsInv, RowsWellFormed, AbsentVersion
  <2>2. CASE v = new
    <3>1. \A w \in Ids \ {new} : versions'[w].key = k => versions'[w].generation <= g
      BY <2>1, <1>5, <1>10
    <3> QED BY <2>2, <3>1, <1>1, <1>2, <1>4, <1>5, <1>3 DEF Version
  <2>3. CASE v # new
    <3>1. versions[v].state # "absent" /\ versions[v].key \in Keys
      <4>1. versions[v].state # "absent"
        BY IdAssumption, <2>3, <1>5, <1>7 DEF Active
      <4> QED BY <4>1, <1>9
    <3>2. /\ versions[v].generation \in 1..objects[versions[v].key].generation
          /\ \A w \in Ids \ {v} : versions[w].key = versions[v].key =>
                versions[w].generation # versions[v].generation
      BY <3>1 DEF RowsInv, GenerationsOrdered
    <3>3. versions'[v].generation \in 1..objects'[versions'[v].key].generation
      BY <2>3, <3>1, <3>2, <1>1, <1>2, <1>5
    <3>4. ASSUME NEW w \in Ids \ {v}, versions'[w].key = versions'[v].key
          PROVE  versions'[w].generation # versions'[v].generation
      <4>1. CASE w = new
        BY <2>3, <3>1, <3>4, <4>1, <1>2, <1>4, <1>5, <1>10
      <4>2. CASE w # new
        BY <2>3, <3>2, <3>4, <4>2, <1>5
      <4> QED BY <4>1, <4>2
    <3> QED BY <3>3, <3>4
  <2> QED BY <2>2, <2>3
<1>16. NoObjectNoHistory'
  BY <1>1 DEF RowsInv, NoObjectNoHistory
<1> QED BY <1>1, <1>3, <1>11, <1>12, <1>13, <1>14, <1>15, <1>16 DEF RowsInv

(* Retiring version u of k and moving the head to the newest version that  *)
(* is left, if u was the head, keeps it.                                   *)
LEMMA RowsRetired ==
    ASSUME TypeOK, RowsInv, NEW k \in Keys, NEW u \in ActiveOf(k),
           versions' \in [Ids -> Version],
           versions'[u].state \in {"deleting", "superseded"},
           \A v \in Ids \ {u} : versions'[v].state = versions[v].state,
           \A v \in Ids : /\ versions'[v].key = versions[v].key
                          /\ versions'[v].generation = versions[v].generation
                          /\ versions'[v].null = versions[v].null,
           \A v \in Ids \ {u} : versions'[v].noncurrent <=>
               versions[v].noncurrent
                   /\ ~(objects[k].current = u /\ v = NewestOf(ActiveOf(k) \ {u})),
           objects' = IF objects[k].current = u
                      THEN [objects EXCEPT ![k].current = NewestOf(ActiveOf(k) \ {u})]
                      ELSE objects
    PROVE  RowsInv' /\ objects' \in [Keys -> Object]
<1> DEFINE c == objects[k].current
           rest == ActiveOf(k) \ {u}
           next == NewestOf(ActiveOf(k) \ {u})
<1>1. u \in Ids /\ Active(u) /\ versions[u].key = k /\ c \in Ids \cup {None} /\ u # None
  BY IdAssumption DEF ActiveOf, TypeOK, Object
<1>2. /\ next \in rest \cup {None}
      /\ next = None <=> rest = {}
      /\ rest # {} => \A w \in rest : versions[w].generation <= versions[next].generation
  <2>1. rest \in SUBSET ActiveOf(k) /\ next = NewestOf(rest) /\ GenerationsOrdered
    BY DEF RowsInv
  <2> HIDE DEF rest
  <2>2. /\ NewestOf(rest) \in rest \cup {None}
        /\ NewestOf(rest) = None <=> rest = {}
        /\ rest # {} => \A w \in rest : versions[w].generation <= versions[NewestOf(rest)].generation
    BY <2>1, NewestFinds, Zenon
  <2> QED BY <2>1, <2>2, Zenon
<1>3. /\ \A v \in Ids \ {u} : versions'[v].noncurrent <=>
              versions[v].noncurrent /\ ~(c = u /\ v = next)
      /\ objects' = IF c = u THEN [objects EXCEPT ![k].current = next] ELSE objects
  OBVIOUS
<1> HIDE DEF next
<1>4. next \in Ids \cup {None} /\ rest \subseteq Ids
  BY <1>2 DEF ActiveOf
<1>5. /\ objects' \in [Keys -> Object]
      /\ \A j \in Keys : /\ objects'[j].generation = objects[j].generation
                         /\ objects'[j].exists = objects[j].exists
      /\ \A j \in Keys \ {k} : objects'[j].current = objects[j].current
      /\ objects'[k].current = IF c = u THEN next ELSE c
  <2>1. objects \in [Keys -> Object]
    BY DEF TypeOK
  <2>2. CASE c = u
    <3>1. objects' = [objects EXCEPT ![k].current = next]
      BY <2>2, <1>3, Zenon
    <3>2. [objects[k] EXCEPT !.current = next] \in Object
      BY <2>1, <1>4 DEF Object
    <3>3. objects' \in [Keys -> Object]
      BY <2>1, <3>1, <3>2
    <3> QED BY <2>1, <2>2, <3>1, <3>3 DEF Object
  <2>3. CASE c # u
    BY <2>1, <2>3, <1>3
  <2> QED BY <2>2, <2>3
<1>6. \A v \in Ids : Active(v)' <=> v # u /\ Active(v)
  BY <1>1 DEF Active
<1>7. \A v \in Ids : versions'[v].state = "absent" <=> versions[v].state = "absent"
  BY <1>1 DEF Active
<1>8. \A j \in Keys : ActiveOf(j)' = ActiveOf(j) \ {u}
  BY <1>6 DEF ActiveOf
<1>9. \A j \in Keys \ {k} : u \notin ActiveOf(j)
  BY <1>1 DEF ActiveOf
<1>10. RowsWellFormed'
  BY <1>7 DEF RowsInv, RowsWellFormed
<1>11. HeadIsMaximal'
  <2> SUFFICES ASSUME NEW j \in Keys
               PROVE  /\ objects'[j].current = None => ActiveOf(j)' = {}
                      /\ objects'[j].current # None =>
                           /\ objects'[j].current \in ActiveOf(j)'
                           /\ \A w \in ActiveOf(j)' :
                                versions'[w].generation <= versions'[objects'[j].current].generation
    BY DEF HeadIsMaximal
  <2>1. \A w \in ActiveOf(j) : w \in Ids /\ versions'[w].generation = versions[w].generation
    BY DEF ActiveOf
  <2>2. CASE j # k
    <3>1. ActiveOf(j)' = ActiveOf(j) /\ objects'[j].current = objects[j].current
      <4>1. ActiveOf(j)' = ActiveOf(j) \ {u} /\ u \notin ActiveOf(j)
        BY <2>2, <1>8, <1>9
      <4>2. objects'[j].current = objects[j].current
        BY <2>2, <1>5
      <4> QED BY <4>1, <4>2
    <3> QED BY <2>1, <3>1 DEF RowsInv, HeadIsMaximal
  <2>3. CASE j = k /\ c # u
    <3>1. objects'[k].current = c /\ ActiveOf(k)' = rest
      BY <2>3, <1>5, <1>8
    <3>2. c # None /\ c \in rest
      <4>1. c = None => ActiveOf(k) = {}
        BY DEF RowsInv, HeadIsMaximal
      <4>2. c # None
        BY <4>1
      <4>3. c \in ActiveOf(k)
        BY <4>2 DEF RowsInv, HeadIsMaximal
      <4> QED BY <2>3, <4>2, <4>3
    <3>3. \A w \in rest : versions[w].generation <= versions[c].generation
      BY <3>2 DEF RowsInv, HeadIsMaximal
    <3> QED BY <2>1, <2>3, <3>1, <3>2, <3>3
  <2>4. CASE j = k /\ c = u
    <3>1. objects'[k].current = next /\ ActiveOf(k)' = rest
      BY <2>4, <1>5, <1>8
    <3>2. CASE rest = {}
      BY <2>4, <3>1, <3>2, <1>2
    <3>3. CASE rest # {}
      <4>1. next \in rest /\ next # None
        BY <3>3, <1>2
      <4>2. \A w \in rest : /\ versions[w].generation <= versions[next].generation
                             /\ w \in ActiveOf(k)
        BY <3>3, <1>2
      <4>3. \A w \in rest : versions'[w].generation <= versions'[next].generation
        BY <2>1, <2>4, <4>1, <4>2
      <4> QED BY <2>4, <3>1, <4>1, <4>3
    <3> QED BY <3>2, <3>3
  <2> QED BY <2>2, <2>3, <2>4
<1>12. NoncurrentMarksHistory'
  <2> SUFFICES ASSUME NEW v \in Ids, Active(v)'
               PROVE  versions'[v].noncurrent <=> objects'[versions'[v].key].current # v
    BY DEF NoncurrentMarksHistory
  <2>1. v # u /\ Active(v) /\ versions[v].key \in Keys /\ versions'[v].key = versions[v].key
    BY <1>6 DEF RowsInv, RowsWellFormed, Active
  <2>2. versions[v].noncurrent <=> objects[versions[v].key].current # v
    BY <2>1 DEF RowsInv, NoncurrentMarksHistory
  <2>3. versions'[v].noncurrent <=> versions[v].noncurrent /\ ~(c = u /\ v = next)
    BY <2>1, <1>3, Zenon
  <2>4. v \in Ids /\ v # None
    BY IdAssumption
  <2>5. CASE versions[v].key # k
    <3>1. objects'[versions[v].key].current = objects[versions[v].key].current
      BY <2>1, <2>5, <1>5
    <3>2. v # next
      BY <2>4, <2>5, <1>2 DEF ActiveOf
    <3> QED BY <2>1, <2>2, <2>3, <3>1, <3>2, Zenon
  <2>6. CASE versions[v].key = k /\ c # u
    <3>1. objects'[k].current = c
      BY <2>6, <1>5
    <3> QED BY <2>1, <2>2, <2>3, <2>6, <3>1, Zenon
  <2>7. CASE versions[v].key = k /\ c = u
    <3>1. objects'[k].current = next
      BY <2>7, <1>5
    <3> QED BY <2>1, <2>2, <2>3, <2>7, <3>1, Zenon
  <2> QED BY <2>5, <2>6, <2>7
<1>13. OneActiveNull'
  BY <1>6 DEF RowsInv, OneActiveNull
<1>14. GenerationsOrdered'
  <2> SUFFICES ASSUME NEW v \in Ids, versions'[v].state # "absent"
               PROVE  /\ versions'[v].generation \in 1..objects'[versions'[v].key].generation
                      /\ \A w \in Ids \ {v} : versions'[w].key = versions'[v].key =>
                            versions'[w].generation # versions'[v].generation
    BY DEF GenerationsOrdered
  <2>1. versions[v].state # "absent" /\ versions[v].key \in Keys
    BY <1>7 DEF RowsInv, RowsWellFormed
  <2>2. objects'[versions[v].key].generation = objects[versions[v].key].generation
    BY <2>1, <1>5
  <2> QED BY <2>1, <2>2 DEF RowsInv, GenerationsOrdered
<1>15. NoObjectNoHistory'
  BY <1>5 DEF RowsInv, NoObjectNoHistory
<1> QED BY <1>5, <1>10, <1>11, <1>12, <1>13, <1>14, <1>15 DEF RowsInv

(* Scheduling the payload of the version that the step retires keeps the   *)
(* tasks exact.                                                            *)
LEMMA TasksScheduled ==
    ASSUME TypeOK, GcTasksExact, NEW u \in Ids \cup {None}, NEW reason \in GcReasons,
           u # None => Active(u),
           \A v \in Puts : versions'[v].state \in {"deleting", "superseded"} <=>
               v = u \/ versions[v].state \in {"deleting", "superseded"},
           gcTasks' = IF u = None THEN gcTasks ELSE Schedule(u, reason)
    PROVE  GcTasksExact' /\ gcTasks' \subseteq [version : Puts, reason : GcReasons]
<1> USE IdAssumption DEF Ids
<1>1. CASE u \in Puts
  <2>1. gcTasks' = gcTasks \cup {[version |-> u, reason |-> reason]}
    BY <1>1 DEF Schedule
  <2>2. \A t \in gcTasks : t.version # u
    BY <1>1 DEF GcTasksExact, Active
  <2>3. gcTasks' \subseteq [version : Puts, reason : GcReasons]
    BY <1>1, <2>1 DEF TypeOK
  <2>4. ASSUME NEW v \in Puts
        PROVE  (\E t \in gcTasks' : t.version = v) <=> versions'[v].state \in {"deleting", "superseded"}
    <3>1. CASE v = u
      <4> DEFINE t == [version |-> u, reason |-> reason]
      <4>1. t \in gcTasks' /\ t.version = v
        BY <2>1, <3>1
      <4>2. versions'[v].state \in {"deleting", "superseded"}
        BY <3>1
      <4> QED BY <4>1, <4>2, Zenon
    <3>2. CASE v # u
      BY <2>1, <3>2 DEF GcTasksExact
    <3> QED BY <3>1, <3>2
  <2>5. \A t, s \in gcTasks' : t.version = s.version => t = s
    BY <2>1, <2>2 DEF GcTasksExact
  <2> QED BY <2>3, <2>4, <2>5 DEF GcTasksExact
<1>2. CASE u \notin Puts
  <2>1. gcTasks' = gcTasks
    BY <1>2 DEF Schedule
  <2> QED BY <1>2, <2>1 DEF GcTasksExact, TypeOK
<1> QED BY <1>1, <1>2

-----------------------------------------------------------------------------
(* Every action keeps the invariant.                                       *)

(* The conjuncts of HistoryInv, with those about rows as one.              *)
HistoryParts ==
    TypeOK /\ RowsInv /\ GcTasksExact /\ PutsWellFormed /\ UnversionedIsNull

(* The invariant, grouped by what the actions disturb together.            *)
LEMMA HistoryInvParts == HistoryInv <=> HistoryParts
BY DEF HistoryInv, HistoryParts, RowsInv

(* Bucket configuration changes only ever leave Unversioned.               *)
LEMMA ConfigureKeeps ==
    ASSUME HistoryParts, ConfigureNext PROVE HistoryParts'
<1>1. /\ UNCHANGED <<objects, versions, put, gcTasks, used, now>>
      /\ bucket' \in Bucket
      /\ bucket'.versioning # "unversioned"
  <2>1. CASE \E status \in VersioningStatus : SetVersioning(status)
    <3>1. PICK status \in VersioningStatus : SetVersioning(status)
      BY <2>1
    <3>2. status # "unversioned"
      BY <3>1 DEF SetVersioning, CanTransitionTo
    <3> QED BY <3>1, <3>2 DEF SetVersioning, HistoryParts, TypeOK, Bucket
  <2>2. CASE \E default \in DefaultRetentions \cup {None} : ReplaceObjectLock(default)
    BY <2>2 DEF ReplaceObjectLock, Bucket, VersioningStatus
  <2> QED BY <2>1, <2>2 DEF ConfigureNext
<1>2. RowsInv'
  BY <1>1, RowsUntouched DEF HistoryParts
<1>3. TypeOK' /\ GcTasksExact' /\ PutsWellFormed' /\ UnversionedIsNull'
  BY <1>1 DEF HistoryParts, TypeOK, GcTasksExact, PutsWellFormed, UnversionedIsNull, InFlight
<1> QED BY <1>2, <1>3 DEF HistoryParts

(* Time passing disturbs nothing.                                          *)
LEMMA TickKeeps ==
    ASSUME HistoryParts, Tick PROVE HistoryParts'
<1>1. RowsInv'
  BY RowsUntouched DEF Tick, HistoryParts
<1>2. TypeOK' /\ GcTasksExact' /\ PutsWellFormed' /\ UnversionedIsNull'
  BY DEF Tick, HistoryParts, TypeOK, GcTasksExact, PutsWellFormed, UnversionedIsNull, InFlight
<1> QED BY <1>1, <1>2 DEF HistoryParts

(* A step that only changes what the handler of p holds.                   *)
LEMMA HandlerKeeps ==
    ASSUME HistoryParts, NEW p \in Puts, NEW row \in Put,
           put' = [put EXCEPT ![p] = row],
           UNCHANGED <<bucket, objects, versions, gcTasks, used, now>>,
           put[p].step # "committed", row.step # "committed",
           row.step \in {"bucketRead", "objectRead", "prepared"} =>
               row.key \in Keys /\ (bucket.versioning = "unversioned" => row.null),
           row.replaced # None => row.step = "prepared" /\ row.null /\ row.exists,
           ~row.exists => row.generation = 0
    PROVE  HistoryParts'
<1>1. RowsInv'
  BY RowsUntouched DEF HistoryParts
<1>2. put' \in [Puts -> Put] /\ put'[p] = row /\ \A q \in Puts \ {p} : put'[q] = put[q]
  BY DEF HistoryParts, TypeOK
<1>3. TypeOK' /\ GcTasksExact'
  BY <1>2 DEF HistoryParts, TypeOK, GcTasksExact
<1>4. PutsWellFormed'
  <2> SUFFICES ASSUME NEW q \in Puts
               PROVE  /\ put'[q].step # "committed" => versions'[q].state = "absent"
                      /\ InFlight(q)' => put'[q].key \in Keys
                      /\ put'[q].replaced # None =>
                           put'[q].step = "prepared" /\ put'[q].null /\ put'[q].exists
                      /\ ~put'[q].exists => put'[q].generation = 0
    BY DEF PutsWellFormed
  <2>1. CASE q = p
    <3>1. versions[p].state = "absent"
      BY DEF HistoryParts, PutsWellFormed
    <3> QED BY <2>1, <3>1, <1>2 DEF InFlight
  <2>2. CASE q # p
    <3>1. put'[q] = put[q]
      BY <2>2, <1>2
    <3> QED BY <3>1 DEF HistoryParts, PutsWellFormed, InFlight
  <2> QED BY <2>1, <2>2
<1>5. UnversionedIsNull'
  <2> SUFFICES ASSUME bucket.versioning = "unversioned", NEW q \in Puts, InFlight(q)'
               PROVE  put'[q].null
    BY DEF HistoryParts, UnversionedIsNull
  <2>1. CASE q = p
    BY <2>1, <1>2 DEF InFlight
  <2>2. CASE q # p
    <3>1. put'[q] = put[q]
      BY <2>2, <1>2
    <3> QED BY <3>1 DEF HistoryParts, UnversionedIsNull, InFlight
  <2> QED BY <2>1, <2>2
<1> QED BY <1>1, <1>3, <1>4, <1>5 DEF HistoryParts

(* The first read of a PUT fixes the key and the kind of version.          *)
LEMMA ReadBucketKeeps ==
    ASSUME HistoryParts, NEW p \in Puts, NEW k \in Keys,
           NEW retention \in Retentions \cup {NoRetention}, NEW hold \in BOOLEAN,
           ReadBucket(p, k, retention, hold)
    PROVE  HistoryParts'
<1> DEFINE failed == [IdlePut EXCEPT !.step = "failed"]
           read == [IdlePut EXCEPT !.step = "bucketRead", !.key = k,
                                   !.null = bucket.versioning # "enabled",
                                   !.retention = retention, !.hold = hold]
<1>1. failed \in Put /\ failed.step = "failed"
      /\ failed.replaced = None /\ failed.generation = 0
  BY DEF Put, PutSteps, IdlePut
<1>2. read \in Put /\ read.step = "bucketRead" /\ read.key = k
      /\ read.null = (bucket.versioning # "enabled")
      /\ read.replaced = None /\ read.generation = 0
  BY DEF Put, PutSteps, IdlePut
<1>3. PICK row \in {failed, read} : put' = [put EXCEPT ![p] = row]
  BY DEF ReadBucket
<1>4. put[p].step # "committed"
      /\ UNCHANGED <<bucket, objects, versions, gcTasks, used, now>>
  BY DEF ReadBucket
<1> HIDE DEF failed, read
<1>5. CASE row = failed
  BY <1>1, <1>3, <1>4, <1>5, HandlerKeeps
<1>6. CASE row = read
  BY <1>2, <1>3, <1>4, <1>6, HandlerKeeps
<1> QED BY <1>3, <1>5, <1>6

(* The second read of a PUT copies the head generation.                    *)
LEMMA ReadObjectKeeps ==
    ASSUME HistoryParts, NEW p \in Puts, ReadObject(p)
    PROVE  HistoryParts'
<1> DEFINE k == put[p].key
           row == [put[p] EXCEPT !.step = "objectRead", !.exists = objects[k].exists,
                                 !.generation = objects[k].generation]
<1>1. put[p] \in Put /\ put[p].step = "bucketRead" /\ k \in Keys
      /\ (bucket.versioning = "unversioned" => put[p].null)
  BY DEF ReadObject, HistoryParts, TypeOK, PutsWellFormed, UnversionedIsNull, InFlight
<1>2. objects[k] \in Object /\ (~objects[k].exists => objects[k].generation = 0)
  BY <1>1 DEF HistoryParts, TypeOK, RowsInv, NoObjectNoHistory
<1>3. put[p].replaced = None
  BY <1>1 DEF HistoryParts, PutsWellFormed
<1>4. put' = [put EXCEPT ![p] = row]
      /\ UNCHANGED <<bucket, objects, versions, gcTasks, used, now>>
  <2>1. put' = [put EXCEPT ![p].step = "objectRead", ![p].exists = objects[k].exists,
                           ![p].generation = objects[k].generation]
    BY DEF ReadObject
  <2> QED BY <2>1, <1>1 DEF ReadObject, HistoryParts, TypeOK, Put
<1>5. row \in Put /\ row.step = "objectRead" /\ row.key = k /\ row.null = put[p].null
      /\ row.exists = objects[k].exists /\ row.generation = objects[k].generation
      /\ row.replaced = None
  BY <1>1, <1>2, <1>3 DEF Put, PutSteps, Object
<1> HIDE DEF row
<1> QED BY <1>1, <1>2, <1>4, <1>5, HandlerKeeps

(* The third read of a PUT finds the null version it will replace.         *)
LEMMA ReadVersionsKeeps ==
    ASSUME HistoryParts, NEW p \in Puts, ReadVersions(p)
    PROVE  HistoryParts'
<1> DEFINE k == put[p].key
           old == IF put[p].null /\ put[p].exists THEN ActiveNull(k) ELSE None
           row == [put[p] EXCEPT !.step = "prepared", !.at = now, !.replaced = old]
<1>1. put[p] \in Put /\ put[p].step = "objectRead" /\ k \in Keys
      /\ (bucket.versioning = "unversioned" => put[p].null)
      /\ (~put[p].exists => put[p].generation = 0)
  BY DEF ReadVersions, HistoryParts, TypeOK, PutsWellFormed, UnversionedIsNull, InFlight
<1>2. now \in Nat
  BY TimeAssumption DEF HistoryParts, TypeOK
<1>3. old \in Ids \cup {None} /\ (old # None => put[p].null /\ put[p].exists)
  BY <1>1, ActiveNullFinds
<1>4. put' = [put EXCEPT ![p] = row]
      /\ UNCHANGED <<bucket, objects, versions, gcTasks, used, now>>
  <2>1. put' = [put EXCEPT ![p].step = "prepared", ![p].at = now, ![p].replaced = old]
    BY DEF ReadVersions
  <2> HIDE DEF old
  <2> QED BY <2>1, <1>1 DEF ReadVersions, HistoryParts, TypeOK, Put
<1> HIDE DEF old
<1>5. row \in Put /\ row.step = "prepared" /\ row.key = k /\ row.null = put[p].null
      /\ row.exists = put[p].exists /\ row.generation = put[p].generation
      /\ row.replaced = old
  BY <1>1, <1>2, <1>3 DEF Put, PutSteps
<1> HIDE DEF row
<1> QED BY <1>1, <1>3, <1>4, <1>5, HandlerKeeps

(* A rolled back commit only ends the handler.                             *)
LEMMA CommitFailsKeeps ==
    ASSUME HistoryParts, NEW p \in Puts, CommitFails(p)
    PROVE  HistoryParts'
<1> DEFINE row == [IdlePut EXCEPT !.step = "failed"]
<1>1. row \in Put /\ row.step = "failed" /\ row.replaced = None /\ row.generation = 0
  BY DEF Put, PutSteps, IdlePut
<1>2. put' = [put EXCEPT ![p] = row] /\ put[p].step = "prepared"
      /\ UNCHANGED <<bucket, objects, versions, gcTasks, used, now>>
  BY DEF CommitFails
<1> HIDE DEF row
<1> QED BY <1>1, <1>2, HandlerKeeps

(* The lock that the commit freezes on the new version is a legal row.     *)
LEMMA FrozenIsRow ==
    ASSUME TypeOK, NEW p \in Puts PROVE FrozenRetention(p) \in RetentionRow
<1>1. put[p].retention \in Retentions \cup {NoRetention} /\ put[p].at \in Nat
  BY DEF TypeOK, Put
<1>2. NoRetention \in RetentionRow /\ put[p].retention \in RetentionRow
  BY <1>1, RetentionAssumption DEF NoRetention, RetentionRow
<1>3. bucket.default # None =>
        /\ bucket.default.mode \in {"governance", "compliance"}
        /\ bucket.default.days \in Nat
  BY RetentionAssumption DEF TypeOK, Bucket
<1>4. bucket.default # None =>
        [mode |-> bucket.default.mode, until |-> put[p].at + bucket.default.days] \in RetentionRow
  BY <1>1, <1>3 DEF RetentionRow
<1> QED BY <1>2, <1>4 DEF FrozenRetention

(* Sizes are natural numbers.                                              *)
LEMMA SizesAreNat ==
    \A v \in Ids : PayloadSize(v) \in Nat
BY SizeAssumption DEF PayloadSize

(* A step that leaves the handlers and the configuration alone and, of the *)
(* absent rows, inserts at most a marker.                                  *)
LEMMA HandlersUndisturbed ==
    ASSUME HistoryParts, UNCHANGED <<bucket, put>>,
           \A p \in Puts : versions[p].state = "absent" => versions'[p].state = "absent",
           bucket.versioning = "unversioned" =>
               \A v \in Ids : versions'[v].state # "absent" => versions'[v].null
    PROVE  PutsWellFormed' /\ UnversionedIsNull'
BY DEF HistoryParts, PutsWellFormed, UnversionedIsNull, InFlight

(* What a commit may rely on: the generation it prepared is the next one,  *)
(* and the version it replaces is the active null version of its object.   *)
LEMMA CommitReplaces ==
    ASSUME HistoryParts, NEW p \in Puts, Commit(p)
    PROVE  /\ put[p] \in Put /\ put[p].step = "prepared" /\ put[p].key \in Keys
           /\ versions[p].state = "absent"
           /\ bucket.versioning = "unversioned" => put[p].null
           /\ put[p].generation = objects[put[p].key].generation
           /\ put[p].replaced # None =>
                /\ put[p].replaced \in ActiveOf(put[p].key)
                /\ versions[put[p].replaced].null
                /\ used >= PayloadSize(put[p].replaced)
           /\ put[p].null =>
                \A v \in ActiveOf(put[p].key) : versions[v].null => v = put[p].replaced
<1> DEFINE k == put[p].key
           old == put[p].replaced
<1> USE IdAssumption DEF Ids
<1>1. /\ put[p] \in Put /\ put[p].step = "prepared" /\ k \in Keys
      /\ versions[p].state = "absent"
      /\ old # None => put[p].null /\ put[p].exists
      /\ ~put[p].exists => put[p].generation = 0
      /\ bucket.versioning = "unversioned" => put[p].null
  BY DEF Commit, HistoryParts, TypeOK, PutsWellFormed, UnversionedIsNull, InFlight
<1>2. CreateAccepts(p) \/ AppendAccepts(p)
  BY DEF Commit, CommitAccepts
<1>3. /\ put[p].generation = objects[k].generation
      /\ old # None => old \in ActiveOf(k) /\ versions[old].null /\ used >= PayloadSize(old)
      /\ put[p].null => \A v \in ActiveOf(k) : versions[v].null => v = old
  <2>1. CASE CreateAccepts(p)
    <3>1. ~put[p].exists /\ ~objects[k].exists
      BY <2>1 DEF CreateAccepts
    <3>2. objects[k].generation = 0
      BY <3>1, <1>1 DEF HistoryParts, RowsInv, NoObjectNoHistory
    <3>3. ActiveOf(k) = {}
      BY <3>2 DEF HistoryParts, RowsInv, GenerationsOrdered, ActiveOf, Active
    <3> QED BY <3>1, <3>2, <3>3, <1>1
  <2>2. CASE AppendAccepts(p)
    <3>1. /\ put[p].generation = objects[k].generation
          /\ put[p].null => ActiveNull(k) = old
          /\ old # None => used >= PayloadSize(old)
      BY <2>2 DEF AppendAccepts, SnapshotMatches
    <3>2. old # None => old \in ActiveOf(k) /\ versions[old].null
      BY <3>1, <1>1, ActiveNullFinds
    <3>3. ASSUME put[p].null, NEW v \in ActiveOf(k), versions[v].null PROVE v = old
      <4>1. ActiveNull(k) # None
        BY <3>3, <1>1, ActiveNullFinds
      <4>2. old # None /\ old \in ActiveOf(k) /\ versions[old].null
        BY <3>1, <3>2, <3>3, <4>1
      <4> QED BY <3>3, <4>2 DEF HistoryParts, RowsInv, OneActiveNull, ActiveOf
    <3> QED BY <3>1, <3>2, <3>3
  <2> QED BY <1>2, <2>1, <2>2
<1> QED BY <1>1, <1>3

(* The rows once a version is published: only the new row, the head and    *)
(* the replaced version change.                                            *)
LEMMA PublishedRows ==
    ASSUME HistoryParts, NEW k, NEW new \in Ids, NEW row, NEW old,
           versions' = Published(k, new, row, old)
    PROVE  /\ versions'[new] = row
           /\ \A v \in Ids \ {new} :
                /\ versions'[v].state = IF v = old THEN "superseded" ELSE versions[v].state
                /\ versions'[v].null = versions[v].null
                /\ versions'[v].marker = versions[v].marker
                /\ versions'[v].retention = versions[v].retention
                /\ versions'[v].hold = versions[v].hold
BY DEF Published, HistoryParts, TypeOK, Version

(* The commit transaction keeps the invariant: what it re-checks is enough *)
(* to publish from reads that are no longer current.                       *)
LEMMA CommitKeeps ==
    ASSUME HistoryParts, NEW p \in Puts, Commit(p)
    PROVE  HistoryParts'
<1> DEFINE k == put[p].key
           old == put[p].replaced
           row == NewVersion(p)
           done == [IdlePut EXCEPT !.step = "committed", !.key = k]
<1> USE IdAssumption DEF Ids
<1>1. /\ put[p] \in Put /\ k \in Keys /\ versions[p].state = "absent"
      /\ bucket.versioning = "unversioned" => put[p].null
  BY CommitReplaces
<1>2. /\ put[p].generation = objects[k].generation
      /\ old # None => old \in ActiveOf(k) /\ used >= PayloadSize(old)
      /\ put[p].null => \A v \in ActiveOf(k) : versions[v].null => v = old
  BY CommitReplaces
<1>3. FrozenRetention(p) \in RetentionRow
  BY FrozenIsRow DEF HistoryParts
<1>4. /\ row \in Version /\ row.state = "committed" /\ row.key = k /\ ~row.noncurrent
      /\ row.generation = objects[k].generation + 1
      /\ row.null = put[p].null
  BY <1>1, <1>2, <1>3 DEF NewVersion, Version, Put
<1>5. versions' = Published(k, p, row, old)
      /\ objects' = [objects EXCEPT ![k] =
           [exists |-> TRUE, current |-> p, generation |-> objects[k].generation + 1]]
  BY <1>2 DEF Commit
<1>6. p \in Ids /\ old \in Ids \cup {None} /\ p # old
  BY <1>1, <1>2 DEF Put, ActiveOf, Active
<1>7. TypeOK /\ RowsInv /\ (row.null => \A v \in ActiveOf(k) : versions[v].null => v = old)
  BY <1>2, <1>4 DEF HistoryParts
<1>8. RowsInv' /\ objects' \in [Keys -> Object] /\ versions' \in [Ids -> Version]
  <2> HIDE DEF row, old, k
  <2> QED BY <1>1, <1>2, <1>4, <1>5, <1>6, <1>7, RowsPublished
<1>9. /\ versions'[p] = row
      /\ \A v \in Ids \ {p} : /\ versions'[v].state = IF v = old THEN "superseded" ELSE versions[v].state
                              /\ versions'[v].null = versions[v].null
  BY <1>5 DEF Published, HistoryParts, TypeOK, Version
<1>10. GcTasksExact' /\ gcTasks' \subseteq [version : Puts, reason : GcReasons]
  <2>1. gcTasks' = IF old = None THEN gcTasks ELSE Schedule(old, "replaced_null_version")
    BY DEF Commit
  <2>2. old # None => Active(old)
    BY <1>2 DEF ActiveOf
  <2>3. \A v \in Puts : versions'[v].state \in {"deleting", "superseded"} <=>
               v = old \/ versions[v].state \in {"deleting", "superseded"}
    BY <1>1, <1>4, <1>6, <1>9
  <2>4. TypeOK /\ GcTasksExact /\ "replaced_null_version" \in GcReasons
    BY DEF HistoryParts, GcReasons
  <2> HIDE DEF old
  <2> QED BY <2>1, <2>2, <2>3, <2>4, <1>6, TasksScheduled
<1>11. used' \in Nat
  <2>1. used \in Nat /\ Size[p] \in Nat /\ Released(old) \in Nat /\ Released(old) <= used
    BY <1>2, <1>6, SizesAreNat, SizeAssumption DEF HistoryParts, TypeOK, Released
  <2>2. used' = used + Size[p] - Released(old)
    BY DEF Commit
  <2> QED BY <2>1, <2>2
<1>12. put' = [put EXCEPT ![p] = done] /\ UNCHANGED <<bucket, now>>
  BY DEF Commit
<1>13. done \in Put /\ done.step = "committed" /\ done.replaced = None /\ done.generation = 0
  BY <1>1 DEF Put, PutSteps, IdlePut
<1>14. put' \in [Puts -> Put] /\ put'[p] = done /\ \A q \in Puts \ {p} : put'[q] = put[q]
  BY <1>12, <1>13 DEF HistoryParts, TypeOK
<1>15. TypeOK'
  BY <1>8, <1>10, <1>11, <1>12, <1>14 DEF HistoryParts, TypeOK
<1>16. PutsWellFormed'
  <2> SUFFICES ASSUME NEW q \in Puts
               PROVE  /\ put'[q].step # "committed" => versions'[q].state = "absent"
                      /\ InFlight(q)' => put'[q].key \in Keys
                      /\ put'[q].replaced # None =>
                           put'[q].step = "prepared" /\ put'[q].null /\ put'[q].exists
                      /\ ~put'[q].exists => put'[q].generation = 0
    BY DEF PutsWellFormed
  <2>1. CASE q = p
    BY <2>1, <1>13, <1>14 DEF InFlight
  <2>2. CASE q # p
    <3>1. put'[q] = put[q] /\ q \in Ids \ {p}
      BY <2>2, <1>14
    <3>2. versions[q].state = "absent" => versions'[q].state = "absent"
      BY <3>1, <1>2, <1>9 DEF ActiveOf, Active
    <3> QED BY <3>1, <3>2 DEF HistoryParts, PutsWellFormed, InFlight
  <2> QED BY <2>1, <2>2
<1>17. UnversionedIsNull'
  <2> SUFFICES ASSUME bucket.versioning = "unversioned"
               PROVE  /\ \A v \in Ids : versions'[v].state # "absent" => versions'[v].null
                      /\ \A q \in Puts : InFlight(q)' => put'[q].null
    BY <1>12 DEF UnversionedIsNull
  <2>1. ASSUME NEW v \in Ids, versions'[v].state # "absent" PROVE versions'[v].null
    <3>1. CASE v = p
      BY <3>1, <1>1, <1>4, <1>9
    <3>2. CASE v # p
      <4>1. versions[v].state # "absent"
        BY <2>1, <3>2, <1>2, <1>9 DEF ActiveOf, Active
      <4> QED BY <3>2, <4>1, <1>9 DEF HistoryParts, UnversionedIsNull
    <3> QED BY <3>1, <3>2
  <2>2. ASSUME NEW q \in Puts, InFlight(q)' PROVE put'[q].null
    BY <2>2, <1>13, <1>14 DEF HistoryParts, UnversionedIsNull, InFlight
  <2> QED BY <2>1, <2>2
<1> QED BY <1>8, <1>10, <1>15, <1>16, <1>17 DEF HistoryParts

(* A delete marker becomes the head.                                       *)
LEMMA MarkerKeeps ==
    ASSUME HistoryParts, NEW k \in Keys, NEW m \in Markers, NEW at \in Nat,
           NEW null \in BOOLEAN, NEW old \in Ids \cup {None}, NEW reason \in GcReasons,
           objects[k].exists, versions[m].state = "absent",
           bucket.versioning # "unversioned",
           old # None => old \in ActiveOf(k) /\ used >= PayloadSize(old),
           null => \A v \in ActiveOf(k) : versions[v].null => v = old,
           versions' = Published(k, m, NewMarker(k, null, at), old),
           AdvanceTo(k, m),
           gcTasks' = IF old = None THEN gcTasks ELSE Schedule(old, reason),
           used' = used - Released(old),
           UNCHANGED <<bucket, put, now>>
    PROVE  HistoryParts'
<1> DEFINE row == NewMarker(k, null, at)
<1> USE IdAssumption DEF Ids
<1>1. objects[k] \in Object /\ objects[k].generation \in Nat
  BY DEF HistoryParts, TypeOK, Object
<1>2. /\ row \in Version /\ row.state = "committed" /\ row.key = k /\ ~row.noncurrent
      /\ row.generation = objects[k].generation + 1
      /\ row.null = null
  BY <1>1 DEF NewMarker, Version, NoRetention, RetentionRow
<1>3. objects' = [objects EXCEPT ![k] =
           [exists |-> TRUE, current |-> m, generation |-> objects[k].generation + 1]]
  <2>1. objects[k].exists \in BOOLEAN /\ objects \in [Keys -> Object]
    BY <1>1 DEF Object, HistoryParts, TypeOK
  <2>2. objects[k].exists = TRUE
    BY <2>1, Zenon
  <2>3. objects' = [objects EXCEPT ![k].current = m, ![k].generation = @ + 1]
    BY DEF AdvanceTo
  <2> QED BY <2>1, <2>2, <2>3 DEF Object
<1>4. m \in Ids /\ m # old
  BY DEF ActiveOf, Active
<1>5. RowsInv' /\ objects' \in [Keys -> Object] /\ versions' \in [Ids -> Version]
  <2>1. TypeOK /\ RowsInv /\ versions' = Published(k, m, row, old)
        /\ (row.null => \A v \in ActiveOf(k) : versions[v].null => v = old)
    BY <1>2 DEF HistoryParts
  <2> HIDE DEF row
  <2> QED BY <1>2, <1>3, <1>4, <2>1, RowsPublished
<1>6. \A v \in Ids \ {m} : /\ versions'[v].state = IF v = old THEN "superseded" ELSE versions[v].state
                           /\ versions'[v].null = versions[v].null
  BY DEF Published, HistoryParts, TypeOK, Version
<1>7. \A v \in Puts : v \in Ids \ {m}
  OBVIOUS
<1>8. GcTasksExact' /\ gcTasks' \subseteq [version : Puts, reason : GcReasons]
  <2>1. old # None => Active(old)
    BY DEF ActiveOf
  <2>2. \A v \in Puts : versions'[v].state \in {"deleting", "superseded"} <=>
               v = old \/ versions[v].state \in {"deleting", "superseded"}
    BY <1>6, <1>7
  <2>3. TypeOK /\ GcTasksExact
    BY DEF HistoryParts
  <2> QED BY <2>1, <2>2, <2>3, TasksScheduled
<1>9. used' \in Nat
  <2>1. used \in Nat /\ Released(old) \in Nat /\ Released(old) <= used
    BY SizesAreNat DEF HistoryParts, TypeOK, Released
  <2> QED BY <2>1
<1>10. TypeOK'
  BY <1>5, <1>8, <1>9 DEF HistoryParts, TypeOK
<1>11. PutsWellFormed' /\ UnversionedIsNull'
  <2>1. \A p \in Puts : versions[p].state = "absent" => versions'[p].state = "absent"
    BY <1>6, <1>7 DEF ActiveOf, Active
  <2> QED BY <2>1, HandlersUndisturbed
<1> QED BY <1>5, <1>8, <1>10, <1>11 DEF HistoryParts

(* A DELETE in an Enabled bucket puts an opaque marker at the head.        *)
LEMMA DeleteEnabledKeeps ==
    ASSUME HistoryParts, NEW k \in Keys, NEW m \in Markers, NEW at \in Nat,
           DeleteEnabled(k, m, at)
    PROVE  HistoryParts'
<1>1. /\ objects[k].exists /\ versions[m].state = "absent" /\ bucket.versioning # "unversioned"
      /\ versions' = Published(k, m, NewMarker(k, FALSE, at), None)
      /\ AdvanceTo(k, m) /\ gcTasks' = gcTasks /\ used' = used
      /\ UNCHANGED <<bucket, put, now>>
  BY DEF DeleteEnabled
<1>2. used' = used - Released(None)
  BY <1>1 DEF Released, HistoryParts, TypeOK
<1>3. gcTasks' = IF None = None THEN gcTasks ELSE Schedule(None, "explicit_delete")
  BY <1>1
<1>4. "explicit_delete" \in GcReasons
  BY DEF GcReasons
<1> QED BY <1>1, <1>2, <1>3, <1>4, MarkerKeeps

(* A DELETE in a Suspended bucket puts a null marker at the head and       *)
(* retires the null version, if there is one.                              *)
LEMMA DeleteSuspendedKeeps ==
    ASSUME HistoryParts, NEW k \in Keys, NEW m \in Markers, NEW at \in Nat,
           NEW bypass \in BOOLEAN, DeleteSuspended(k, m, at, bypass)
    PROVE  HistoryParts'
<1> DEFINE old == ActiveNull(k)
<1>1. /\ objects[k].exists /\ versions[m].state = "absent" /\ bucket.versioning # "unversioned"
      /\ versions' = Published(k, m, NewMarker(k, TRUE, at), old)
      /\ AdvanceTo(k, m)
      /\ gcTasks' = IF old = None THEN gcTasks ELSE Schedule(old, "explicit_delete")
      /\ used' = used - Released(old)
      /\ old # None => used >= PayloadSize(old)
      /\ UNCHANGED <<bucket, put, now>>
  BY DEF DeleteSuspended
<1>2. /\ old \in Ids \cup {None}
      /\ old # None => old \in ActiveOf(k) /\ versions[old].null
      /\ old = None => \A v \in ActiveOf(k) : ~versions[v].null
  BY ActiveNullFinds
<1> HIDE DEF old
<1>3. \A v \in ActiveOf(k) : versions[v].null => v = old
  BY <1>2 DEF HistoryParts, RowsInv, OneActiveNull, ActiveOf
<1>4. "explicit_delete" \in GcReasons
  BY DEF GcReasons
<1> QED BY <1>1, <1>2, <1>3, <1>4, MarkerKeeps

(* What the exact DELETE writes: the deleted version is hidden and, if it  *)
(* was the head, the version promoted in its place becomes current again.  *)
LEMMA DeleteVersionRows ==
    ASSUME HistoryParts, NEW k \in Keys, NEW u \in Ids, NEW at, NEW bypass,
           DeleteVersion(k, u, at, bypass)
    PROVE  /\ versions' \in [Ids -> Version]
           /\ versions'[u].state \in {"deleting", "superseded"}
           /\ \A v \in Ids \ {u} : versions'[v].state = versions[v].state
           /\ \A v \in Ids : /\ versions'[v].key = versions[v].key
                             /\ versions'[v].generation = versions[v].generation
                             /\ versions'[v].null = versions[v].null
                             /\ versions'[v].marker = versions[v].marker
                             /\ versions'[v].retention = versions[v].retention
                             /\ versions'[v].hold = versions[v].hold
           /\ \A v \in Ids \ {u} : versions'[v].noncurrent <=>
                versions[v].noncurrent
                    /\ ~(objects[k].current = u /\ v = NewestOf(ActiveOf(k) \ {u}))
<1> DEFINE c == objects[k].current
           next == NewestOf(ActiveOf(k) \ {u})
           hidden == HiddenState(u)
           marked == versions[u].noncurrent \/ c = u
<1>1. versions \in [Ids -> Version]
  BY DEF HistoryParts, TypeOK
<1>2. hidden \in {"deleting", "superseded"} /\ marked \in BOOLEAN
  BY DEF HiddenState
<1>3. next # u
  <2>1. ActiveOf(k) \ {u} \in SUBSET ActiveOf(k) /\ TypeOK /\ GenerationsOrdered
    BY DEF HistoryParts, RowsInv
  <2>2. next \in (ActiveOf(k) \ {u}) \cup {None}
    BY <2>1, NewestFinds
  <2> QED BY <2>2, IdAssumption
<1>4. versions' = [w \in Ids |->
             CASE w = u -> [versions[u] EXCEPT !.state = hidden, !.noncurrent = marked]
               [] c = u /\ w = next -> [versions[w] EXCEPT !.noncurrent = FALSE]
               [] OTHER -> versions[w]]
  BY DEF DeleteVersion
<1> HIDE DEF next, hidden, marked
<1>5. versions'[u] = [versions[u] EXCEPT !.state = hidden, !.noncurrent = marked]
  BY <1>3, <1>4
<1>6. \A w \in Ids \ {u} : versions'[w] = IF c = u /\ w = next
                              THEN [versions[w] EXCEPT !.noncurrent = FALSE] ELSE versions[w]
  BY <1>4
<1>7. versions' \in [Ids -> Version]
  <2>1. ASSUME NEW w \in Ids PROVE versions'[w] \in Version
    <3> DEFINE r == versions[w]
    <3>1. r \in Version
      BY <1>1
    <3>2. CASE w = u
      <4>1. versions'[w] = [r EXCEPT !.state = hidden, !.noncurrent = marked]
        BY <3>2, <1>5
      <4> HIDE DEF r
      <4> QED BY <3>1, <4>1, <1>2 DEF Version
    <3>3. CASE w # u
      BY <3>1, <3>3, <1>6 DEF Version
    <3> QED BY <3>2, <3>3
  <2>2. versions' = [w \in Ids |-> versions'[w]]
    BY <1>4
  <2> QED BY <2>1, <2>2
<1>8. ASSUME NEW v \in Ids
      PROVE  /\ versions'[v].state = IF v = u THEN hidden ELSE versions[v].state
             /\ versions'[v].key = versions[v].key
             /\ versions'[v].generation = versions[v].generation
             /\ versions'[v].null = versions[v].null
             /\ versions'[v].marker = versions[v].marker
             /\ versions'[v].retention = versions[v].retention
             /\ versions'[v].hold = versions[v].hold
  <2>1. CASE v = u
    BY <2>1, <1>1, <1>5 DEF Version
  <2>2. CASE v # u
    <3>1. versions'[v] = versions[v] \/ versions'[v] = [versions[v] EXCEPT !.noncurrent = FALSE]
      BY <2>2, <1>6
    <3> QED BY <2>2, <3>1, <1>1 DEF Version
  <2> QED BY <2>1, <2>2
<1>9. \A v \in Ids \ {u} : versions'[v].noncurrent <=>
               versions[v].noncurrent /\ ~(c = u /\ v = next)
  BY <1>1, <1>6 DEF Version
<1> QED BY <1>2, <1>7, <1>8, <1>9 DEF next

(* The exact DELETE of any version, head or not.                           *)
LEMMA DeleteVersionKeeps ==
    ASSUME HistoryParts, NEW k \in Keys, NEW u \in Ids, NEW at \in Nat,
           NEW bypass \in BOOLEAN, DeleteVersion(k, u, at, bypass)
    PROVE  HistoryParts'
<1>1. u \in ActiveOf(k) /\ Active(u) /\ used >= PayloadSize(u) /\ u # None
  BY IdAssumption DEF DeleteVersion, ActiveOf
<1>2. /\ versions' \in [Ids -> Version]
      /\ versions'[u].state \in {"deleting", "superseded"}
      /\ \A v \in Ids \ {u} : versions'[v].state = versions[v].state
      /\ \A v \in Ids : /\ versions'[v].key = versions[v].key
                        /\ versions'[v].generation = versions[v].generation
                        /\ versions'[v].null = versions[v].null
      /\ \A v \in Ids \ {u} : versions'[v].noncurrent <=>
           versions[v].noncurrent
               /\ ~(objects[k].current = u /\ v = NewestOf(ActiveOf(k) \ {u}))
  BY DeleteVersionRows
<1>3. objects' = IF objects[k].current = u
                 THEN [objects EXCEPT ![k].current = NewestOf(ActiveOf(k) \ {u})] ELSE objects
  BY DEF DeleteVersion
<1>4. RowsInv' /\ objects' \in [Keys -> Object]
  <2>1. TypeOK /\ RowsInv
    BY DEF HistoryParts
  <2> QED BY <1>1, <1>2, <1>3, <2>1, RowsRetired
<1>5. gcTasks' = Schedule(u, "explicit_delete") /\ used' = used - PayloadSize(u)
      /\ UNCHANGED <<bucket, put, now>>
  BY DEF DeleteVersion
<1>6. GcTasksExact' /\ gcTasks' \subseteq [version : Puts, reason : GcReasons]
  <2>1. \A v \in Puts : versions'[v].state \in {"deleting", "superseded"} <=>
               v = u \/ versions[v].state \in {"deleting", "superseded"}
    BY <1>2 DEF Ids
  <2>2. TypeOK /\ GcTasksExact /\ "explicit_delete" \in GcReasons
    BY DEF HistoryParts, GcReasons
  <2>3. gcTasks' = IF u = None THEN gcTasks ELSE Schedule(u, "explicit_delete")
    BY <1>1, <1>5
  <2> QED BY <2>1, <2>2, <2>3, <1>1, TasksScheduled
<1>7. used' \in Nat
  BY <1>1, <1>5, SizesAreNat DEF HistoryParts, TypeOK
<1>8. TypeOK'
  BY <1>2, <1>4, <1>5, <1>6, <1>7 DEF HistoryParts, TypeOK
<1>9. PutsWellFormed' /\ UnversionedIsNull'
  <2>1. \A v \in Ids : versions[v].state = "absent" <=> versions'[v].state = "absent"
    BY <1>1, <1>2 DEF Active
  <2>2. \A p \in Puts : versions[p].state = "absent" => versions'[p].state = "absent"
    BY <2>1 DEF Ids
  <2>3. bucket.versioning = "unversioned" =>
               \A v \in Ids : versions'[v].state # "absent" => versions'[v].null
    BY <2>1, <1>2 DEF HistoryParts, UnversionedIsNull
  <2> QED BY <2>2, <2>3, <1>5, HandlersUndisturbed
<1> QED BY <1>4, <1>6, <1>8, <1>9 DEF HistoryParts

(* What a DELETE without versioning writes.                                *)
LEMMA DeleteUnversionedRows ==
    ASSUME HistoryParts, NEW k \in Keys, NEW at, NEW bypass, DeleteUnversioned(k, at, bypass)
    PROVE  /\ versions' \in [Ids -> Version]
           /\ \A v \in Ids :
                /\ versions'[v].state = IF v = ActiveNull(k) THEN "superseded" ELSE versions[v].state
                /\ versions'[v].key = versions[v].key
                /\ versions'[v].generation = versions[v].generation
                /\ versions'[v].null = versions[v].null
                /\ versions'[v].marker = versions[v].marker
                /\ versions'[v].retention = versions[v].retention
                /\ versions'[v].hold = versions[v].hold
                /\ versions'[v].noncurrent = (versions[v].noncurrent \/ v = objects[k].current)
<1> DEFINE c == objects[k].current
           old == ActiveNull(k)
<1>1. versions' = [v \in Ids |->
             [versions[v] EXCEPT !.noncurrent = @ \/ v = c,
                                 !.state = IF v = old THEN "superseded" ELSE @]]
  BY DEF DeleteUnversioned
<1> HIDE DEF old
<1>2. versions \in [Ids -> Version]
  BY DEF HistoryParts, TypeOK
<1>3. ASSUME NEW v \in Ids
      PROVE  /\ versions'[v] \in Version
             /\ versions'[v].state = IF v = old THEN "superseded" ELSE versions[v].state
             /\ versions'[v].key = versions[v].key
             /\ versions'[v].generation = versions[v].generation
             /\ versions'[v].null = versions[v].null
             /\ versions'[v].marker = versions[v].marker
             /\ versions'[v].retention = versions[v].retention
             /\ versions'[v].hold = versions[v].hold
             /\ versions'[v].noncurrent = (versions[v].noncurrent \/ v = c)
  <2> DEFINE r == versions[v]
             marked == r.noncurrent \/ v = c
             state == IF v = old THEN "superseded" ELSE r.state
  <2>1. r \in Version /\ marked \in BOOLEAN
    BY <1>2
  <2>2. state \in {"absent", "committed", "deleting", "superseded"}
    BY <2>1 DEF Version
  <2>3. versions'[v] = [r EXCEPT !.noncurrent = marked, !.state = state]
    BY <1>1
  <2> HIDE DEF r, marked, state
  <2>4. versions'[v] \in Version /\ versions'[v].state = state /\ versions'[v].key = r.key
        /\ versions'[v].generation = r.generation /\ versions'[v].null = r.null
        /\ versions'[v].retention = r.retention /\ versions'[v].noncurrent = marked
        /\ versions'[v].marker = r.marker /\ versions'[v].hold = r.hold
    BY <2>1, <2>2, <2>3 DEF Version
  <2> QED BY <2>4 DEF r, marked, state
<1>4. versions' \in [Ids -> Version]
  <2>1. versions' = [v \in Ids |-> versions'[v]]
    BY <1>1
  <2> QED BY <2>1, <1>3
<1> QED BY <1>3, <1>4 DEF old

(* A DELETE in a bucket that was never versioned: the null version is the  *)
(* whole history of its object, so the head becomes NULL.                  *)
LEMMA DeleteUnversionedKeeps ==
    ASSUME HistoryParts, NEW k \in Keys, NEW at \in Nat,
           NEW bypass \in BOOLEAN, DeleteUnversioned(k, at, bypass)
    PROVE  HistoryParts'
<1> DEFINE c == objects[k].current
           old == ActiveNull(k)
<1>1. /\ bucket.versioning = "unversioned" /\ old # None /\ used >= PayloadSize(old)
      /\ objects' = [objects EXCEPT ![k].current = None]
      /\ gcTasks' = Schedule(old, "explicit_delete")
      /\ used' = used - PayloadSize(old)
      /\ UNCHANGED <<bucket, put, now>>
  BY DEF DeleteUnversioned
<1>2. old \in Ids /\ old \in ActiveOf(k) /\ versions[old].null /\ Active(old)
  BY <1>1, ActiveNullFinds DEF ActiveOf
<1>3. /\ versions' \in [Ids -> Version]
      /\ \A v \in Ids :
           /\ versions'[v].state = IF v = old THEN "superseded" ELSE versions[v].state
           /\ versions'[v].key = versions[v].key
           /\ versions'[v].generation = versions[v].generation
           /\ versions'[v].null = versions[v].null
           /\ versions'[v].noncurrent = (versions[v].noncurrent \/ v = c)
  BY DeleteUnversionedRows
<1> HIDE DEF old
<1>4. ActiveOf(k) \ {old} = {}
  BY <1>1, <1>2 DEF HistoryParts, RowsInv, OneActiveNull, UnversionedIsNull, ActiveOf, Active
<1>5. NewestOf(ActiveOf(k) \ {old}) = None
  BY <1>4 DEF NewestOf
<1>6. c = old
  <2>1. c # None /\ c \in ActiveOf(k)
    BY <1>2 DEF HistoryParts, RowsInv, HeadIsMaximal
  <2> QED BY <2>1, <1>4
<1>7. /\ versions'[old].state \in {"deleting", "superseded"}
      /\ \A v \in Ids \ {old} : versions'[v].state = versions[v].state
      /\ \A v \in Ids : /\ versions'[v].key = versions[v].key
                        /\ versions'[v].generation = versions[v].generation
                        /\ versions'[v].null = versions[v].null
  BY <1>2, <1>3
<1>8. \A v \in Ids \ {old} : versions'[v].noncurrent <=>
           versions[v].noncurrent
               /\ ~(objects[k].current = old /\ v = NewestOf(ActiveOf(k) \ {old}))
  <2> SUFFICES ASSUME NEW v \in Ids \ {old}
               PROVE  versions'[v].noncurrent <=> versions[v].noncurrent
    BY <1>5, IdAssumption
  <2>1. versions'[v].noncurrent <=> versions[v].noncurrent \/ v = c
    BY <1>3
  <2> QED BY <2>1, <1>6, Zenon
<1>9. objects' = IF objects[k].current = old
                 THEN [objects EXCEPT ![k].current = NewestOf(ActiveOf(k) \ {old})]
                 ELSE objects
  BY <1>1, <1>5, <1>6
<1>10. RowsInv' /\ objects' \in [Keys -> Object]
  <2>1. TypeOK /\ RowsInv
    BY DEF HistoryParts
  <2> QED BY <2>1, <1>2, <1>3, <1>7, <1>8, <1>9, RowsRetired
<1>11. GcTasksExact' /\ gcTasks' \subseteq [version : Puts, reason : GcReasons]
  <2>1. \A v \in Puts : versions'[v].state \in {"deleting", "superseded"} <=>
               v = old \/ versions[v].state \in {"deleting", "superseded"}
    BY <1>7 DEF Ids
  <2>2. TypeOK /\ GcTasksExact /\ "explicit_delete" \in GcReasons
    BY DEF HistoryParts, GcReasons
  <2>3. gcTasks' = IF old = None THEN gcTasks ELSE Schedule(old, "explicit_delete")
    BY <1>1
  <2> QED BY <2>1, <2>2, <2>3, <1>2, TasksScheduled
<1>12. used' \in Nat
  <2>1. used \in Nat /\ PayloadSize(old) \in Nat
    BY <1>2, SizesAreNat DEF HistoryParts, TypeOK
  <2>2. used' = used - PayloadSize(old) /\ used >= PayloadSize(old)
    BY <1>1
  <2> QED BY <2>1, <2>2
<1>13. TypeOK'
  BY <1>1, <1>3, <1>10, <1>11, <1>12 DEF HistoryParts, TypeOK
<1>14. PutsWellFormed' /\ UnversionedIsNull'
  <2>1. \A v \in Ids : versions[v].state = "absent" <=> versions'[v].state = "absent"
    BY <1>2, <1>7 DEF Active
  <2>2. \A p \in Puts : versions[p].state = "absent" => versions'[p].state = "absent"
    BY <2>1 DEF Ids
  <2>3. bucket.versioning = "unversioned" =>
               \A v \in Ids : versions'[v].state # "absent" => versions'[v].null
    BY <2>1, <1>7 DEF HistoryParts, UnversionedIsNull
  <2> QED BY <2>2, <2>3, <1>1, HandlersUndisturbed
<1> QED BY <1>10, <1>11, <1>13, <1>14 DEF HistoryParts

(* An Object Lock update changes no column that the history depends on.    *)
LEMMA RelockKeeps ==
    ASSUME HistoryParts, NEW u \in Puts, Active(u),
           NEW row \in Version, versions' = [versions EXCEPT ![u] = row],
           row.state = versions[u].state, row.key = versions[u].key,
           row.generation = versions[u].generation, row.null = versions[u].null,
           row.noncurrent = versions[u].noncurrent,
           UNCHANGED <<bucket, objects, put, gcTasks, used, now>>
    PROVE  HistoryParts'
<1> USE DEF Ids
<1>1. /\ versions' \in [Ids -> Version] /\ versions'[u] = row
      /\ \A v \in Ids \ {u} : versions'[v] = versions[v]
  BY DEF HistoryParts, TypeOK
<1>2. RowsInv'
  <2>1. TypeOK /\ RowsInv /\ u \in Ids
    BY DEF HistoryParts
  <2> QED BY <1>1, <2>1, RowsRelocked
<1>3. \A v \in Ids : versions'[v].state = versions[v].state /\ versions'[v].null = versions[v].null
  BY <1>1
<1>4. TypeOK' /\ GcTasksExact'
  BY <1>1, <1>3 DEF HistoryParts, TypeOK, GcTasksExact
<1>5. PutsWellFormed' /\ UnversionedIsNull'
  <2>1. \A p \in Puts : versions[p].state = "absent" => versions'[p].state = "absent"
    BY <1>3
  <2>2. bucket.versioning = "unversioned" =>
               \A v \in Ids : versions'[v].state # "absent" => versions'[v].null
    BY <1>3 DEF HistoryParts, UnversionedIsNull
  <2> QED BY <2>1, <2>2, HandlersUndisturbed
<1> QED BY <1>2, <1>4, <1>5 DEF HistoryParts

(* The retention and the legal hold of a version may change at any time.   *)
LEMMA LockKeeps ==
    ASSUME HistoryParts, NEW u \in Puts, LockNext(u) PROVE HistoryParts'
<1>1. versions[u] \in Version /\ versions \in [Ids -> Version] /\ u \in Ids
  BY DEF HistoryParts, TypeOK, Ids
<1>2. ASSUME NEW retention \in Retentions, NEW at \in Stamps, NEW bypass \in BOOLEAN,
             PutRetention(u, retention, at, bypass)
      PROVE  HistoryParts'
  <2> DEFINE row == [versions[u] EXCEPT !.retention = retention]
  <2>1. retention \in RetentionRow
    BY RetentionAssumption DEF RetentionRow
  <2>2. /\ row \in Version /\ row.state = versions[u].state /\ row.key = versions[u].key
        /\ row.generation = versions[u].generation /\ row.null = versions[u].null
        /\ row.noncurrent = versions[u].noncurrent
    BY <1>1, <2>1 DEF Version
  <2>3. versions' = [versions EXCEPT ![u] = row] /\ Active(u)
        /\ UNCHANGED <<bucket, objects, put, gcTasks, used, now>>
    BY <1>2 DEF PutRetention
  <2> HIDE DEF row
  <2> QED BY <2>2, <2>3, RelockKeeps
<1>3. ASSUME NEW hold \in BOOLEAN, PutLegalHold(u, hold)
      PROVE  HistoryParts'
  <2> DEFINE row == [versions[u] EXCEPT !.hold = hold]
  <2>1. /\ row \in Version /\ row.state = versions[u].state /\ row.key = versions[u].key
        /\ row.generation = versions[u].generation /\ row.null = versions[u].null
        /\ row.noncurrent = versions[u].noncurrent
    BY <1>1 DEF Version
  <2>2. versions' = [versions EXCEPT ![u] = row] /\ Active(u)
        /\ UNCHANGED <<bucket, objects, put, gcTasks, used, now>>
    BY <1>3 DEF PutLegalHold
  <2> HIDE DEF row
  <2> QED BY <2>1, <2>2, RelockKeeps
<1> QED BY <1>2, <1>3 DEF LockNext

(* No step of the system breaks the invariant.                             *)
LEMMA NextKeeps ==
    ASSUME HistoryParts, [Next]_vars PROVE HistoryParts'
<1>1. CASE ConfigureNext
  BY <1>1, ConfigureKeeps
<1>2. ASSUME NEW p \in Puts, PutNext(p) PROVE HistoryParts'
  <2>1. CASE \E k \in Keys, retention \in Retentions \cup {NoRetention}, hold \in BOOLEAN :
               ReadBucket(p, k, retention, hold)
    BY <2>1, ReadBucketKeeps
  <2>2. CASE ReadObject(p)
    BY <2>2, ReadObjectKeeps
  <2>3. CASE ReadVersions(p)
    BY <2>3, ReadVersionsKeeps
  <2>4. CASE Commit(p)
    BY <2>4, CommitKeeps
  <2>5. CASE CommitFails(p)
    BY <2>5, CommitFailsKeeps
  <2> QED BY <1>2, <2>1, <2>2, <2>3, <2>4, <2>5 DEF PutNext
<1>3. ASSUME NEW k \in Keys, NEW at \in Stamps, DeleteNext(k, at) PROVE HistoryParts'
  <2>1. at \in Nat
    BY TimeAssumption DEF Stamps
  <2>2. CASE \E v \in Ids, bypass \in BOOLEAN : DeleteVersion(k, v, at, bypass)
    BY <2>1, <2>2, DeleteVersionKeeps
  <2>3. CASE \E m \in Markers : DeleteEnabled(k, m, at)
    BY <2>1, <2>3, DeleteEnabledKeeps
  <2>4. CASE \E m \in Markers, bypass \in BOOLEAN : DeleteSuspended(k, m, at, bypass)
    BY <2>1, <2>4, DeleteSuspendedKeeps
  <2>5. CASE \E bypass \in BOOLEAN : DeleteUnversioned(k, at, bypass)
    BY <2>1, <2>5, DeleteUnversionedKeeps
  <2> QED BY <1>3, <2>2, <2>3, <2>4, <2>5 DEF DeleteNext
<1>4. ASSUME NEW v \in Puts, LockNext(v) PROVE HistoryParts'
  BY <1>4, LockKeeps
<1>5. CASE Tick
  BY <1>5, TickKeeps
<1>6. CASE UNCHANGED vars
  <2>1. UNCHANGED <<bucket, objects, versions, put, gcTasks, used, now>>
    BY <1>6 DEF vars
  <2>2. RowsInv'
    BY <2>1, RowsUntouched DEF HistoryParts
  <2>3. TypeOK' /\ GcTasksExact' /\ PutsWellFormed' /\ UnversionedIsNull'
    BY <2>1 DEF HistoryParts, TypeOK, GcTasksExact, PutsWellFormed, UnversionedIsNull, InFlight
  <2> QED BY <2>2, <2>3 DEF HistoryParts
<1> QED BY <1>1, <1>2, <1>3, <1>4, <1>5, <1>6 DEF Next

-----------------------------------------------------------------------------
(* The results                                                             *)

(* The inductive invariant holds in every reachable state.                 *)
THEOREM HistoryInvariant == Spec => []HistoryInv
<1>1. Init => HistoryInv
  BY InitHistory
<1>2. HistoryInv /\ [Next]_vars => HistoryInv'
  <2> SUFFICES ASSUME HistoryInv, [Next]_vars PROVE HistoryInv'
    OBVIOUS
  <2>1. HistoryParts
    BY HistoryInvParts
  <2>2. HistoryParts'
    BY <2>1, NextKeeps
  <2> QED BY <2>2 DEF HistoryInv, HistoryParts, RowsInv
<1> QED BY <1>1, <1>2, PTL DEF Spec

(* TypeOK: every row, every handler and the counters keep their types;     *)
(* in particular used_bytes never becomes negative.                        *)
THEOREM TypeCorrect == Spec => []TypeOK
<1>1. HistoryInv => TypeOK
  BY DEF HistoryInv
<1> QED BY <1>1, HistoryInvariant, PTL

(* HeadIsNewest: the head pointer of every object is its newest active     *)
(* version whatever PUTs and DELETEs interleave.                           *)
THEOREM HeadCorrect == Spec => []HeadIsNewest
<1>1. HistoryInv => HeadIsNewest
  BY MaximalIsNewest DEF HistoryInv
<1> QED BY <1>1, HistoryInvariant, PTL

(* NoncurrentMarksHistory: became_noncurrent_at is set on exactly the      *)
(* active versions that are not the head.                                  *)
THEOREM NoncurrentCorrect == Spec => []NoncurrentMarksHistory
<1>1. HistoryInv => NoncurrentMarksHistory
  BY DEF HistoryInv
<1> QED BY <1>1, HistoryInvariant, PTL

(* OneActiveNull and GenerationsOrdered: the two unique constraints of     *)
(* object_versions never reject a write.                                   *)
THEOREM UniqueConstraintsHold == Spec => [](OneActiveNull /\ GenerationsOrdered)
<1>1. HistoryInv => OneActiveNull /\ GenerationsOrdered
  BY DEF HistoryInv
<1> QED BY <1>1, HistoryInvariant, PTL

(* GcTasksExact: a payload is scheduled for deletion exactly once, when    *)
(* its version leaves the history.                                         *)
THEOREM TasksCorrect == Spec => []GcTasksExact
<1>1. HistoryInv => GcTasksExact
  BY DEF HistoryInv
<1> QED BY <1>1, HistoryInvariant, PTL

-----------------------------------------------------------------------------
(* The quota.                                                              *)

Sizes == [v \in Ids |-> PayloadSize(v)]
ActiveIds == {v \in Ids : Active(v)}

(* A step that brings at most one version into the history and takes at    *)
(* most one out of it books the bytes of both.                             *)
LEMMA BytesMoved ==
    ASSUME UsedBytesExact, NEW new \in Ids \cup {None}, NEW old \in Ids \cup {None},
           new # None => ~Active(new) /\ Active(new)',
           old # None => Active(old) /\ ~Active(old)',
           \A v \in Ids \ {new, old} : Active(v)' <=> Active(v),
           used' = used + Released(new) - Released(old)
    PROVE  UsedBytesExact'
<1>1. /\ ActiveIds \in SUBSET Ids /\ ActiveIds' \in SUBSET Ids
      /\ \A v \in Ids : v \in ActiveIds <=> Active(v)
      /\ \A v \in Ids : v \in ActiveIds' <=> Active(v)'
  BY DEF ActiveIds
<1>2. \A v \in Ids : Sizes[v] = PayloadSize(v) /\ Sizes[v] \in Nat
  BY SizesAreNat DEF Sizes
<1>3. /\ \A T \in SUBSET Ids : SumOver(Sizes, T) \in Nat
      /\ \A T \in SUBSET Ids, x \in Ids : x \notin T =>
           SumOver(Sizes, T \cup {x}) = SumOver(Sizes, T) + Sizes[x]
      /\ \A T \in SUBSET Ids, x \in Ids : x \in T =>
           SumOver(Sizes, T) = SumOver(Sizes, T \ {x}) + Sizes[x]
  <2> HIDE DEF Sizes
  <2> QED BY <1>2, FiniteAssumption, SumChanges
<1>4. used = SumOver(Sizes, ActiveIds) /\ (UsedBytesExact' <=> used' = SumOver(Sizes, ActiveIds'))
  BY DEF UsedBytesExact, Sizes, ActiveIds
<1> DEFINE left == IF old = None THEN ActiveIds ELSE ActiveIds \ {old}
<1>5. left \in SUBSET Ids /\ SumOver(Sizes, left) = used - Released(old)
  <2>1. CASE old = None
    BY <1>1, <1>3, <1>4, <2>1 DEF Released
  <2>2. CASE old # None
    <3>1. old \in ActiveIds /\ old \in Ids
      BY <1>1, <2>2
    <3>2. SumOver(Sizes, ActiveIds) = SumOver(Sizes, ActiveIds \ {old}) + Sizes[old]
          /\ SumOver(Sizes, ActiveIds \ {old}) \in Nat
      BY <1>1, <1>3, <3>1
    <3> QED BY <1>1, <1>2, <1>4, <2>2, <3>1, <3>2 DEF Released
  <2> QED BY <2>1, <2>2
<1>6. CASE new = None
  <2>1. ActiveIds' = left
    BY <1>1, <1>6, IdAssumption
  <2>2. Released(new) = 0 /\ Released(old) \in Nat /\ used \in Nat
    BY <1>1, <1>3, <1>4, <1>6, SizesAreNat DEF Released
  <2> HIDE DEF left
  <2> QED BY <1>4, <1>5, <2>1, <2>2
<1>7. CASE new # None
  <2>1. new \in Ids /\ new \notin left /\ ActiveIds' = left \cup {new}
    BY <1>1, <1>7, IdAssumption
  <2> HIDE DEF left
  <2>2. SumOver(Sizes, left \cup {new}) = SumOver(Sizes, left) + Sizes[new]
        /\ SumOver(Sizes, left) \in Nat
    BY <1>3, <1>5, <2>1
  <2>3. used' = (used - Released(old)) + Sizes[new]
    <3>1. Released(new) = Sizes[new] /\ Released(new) \in Nat
      BY <1>2, <1>7, <2>1 DEF Released
    <3>2. Released(old) \in Nat
      BY SizesAreNat DEF Released
    <3>3. used \in Nat
      BY <1>1, <1>3, <1>4
    <3> QED BY <3>1, <3>2, <3>3
  <2> QED BY <1>4, <1>5, <2>1, <2>2, <2>3
<1> QED BY <1>6, <1>7

(* used_bytes is exact, and only DELETEs and the lifecycle worker insert    *)
(* delete markers.                                                         *)
LedgerInv ==
    /\ UsedBytesExact
    /\ \A p \in Puts : ~versions[p].marker

(* A published row enters the history, the row it replaces leaves it.      *)
LEMMA PublishingBooked ==
    ASSUME HistoryParts, LedgerInv, NEW k \in Keys, NEW new \in Ids, NEW row,
           NEW old \in Ids \cup {None},
           versions[new].state = "absent", row.state = "committed",
           new \in Puts => ~row.marker,
           old # None => old \in ActiveOf(k),
           versions' = Published(k, new, row, old),
           used' = used + PayloadSize(new) - Released(old)
    PROVE  LedgerInv'
<1>1. /\ versions'[new] = row
      /\ \A v \in Ids \ {new} :
           /\ versions'[v].state = IF v = old THEN "superseded" ELSE versions[v].state
           /\ versions'[v].marker = versions[v].marker
  BY PublishedRows
<1>2. new # None /\ new # old /\ (old # None => Active(old))
  BY IdAssumption DEF ActiveOf, Active
<1>3. Released(new) = PayloadSize(new)
  BY <1>2 DEF Released
<1>4. ~Active(new) /\ Active(new)' /\ (old # None => ~Active(old)')
      /\ \A v \in Ids \ {new, old} : Active(v)' <=> Active(v)
  BY <1>1, <1>2 DEF Active
<1>5. UsedBytesExact'
  BY <1>2, <1>3, <1>4, BytesMoved DEF LedgerInv
<1>6. \A p \in Puts : ~versions'[p].marker
  BY <1>1 DEF LedgerInv, Ids
<1> QED BY <1>5, <1>6 DEF LedgerInv

(* A row that leaves the history takes its bytes with it.                  *)
LEMMA RetiringBooked ==
    ASSUME LedgerInv, NEW old \in Ids \cup {None},
           old # None => Active(old) /\ ~Active(old)',
           \A v \in Ids \ {old} : Active(v)' <=> Active(v),
           \A p \in Puts : versions'[p].marker = versions[p].marker,
           used' = used - Released(old), used \in Nat
    PROVE  LedgerInv'
<1>1. Released(None) = 0 /\ Released(old) \in Nat
  BY SizesAreNat DEF Released
<1>2. UsedBytesExact'
  BY <1>1, BytesMoved, IdAssumption DEF LedgerInv
<1> QED BY <1>2 DEF LedgerInv

LEMMA LedgerKeeps ==
    ASSUME HistoryParts, LedgerInv, [Next]_vars
    PROVE  LedgerInv'
<1>1. versions \in [Ids -> Version] /\ used \in Nat
  BY DEF HistoryParts, TypeOK
<1>2. ASSUME UNCHANGED <<versions, used>> PROVE LedgerInv'
  BY <1>2 DEF LedgerInv, UsedBytesExact, Active
<1>3. CASE ConfigureNext \/ Tick \/ UNCHANGED vars
  BY <1>2, <1>3 DEF ConfigureNext, SetVersioning, ReplaceObjectLock, Tick, vars
<1>4. ASSUME NEW p \in Puts, PutNext(p) PROVE LedgerInv'
  <2>1. CASE ~Commit(p)
    BY <1>2, <1>4, <2>1 DEF PutNext, ReadBucket, ReadObject, ReadVersions, CommitFails
  <2>2. CASE Commit(p)
    <3> DEFINE old == put[p].replaced
               row == NewVersion(p)
    <3>1. /\ put[p] \in Put /\ put[p].key \in Keys /\ versions[p].state = "absent"
          /\ old # None => old \in ActiveOf(put[p].key)
      BY <2>2, CommitReplaces
    <3>2. p \in Ids /\ old \in Ids \cup {None} /\ PayloadSize(p) = Size[p]
      BY <3>1 DEF Put, Ids, PayloadSize
    <3>3. versions' = Published(put[p].key, p, row, old) /\ used' = used + Size[p] - Released(old)
      BY <2>2 DEF Commit
    <3>4. row.state = "committed" /\ ~row.marker
      BY DEF NewVersion
    <3> HIDE DEF old, row
    <3> QED BY <3>1, <3>2, <3>3, <3>4, PublishingBooked
  <2> QED BY <2>1, <2>2
<1>5. ASSUME NEW k \in Keys, NEW at, DeleteNext(k, at) PROVE LedgerInv'
  <2>1. ASSUME NEW u \in Ids, NEW bypass \in BOOLEAN, DeleteVersion(k, u, at, bypass)
        PROVE  LedgerInv'
    <3>1. u \in ActiveOf(k) /\ Active(u) /\ used' = used - PayloadSize(u) /\ u # None
      BY <2>1, IdAssumption DEF DeleteVersion, ActiveOf
    <3>2. /\ versions'[u].state \in {"deleting", "superseded"}
          /\ \A v \in Ids \ {u} : versions'[v].state = versions[v].state
          /\ \A v \in Ids : versions'[v].marker = versions[v].marker
      BY <2>1, DeleteVersionRows
    <3>3. used' = used - Released(u)
      BY <3>1 DEF Released
    <3>4. ~Active(u)' /\ (\A v \in Ids \ {u} : Active(v)' <=> Active(v))
          /\ \A p \in Puts : versions'[p].marker = versions[p].marker
      BY <3>2 DEF Active, Ids
    <3> QED BY <1>1, <3>1, <3>3, <3>4, RetiringBooked
  <2>2. ASSUME NEW m \in Markers, NEW null, NEW old \in Ids \cup {None},
               versions[m].state = "absent",
               old # None => old \in ActiveOf(k),
               versions' = Published(k, m, NewMarker(k, null, at), old),
               used' = used - Released(old)
        PROVE  LedgerInv'
    <3>1. m \in Ids /\ m \notin Puts /\ PayloadSize(m) = 0
      BY IdAssumption DEF Ids, PayloadSize
    <3>2. used' = used + PayloadSize(m) - Released(old)
      <4>1. Released(old) \in Nat
        BY SizesAreNat DEF Released
      <4> QED BY <1>1, <2>2, <3>1, <4>1
    <3> DEFINE row == NewMarker(k, null, at)
    <3>3. row.state = "committed"
      BY DEF NewMarker
    <3> HIDE DEF row
    <3> QED BY <2>2, <3>1, <3>2, <3>3, PublishingBooked DEF row
  <2>3. ASSUME NEW m \in Markers, DeleteEnabled(k, m, at) PROVE LedgerInv'
    <3>1. used' = used - Released(None)
      BY <1>1, <2>3 DEF DeleteEnabled, Released
    <3> QED BY <2>2, <2>3, <3>1 DEF DeleteEnabled
  <2>4. ASSUME NEW m \in Markers, NEW bypass \in BOOLEAN, DeleteSuspended(k, m, at, bypass)
        PROVE  LedgerInv'
    <3>1. /\ ActiveNull(k) \in Ids \cup {None}
          /\ ActiveNull(k) # None => ActiveNull(k) \in ActiveOf(k)
      BY ActiveNullFinds
    <3> QED BY <2>2, <2>4, <3>1 DEF DeleteSuspended
  <2>5. ASSUME NEW bypass \in BOOLEAN, DeleteUnversioned(k, at, bypass) PROVE LedgerInv'
    <3>1. ActiveNull(k) # None /\ used' = used - PayloadSize(ActiveNull(k))
      BY <2>5 DEF DeleteUnversioned
    <3>2. ActiveNull(k) \in Ids /\ Active(ActiveNull(k))
      BY <3>1, ActiveNullFinds DEF ActiveOf
    <3>3. PICK old \in Ids : old = ActiveNull(k)
      BY <3>2
    <3>4. \A v \in Ids : /\ versions'[v].state = IF v = old THEN "superseded" ELSE versions[v].state
                        /\ versions'[v].marker = versions[v].marker
      BY <2>5, <3>3, DeleteUnversionedRows
    <3>5. used' = used - Released(old)
      BY <3>1, <3>3 DEF Released
    <3>6. Active(old) /\ ~Active(old)' /\ (\A v \in Ids \ {old} : Active(v)' <=> Active(v))
          /\ \A p \in Puts : versions'[p].marker = versions[p].marker
      BY <3>2, <3>3, <3>4 DEF Active, Ids
    <3> QED BY <1>1, <3>5, <3>6, RetiringBooked
  <2> QED BY <1>5, <2>1, <2>3, <2>4, <2>5 DEF DeleteNext
<1>6. ASSUME NEW u \in Puts, LockNext(u) PROVE LedgerInv'
  <2>1. used' = used /\ \A v \in Ids : /\ versions'[v].state = versions[v].state
                                     /\ versions'[v].marker = versions[v].marker
    BY <1>1, <1>6 DEF LockNext, PutRetention, PutLegalHold, Version
  <2>2. used' = used - Released(None)
    BY <1>1, <2>1 DEF Released
  <2>3. (\A v \in Ids : Active(v)' <=> Active(v))
        /\ \A p \in Puts : versions'[p].marker = versions[p].marker
    BY <2>1 DEF Active, Ids
  <2> QED BY <1>1, <2>2, <2>3, RetiringBooked
<1> QED BY <1>3, <1>4, <1>5, <1>6 DEF Next

(* An empty history uses no bytes.                                         *)
LEMMA InitLedger == Init => LedgerInv
<1> SUFFICES ASSUME Init PROVE LedgerInv
  OBVIOUS
<1>1. {v \in Ids : Active(v)} = {} /\ \A p \in Puts : ~versions[p].marker
  BY DEF Init, Active, AbsentVersion, Ids
<1>2. SumOver(Sizes, {}) = 0
  <2>1. \A v \in Ids : Sizes[v] \in Nat
    BY SizesAreNat DEF Sizes
  <2> HIDE DEF Sizes
  <2> QED BY <2>1, FiniteAssumption, SumChanges
<1> QED BY <1>1, <1>2 DEF LedgerInv, UsedBytesExact, Sizes, Init

(* UsedBytesExact: used_bytes is the number of bytes of the active data    *)
(* versions, whatever order PUTs and DELETEs take.                         *)
THEOREM BytesCorrect == Spec => []UsedBytesExact
<1>1. Init => LedgerInv
  BY InitLedger
<1>2. HistoryInv /\ LedgerInv /\ [Next]_vars => LedgerInv'
  BY HistoryInvParts, LedgerKeeps
<1>3. LedgerInv => UsedBytesExact
  BY DEF LedgerInv
<1> QED BY <1>1, <1>2, <1>3, HistoryInvariant, PTL DEF Spec

-----------------------------------------------------------------------------
(* How an active version can change.                                       *)

(* A transaction of p supersedes v.                                        *)
ReplacedBy(v, p) == Commit(p) /\ put[p].replaced = v

(* A DELETE that Object Lock allows removes v; unless v is a null version  *)
(* it is an exact DELETE, which advances no generation.                    *)
DeletedAt(v, at, bypass) ==
    /\ ~DeleteLocked(v, at, bypass)
    /\ \/ versions[v].null
       \/ \A k \in Keys : objects'[k].generation = objects[k].generation

(* An active version stays with the retention it has, gets a new retention *)
(* that with_retention_update accepts, is replaced by the PUT that had     *)
(* prepared to replace it, or is deleted by a request Object Lock allows.  *)
LEMMA ActiveRows ==
    ASSUME HistoryParts, Next, NEW v \in Ids, Active(v)
    PROVE  \/ Active(v)' /\ versions'[v].retention = versions[v].retention
           \/ \E retention \in Retentions, at \in Stamps, bypass \in BOOLEAN :
                Active(v)' /\ PutRetention(v, retention, at, bypass)
           \/ \E p \in Puts : ReplacedBy(v, p)
           \/ \E at \in Stamps, bypass \in BOOLEAN : DeletedAt(v, at, bypass)
<1> DEFINE Kept == Active(v)' /\ versions'[v].retention = versions[v].retention
<1>1. versions \in [Ids -> Version] /\ v # None
  BY IdAssumption DEF HistoryParts, TypeOK
<1>2. ASSUME UNCHANGED versions PROVE Kept
  BY <1>2 DEF Active
<1>3. CASE ConfigureNext \/ Tick
  BY <1>2, <1>3 DEF ConfigureNext, SetVersioning, ReplaceObjectLock, Tick
<1>4. ASSUME NEW p \in Puts, PutNext(p)
      PROVE  Kept \/ ReplacedBy(v, p)
  <2>1. CASE ~Commit(p)
    BY <1>2, <1>4, <2>1 DEF PutNext, ReadBucket, ReadObject, ReadVersions, CommitFails
  <2>2. CASE Commit(p)
    <3>1. versions[p].state = "absent" /\ p \in Ids \ {v}
      BY <2>2, CommitReplaces DEF Active, Ids
    <3>2. versions' = Published(put[p].key, p, NewVersion(p), put[p].replaced)
      BY <2>2 DEF Commit
    <3>3. /\ versions'[v].state = IF v = put[p].replaced THEN "superseded" ELSE versions[v].state
          /\ versions'[v].retention = versions[v].retention
      BY <3>1, <3>2, PublishedRows
    <3> QED BY <2>2, <3>3 DEF Active, ReplacedBy
  <2> QED BY <2>1, <2>2
<1>5. ASSUME NEW k \in Keys, NEW at \in Stamps, DeleteNext(k, at)
      PROVE  Kept \/ \E bypass \in BOOLEAN : DeletedAt(v, at, bypass)
  <2>1. ASSUME NEW u \in Ids, NEW bypass \in BOOLEAN, DeleteVersion(k, u, at, bypass)
        PROVE  Kept \/ DeletedAt(v, at, bypass)
    <3>1. CASE v = u
      <4>1. \A j \in Keys : objects'[j].generation = objects[j].generation
        BY <2>1 DEF DeleteVersion, HistoryParts, TypeOK, Object
      <4> QED BY <2>1, <3>1, <4>1 DEF DeleteVersion, DeletedAt
    <3>2. CASE v # u
      <4>1. /\ \A w \in Ids \ {u} : versions'[w].state = versions[w].state
            /\ \A w \in Ids : versions'[w].retention = versions[w].retention
        BY <2>1, DeleteVersionRows
      <4> QED BY <3>2, <4>1 DEF Active
    <3> QED BY <3>1, <3>2
  <2>2. ASSUME NEW m \in Markers, DeleteEnabled(k, m, at) PROVE Kept
    <3> DEFINE row == NewMarker(k, FALSE, at)
    <3>1. m \in Ids \ {v} /\ versions' = Published(k, m, row, None)
      BY <2>2 DEF DeleteEnabled, Active, Ids
    <3> HIDE DEF row
    <3>2. /\ versions'[v].state = IF v = None THEN "superseded" ELSE versions[v].state
          /\ versions'[v].retention = versions[v].retention
      BY <3>1, PublishedRows
    <3> QED BY <3>2, <1>1 DEF Active
  <2>3. ASSUME NEW m \in Markers, NEW bypass \in BOOLEAN, DeleteSuspended(k, m, at, bypass)
        PROVE  Kept \/ DeletedAt(v, at, bypass)
    <3> DEFINE row == NewMarker(k, TRUE, at)
    <3>1. m \in Ids \ {v} /\ versions' = Published(k, m, row, ActiveNull(k))
      BY <2>3 DEF DeleteSuspended, Active, Ids
    <3> HIDE DEF row
    <3>2. /\ versions'[v].state = IF v = ActiveNull(k) THEN "superseded" ELSE versions[v].state
          /\ versions'[v].retention = versions[v].retention
      BY <3>1, PublishedRows
    <3>3. CASE v = ActiveNull(k)
      <4>1. versions[v].null
        BY <3>3, <1>1, ActiveNullFinds
      <4> QED BY <2>3, <3>3, <4>1, <1>1 DEF DeleteSuspended, DeletedAt
    <3>4. CASE v # ActiveNull(k)
      BY <3>2, <3>4 DEF Active
    <3> QED BY <3>3, <3>4
  <2>4. ASSUME NEW bypass \in BOOLEAN, DeleteUnversioned(k, at, bypass)
        PROVE  Kept \/ DeletedAt(v, at, bypass)
    <3>1. CASE v = ActiveNull(k)
      <4>1. versions[v].null
        BY <3>1, <1>1, ActiveNullFinds
      <4> QED BY <2>4, <3>1, <4>1 DEF DeleteUnversioned, DeletedAt
    <3>2. CASE v # ActiveNull(k)
      BY <2>4, <3>2, DeleteUnversionedRows DEF Active
    <3> QED BY <3>1, <3>2
  <2> QED BY <1>5, <2>1, <2>2, <2>3, <2>4 DEF DeleteNext
<1>6. ASSUME NEW u \in Puts, LockNext(u)
      PROVE  \/ Kept
             \/ \E retention \in Retentions, at \in Stamps, bypass \in BOOLEAN :
                  Active(v)' /\ PutRetention(v, retention, at, bypass)
  <2>1. ASSUME NEW retention \in Retentions, NEW at \in Stamps, NEW bypass \in BOOLEAN,
               PutRetention(u, retention, at, bypass)
        PROVE  Kept \/ (Active(v)' /\ PutRetention(v, retention, at, bypass))
    <3>1. versions' = [versions EXCEPT ![u].retention = retention]
      BY <2>1 DEF PutRetention
    <3>2. Active(v)'
      BY <3>1, <1>1 DEF Active, Version
    <3>3. CASE v = u
      BY <2>1, <3>2, <3>3
    <3>4. CASE v # u
      BY <3>1, <3>2, <3>4, <1>1
    <3> QED BY <3>3, <3>4
  <2>2. ASSUME NEW hold \in BOOLEAN, PutLegalHold(u, hold) PROVE Kept
    BY <2>2, <1>1 DEF PutLegalHold, Active, Version
  <2> QED BY <1>6, <2>1, <2>2 DEF LockNext
<1> QED BY <1>3, <1>4, <1>5, <1>6 DEF Next

(* A version that Object Lock protects now leaves in the transaction of a  *)
(* PUT that had prepared to replace it: a DELETE decides at a time that is *)
(* not later than now.                                                     *)
LEMMA ProtectedLeaves ==
    ASSUME HistoryParts, Next, NEW v \in Ids, Protected(v), ~Active(v)'
    PROVE  \E p \in Puts : /\ put[p].step = "prepared" /\ put[p].replaced = v
                           /\ put'[p].step = "committed"
<1>1. Active(v)
  BY DEF Protected
<1>2. versions[v].retention.until \in Nat /\ now \in Nat
  BY TimeAssumption DEF HistoryParts, TypeOK, Version, RetentionRow
<1>3. ASSUME NEW at \in Stamps, NEW bypass \in BOOLEAN PROVE ~DeletedAt(v, at, bypass)
  <2>1. at \in Nat /\ at <= now
    BY TimeAssumption DEF Stamps
  <2>2. DeleteLocked(v, at, bypass)
    BY <1>2, <2>1 DEF Protected, DeleteLocked
  <2> QED BY <2>2 DEF DeletedAt
<1>4. PICK p \in Puts : ReplacedBy(v, p)
  BY <1>1, <1>3, ActiveRows
<1>5. put' = [put EXCEPT ![p] = [IdlePut EXCEPT !.step = "committed", !.key = put[p].key]]
      /\ put[p].step = "prepared" /\ put[p].replaced = v
  BY <1>4 DEF ReplacedBy, Commit
<1>6. put'[p].step = "committed"
  BY <1>5 DEF HistoryParts, TypeOK, IdlePut
<1> QED BY <1>5, <1>6

(* LockedVersionsLeaveOnlyByStalePut: no DELETE removes a version that     *)
(* Object Lock protects now; only a PUT prepared before the lock can.      *)
THEOREM LockedVersionsProtected == Spec => LockedVersionsLeaveOnlyByStalePut
<1>1. HistoryInv /\ [Next]_vars =>
        [\A v \in Ids : Protected(v) /\ ~Active(v)' =>
           \E p \in Puts : /\ put[p].step = "prepared" /\ put[p].replaced = v
                           /\ put'[p].step = "committed"]_vars
  BY HistoryInvParts, ProtectedLeaves
<1> QED BY <1>1, HistoryInvariant, PTL DEF Spec, LockedVersionsLeaveOnlyByStalePut

(* The only step that changes the retention of an active version is        *)
(* PutRetention, and with_retention_update refuses to weaken a compliance  *)
(* retention that is in force.                                             *)
LEMMA ComplianceStep ==
    ASSUME HistoryParts, Next, NEW v \in Ids, Active(v), Active(v)',
           versions[v].retention.mode = "compliance",
           versions[v].retention.until > now
    PROVE  /\ versions'[v].retention.mode = "compliance"
           /\ versions'[v].retention.until >= versions[v].retention.until
<1>1. /\ versions \in [Ids -> Version] /\ now \in Nat
      /\ versions[v].retention.until \in Nat
  BY TimeAssumption DEF HistoryParts, TypeOK, Version, RetentionRow
<1>2. CASE versions'[v].retention = versions[v].retention
  BY <1>1, <1>2
<1>3. ASSUME NEW retention \in Retentions, NEW at \in Stamps, NEW bypass \in BOOLEAN,
             PutRetention(v, retention, at, bypass)
      PROVE  /\ versions'[v].retention.mode = "compliance"
             /\ versions'[v].retention.until >= versions[v].retention.until
  <2>1. at \in Nat /\ at <= now
    BY TimeAssumption DEF Stamps
  <2>2. RetentionAccepted(versions[v].retention, retention, at, bypass)
        /\ versions' = [versions EXCEPT ![v].retention = retention]
    BY <1>3 DEF PutRetention
  <2>3. versions'[v].retention = retention
    BY <1>1, <2>2 DEF Version
  <2>4. retention.mode = "compliance" /\ retention.until >= versions[v].retention.until
    BY <1>1, <2>1, <2>2 DEF RetentionAccepted
  <2> QED BY <2>3, <2>4
<1>4. ASSUME NEW p \in Puts, ReplacedBy(v, p) PROVE FALSE
  <2>1. versions' = Published(put[p].key, p, NewVersion(p), v) /\ Commit(p)
    BY <1>4 DEF ReplacedBy, Commit
  <2>2. versions[p].state = "absent" /\ p \in Ids
    BY <2>1, CommitReplaces DEF Ids
  <2>3. versions'[v].state = "superseded"
    BY <2>1, <2>2, PublishedRows DEF Active
  <2> QED BY <2>3 DEF Active
<1>5. ASSUME NEW at \in Stamps, NEW bypass \in BOOLEAN PROVE ~DeletedAt(v, at, bypass)
  <2>1. at \in Nat /\ at <= now
    BY TimeAssumption DEF Stamps
  <2>2. DeleteLocked(v, at, bypass)
    BY <1>1, <2>1 DEF DeleteLocked
  <2> QED BY <2>2 DEF DeletedAt
<1> QED BY <1>2, <1>3, <1>4, <1>5, ActiveRows

(* ComplianceNeverWeakens: a compliance retention in force only ever gets  *)
(* longer while its version is in the history.                             *)
THEOREM ComplianceKept == Spec => ComplianceNeverWeakens
<1>1. HistoryInv /\ [Next]_vars =>
        [\A v \in Ids :
          LET r == versions[v].retention
          IN  Active(v) /\ Active(v)' /\ r.mode = "compliance" /\ r.until > now =>
                 /\ versions'[v].retention.mode = "compliance"
                 /\ versions'[v].retention.until >= r.until]_vars
  BY HistoryInvParts, ComplianceStep
<1> QED BY <1>1, HistoryInvariant, PTL DEF Spec, ComplianceNeverWeakens

(* OpaqueVersionsSurvivePuts: a PUT replaces and a plain DELETE hides null *)
(* versions only, so that an opaque version leaves by an exact DELETE.     *)
THEOREM OpaqueVersionsKept == Spec => OpaqueVersionsSurvivePuts
<1>1. HistoryInv /\ [Next]_vars =>
        [\A v \in Ids : Active(v) /\ ~versions[v].null /\ ~Active(v)' =>
           \A k \in Keys : objects'[k].generation = objects[k].generation]_vars
  <2> SUFFICES ASSUME HistoryInv, Next, NEW v \in Ids, Active(v), ~versions[v].null, ~Active(v)'
               PROVE  \A k \in Keys : objects'[k].generation = objects[k].generation
    OBVIOUS
  <2>1. HistoryParts
    BY HistoryInvParts
  <2>2. ASSUME NEW p \in Puts PROVE ~ReplacedBy(v, p)
    BY <2>1, CommitReplaces, IdAssumption DEF ReplacedBy
  <2>3. PICK at \in Stamps, bypass \in BOOLEAN : DeletedAt(v, at, bypass)
    BY <2>1, <2>2, ActiveRows
  <2> QED BY <2>3 DEF DeletedAt
<1> QED BY <1>1, HistoryInvariant, PTL DEF Spec, OpaqueVersionsSurvivePuts

-----------------------------------------------------------------------------
(* The history implements the abstract life of a payload.                  *)

(* The payloads that have a task after one more was inserted.              *)
LEMMA OneMoreTask ==
    ASSUME NEW T, NEW u, NEW reason
    PROVE  {t.version : t \in T \cup {[version |-> u, reason |-> reason]}}
             = {t.version : t \in T} \cup {u}
<1> DEFINE x == [version |-> u, reason |-> reason]
<1>1. x.version = u
  OBVIOUS
<1> HIDE DEF x
<1>2. {t.version : t \in T \cup {x}} = {t.version : t \in T} \cup {x.version}
  BY Zenon
<1> QED BY <1>1, <1>2 DEF x

(* A step that retires at most u, and schedules its payload, is a Retire   *)
(* step when u is a data version and a stutter otherwise.                  *)
LEMMA RetiringImplements ==
    ASSUME HistoryParts, NEW u \in Ids \cup {None}, NEW reason,
           u # None => Active(u),
           u # None => versions'[u].state \in {"deleting", "superseded"},
           \A q \in Puts \ {u} : versions'[q].state = versions[q].state,
           gcTasks' = IF u = None THEN gcTasks ELSE Schedule(u, reason)
    PROVE  [Lifecycle!Next]_(Lifecycle!lifecycleVars)
<1> DEFINE status == [p \in Puts |->
               IF versions[p].state = "absent" THEN "absent"
               ELSE IF Active(p) THEN "active" ELSE "retired"]
           scheduled == {t.version : t \in gcTasks}
<1>1. CASE u \in Puts
  <2>1. u # None /\ gcTasks' = gcTasks \cup {[version |-> u, reason |-> reason]}
    BY <1>1, IdAssumption DEF Ids, Schedule
  <2>2. scheduled' = scheduled \cup {u}
    <3>1. gcTasks' = gcTasks \cup {[version |-> u, reason |-> reason]}
      BY <2>1
    <3>2. scheduled' = {t.version : t \in gcTasks \cup {[version |-> u, reason |-> reason]}}
      BY <3>1, Zenon
    <3> QED BY <3>2, OneMoreTask, Zenon
  <2>3. status[u] = "active"
    BY <1>1, <2>1 DEF Active
  <2>4. status' = [status EXCEPT ![u] = "retired"]
    BY <1>1, <2>1 DEF Active
  <2>5. Lifecycle!Retire(u)
    BY <2>2, <2>3, <2>4 DEF Lifecycle!Retire
  <2> QED BY <1>1, <2>5 DEF Lifecycle!Next
<1>2. CASE u \notin Puts
  <2>1. gcTasks' = gcTasks
    BY <1>2 DEF Schedule
  <2>2. status' = status
    BY <1>2 DEF Active
  <2> QED BY <2>1, <2>2 DEF Lifecycle!lifecycleVars
<1> QED BY <1>1, <1>2

(* A commit publishes its version and retires the one it replaces.         *)
LEMMA CommitImplements ==
    ASSUME HistoryParts, NEW p \in Puts, Commit(p)
    PROVE  [Lifecycle!Next]_(Lifecycle!lifecycleVars)
<1> DEFINE status == [q \in Puts |->
               IF versions[q].state = "absent" THEN "absent"
               ELSE IF Active(q) THEN "active" ELSE "retired"]
           scheduled == {t.version : t \in gcTasks}
           k == put[p].key
           old == put[p].replaced
           gone == IF old \in Puts THEN old ELSE None
<1>1. /\ versions[p].state = "absent" /\ k \in Keys
      /\ old # None => old \in ActiveOf(k)
  BY CommitReplaces
<1>2. /\ p \in Ids /\ None \notin Puts /\ gone \in Puts \cup {None} /\ p # old
      /\ old # None => old \in Ids /\ Active(old)
  BY <1>1, IdAssumption DEF Ids, ActiveOf, Active
<1>3. versions' = Published(k, p, NewVersion(p), old) /\ NewVersion(p).state = "committed"
  BY DEF Commit, NewVersion
<1>4. versions'[p].state = "committed"
      /\ \A q \in Puts \ {p} :
           versions'[q].state = IF q = old THEN "superseded" ELSE versions[q].state
  <2>1. versions'[p] = NewVersion(p)
        /\ \A q \in Ids \ {p} :
             versions'[q].state = IF q = old THEN "superseded" ELSE versions[q].state
    BY <1>2, <1>3, PublishedRows
  <2> QED BY <2>1, <1>3 DEF Ids
<1>5. status[p] = "absent" /\ (gone # None => status[gone] = "active")
  BY <1>1, <1>2 DEF Active
<1>6. status' = [q \in Puts |->
         IF q = p THEN "active" ELSE IF q = gone THEN "retired" ELSE status[q]]
  BY <1>2, <1>4 DEF Active
<1>7. scheduled' = scheduled \cup ({gone} \ {None})
  <2>1. gcTasks' = IF old = None THEN gcTasks ELSE Schedule(old, "replaced_null_version")
    BY DEF Commit
  <2>2. CASE old \in Puts
    <3>1. gcTasks' = gcTasks \cup {[version |-> old, reason |-> "replaced_null_version"]}
      BY <2>1, <2>2, <1>2 DEF Schedule
    <3>2. scheduled' = scheduled \cup {old}
      BY <3>1, OneMoreTask
    <3> QED BY <2>2, <3>2, <1>2
  <2>3. CASE old \notin Puts
    <3>1. gcTasks' = gcTasks
      BY <2>1, <2>3 DEF Schedule
    <3> QED BY <2>3, <3>1
  <2> QED BY <2>2, <2>3
<1>8. PICK g \in Puts \cup {None} : g = gone
  BY <1>2
<1>9. Lifecycle!Publish(p, g)
  BY <1>5, <1>6, <1>7, <1>8 DEF Lifecycle!Publish
<1> QED BY <1>8, <1>9 DEF Lifecycle!Next

(* LifecycleSpec: every behaviour of the history, with any number of PUTs  *)
(* and DELETEs in flight, publishes a payload once and schedules its       *)
(* deletion in the step that retires it.                                   *)
THEOREM LifecycleRefinement == Spec => LifecycleSpec
<1>1. Init => Lifecycle!Init
  BY DEF Init, Lifecycle!Init, AbsentVersion, Ids
<1>2. HistoryInv /\ [Next]_vars => [Lifecycle!Next]_(Lifecycle!lifecycleVars)
  <2> SUFFICES ASSUME HistoryInv, [Next]_vars
               PROVE  [Lifecycle!Next]_(Lifecycle!lifecycleVars)
    OBVIOUS
  <2>1. HistoryParts /\ versions \in [Ids -> Version]
    BY HistoryInvParts DEF HistoryParts, TypeOK
  <2>2. ASSUME \A q \in Puts : versions'[q].state = versions[q].state, UNCHANGED gcTasks
        PROVE  [Lifecycle!Next]_(Lifecycle!lifecycleVars)
    BY <2>2 DEF Lifecycle!lifecycleVars, Active
  <2>3. CASE UNCHANGED <<versions, gcTasks>>
    BY <2>2, <2>3
  <2>4. CASE ConfigureNext \/ Tick \/ UNCHANGED vars
    BY <2>3, <2>4 DEF ConfigureNext, SetVersioning, ReplaceObjectLock, Tick, vars
  <2>5. ASSUME NEW p \in Puts, PutNext(p)
        PROVE  [Lifecycle!Next]_(Lifecycle!lifecycleVars)
    <3>1. CASE ~Commit(p)
      BY <2>3, <2>5, <3>1 DEF PutNext, ReadBucket, ReadObject, ReadVersions, CommitFails
    <3>2. CASE Commit(p)
      BY <2>1, <3>2, CommitImplements
    <3> QED BY <3>1, <3>2
  <2>6. ASSUME NEW k \in Keys, NEW at \in Stamps, DeleteNext(k, at)
        PROVE  [Lifecycle!Next]_(Lifecycle!lifecycleVars)
    <3>1. ASSUME NEW u \in Ids, NEW bypass \in BOOLEAN, DeleteVersion(k, u, at, bypass)
          PROVE  [Lifecycle!Next]_(Lifecycle!lifecycleVars)
      <4>1. /\ versions'[u].state \in {"deleting", "superseded"}
            /\ \A v \in Ids \ {u} : versions'[v].state = versions[v].state
        BY <2>1, <3>1, DeleteVersionRows
      <4>2. Active(u) /\ gcTasks' = IF u = None THEN gcTasks ELSE Schedule(u, "explicit_delete")
        BY <3>1, IdAssumption DEF DeleteVersion, ActiveOf
      <4>3. \A q \in Puts \ {u} : versions'[q].state = versions[q].state
        BY <4>1 DEF Ids
      <4> QED BY <2>1, <4>1, <4>2, <4>3, RetiringImplements
    <3>2. ASSUME NEW m \in Markers, DeleteEnabled(k, m, at)
          PROVE  [Lifecycle!Next]_(Lifecycle!lifecycleVars)
      <4> DEFINE row == NewMarker(k, FALSE, at)
      <4>1. m \in Ids /\ m \notin Puts /\ versions' = Published(k, m, row, None)
            /\ UNCHANGED gcTasks
        BY <3>2, IdAssumption DEF DeleteEnabled, Ids
      <4> HIDE DEF row
      <4>2. \A v \in Ids \ {m} :
              versions'[v].state = IF v = None THEN "superseded" ELSE versions[v].state
        BY <2>1, <4>1, PublishedRows
      <4>3. \A q \in Puts : versions'[q].state = versions[q].state
        BY <4>1, <4>2, IdAssumption DEF Ids
      <4> QED BY <2>2, <4>1, <4>3
    <3>3. ASSUME NEW m \in Markers, NEW bypass \in BOOLEAN, DeleteSuspended(k, m, at, bypass)
          PROVE  [Lifecycle!Next]_(Lifecycle!lifecycleVars)
      <4> DEFINE row == NewMarker(k, TRUE, at)
                 old == ActiveNull(k)
      <4>1. /\ m \in Ids /\ m \notin Puts /\ versions' = Published(k, m, row, old)
            /\ gcTasks' = IF old = None THEN gcTasks ELSE Schedule(old, "explicit_delete")
            /\ versions[m].state = "absent"
        BY <3>3, IdAssumption DEF DeleteSuspended, Ids
      <4>2. old \in Ids \cup {None} /\ (old # None => old \in ActiveOf(k))
        BY ActiveNullFinds
      <4>3. old # None => old \in Ids /\ Active(old) /\ old # m
        BY <4>1, <4>2 DEF ActiveOf, Active
      <4> HIDE DEF row, old
      <4>4. \A v \in Ids \ {m} :
              versions'[v].state = IF v = old THEN "superseded" ELSE versions[v].state
        BY <2>1, <4>1, PublishedRows
      <4>5. /\ old # None => versions'[old].state \in {"deleting", "superseded"}
            /\ \A q \in Puts \ {old} : versions'[q].state = versions[q].state
        BY <4>1, <4>3, <4>4 DEF Ids
      <4> QED BY <2>1, <4>1, <4>2, <4>3, <4>5, RetiringImplements
    <3>4. ASSUME NEW bypass \in BOOLEAN, DeleteUnversioned(k, at, bypass)
          PROVE  [Lifecycle!Next]_(Lifecycle!lifecycleVars)
      <4> DEFINE old == ActiveNull(k)
      <4>1. old # None /\ gcTasks' = Schedule(old, "explicit_delete")
        BY <3>4 DEF DeleteUnversioned
      <4>2. old \in Ids /\ Active(old)
        BY <4>1, ActiveNullFinds DEF ActiveOf
      <4>3. \A v \in Ids :
              versions'[v].state = IF v = old THEN "superseded" ELSE versions[v].state
        BY <2>1, <3>4, DeleteUnversionedRows
      <4> HIDE DEF old
      <4>4. /\ versions'[old].state \in {"deleting", "superseded"}
            /\ \A q \in Puts \ {old} : versions'[q].state = versions[q].state
        BY <4>2, <4>3 DEF Ids
      <4> QED BY <2>1, <4>1, <4>2, <4>4, RetiringImplements
    <3> QED BY <2>6, <3>1, <3>2, <3>3, <3>4 DEF DeleteNext
  <2>7. ASSUME NEW u \in Puts, LockNext(u)
        PROVE  [Lifecycle!Next]_(Lifecycle!lifecycleVars)
    <3>1. UNCHANGED gcTasks /\ \A q \in Puts : versions'[q].state = versions[q].state
      BY <2>1, <2>7 DEF LockNext, PutRetention, PutLegalHold, Version, Ids
    <3> QED BY <2>2, <3>1
  <2> QED BY <2>4, <2>5, <2>6, <2>7 DEF Next
<1> QED BY <1>1, <1>2, HistoryInvariant, PTL DEF Spec, LifecycleSpec, Lifecycle!Spec

-----------------------------------------------------------------------------
(***************************************************************************)
(* The lifecycle worker of BucketLifecycle                                 *)
(***************************************************************************)

(* What the worker holds between its reads and its transaction.            *)
WorkerReads ==
    /\ worker \in Worker /\ worker.at <= now
    /\ worker.action # "none" => worker.target \in Ids
    /\ rules \in RuleSets \cup {{}} /\ revision \in Nat
    /\ since \in [Ids -> Nat]

(* The inductive invariant: that of the history, its ledger, the worker.   *)
LifecycleInv == HistoryParts /\ LedgerInv /\ WorkerReads

-----------------------------------------------------------------------------
(* Days                                                                    *)

(* The start of a day lies in the past, and does not go back.              *)
LEMMA Midnights ==
    ASSUME NEW a \in Nat
    PROVE  /\ Midnight(a) \in Nat
           /\ \A b \in Nat : a <= b => Midnight(a) <= Midnight(b)
<1>1. Day \in Nat /\ Day > 0
  BY DayAssumption
<1> HIDE DEF Midnight
<1>2. ASSUME NEW b \in Nat
      PROVE  \E q \in Nat, r \in Nat : b = q * Day + r /\ r < Day /\ Midnight(b) = q * Day
  <2>1. b % Day \in Nat /\ b % Day < Day /\ b \div Day \in Nat
        /\ b = (b \div Day) * Day + (b % Day)
    BY <1>1
  <2>2. Midnight(b) = (b \div Day) * Day
    BY <2>1, <1>1 DEF Midnight
  <2> QED BY <2>1, <2>2
<1>3. PICK q \in Nat, r \in Nat : a = q * Day + r /\ r < Day /\ Midnight(a) = q * Day
  BY <1>2
<1>4. ASSUME NEW b \in Nat, a <= b PROVE Midnight(a) <= Midnight(b)
  <2>1. PICK p \in Nat, s \in Nat : b = p * Day + s /\ s < Day /\ Midnight(b) = p * Day
    BY <1>2
  <2>2. q <= p
    <3> SUFFICES ASSUME q >= p + 1 PROVE FALSE
      OBVIOUS
    <3>1. q * Day >= (p + 1) * Day
      BY <1>1
    <3>2. (p + 1) * Day = p * Day + Day
      BY <1>1
    <3>3. q * Day \in Nat /\ p * Day \in Nat
      BY <1>1
    <3> QED BY <1>1, <1>3, <1>4, <2>1, <3>1, <3>2, <3>3
  <2>3. q * Day <= p * Day
    BY <1>1, <2>2
  <2> QED BY <1>3, <2>1, <2>3
<1>5. Midnight(a) \in Nat
  BY <1>1, <1>3
<1> QED BY <1>4, <1>5

(* What is old enough stays old enough.                                    *)
LEMMA DueStaysDue ==
    ASSUME NEW r \in Rule, NEW k, NEW time \in Nat, NEW at \in Nat, NEW later \in Nat, at <= later
    PROVE  /\ CurrentDue(r, k, time, at) => CurrentDue(r, k, time, later)
           /\ NoncurrentDue(r, k, time, at) => NoncurrentDue(r, k, time, later)
           /\ MarkerDue(r, k, time, at) => MarkerDue(r, k, time, later)
<1>1. ASSUME NEW days \in Nat, OlderThan(time, days, at) PROVE OlderThan(time, days, later)
  <2>1. Midnight(at) \in Nat /\ Midnight(later) \in Nat /\ Midnight(at) <= Midnight(later)
    BY Midnights
  <2>2. days * Day \in Nat
    BY DayAssumption
  <2> QED BY <1>1, <2>1, <2>2 DEF OlderThan
<1>2. r.n \in Nat /\ r.noncurrent \in Nat
  BY DEF Rule
<1> QED BY <1>1, <1>2 DEF CurrentDue, NoncurrentDue, MarkerDue

(* A lock that no longer holds does not hold later.                        *)
LEMMA UnlockedStaysUnlocked ==
    ASSUME TypeOK, NEW v \in Ids, NEW at \in Nat, at <= now, ~DeleteLocked(v, at, FALSE)
    PROVE  ~DeleteLocked(v, now, FALSE)
<1>1. versions[v].retention.until \in Nat /\ now \in Nat
  BY TimeAssumption DEF TypeOK, Version, RetentionRow
<1> QED BY <1>1 DEF DeleteLocked

-----------------------------------------------------------------------------
(* What the executor's transaction does to the history                     *)

(* The object of an active version exists.                                 *)
LEMMA ActiveHasObject ==
    ASSUME HistoryParts, NEW v \in Ids, Active(v)
    PROVE  /\ versions[v].key \in Keys /\ objects[versions[v].key].exists
           /\ v \in ActiveOf(versions[v].key)
<1>1. versions[v].key \in Keys
  BY DEF HistoryParts, RowsInv, RowsWellFormed, Active
<1>2. /\ objects[versions[v].key] \in Object
      /\ versions[v].generation \in 1 .. objects[versions[v].key].generation
  BY <1>1 DEF HistoryParts, TypeOK, RowsInv, GenerationsOrdered, Active
<1>3. objects[versions[v].key].exists
  BY <1>1, <1>2 DEF HistoryParts, RowsInv, NoObjectNoHistory, Object
<1> QED BY <1>1, <1>3 DEF ActiveOf

(* A delete marker that the executor inserts in place of the null version  *)
(* or of none.                                                             *)
LEMMA ExpiredByMarker ==
    ASSUME HistoryParts, LedgerInv, NEW k \in Keys, NEW m \in Markers, NEW at \in Nat,
           NEW null \in BOOLEAN, NEW old \in Ids \cup {None},
           objects[k].exists, versions[m].state = "absent",
           bucket.versioning # "unversioned",
           old # None => old \in ActiveOf(k) /\ used >= PayloadSize(old),
           null => \A v \in ActiveOf(k) : versions[v].null => v = old,
           versions' = Published(k, m, NewMarker(k, null, at), old),
           AdvanceTo(k, m),
           gcTasks' = IF old = None THEN gcTasks ELSE Schedule(old, "lifecycle_expiration"),
           used' = used - Released(old),
           UNCHANGED <<bucket, put, now>>
    PROVE  HistoryParts' /\ LedgerInv'
<1>1. HistoryParts'
  <2>1. "lifecycle_expiration" \in GcReasons
    BY DEF GcReasons
  <2> QED BY <2>1, MarkerKeeps
<1>2. LedgerInv'
  <2> DEFINE row == NewMarker(k, null, at)
  <2>1. m \in Ids /\ m \notin Puts /\ PayloadSize(m) = 0 /\ row.state = "committed"
    BY IdAssumption DEF Ids, PayloadSize, NewMarker
  <2>2. used' = used + PayloadSize(m) - Released(old)
    <3>1. Released(old) \in Nat /\ used \in Nat
      BY SizesAreNat DEF Released, HistoryParts, TypeOK
    <3> QED BY <2>1, <3>1
  <2> HIDE DEF row
  <2> QED BY <2>1, <2>2, PublishingBooked DEF row
<1> QED BY <1>1, <1>2

(* A version that the executor takes out of the history, with the head     *)
(* moved to what is left if it was the head.                               *)
LEMMA ExpiredByRemoval ==
    ASSUME HistoryParts, LedgerInv, NEW u \in Ids, NEW k \in Keys, u \in ActiveOf(k),
           used >= PayloadSize(u),
           versions' \in [Ids -> Version],
           versions'[u].state \in {"deleting", "superseded"},
           \A v \in Ids \ {u} : versions'[v] = versions[v],
           \A v \in Ids : /\ versions'[v].key = versions[v].key
                          /\ versions'[v].generation = versions[v].generation
                          /\ versions'[v].null = versions[v].null
                          /\ versions'[v].marker = versions[v].marker,
           objects[k].current = u => ActiveOf(k) = {u},
           objects' = IF objects[k].current = u
                      THEN [objects EXCEPT ![k].current = None] ELSE objects,
           gcTasks' = Schedule(u, "lifecycle_expiration"),
           used' = used - PayloadSize(u),
           UNCHANGED <<bucket, put, now>>
    PROVE  HistoryParts' /\ LedgerInv'
<1>1. Active(u) /\ u # None /\ \A v \in Ids \ {u} : versions'[v].state = versions[v].state
  BY IdAssumption DEF ActiveOf
<1>2. objects[k].current = u => NewestOf(ActiveOf(k) \ {u}) = None
  BY DEF NewestOf
<1>3. \A v \in Ids \ {u} : versions'[v].noncurrent <=>
           versions[v].noncurrent
               /\ ~(objects[k].current = u /\ v = NewestOf(ActiveOf(k) \ {u}))
  BY <1>2, IdAssumption, Zenon
<1>4. objects' = IF objects[k].current = u
                 THEN [objects EXCEPT ![k].current = NewestOf(ActiveOf(k) \ {u})] ELSE objects
  BY <1>2
<1>5. RowsInv' /\ objects' \in [Keys -> Object]
  <2>1. TypeOK /\ RowsInv
    BY DEF HistoryParts
  <2> QED BY <1>1, <1>3, <1>4, <2>1, RowsRetired
<1>6. GcTasksExact' /\ gcTasks' \subseteq [version : Puts, reason : GcReasons]
  <2>1. \A v \in Puts : versions'[v].state \in {"deleting", "superseded"} <=>
               v = u \/ versions[v].state \in {"deleting", "superseded"}
    BY <1>1 DEF Ids
  <2>2. TypeOK /\ GcTasksExact /\ "lifecycle_expiration" \in GcReasons
    BY DEF HistoryParts, GcReasons
  <2>3. gcTasks' = IF u = None THEN gcTasks ELSE Schedule(u, "lifecycle_expiration")
    BY <1>1
  <2> QED BY <1>1, <2>1, <2>2, <2>3, TasksScheduled
<1>7. used' \in Nat /\ used \in Nat
  BY SizesAreNat DEF HistoryParts, TypeOK
<1>8. TypeOK'
  BY <1>5, <1>6, <1>7 DEF HistoryParts, TypeOK
<1>9. PutsWellFormed' /\ UnversionedIsNull'
  <2>1. \A v \in Ids : versions[v].state = "absent" <=> versions'[v].state = "absent"
    BY <1>1 DEF Active
  <2>2. \A p \in Puts : versions[p].state = "absent" => versions'[p].state = "absent"
    BY <2>1 DEF Ids
  <2>3. bucket.versioning = "unversioned" =>
               \A v \in Ids : versions'[v].state # "absent" => versions'[v].null
    BY <2>1 DEF HistoryParts, UnversionedIsNull
  <2> QED BY <2>2, <2>3, HandlersUndisturbed
<1>10. LedgerInv'
  <2>1. used' = used - Released(u)
    BY <1>1 DEF Released
  <2>2. ~Active(u)' /\ (\A v \in Ids \ {u} : Active(v)' <=> Active(v))
        /\ \A p \in Puts : versions'[p].marker = versions[p].marker
    BY <1>1 DEF Active, Ids
  <2> QED BY <1>1, <1>7, <2>1, <2>2, RetiringBooked
<1> QED BY <1>5, <1>6, <1>8, <1>9, <1>10 DEF HistoryParts

(* The rows when one version is hidden                                     *)
LEMMA HiddenRows ==
    ASSUME HistoryParts, NEW u \in Ids, NEW hidden \in {"deleting", "superseded"},
           \/ versions' = [versions EXCEPT ![u].state = hidden]
           \/ versions' = [versions EXCEPT ![u].state = hidden, ![u].noncurrent = TRUE]
    PROVE  /\ versions' \in [Ids -> Version]
           /\ versions'[u].state = hidden
           /\ \A v \in Ids \ {u} : versions'[v] = versions[v]
           /\ \A v \in Ids : /\ versions'[v].key = versions[v].key
                             /\ versions'[v].generation = versions[v].generation
                             /\ versions'[v].null = versions[v].null
                             /\ versions'[v].marker = versions[v].marker
                             /\ versions'[v].retention = versions[v].retention
                             /\ versions'[v].hold = versions[v].hold
<1>1. versions \in [Ids -> Version]
  BY DEF HistoryParts, TypeOK
<1>2. PICK r \in Version : r = versions[u]
  BY <1>1
<1>3. PICK n \in BOOLEAN : versions' = [versions EXCEPT ![u] = [r EXCEPT !.state = hidden, !.noncurrent = n]]
  <2>1. r.noncurrent \in BOOLEAN
    BY DEF Version
  <2>2. CASE versions' = [versions EXCEPT ![u].state = hidden]
    <3>1. [r EXCEPT !.state = hidden] = [r EXCEPT !.state = hidden, !.noncurrent = r.noncurrent]
      BY DEF Version
    <3> QED BY <1>2, <2>1, <2>2, <3>1
  <2>3. CASE versions' = [versions EXCEPT ![u].state = hidden, ![u].noncurrent = TRUE]
    BY <1>1, <1>2, <2>3
  <2> QED BY <2>2, <2>3
<1>4. PICK s \in Version : /\ versions' = [versions EXCEPT ![u] = s]
                           /\ s.state = hidden /\ s.key = r.key /\ s.generation = r.generation
                           /\ s.null = r.null /\ s.marker = r.marker
                           /\ s.retention = r.retention /\ s.hold = r.hold
  <2>1. [r EXCEPT !.state = hidden, !.noncurrent = n] \in Version
    BY DEF Version
  <2> QED BY <1>3, <2>1 DEF Version
<1> QED BY <1>1, <1>2, <1>4

(* What the executor knows of its target before it writes                  *)
LEMMA TargetFacts ==
    ASSUME LifecycleInv
    PROVE  /\ HistoryParts /\ LedgerInv
           /\ worker.at \in Nat /\ now \in Nat /\ worker.at <= now
           /\ Midnight(worker.at) \in Nat
           /\ worker.action # "none" => Target \in Ids
           /\ worker.action # "none" /\ Active(Target) =>
                /\ TargetKey \in Keys /\ objects[TargetKey].exists
                /\ Target \in ActiveOf(TargetKey)
<1>1. worker.at \in Nat /\ now \in Nat /\ worker.at <= now
  BY TimeAssumption DEF LifecycleInv, HistoryParts, TypeOK, WorkerReads, Worker
<1>2. Midnight(worker.at) \in Nat
  BY <1>1, Midnights
<1> QED BY <1>1, <1>2, ActiveHasObject DEF LifecycleInv, WorkerReads, Target, TargetKey

(* Enabled: a marker goes on top                                           *)
LEMMA ExpireEnabledKeeps ==
    ASSUME LifecycleInv, NEW m \in Markers, ExpireCurrentEnabled(m)
    PROVE  HistoryParts' /\ LedgerInv'
<1>1. worker.action = "current" /\ Active(Target) /\ bucket.versioning = "enabled"
  BY DEF ExpireCurrentEnabled, ExpiresEnabled, CurrentEligible, Target
<1>2. PICK k \in Keys, at \in Nat :
        /\ k = TargetKey /\ at = Midnight(worker.at) /\ objects[k].exists
  BY <1>1, TargetFacts
<1>3. /\ versions[m].state = "absent"
      /\ versions' = Published(k, m, NewMarker(k, FALSE, at), None)
      /\ AdvanceTo(k, m)
      /\ UNCHANGED <<gcTasks, used, bucket, put, now>>
  BY <1>2 DEF ExpireCurrentEnabled, Finished
<1>4. used' = used - Released(None)
  BY <1>3 DEF Released, LifecycleInv, HistoryParts, TypeOK
<1>5. gcTasks' = IF None = None THEN gcTasks ELSE Schedule(None, "lifecycle_expiration")
  BY <1>3
<1> QED BY <1>1, <1>2, <1>3, <1>4, <1>5, ExpiredByMarker DEF LifecycleInv

(* Suspended: a null marker replaces the null version                      *)
LEMMA ExpireSuspendedKeeps ==
    ASSUME LifecycleInv, NEW m \in Markers, ExpireCurrentSuspended(m)
    PROVE  HistoryParts' /\ LedgerInv'
<1>1. worker.action = "current" /\ Active(Target) /\ bucket.versioning = "suspended"
  BY DEF ExpireCurrentSuspended, ExpiresSuspended, CurrentEligible, Target
<1>2. PICK k \in Keys, at \in Nat :
        /\ k = TargetKey /\ at = Midnight(worker.at) /\ objects[k].exists
  BY <1>1, TargetFacts
<1>3. PICK old \in Ids \cup {None} :
        /\ old = ActiveNull(k)
        /\ old # None => old \in ActiveOf(k) /\ versions[old].null
        /\ old = None => \A v \in ActiveOf(k) : ~versions[v].null
  BY ActiveNullFinds
<1>4. /\ versions[m].state = "absent"
      /\ versions' = Published(k, m, NewMarker(k, TRUE, at), old)
      /\ AdvanceTo(k, m)
      /\ gcTasks' = IF old = None THEN gcTasks ELSE Schedule(old, "lifecycle_expiration")
      /\ used' = used - Released(old)
      /\ old # None => used >= PayloadSize(old)
      /\ UNCHANGED <<bucket, put, now>>
  BY <1>2, <1>3 DEF ExpireCurrentSuspended, ExpiresSuspended, CanRetire, ScheduleExpired, Finished
<1>5. \A v \in ActiveOf(k) : versions[v].null => v = old
  BY <1>3 DEF LifecycleInv, HistoryParts, RowsInv, OneActiveNull, ActiveOf
<1> QED BY <1>1, <1>2, <1>3, <1>4, <1>5, ExpiredByMarker DEF LifecycleInv

(* Unversioned: the null version is all there is                           *)
LEMMA ExpireUnversionedKeeps ==
    ASSUME LifecycleInv, ExpireCurrentUnversioned
    PROVE  HistoryParts' /\ LedgerInv'
<1>1. /\ worker.action = "current" /\ Active(Target) /\ bucket.versioning = "unversioned"
      /\ objects[TargetKey].current = Target /\ versions[Target].null
      /\ used >= PayloadSize(Target)
  BY DEF ExpireCurrentUnversioned, ExpiresUnversioned, CurrentEligible, CanRetire, Target, TargetKey
<1>2. PICK u \in Ids, k \in Keys : u = Target /\ k = TargetKey /\ u \in ActiveOf(k)
  BY <1>1, TargetFacts
<1>3. /\ versions' = [versions EXCEPT ![u].state = "superseded", ![u].noncurrent = TRUE]
      /\ objects' = [objects EXCEPT ![k].current = None]
      /\ gcTasks' = Schedule(u, "lifecycle_expiration")
      /\ used' = used - PayloadSize(u)
      /\ UNCHANGED <<bucket, put, now>>
  BY <1>2 DEF ExpireCurrentUnversioned, ScheduleExpired, Finished
<1>4. ActiveOf(k) = {u}
  BY <1>1, <1>2 DEF LifecycleInv, HistoryParts, RowsInv, OneActiveNull, UnversionedIsNull,
                    ActiveOf, Active
<1>5. objects[k].current = u /\ used >= PayloadSize(u)
  BY <1>1, <1>2
<1>6. /\ versions' \in [Ids -> Version]
      /\ versions'[u].state = "superseded"
      /\ \A v \in Ids \ {u} : versions'[v] = versions[v]
      /\ \A v \in Ids : /\ versions'[v].key = versions[v].key
                        /\ versions'[v].generation = versions[v].generation
                        /\ versions'[v].null = versions[v].null
                        /\ versions'[v].marker = versions[v].marker
  BY <1>3, HiddenRows DEF LifecycleInv
<1> QED BY <1>2, <1>3, <1>4, <1>5, <1>6, ExpiredByRemoval DEF LifecycleInv

(* A noncurrent version goes, the head stays                               *)
LEMMA ExpireNoncurrentKeeps ==
    ASSUME LifecycleInv, ExpireNoncurrent
    PROVE  HistoryParts' /\ LedgerInv'
<1>1. /\ worker.action = "noncurrent" /\ Active(Target)
      /\ objects[TargetKey].current # Target /\ used >= PayloadSize(Target)
  BY DEF ExpireNoncurrent, ExpiresNoncurrent, NoncurrentEligible, CanRetire, Target, TargetKey
<1>2. PICK u \in Ids, k \in Keys : u = Target /\ k = TargetKey /\ u \in ActiveOf(k)
  BY <1>1, TargetFacts
<1>3. PICK hidden \in {"deleting", "superseded"} : hidden = HiddenState(u)
  BY DEF HiddenState
<1>4. /\ versions' = [versions EXCEPT ![u].state = hidden]
      /\ objects' = objects
      /\ gcTasks' = Schedule(u, "lifecycle_expiration")
      /\ used' = used - PayloadSize(u)
      /\ UNCHANGED <<bucket, put, now>>
  BY <1>2, <1>3 DEF ExpireNoncurrent, ScheduleExpired, Finished
<1>5. objects[k].current # u /\ used >= PayloadSize(u)
  BY <1>1, <1>2
<1>6. /\ versions' \in [Ids -> Version]
      /\ versions'[u].state = hidden
      /\ \A v \in Ids \ {u} : versions'[v] = versions[v]
      /\ \A v \in Ids : /\ versions'[v].key = versions[v].key
                        /\ versions'[v].generation = versions[v].generation
                        /\ versions'[v].null = versions[v].null
                        /\ versions'[v].marker = versions[v].marker
  BY <1>4, HiddenRows DEF LifecycleInv
<1> QED BY <1>2, <1>4, <1>5, <1>6, ExpiredByRemoval DEF LifecycleInv

(* A marker that hides nothing goes, and leaves no head; it has no payload *)
LEMMA RemoveMarkerKeeps ==
    ASSUME LifecycleInv, RemoveExpiredMarker
    PROVE  HistoryParts' /\ LedgerInv'
<1>1. /\ worker.action = "marker" /\ Active(Target) /\ versions[Target].marker
      /\ objects[TargetKey].current = Target /\ ActiveOf(TargetKey) = {Target}
  BY DEF RemoveExpiredMarker, RemovesMarker, MarkerEligible, IsOnlyVersion, Target, TargetKey
<1>2. PICK u \in Ids, k \in Keys : u = Target /\ k = TargetKey /\ u \in ActiveOf(k)
  BY <1>1, TargetFacts
<1>3. PICK hidden \in {"deleting", "superseded"} : hidden = HiddenState(u)
  BY DEF HiddenState
<1>4. /\ versions' = [versions EXCEPT ![u].state = hidden]
      /\ objects' = [objects EXCEPT ![k].current = None]
      /\ UNCHANGED <<gcTasks, used, bucket, put, now>>
  BY <1>2, <1>3 DEF RemoveExpiredMarker, Finished
<1>5. u \notin Puts
  BY <1>1, <1>2 DEF LifecycleInv, LedgerInv
<1>6. PayloadSize(u) = 0 /\ used \in Nat /\ gcTasks' = Schedule(u, "lifecycle_expiration")
  BY <1>4, <1>5 DEF PayloadSize, Schedule, LifecycleInv, HistoryParts, TypeOK
<1>7. used' = used - PayloadSize(u) /\ used >= PayloadSize(u)
  BY <1>4, <1>6
<1>8. /\ versions' \in [Ids -> Version]
      /\ versions'[u].state = hidden
      /\ \A v \in Ids \ {u} : versions'[v] = versions[v]
      /\ \A v \in Ids : /\ versions'[v].key = versions[v].key
                        /\ versions'[v].generation = versions[v].generation
                        /\ versions'[v].null = versions[v].null
                        /\ versions'[v].marker = versions[v].marker
  BY <1>4, HiddenRows DEF LifecycleInv
<1>9. objects[k].current = u /\ ActiveOf(k) = {u}
  BY <1>1, <1>2
<1> QED BY <1>2, <1>4, <1>6, <1>7, <1>8, <1>9, ExpiredByRemoval DEF LifecycleInv

-----------------------------------------------------------------------------
(* The inductive invariant                                                 *)

(* A step of a client or of the configuration is one of ObjectVersions,    *)
(* and a step of the worker that is not a transaction leaves it alone.     *)
LEMMA LifecycleKeepsHistory ==
    ASSUME LifecycleInv, LifecycleNext PROVE HistoryParts' /\ LedgerInv'
<1>1. HistoryParts /\ LedgerInv
  BY DEF LifecycleInv
<1>2. ASSUME [Next]_vars PROVE HistoryParts' /\ LedgerInv'
  BY <1>1, <1>2, NextKeeps, LedgerKeeps
<1>3. CASE ClientNext \/ Configure
  <2>1. Next
    BY <1>3 DEF ClientNext, Configure, Next
  <2> QED BY <1>2, <2>1
<1>4. CASE \E set \in RuleSets \cup {{}} : ReplaceLifecycle(set)
  BY <1>2, <1>4 DEF ReplaceLifecycle
<1>5. CASE WorkerNext
  <2>1. CASE ~ExecuteNext
    <3>1. UNCHANGED vars
      BY <1>5, <2>1 DEF WorkerNext, ListBucket, ScanAction, ScanNothing
    <3> QED BY <1>2, <3>1
  <2>2. CASE ExecuteNext
    <3>1. ASSUME ExecuteNothing PROVE [Next]_vars
      BY <3>1 DEF ExecuteNothing
    <3> QED BY <1>2, <2>2, <3>1, ExpireEnabledKeeps, ExpireSuspendedKeeps,
               ExpireUnversionedKeeps, ExpireNoncurrentKeeps, RemoveMarkerKeeps DEF ExecuteNext
  <2> QED BY <2>1, <2>2
<1> QED BY <1>3, <1>4, <1>5 DEF LifecycleNext

(* What a transaction of the executor leaves of the worker and the time.   *)
LEMMA ExecuteFinishes ==
    ASSUME LifecycleInv, ExecuteNext
    PROVE  /\ worker' = IdleWorker /\ UNCHANGED <<bucket, put, now, rules, revision>>
           /\ since' \in [Ids -> Nat]
<1>1. /\ worker.at \in Nat /\ Midnight(worker.at) \in Nat /\ since \in [Ids -> Nat]
  BY TargetFacts DEF LifecycleInv, WorkerReads
<1>2. ASSUME NEW at \in Nat, Stamped(at) PROVE since' \in [Ids -> Nat]
  BY <1>1, <1>2 DEF Stamped
<1>3. CASE ExecuteNothing
  BY <1>1, <1>3 DEF ExecuteNothing, vars
<1>4. CASE ~ExecuteNothing
  BY <1>1, <1>2, <1>4 DEF ExecuteNext, ExpireCurrentEnabled, ExpireCurrentSuspended,
     ExpireCurrentUnversioned, ExpireNoncurrent, RemoveExpiredMarker, Finished
<1> QED BY <1>3, <1>4

(* Between batches, and after the worker has read the bucket.              *)
LEMMA WorkerListed ==
    ASSUME NEW at \in Nat, NEW rev \in Nat, NEW set \in RuleSets \cup {{}}
    PROVE  /\ IdleWorker \in Worker
           /\ [IdleWorker EXCEPT !.step = "listed", !.at = at,
                                !.revision = rev, !.rules = set] \in Worker
<1> DEFINE AllRules == (UNION RuleSets) \cup {None}
           AllSets == RuleSets \cup {{}}
<1>1. None \in AllRules
  OBVIOUS
<1>2. {} \in AllSets /\ set \in AllSets
  OBVIOUS
<1>3. Worker = [step : {"idle", "listed", "scanned"}, at : Nat, revision : Nat,
                rules : AllSets, rule : AllRules,
                action : {"none", "current", "marker", "noncurrent"},
                target : Ids \cup {None}, stamp : Nat]
  BY DEF Worker
<1> HIDE DEF AllRules, AllSets
<1> QED BY <1>1, <1>2, <1>3 DEF IdleWorker

LEMMA WorkerKeeps ==
    ASSUME LifecycleInv, LifecycleNext PROVE WorkerReads'
<1>1. /\ worker \in Worker /\ worker.at \in Nat /\ worker.at <= now /\ now \in Nat
      /\ worker.action # "none" => worker.target \in Ids
      /\ rules \in RuleSets \cup {{}} /\ revision \in Nat /\ since \in [Ids -> Nat]
  BY TargetFacts DEF LifecycleInv, WorkerReads
<1>2. versions \in [Ids -> Version] /\ put \in [Puts -> Put]
  BY DEF LifecycleInv, HistoryParts, TypeOK
<1>3. IdleWorker \in Worker /\ IdleWorker.at = 0 /\ IdleWorker.action = "none"
  BY WorkerListed DEF IdleWorker
<1>4. \A at \in Stamps : at \in Nat /\ at <= now
  BY TimeAssumption DEF Stamps
<1>5. ASSUME NEW at \in Nat, Stamped(at) PROVE since' \in [Ids -> Nat]
  BY <1>1, <1>5 DEF Stamped
<1>6. CASE ClientNext
  <2>1. UNCHANGED <<rules, revision, worker>>
    BY <1>6 DEF ClientNext
  <2>2. since' \in [Ids -> Nat]
    <3>1. \A p \in Puts : put[p].at \in Nat
      BY <1>2 DEF Put
    <3> QED BY <1>1, <1>4, <1>5, <1>6, <3>1 DEF ClientNext
  <2>3. now' \in Nat /\ now <= now'
    <3>1. CASE Tick
      BY <1>1, <3>1, TimeAssumption DEF Tick
    <3>2. ASSUME NEW p \in Puts, PutNext(p) PROVE now' = now
      BY <3>2 DEF PutNext, ReadBucket, ReadObject, ReadVersions, Commit, CommitFails
    <3>3. ASSUME NEW k \in Keys, NEW at \in Stamps, DeleteNext(k, at) PROVE now' = now
      BY <3>3 DEF DeleteNext, DeleteVersion, DeleteEnabled, DeleteSuspended, DeleteUnversioned
    <3>4. ASSUME NEW v \in Puts, LockNext(v) PROVE now' = now
      BY <3>4 DEF LockNext, PutRetention, PutLegalHold
    <3> QED BY <1>1, <1>6, <3>1, <3>2, <3>3, <3>4 DEF ClientNext
  <2> QED BY <1>1, <2>1, <2>2, <2>3 DEF WorkerReads
<1>7. CASE Configure
  BY <1>1, <1>7 DEF Configure, NextRevision, ConfigureNext, SetVersioning, ReplaceObjectLock, WorkerReads
<1>8. ASSUME NEW set \in RuleSets \cup {{}}, ReplaceLifecycle(set) PROVE WorkerReads'
  BY <1>1, <1>8 DEF ReplaceLifecycle, NextRevision, WorkerReads, vars
<1>9. ASSUME NEW at \in Stamps, ListBucket(at) PROVE WorkerReads'
  <2> DEFINE w == [IdleWorker EXCEPT !.step = "listed", !.at = at,
                                     !.revision = revision, !.rules = rules]
  <2>1. worker' = w /\ w \in Worker /\ w.at = at /\ w.action = "none"
    BY <1>1, <1>4, <1>9, WorkerListed DEF ListBucket, IdleWorker
  <2> HIDE DEF w
  <2> QED BY <1>1, <1>4, <1>9, <2>1 DEF ListBucket, WorkerReads, vars
<1>10. ASSUME NEW r \in UNION RuleSets, NEW action \in {"current", "marker", "noncurrent"},
              ScanAction(r, action)
       PROVE  WorkerReads'
  <2>1. PICK v \in Ids, stamp \in Nat :
          worker' = [worker EXCEPT !.step = "scanned", !.rule = r, !.action = action,
                                   !.target = v, !.stamp = stamp]
    <3>1. \A v \in Ids : versions[v].created \in Nat /\ since[v] \in Nat
      BY <1>1, <1>2 DEF Version
    <3> QED BY <1>10, <3>1 DEF ScanAction, Candidates
  <2>2. worker' \in Worker /\ worker'.at = worker.at /\ worker'.target = v
    BY <1>1, <2>1 DEF Worker
  <2> QED BY <1>1, <1>10, <2>2 DEF ScanAction, WorkerReads, vars
<1>11. CASE ScanNothing
  BY <1>1, <1>3, <1>11 DEF ScanNothing, WorkerReads, vars
<1>12. CASE ExecuteNext
  BY <1>1, <1>3, <1>12, ExecuteFinishes DEF WorkerReads
<1> QED BY <1>6, <1>7, <1>8, <1>9, <1>10, <1>11, <1>12 DEF LifecycleNext, WorkerNext

(* The inductive invariant holds in every reachable state.                 *)
THEOREM LifecycleInvariant == BucketSpec => []LifecycleInv
<1>1. LifecycleInit => LifecycleInv
  <2> SUFFICES ASSUME LifecycleInit PROVE LifecycleInv
    OBVIOUS
  <2>1. HistoryParts /\ LedgerInv
    BY InitHistory, HistoryInvParts, InitLedger DEF LifecycleInit
  <2>2. worker \in Worker /\ worker.at = 0 /\ worker.action = "none"
    BY WorkerListed DEF LifecycleInit, IdleWorker
  <2>3. now \in Nat /\ rules \in RuleSets \cup {{}} /\ revision \in Nat /\ since \in [Ids -> Nat]
    BY DEF LifecycleInit, Init
  <2> QED BY <2>1, <2>2, <2>3 DEF LifecycleInv, WorkerReads
<1>2. LifecycleInv /\ [LifecycleNext]_allVars => LifecycleInv'
  <2> SUFFICES ASSUME LifecycleInv, [LifecycleNext]_allVars PROVE LifecycleInv'
    OBVIOUS
  <2>1. CASE LifecycleNext
    BY <2>1, LifecycleKeepsHistory, WorkerKeeps DEF LifecycleInv
  <2>2. CASE UNCHANGED allVars
    <3>1. HistoryParts' /\ LedgerInv'
      BY <2>2, NextKeeps, LedgerKeeps DEF allVars, LifecycleInv
    <3>2. WorkerReads'
      BY <2>2 DEF allVars, lifecycleVars, vars, LifecycleInv, WorkerReads
    <3> QED BY <3>1, <3>2 DEF LifecycleInv
  <2> QED BY <2>1, <2>2
<1> QED BY <1>1, <1>2, PTL DEF BucketSpec

(* HistoryConsistent: head, noncurrent marks, null version, generations,   *)
(* GC tasks and quota agree while PUTs, DELETEs, Object Lock updates,      *)
(* configuration changes and the lifecycle worker interleave.              *)
THEOREM HistoryStaysConsistent == BucketSpec => []HistoryConsistent
<1>1. LifecycleInv => HistoryConsistent
  <2> SUFFICES ASSUME LifecycleInv PROVE HistoryConsistent
    OBVIOUS
  <2>1. HistoryInv /\ UsedBytesExact
    BY HistoryInvParts DEF LifecycleInv, LedgerInv
  <2>2. HeadIsNewest
    BY <2>1, MaximalIsNewest DEF HistoryInv
  <2> QED BY <2>1, <2>2 DEF HistoryInv, HistoryConsistent
<1> QED BY <1>1, LifecycleInvariant, PTL

-----------------------------------------------------------------------------
(* What an execution removes                                               *)

(* Only the executor ends a batch that has a target.                       *)
LEMMA OnlyExecutionsFinish ==
    ASSUME LifecycleNext, LifecycleStep PROVE ExecuteNext
BY DEF LifecycleNext, LifecycleStep, ClientNext, Configure, ReplaceLifecycle, WorkerNext,
       ListBucket, ScanAction, ScanNothing

(* The rule that the transaction finds fenced is one of those in force.    *)
LEMMA FencedRule ==
    ASSUME LifecycleInv, Fenced(worker) PROVE worker.rule \in rules /\ worker.rule \in Rule
<1>1. worker.rule \in rules /\ rules \in RuleSets \cup {{}}
  BY DEF Fenced, LifecycleInv, WorkerReads
<1> QED BY <1>1, RuleAssumption

(* The current version that the transaction finds eligible is due now.     *)
LEMMA EligibleIsDue ==
    ASSUME LifecycleInv, worker.action = "current", Fenced(worker), CurrentEligible(worker)
    PROVE  /\ objects[TargetKey].current = Target /\ ~versions[Target].marker
           /\ \E r \in rules : CurrentDue(r, TargetKey, versions[Target].created, now)
<1>1. /\ objects[TargetKey].current = Target /\ ~versions[Target].marker
      /\ CurrentDue(worker.rule, TargetKey, versions[Target].created, worker.at)
  BY DEF CurrentEligible, Target, TargetKey
<1>2. versions[Target].created \in Nat
  BY TargetFacts DEF HistoryParts, TypeOK, Version
<1>3. worker.rule \in rules /\ worker.rule \in Rule
  BY FencedRule
<1> HIDE DEF Target, TargetKey
<1>4. CurrentDue(worker.rule, TargetKey, versions[Target].created, now)
  BY <1>1, <1>2, <1>3, TargetFacts, DueStaysDue
<1> QED BY <1>1, <1>3, <1>4

(* OnlyDueVersionsExpire: each transaction repeats the checks of its scan  *)
(* on the rows it then writes, and what was due and unlocked at the time   *)
(* of the scan is due and unlocked now.                                    *)
LEMMA DueVersionsExpire ==
    ASSUME LifecycleInv, ExecuteNext, NEW v \in Puts, Active(v), ~Active(v)'
    PROVE  /\ ~DeleteLocked(v, now, FALSE)
           /\ \/ /\ objects[versions[v].key].current # v
                 /\ \E r \in rules : NoncurrentDue(r, versions[v].key, since[v], now)
              \/ /\ bucket.versioning # "enabled" /\ versions[v].null
                 /\ \E r \in rules : CurrentDue(r, versions[v].key,
                         versions[objects[versions[v].key].current].created, now)
<1>1. /\ HistoryParts /\ LedgerInv /\ TypeOK /\ v \in Ids /\ v # None
      /\ worker.at \in Nat /\ now \in Nat /\ worker.at <= now
  BY TargetFacts, IdAssumption DEF HistoryParts, Ids
<1>2. ASSUME NEW m \in Markers, NEW row, NEW old, versions[m].state = "absent",
             versions' = Published(TargetKey, m, row, old)
      PROVE  v = old
  <2>1. m \in Ids /\ v # m
    BY <1>2 DEF Ids, Active
  <2>2. versions'[v].state = IF v = old THEN "superseded" ELSE versions[v].state
    BY <1>1, <1>2, <2>1, PublishedRows
  <2> QED BY <2>2 DEF Active
<1>3. ASSUME NEW m \in Markers, ExpireCurrentEnabled(m) PROVE FALSE
  <2>1. v = None
    BY <1>2, <1>3 DEF ExpireCurrentEnabled
  <2> QED BY <1>1, <2>1
<1>4. ASSUME NEW m \in Markers, ExpireCurrentSuspended(m)
      PROVE  /\ ~DeleteLocked(v, worker.at, FALSE) /\ versions[v].null
             /\ versions[v].key = TargetKey /\ bucket.versioning # "enabled"
             /\ worker.action = "current" /\ Fenced(worker) /\ CurrentEligible(worker)
  <2>1. v = ActiveNull(TargetKey)
    BY <1>2, <1>4 DEF ExpireCurrentSuspended
  <2>2. v \in ActiveOf(TargetKey) /\ versions[v].null
    <3>1. worker.action = "current" /\ Active(Target)
      BY <1>4 DEF ExpireCurrentSuspended, ExpiresSuspended, CurrentEligible, Target
    <3>2. TargetKey \in Keys
      BY <3>1, TargetFacts
    <3> HIDE DEF TargetKey
    <3> QED BY <1>1, <2>1, <3>2, ActiveNullFinds
  <2>3. CanRetire(v, worker.at)
    BY <1>1, <1>4, <2>1 DEF ExpireCurrentSuspended, ExpiresSuspended
  <2> QED BY <1>4, <2>2, <2>3
      DEF ExpireCurrentSuspended, ExpiresSuspended, CanRetire, ActiveOf
<1>5. ASSUME ExpireCurrentUnversioned
      PROVE  /\ ~DeleteLocked(v, worker.at, FALSE) /\ versions[v].null
             /\ versions[v].key = TargetKey /\ bucket.versioning # "enabled"
             /\ worker.action = "current" /\ Fenced(worker) /\ CurrentEligible(worker)
  <2>1. worker.action = "current" /\ Target \in Ids
    BY <1>5, TargetFacts DEF ExpireCurrentUnversioned, ExpiresUnversioned
  <2>2. versions' = [versions EXCEPT ![Target].state = "superseded", ![Target].noncurrent = TRUE]
    BY <1>5 DEF ExpireCurrentUnversioned
  <2>3. \A w \in Ids \ {Target} : versions'[w] = versions[w]
    BY <1>1, <2>1, <2>2, HiddenRows
  <2>4. v = Target
    BY <1>1, <2>3 DEF Active
  <2> QED BY <1>5, <2>4 DEF ExpireCurrentUnversioned, ExpiresUnversioned, CanRetire, TargetKey
<1>6. ASSUME /\ ~DeleteLocked(v, worker.at, FALSE) /\ versions[v].null
             /\ versions[v].key = TargetKey /\ bucket.versioning # "enabled"
             /\ worker.action = "current" /\ Fenced(worker) /\ CurrentEligible(worker)
      PROVE  /\ ~DeleteLocked(v, now, FALSE)
             /\ bucket.versioning # "enabled" /\ versions[v].null
             /\ \E r \in rules : CurrentDue(r, versions[v].key,
                         versions[objects[versions[v].key].current].created, now)
  <2>1. /\ objects[TargetKey].current = Target
        /\ \E r \in rules : CurrentDue(r, TargetKey, versions[Target].created, now)
    BY <1>6, EligibleIsDue
  <2> HIDE DEF Target, TargetKey
  <2> QED BY <1>1, <1>6, <2>1, UnlockedStaysUnlocked
<1>7. ASSUME ExpireNoncurrent
      PROVE  /\ ~DeleteLocked(v, now, FALSE)
             /\ objects[versions[v].key].current # v
             /\ \E r \in rules : NoncurrentDue(r, versions[v].key, since[v], now)
  <2>1. /\ worker.action = "noncurrent" /\ Fenced(worker) /\ NoncurrentEligible(worker)
        /\ CanRetire(Target, worker.at)
    BY <1>7 DEF ExpireNoncurrent, ExpiresNoncurrent
  <2>2. Target \in Ids
    BY <2>1, TargetFacts
  <2>3. PICK hidden \in {"deleting", "superseded"} : hidden = HiddenState(Target)
    BY DEF HiddenState
  <2>4. versions' = [versions EXCEPT ![Target].state = hidden]
    BY <1>7, <2>3 DEF ExpireNoncurrent
  <2>5. \A w \in Ids \ {Target} : versions'[w] = versions[w]
    BY <1>1, <2>2, <2>4, HiddenRows
  <2>6. v = Target
    BY <1>1, <2>5 DEF Active
  <2>7. /\ objects[versions[v].key].current # v
        /\ NoncurrentDue(worker.rule, versions[v].key, since[v], worker.at)
        /\ ~DeleteLocked(v, worker.at, FALSE)
    BY <2>1, <2>6 DEF NoncurrentEligible, CanRetire, Target
  <2>8. worker.rule \in rules /\ worker.rule \in Rule /\ since[v] \in Nat
    BY <1>1, <2>1, FencedRule DEF LifecycleInv, WorkerReads
  <2>9. NoncurrentDue(worker.rule, versions[v].key, since[v], now)
    BY <1>1, <2>7, <2>8, DueStaysDue
  <2> QED BY <1>1, <2>7, <2>8, <2>9, UnlockedStaysUnlocked
<1>8. ASSUME RemoveExpiredMarker PROVE FALSE
  <2>1. worker.action = "marker" /\ Active(Target) /\ versions[Target].marker
    BY <1>8 DEF RemoveExpiredMarker, RemovesMarker, MarkerEligible, Target
  <2>2. Target \in Ids /\ Target \notin Puts
    BY <1>1, <2>1, TargetFacts DEF LedgerInv
  <2>3. PICK hidden \in {"deleting", "superseded"} : hidden = HiddenState(Target)
    BY DEF HiddenState
  <2>4. versions' = [versions EXCEPT ![Target].state = hidden]
    BY <1>8, <2>3 DEF RemoveExpiredMarker
  <2>5. \A w \in Ids \ {Target} : versions'[w] = versions[w]
    BY <1>1, <2>2, <2>4, HiddenRows
  <2> QED BY <1>1, <2>2, <2>5 DEF Active
<1>9. ASSUME ExecuteNothing PROVE FALSE
  BY <1>9 DEF ExecuteNothing, vars, Active
<1> QED BY <1>3, <1>4, <1>5, <1>6, <1>7, <1>8, <1>9 DEF ExecuteNext

(* OnlyDueVersionsExpire: the lifecycle worker removes a data version only *)
(* under the rules, versioning and locks in force when it removes it.      *)
THEOREM ExpiryIsDue == BucketSpec => OnlyDueVersionsExpire
<1>1. LifecycleInv /\ [LifecycleNext]_allVars =>
        [LifecycleStep =>
          \A v \in Puts : Active(v) /\ ~Active(v)' =>
             LET k == versions[v].key
                 head == objects[k].current
             IN  /\ ~DeleteLocked(v, now, FALSE)
                 /\ \/ /\ head # v
                       /\ \E r \in rules : NoncurrentDue(r, k, since[v], now)
                    \/ /\ bucket.versioning # "enabled" /\ versions[v].null
                       /\ \E r \in rules : CurrentDue(r, k, versions[head].created, now)
        ]_allVars
  <2> SUFFICES ASSUME LifecycleInv, LifecycleNext, LifecycleStep,
                      NEW v \in Puts, Active(v), ~Active(v)'
               PROVE  /\ ~DeleteLocked(v, now, FALSE)
                      /\ \/ /\ objects[versions[v].key].current # v
                            /\ \E r \in rules : NoncurrentDue(r, versions[v].key, since[v], now)
                         \/ /\ bucket.versioning # "enabled" /\ versions[v].null
                            /\ \E r \in rules : CurrentDue(r, versions[v].key,
                                 versions[objects[versions[v].key].current].created, now)
    OBVIOUS
  <2> QED BY OnlyExecutionsFinish, DueVersionsExpire
<1> QED BY <1>1, LifecycleInvariant, PTL DEF BucketSpec, OnlyDueVersionsExpire

(* OnlyDueHeadsChange: the lifecycle worker takes a head away only when    *)
(* the version that is the head at that moment is due.                     *)
THEOREM HeadChangeIsDue == BucketSpec => OnlyDueHeadsChange
<1>1. LifecycleInv /\ [LifecycleNext]_allVars =>
        [LifecycleStep =>
          \A k \in Keys : objects'[k].current # objects[k].current =>
             LET head == versions[objects[k].current]
             IN  \E r \in rules :
                     IF head.marker THEN MarkerDue(r, k, head.created, now)
                     ELSE CurrentDue(r, k, head.created, now)]_allVars
  <2> SUFFICES ASSUME LifecycleInv, LifecycleNext, LifecycleStep,
                      NEW k \in Keys, objects'[k].current # objects[k].current
               PROVE  LET head == versions[objects[k].current]
                      IN  \E r \in rules :
                              IF head.marker THEN MarkerDue(r, k, head.created, now)
                              ELSE CurrentDue(r, k, head.created, now)
    OBVIOUS
  <2>1. ExecuteNext /\ objects \in [Keys -> Object] /\ versions \in [Ids -> Version]
    BY OnlyExecutionsFinish DEF LifecycleInv, HistoryParts, TypeOK
  <2>2. ASSUME NEW j, NEW c, objects' = [objects EXCEPT ![j].current = c] PROVE k = j
    BY <2>1, <2>2
  <2>3. ASSUME NEW j, NEW m, AdvanceTo(j, m) PROVE k = j
    BY <2>1, <2>3 DEF AdvanceTo
  <2>4. CASE \/ \E m \in Markers : ExpireCurrentEnabled(m) \/ ExpireCurrentSuspended(m)
             \/ ExpireCurrentUnversioned
    <3>1. /\ worker.action = "current" /\ Fenced(worker) /\ CurrentEligible(worker)
          /\ k = TargetKey
      BY <2>2, <2>3, <2>4 DEF ExpireCurrentEnabled, ExpiresEnabled, ExpireCurrentSuspended,
         ExpiresSuspended, ExpireCurrentUnversioned, ExpiresUnversioned
    <3>2. /\ objects[TargetKey].current = Target /\ ~versions[Target].marker
          /\ \E r \in rules : CurrentDue(r, TargetKey, versions[Target].created, now)
      BY <3>1, EligibleIsDue
    <3> HIDE DEF Target, TargetKey
    <3> QED BY <3>1, <3>2
  <2>5. CASE ExpireNoncurrent \/ ExecuteNothing
    BY <2>5 DEF ExpireNoncurrent, ExecuteNothing, vars
  <2>6. CASE RemoveExpiredMarker
    <3>1. worker.action = "marker" /\ Fenced(worker) /\ MarkerEligible(worker) /\ k = TargetKey
      BY <2>2, <2>6 DEF RemoveExpiredMarker, RemovesMarker
    <3>2. /\ objects[TargetKey].current = Target /\ versions[Target].marker
          /\ MarkerDue(worker.rule, TargetKey, versions[Target].created, worker.at)
      BY <3>1 DEF MarkerEligible, Target, TargetKey
    <3>3. versions[Target].created \in Nat
      BY <2>1, <3>1, TargetFacts DEF Version
    <3>4. worker.rule \in rules /\ worker.rule \in Rule
      BY <3>1, FencedRule
    <3> HIDE DEF Target, TargetKey
    <3>5. MarkerDue(worker.rule, TargetKey, versions[Target].created, now)
      BY <3>2, <3>3, <3>4, TargetFacts, DueStaysDue
    <3> QED BY <3>1, <3>2, <3>4, <3>5
  <2> QED BY <2>1, <2>4, <2>5, <2>6 DEF ExecuteNext
<1> QED BY <1>1, LifecycleInvariant, PTL DEF BucketSpec, OnlyDueHeadsChange

-----------------------------------------------------------------------------
(* Object Lock                                                             *)

(* No Object Lock is ever put on a delete marker.                          *)
MarkersUnlocked ==
    \A m \in Markers : ~versions[m].hold /\ versions[m].retention.mode = "none"

LEMMA MarkersStayUnlocked ==
    ASSUME LifecycleInv, MarkersUnlocked, [LifecycleNext]_allVars PROVE MarkersUnlocked'
<1>1. /\ HistoryParts /\ versions \in [Ids -> Version] /\ IdAssumption
      /\ \A m \in Markers : m \in Ids /\ m \notin Puts
  BY IdAssumption DEF LifecycleInv, HistoryParts, TypeOK, Ids
<1>2. ASSUME \A m \in Markers : /\ versions'[m].retention = versions[m].retention
                                /\ versions'[m].hold = versions[m].hold
      PROVE  MarkersUnlocked'
  BY <1>2 DEF MarkersUnlocked
<1>3. ASSUME NEW k, NEW new \in Ids, NEW row, NEW old, versions' = Published(k, new, row, old),
             new \in Markers => ~row.hold /\ row.retention.mode = "none"
      PROVE  MarkersUnlocked'
  BY <1>1, <1>3, PublishedRows DEF MarkersUnlocked
<1>4. ASSUME NEW k, NEW m \in Markers, NEW null, NEW at, NEW old,
             versions' = Published(k, m, NewMarker(k, null, at), old)
      PROVE  MarkersUnlocked'
  <2> DEFINE row == NewMarker(k, null, at)
  <2>1. ~row.hold /\ row.retention.mode = "none"
    BY DEF NewMarker, NoRetention
  <2> HIDE DEF row
  <2> QED BY <1>1, <1>3, <1>4, <2>1 DEF row
<1>5. CASE ClientNext
  <2>1. CASE Tick
    BY <1>2, <2>1 DEF Tick
  <2>2. ASSUME NEW p \in Puts, PutNext(p) PROVE MarkersUnlocked'
    <3>1. CASE Commit(p)
      BY <1>3, <3>1, IdAssumption DEF Commit, Ids
    <3>2. CASE ~Commit(p)
      BY <1>2, <2>2, <3>2 DEF PutNext, ReadBucket, ReadObject, ReadVersions, CommitFails
    <3> QED BY <3>1, <3>2
  <2>3. ASSUME NEW k \in Keys, NEW at \in Stamps, DeleteNext(k, at) PROVE MarkersUnlocked'
    <3>1. ASSUME NEW u \in Ids, NEW bypass \in BOOLEAN, DeleteVersion(k, u, at, bypass)
          PROVE  MarkersUnlocked'
      BY <1>1, <1>2, <3>1, DeleteVersionRows
    <3>2. ASSUME NEW bypass \in BOOLEAN, DeleteUnversioned(k, at, bypass) PROVE MarkersUnlocked'
      BY <1>1, <1>2, <3>2, DeleteUnversionedRows
    <3>3. ASSUME NEW m \in Markers, NEW bypass \in BOOLEAN,
                 DeleteEnabled(k, m, at) \/ DeleteSuspended(k, m, at, bypass)
          PROVE  MarkersUnlocked'
      BY <1>4, <3>3 DEF DeleteEnabled, DeleteSuspended
    <3> QED BY <2>3, <3>1, <3>2, <3>3 DEF DeleteNext
  <2>4. ASSUME NEW u \in Puts, LockNext(u) PROVE MarkersUnlocked'
    BY <1>1, <1>2, <2>4 DEF LockNext, PutRetention, PutLegalHold
  <2> QED BY <1>5, <2>1, <2>2, <2>3, <2>4 DEF ClientNext
<1>6. ASSUME UNCHANGED versions PROVE MarkersUnlocked'
  BY <1>2, <1>6
<1>7. CASE ExecuteNext
  <2>1. ASSUME NEW m \in Markers, ExpireCurrentEnabled(m) \/ ExpireCurrentSuspended(m)
        PROVE  MarkersUnlocked'
    BY <1>4, <2>1 DEF ExpireCurrentEnabled, ExpireCurrentSuspended
  <2>2. CASE ExpireCurrentUnversioned \/ ExpireNoncurrent \/ RemoveExpiredMarker
    <3>1. PICK u \in Ids : u = Target
      BY <2>2, TargetFacts DEF ExpireCurrentUnversioned, ExpiresUnversioned,
         ExpireNoncurrent, ExpiresNoncurrent, RemoveExpiredMarker, RemovesMarker
    <3>2. PICK hidden \in {"deleting", "superseded"} :
            \/ versions' = [versions EXCEPT ![u].state = hidden]
            \/ versions' = [versions EXCEPT ![u].state = hidden, ![u].noncurrent = TRUE]
      BY <2>2, <3>1
         DEF ExpireCurrentUnversioned, ExpireNoncurrent, RemoveExpiredMarker, HiddenState
    <3> QED BY <1>1, <1>2, <3>2, HiddenRows
  <2>3. CASE ExecuteNothing
    BY <1>6, <2>3 DEF ExecuteNothing, vars
  <2> QED BY <1>7, <2>1, <2>2, <2>3 DEF ExecuteNext
<1>8. CASE (LifecycleNext /\ ~ClientNext /\ ~ExecuteNext) \/ UNCHANGED allVars
  BY <1>6, <1>8 DEF LifecycleNext, Configure, ConfigureNext, SetVersioning, ReplaceObjectLock,
     ReplaceLifecycle, WorkerNext, ListBucket, ScanAction, ScanNothing, vars, allVars
<1> QED BY <1>5, <1>7, <1>8

(* Every step is one of ObjectVersions, one of the executor, or leaves the *)
(* history alone.                                                          *)
LEMMA StepOfHistory ==
    ASSUME LifecycleNext PROVE Next \/ UNCHANGED vars \/ ExecuteNext
BY DEF LifecycleNext, ClientNext, Configure, Next, ReplaceLifecycle, WorkerNext, ListBucket,
       ScanAction, ScanNothing

(* LockedVersionsLeaveOnlyByStalePut: the lifecycle worker does not remove *)
(* a version that Object Lock protects either, whatever its scan has seen. *)
THEOREM LocksHoldAgainstLifecycle == BucketSpec => LockedVersionsLeaveOnlyByStalePut
<1>1. LifecycleInv /\ MarkersUnlocked /\ [LifecycleNext]_allVars =>
        [\A v \in Ids : Protected(v) /\ ~Active(v)' =>
           \E p \in Puts : /\ put[p].step = "prepared" /\ put[p].replaced = v
                           /\ put'[p].step = "committed"]_vars
  <2> SUFFICES ASSUME LifecycleInv, MarkersUnlocked, LifecycleNext, ~UNCHANGED vars,
                      NEW v \in Ids, Protected(v), ~Active(v)'
               PROVE  \E p \in Puts : /\ put[p].step = "prepared" /\ put[p].replaced = v
                                      /\ put'[p].step = "committed"
    BY DEF allVars
  <2>1. CASE Next
    BY <2>1, ProtectedLeaves DEF LifecycleInv
  <2>2. CASE ExecuteNext
    <3>1. Active(v) /\ v \in Puts
      BY DEF Protected, MarkersUnlocked, Ids
    <3>2. ~DeleteLocked(v, now, FALSE)
      BY <2>2, <3>1, DueVersionsExpire
    <3> QED BY <3>2 DEF Protected, DeleteLocked
  <2> QED BY <2>1, <2>2, StepOfHistory
<1>2. LifecycleInit => MarkersUnlocked
  BY DEF LifecycleInit, Init, MarkersUnlocked, AbsentVersion, NoRetention, Ids
<1>3. LifecycleInv /\ MarkersUnlocked /\ [LifecycleNext]_allVars => MarkersUnlocked'
  BY MarkersStayUnlocked
<1> QED BY <1>1, <1>2, <1>3, LifecycleInvariant, PTL
        DEF BucketSpec, LockedVersionsLeaveOnlyByStalePut

(* ComplianceNeverWeakens: the lifecycle worker touches no retention.      *)
THEOREM ComplianceHoldsAgainstLifecycle == BucketSpec => ComplianceNeverWeakens
<1>1. LifecycleInv /\ [LifecycleNext]_allVars =>
        [\A v \in Ids :
          LET r == versions[v].retention
          IN  Active(v) /\ Active(v)' /\ r.mode = "compliance" /\ r.until > now =>
                 /\ versions'[v].retention.mode = "compliance"
                 /\ versions'[v].retention.until >= r.until]_vars
  <2> SUFFICES ASSUME LifecycleInv, LifecycleNext, ~UNCHANGED vars,
                      NEW v \in Ids, Active(v), Active(v)',
                      versions[v].retention.mode = "compliance",
                      versions[v].retention.until > now
               PROVE  /\ versions'[v].retention.mode = "compliance"
                      /\ versions'[v].retention.until >= versions[v].retention.until
    BY DEF allVars
  <2>1. CASE Next
    BY <2>1, ComplianceStep DEF LifecycleInv
  <2>2. CASE ExecuteNext
    <3>1. versions'[v].retention = versions[v].retention
      <4>1. ASSUME NEW m \in Markers, ExpireCurrentEnabled(m) \/ ExpireCurrentSuspended(m)
            PROVE  versions'[v].retention = versions[v].retention
        <5>1. m \in Ids /\ v # m /\ HistoryParts
          BY <4>1 DEF ExpireCurrentEnabled, ExpireCurrentSuspended, Active, Ids, LifecycleInv
        <5>2. PICK row, old : versions' = Published(TargetKey, m, row, old)
          BY <4>1, Zenon DEF ExpireCurrentEnabled, ExpireCurrentSuspended
        <5> QED BY <5>1, <5>2, PublishedRows
      <4>2. CASE ExpireCurrentUnversioned \/ ExpireNoncurrent \/ RemoveExpiredMarker
        <5>1. PICK u \in Ids : u = Target
          BY <4>2, TargetFacts DEF ExpireCurrentUnversioned, ExpiresUnversioned,
             ExpireNoncurrent, ExpiresNoncurrent, RemoveExpiredMarker, RemovesMarker
        <5>2. PICK hidden \in {"deleting", "superseded"} :
                \/ versions' = [versions EXCEPT ![u].state = hidden]
                \/ versions' = [versions EXCEPT ![u].state = hidden, ![u].noncurrent = TRUE]
          BY <4>2, <5>1
             DEF ExpireCurrentUnversioned, ExpireNoncurrent, RemoveExpiredMarker, HiddenState
        <5> QED BY <5>2, HiddenRows DEF LifecycleInv
      <4>3. CASE ExecuteNothing
        BY <4>3 DEF ExecuteNothing, vars
      <4> QED BY <2>2, <4>1, <4>2, <4>3 DEF ExecuteNext
    <3>2. versions[v].retention.until \in Nat
      BY DEF LifecycleInv, HistoryParts, TypeOK, Version, RetentionRow
    <3> QED BY <3>1, <3>2
  <2> QED BY <2>1, <2>2, StepOfHistory
<1> QED BY <1>1, LifecycleInvariant, PTL DEF BucketSpec, ComplianceNeverWeakens

=============================================================================
