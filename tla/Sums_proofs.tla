----------------------------- MODULE Sums_proofs -----------------------------
(***************************************************************************)
(* How the sum over a set of rows changes when a row enters or leaves it.  *)
(* The provers have no induction over sets; a counterexample that is       *)
(* minimal for inclusion takes its place.                                  *)
(***************************************************************************)
EXTENDS Sums, TLAPS, FiniteSetTheorems, WellFoundedInduction

(* A nonempty collection of parts of a finite set has a minimal member.    *)
LEMMA MinimalPart ==
    ASSUME NEW S, IsFiniteSet(S), NEW B, B \subseteq SUBSET S, B # {}
    PROVE  \E A \in B : \A C \in B : C \subseteq A => C = A
<1> DEFINE R == StrictSubsetOrdering(S)
<1>1. IsWellFoundedOn(R, SUBSET S)
  BY FS_FiniteSubsetsOfFinite, FS_StrictSubsetOrderingWellFounded
<1>2. PICK A \in B : \A C \in B : ~(<<C, A>> \in R)
  <2> HIDE DEF R
  <2> QED BY <1>1, WFMin
<1>3. ASSUME NEW C \in B, C \subseteq A PROVE C = A
  <2>1. <<C, A>> \in (SUBSET S) \X (SUBSET S)
    OBVIOUS
  <2> QED BY <1>2, <1>3, <2>1 DEF StrictSubsetOrdering
<1> QED BY <1>3

(* g adds up f over the parts of S, whichever member is taken out first    *)
AddsUp(g, f, S) ==
    /\ g \in [SUBSET S -> Nat]
    /\ g[{}] = 0
    /\ \A T \in SUBSET S : \A x \in T : g[T] = g[T \ {x}] + f[x]

LEMMA AddsUpExists ==
    ASSUME NEW S, IsFiniteSet(S), NEW f, \A i \in S : f[i] \in Nat
    PROVE  \E g : AddsUp(g, f, S)
<1> DEFINE B == {A \in SUBSET S : ~\E g : AddsUp(g, f, A)}
<1> SUFFICES ASSUME B # {} PROVE FALSE
  OBVIOUS
<1>1. PICK A \in B : \A C \in B : C \subseteq A => C = A
  <2>1. B \subseteq SUBSET S
    OBVIOUS
  <2> HIDE DEF B
  <2> QED BY <2>1, MinimalPart
<1>2. CASE A = {}
  <2> DEFINE g == [T \in SUBSET {} |-> 0]
  <2>1. AddsUp(g, f, {})
    BY DEF AddsUp
  <2> QED BY <1>1, <1>2, <2>1
<1>3. CASE A # {}
  <2>1. PICK x \in A : TRUE
    BY <1>3
  <2> DEFINE C == A \ {x}
  <2>2. C \subseteq A /\ C # A /\ C \in SUBSET S /\ C \notin B
    BY <1>1, <2>1
  <2>3. PICK g : AddsUp(g, f, C)
    BY <2>2
  <2> DEFINE h == [T \in SUBSET A |-> IF x \in T THEN g[T \ {x}] + f[x] ELSE g[T]]
  <2>4. f[x] \in Nat /\ \A T \in SUBSET C : g[T] \in Nat
    BY <2>1, <2>3 DEF AddsUp
  <2>5. \A T \in SUBSET A : T \ {x} \in SUBSET C /\ (x \notin T => T \in SUBSET C)
    OBVIOUS
  <2>6. h \in [SUBSET A -> Nat]
    BY <2>4, <2>5
  <2>7. h[{}] = 0
    BY <2>3 DEF AddsUp
  <2>8. ASSUME NEW T \in SUBSET A, NEW y \in T PROVE h[T] = h[T \ {y}] + f[y]
    <3>1. CASE y = x
      BY <2>5, <3>1
    <3>2. CASE y # x /\ x \notin T
      <4>1. T \in SUBSET C /\ T \ {y} \in SUBSET A /\ x \notin T \ {y}
        BY <3>2
      <4>2. g[T] = g[T \ {y}] + f[y]
        BY <2>3, <4>1 DEF AddsUp
      <4> QED BY <3>2, <4>1, <4>2
    <3>3. CASE y # x /\ x \in T
      <4>1. /\ T \ {x} \in SUBSET C /\ y \in T \ {x} /\ f[y] \in Nat
            /\ T \ {y} \in SUBSET A /\ x \in T \ {y}
            /\ (T \ {x}) \ {y} = (T \ {y}) \ {x} /\ (T \ {y}) \ {x} \in SUBSET C
        BY <3>3
      <4>2. g[T \ {x}] = g[(T \ {y}) \ {x}] + f[y]
        BY <2>3, <4>1 DEF AddsUp
      <4>3. h[T] = g[T \ {x}] + f[x] /\ h[T \ {y}] = g[(T \ {y}) \ {x}] + f[x]
        BY <3>3, <4>1
      <4> QED BY <2>4, <4>1, <4>2, <4>3
    <3> QED BY <3>1, <3>2, <3>3
  <2> HIDE DEF h
  <2>9. AddsUp(h, f, A)
    BY <2>6, <2>7, <2>8 DEF AddsUp
  <2> QED BY <1>1, <2>9
<1> QED BY <1>2, <1>3

(* MapThenSumSet takes the members in the order of CHOOSE; any other order *)
(* gives the same.                                                         *)
LEMMA SumIsAddsUp ==
    ASSUME NEW S, IsFiniteSet(S), NEW f, \A i \in S : f[i] \in Nat,
           NEW g, AddsUp(g, f, S), NEW T \in SUBSET S
    PROVE  SumOver(f, T) = g[T]
<1> DEFINE first(s) == CHOOSE x \in s : TRUE
           step(h) == [s \in SUBSET T |->
                         IF s = {} THEN 0 ELSE f[first(s)] + h[s \ {first(s)}]]
           iter == CHOOSE h : h = step(h)
<1>1. SumOver(f, T) = iter[T]
  BY DEF SumOver, MapThenSumSet, MapThenFoldSet
<1>2. \A s \in SUBSET T : s # {} => first(s) \in s
  OBVIOUS
<1> DEFINE h == [s \in SUBSET T |-> g[s]]
<1> HIDE DEF first
<1>3. h = step(h)
  <2> SUFFICES ASSUME NEW s \in SUBSET T PROVE h[s] = step(h)[s]
    OBVIOUS
  <2>1. CASE s = {}
    BY <2>1 DEF AddsUp
  <2>2. CASE s # {}
    <3>1. /\ first(s) \in s /\ s \ {first(s)} \in SUBSET T
          /\ g[s] = g[s \ {first(s)}] + f[first(s)]
          /\ f[first(s)] \in Nat /\ g[s \ {first(s)}] \in Nat
      BY <1>2, <2>2 DEF AddsUp
    <3>2. h[s \ {first(s)}] = g[s \ {first(s)}] /\ h[s] = g[s]
      BY <3>1
    <3> QED BY <2>2, <3>1, <3>2
  <2> QED BY <2>1, <2>2
<1>4. iter = step(iter)
  <2> HIDE DEF step, h
  <2> QED BY <1>3
<1> HIDE DEF iter, h
<1> DEFINE B == {s \in SUBSET T : iter[s] # g[s]}
<1>5. B = {}
  <2> SUFFICES ASSUME B # {} PROVE FALSE
    OBVIOUS
  <2>1. PICK s \in B : \A r \in B : r \subseteq s => r = s
    <3>1. B \subseteq SUBSET T /\ IsFiniteSet(T)
      BY FS_Subset
    <3> HIDE DEF B
    <3> QED BY <3>1, MinimalPart
  <2>2. iter[s] = IF s = {} THEN 0 ELSE f[first(s)] + iter[s \ {first(s)}]
    BY <1>4
  <2>3. s # {}
    BY <2>2 DEF AddsUp
  <2>4. first(s) \in s /\ s \ {first(s)} \notin B
    BY <1>2, <2>1, <2>3
  <2>5. iter[s \ {first(s)}] = g[s \ {first(s)}]
    BY <2>4
  <2>6. /\ g[s] = g[s \ {first(s)}] + f[first(s)]
        /\ f[first(s)] \in Nat /\ g[s \ {first(s)}] \in Nat
    BY <2>4 DEF AddsUp
  <2>7. iter[s] = g[s]
    BY <2>2, <2>3, <2>5, <2>6
  <2> QED BY <2>7
<1> QED BY <1>1, <1>5

(* Only the numbers of the rows in the set matter.                         *)
LEMMA SumAgrees ==
    ASSUME NEW S, IsFiniteSet(S), NEW f, NEW g, \A i \in S : f[i] \in Nat /\ g[i] = f[i]
    PROVE  SumOver(f, S) = SumOver(g, S)
<1>1. PICK h : AddsUp(h, f, S)
  BY AddsUpExists
<1>2. AddsUp(h, g, S)
  BY <1>1 DEF AddsUp
<1> QED BY <1>1, <1>2, SumIsAddsUp

-----------------------------------------------------------------------------
(* A row that enters the set adds its number, one that leaves takes it     *)
(* away again, and no row there counts for more than the whole.            *)
THEOREM SumChanges ==
    ASSUME NEW S, IsFiniteSet(S), NEW f, \A i \in S : f[i] \in Nat
    PROVE  /\ SumOver(f, {}) = 0
           /\ \A T \in SUBSET S : SumOver(f, T) \in Nat
           /\ \A T \in SUBSET S, x \in S : x \notin T =>
                SumOver(f, T \cup {x}) = SumOver(f, T) + f[x]
           /\ \A T \in SUBSET S, x \in S : x \in T =>
                SumOver(f, T) = SumOver(f, T \ {x}) + f[x] /\ SumOver(f, T) >= f[x]
<1>1. PICK g : AddsUp(g, f, S)
  BY AddsUpExists
<1>2. \A T \in SUBSET S : SumOver(f, T) = g[T] /\ g[T] \in Nat
  <2>1. \A T \in SUBSET S : g[T] \in Nat
    BY <1>1 DEF AddsUp
  <2> QED BY <1>1, <2>1, SumIsAddsUp
<1>3. SumOver(f, {}) = 0
  BY <1>1, <1>2 DEF AddsUp
<1>4. ASSUME NEW T \in SUBSET S, NEW x \in S, x \in T
      PROVE  SumOver(f, T) = SumOver(f, T \ {x}) + f[x] /\ SumOver(f, T) >= f[x]
  <2>1. g[T] = g[T \ {x}] + f[x] /\ T \ {x} \in SUBSET S
    BY <1>1, <1>4 DEF AddsUp
  <2> QED BY <1>2, <2>1
<1>5. ASSUME NEW T \in SUBSET S, NEW x \in S, x \notin T
      PROVE  SumOver(f, T \cup {x}) = SumOver(f, T) + f[x]
  <2>1. (T \cup {x}) \ {x} = T /\ T \cup {x} \in SUBSET S
    BY <1>5
  <2> QED BY <1>4, <2>1
<1> QED BY <1>2, <1>3, <1>4, <1>5
=============================================================================
