------------------------- MODULE MC_ObjectVersions -------------------------
(* A bounded instance of ObjectVersions for TLC.                           *)
EXTENDS ObjectVersions, TLC

(* The PUTs are interchangeable                                            *)
Symmetry == Permutations(Puts)

MCSize == [p \in Puts |-> 1]

NoLocks == {}

(* A retention that holds at time 0 and has ended at time 1                *)
Locks == {[mode |-> "governance", until |-> 1]}
=============================================================================
