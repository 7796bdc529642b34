------------------------ MODULE MC_BucketLifecycle ------------------------
(* Bounded instances of BucketLifecycle for TLC.                           *)
EXTENDS BucketLifecycle, TLC

Symmetry == Permutations(Puts)

MCSize == [p \in Puts |-> 1]

NewRule(expiration, n, noncurrent) ==
    [keys |-> Keys, enabled |-> TRUE, expiration |-> expiration, n |-> n,
     noncurrent |-> noncurrent]

(* After a day: expires, then forgets the version, then the marker; a rule *)
(* that is off does nothing                                                *)
MCRuleSets ==
    {{NewRule("days", 1, 1), [NewRule("marker", 0, 0) EXCEPT !.enabled = FALSE]}}

NoLocks == {}

Locks == {[mode |-> "compliance", until |-> 5], [mode |-> "compliance", until |-> 6]}

=============================================================================
