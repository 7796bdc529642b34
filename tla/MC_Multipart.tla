---------------------------- MODULE MC_Multipart ----------------------------
(* Bounded instances of Multipart for TLC.                                 *)
EXTENDS Multipart, TLC

CONSTANTS p1, p2, p3, Staged


(* p1 and p2 upload the same part with different contents and sizes        *)
MCPartNumber == [p \in Puts |-> IF p \in {p1, p2} THEN 1 ELSE 2]
MCTag == [p \in Puts |-> p]
MCSize == [p \in Puts |-> IF p = p1 THEN 2 ELSE 1]

(* The part uploads in Staged, one per number, have been acknowledged      *)
StagedInit ==
    /\ upload = [state |-> "pending", token |-> None, manifest |-> NoParts,
                 attached |-> None, version |-> None]
    /\ parts = [n \in Numbers |->
         IF \E p \in Staged : PartNumber[p] = n
         THEN CHOOSE p \in Staged : PartNumber[p] = n ELSE None]
    /\ putter = [p \in Puts |-> IF p \in Staged THEN "acknowledged" ELSE "start"]
    /\ completer = [c \in Completers |-> IdleCompleter]
    /\ intent = [c \in Completers |-> [state |-> "none", token |-> None, sources |-> NoParts]]
    /\ expired = FALSE /\ lapsed = {}
    /\ blobs = {Part(p) : p \in Staged} /\ queued = {}
    /\ reserved = 0 /\ used = 0

StagedSpec == StagedInit /\ [][Next]_vars /\ Fairness

(* Completion attempts are interchangeable                                 *)
Symmetry == Permutations(Completers)
=============================================================================
