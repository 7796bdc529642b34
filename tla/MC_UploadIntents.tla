-------------------------- MODULE MC_UploadIntents --------------------------
(* Bounded instances of UploadIntents for TLC.                             *)
EXTENDS UploadIntents, TLC

CONSTANTS i1, i2, i3

MCKeys == {"staging", "objects"} \X Intents

(* i1 has its own size; the others are interchangeable                     *)
Symmetry == Permutations(Intents \ {i1})

MCSize == [i \in Intents |-> IF i = i1 THEN 1 ELSE 2]
=============================================================================
