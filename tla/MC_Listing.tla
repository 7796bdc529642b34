----------------------------- MODULE MC_Listing -----------------------------
(* A bounded instance of Listing for TLC: the keys "a", "b/x" and "b/y";   *)
(* the common prefix "b/" is 2.                                            *)
EXTENDS Listing

MCFolder == [k \in Keys |-> IF k = 1 THEN 1 ELSE 2]
=============================================================================
