---------------------------- MODULE MC_Accounts ----------------------------
(* A bounded instance of Accounts for TLC: accounts and requests are       *)
(* interchangeable.                                                        *)
EXTENDS Accounts, TLC

Symmetry == Permutations(Users) \cup Permutations(Clients)
=============================================================================
