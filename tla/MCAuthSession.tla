---------------------------- MODULE MCAuthSession ----------------------------
(***************************************************************************)
(* Values for model checking AuthSession: two concurrent operations and    *)
(* two wallets are enough for every interleaving of a stale operation with *)
(* a newer sign-in.                                                        *)
(***************************************************************************)
EXTENDS AuthSession, TLC

Symmetry == Permutations(Workers) \cup Permutations(Accounts)
==============================================================================
