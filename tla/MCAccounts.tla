----------------------------- MODULE MCAccounts -----------------------------
(***************************************************************************)
(* Small instances of Accounts: the owner and ann, who may become an admin *)
(* and may say that bob has invited her.                                   *)
(***************************************************************************)
EXTENDS Accounts, TLC

CONSTANTS owner, ann, bob, s1, s2

Alike == Permutations(Session)
=============================================================================
