---------------------------- MODULE MCPromotions ----------------------------
(***************************************************************************)
(* Small instances of Promotions: ann and bob use the bot, bob manages it. *)
(***************************************************************************)
EXTENDS Promotions, TLC

CONSTANTS ann, bob, c1, b1, b2, s1, s2

Alike == Permutations(Session) \cup Permutations(Banner)
=============================================================================
