----------------------------- MODULE MCDialogs -----------------------------
(***************************************************************************)
(* Small instances of Dialogs: ann orders, buys, asks and, as an admin,    *)
(* makes gift codes.                                                       *)
(***************************************************************************)
EXTENDS Dialogs, TLC

CONSTANTS ann, member, ad, chat, few, plan, stars, ten, k1, k2, s1, s2

Alike == Permutations(Session) \cup Permutations(Type)
           \cup Permutations(Offer) \cup Permutations(Token)
=============================================================================
