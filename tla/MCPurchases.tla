---------------------------- MODULE MCPurchases ----------------------------
(***************************************************************************)
(* Small instances of Purchases: ann and bob are admins and buyers.        *)
(***************************************************************************)
EXTENDS Purchases, TLC

CONSTANTS ann, bob, r1, r2, bronze, gold, stars, s1, s2

OneDay == [p \in Plan |-> 1]
PlanTier == [p \in Plan |-> <<"tier", p>>]

Alike == Permutations(Session) \cup Permutations(User) \cup Permutations(Request)
=============================================================================
