----------------------------- MODULE MCWallets -----------------------------
(***************************************************************************)
(* Small instances of Wallets: ann was invited by bob, who is an admin.    *)
(***************************************************************************)
EXTENDS Wallets, TLC

CONSTANTS ann, bob, s1, s2

\* A credit and a payment of ann's fit before a payment from an older copy.
AnnTrades == [u \in User |-> IF u = ann THEN 3 ELSE 1]

InvitedByBob == [u \in User |-> IF u = ann THEN bob ELSE Nobody]

SessionsAlike == Permutations(Session)
=============================================================================
