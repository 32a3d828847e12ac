------------------------------ MODULE Payouts ------------------------------
(***************************************************************************)
(* What the bot promises of everything that may happen once: a claim (a    *)
(* reward for one join, referral, achievement or mission of a day in       *)
(* Orders; the redemption of one code by one user in Promotions; the use   *)
(* of one preview, form or question in Dialogs) is paid at most once, and  *)
(* a transaction pays the claims it settles all together.                  *)
(***************************************************************************)
EXTENDS Naturals

CONSTANT Claim      \* everything a user can be paid for

VARIABLE paid       \* how many times each claim has been paid

Init == paid = [c \in Claim |-> 0]

\* One transaction settles the claims of S, none of them paid before.
Pay(S) ==
  /\ \A c \in S : paid[c] = 0
  /\ paid' = [c \in Claim |-> IF c \in S THEN 1 ELSE paid[c]]

Next == \E S \in SUBSET Claim : Pay(S)

Spec == Init /\ [][Next]_paid
=============================================================================
