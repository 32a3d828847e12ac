------------------------------ MODULE MCOrders ------------------------------
(***************************************************************************)
(* Small instances of Orders.  The owner of every order is `owner`; the    *)
(* others click.  A cfg chooses among the definitions below.               *)
(***************************************************************************)
EXTENDS Orders, TLC

CONSTANTS b1, owner, ann, bob, cat, o1, o2, c1, c2, s1, s2

OneOwner == [o \in Order |-> owner]
OneChannel == [o \in Order |-> c1]
TargetOne == [o \in Order |-> 1]
TargetTwo == [o \in Order |-> 2]
TargetMixed == [o \in Order |-> IF o = o1 THEN 2 ELSE 1]

AllInvited == [u \in User |-> IF u = owner THEN Nobody ELSE owner]
NotInvited == [u \in User |-> Nobody]

Clickers == Permutations(User \ {owner})
SessionsAlike == Permutations(Session)
SymmetryAll == Clickers \cup SessionsAlike
=============================================================================
