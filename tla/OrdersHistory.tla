--------------------------- MODULE OrdersHistory ---------------------------
(***************************************************************************)
(* Orders with two history variables that record lost updates: a session   *)
(* commits a row of orders, or a participation, which another session has  *)
(* written since the order was loaded.  SELECT takes no lock here, and     *)
(* orders has no version column (order_service.py, models/orders.py).      *)
(***************************************************************************)
EXTENDS Orders

VARIABLES
  stale,        \* <<s, o>>: what session s has loaded of order o is outdated
  overwritten   \* the orders with a lost update

hvars == <<vars, stale, overwritten>>

Has(s, o) == tx[s].seen[o] # NoRow

\* What becomes outdated when a session commits what it has written.
Outdated ==
  {p \in Session \X Order :
     \E s \in Session \ {p[1]} : Commit(s) /\ p[2] \in Writes(s) /\ Has(p[1], p[2])}

HInit == Init /\ stale = {} /\ overwritten = {}

HNext ==
  /\ Next
  /\ stale' = {p \in stale \cup Outdated : tx'[p[1]].pc # "idle"}
  /\ overwritten' = overwritten \cup
       {o \in Order : \E s \in Session : Commit(s) /\ o \in Writes(s) /\ <<s, o>> \in stale}

HSpec == HInit /\ [][HNext]_hvars

(***************************************************************************)
(* Lost updates are all that can make the counters wrong                   *)
(***************************************************************************)
\* Until an update of the order is lost, whatever overlaps and fails:
\* progress_count is the number of rewarded participants who have not left, a
\* completed order has reached its target, and one that can be joined has not.
CountsExactUnlessOverwritten ==
  \A o \in Order \ overwritten :
    /\ order[o].progress = Cardinality(Joined(o)) - Cardinality(Left(o))
    /\ order[o].status = "completed" => order[o].progress >= TargetOf[o]
    /\ Clickable(order[o]) => order[o].progress < TargetOf[o]

\* Until then the leave of one participation is charged once.
ChargedOnceUnlessOverwritten ==
  \A p \in Order \X User : p[1] \notin overwritten => charged[p] <= 1
=============================================================================
