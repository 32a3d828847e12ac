----------------------------- MODULE MCSponsors -----------------------------
(***************************************************************************)
(* Small instances of Sponsors: ann uses the bot; bob is an admin of the   *)
(* bot and of the sponsor's channel.                                       *)
(***************************************************************************)
EXTENDS Sponsors, TLC

CONSTANTS ann, bob, c1, j1, j2, s1, s2

Alike == Permutations(Session) \cup Permutations(Join)
=============================================================================
