---------------------------- MODULE MCBroadcasts ----------------------------
(***************************************************************************)
(* A small instance of Broadcasts: ann and bob may be admins.              *)
(***************************************************************************)
EXTENDS Broadcasts

CONSTANTS ann, bob, b1, s1, s2
=============================================================================
