-------------------------- MODULE MCSessionTokens --------------------------
(* Three calls for one project, one rewrite of its credentials and two     *)
(* forgets: enough for builds of different generations to be under way at  *)
(* once, for a waiter on one that was forgotten, and for a caller of the   *)
(* new generation beside both.                                             *)
EXTENDS SessionTokens

CONSTANTS c1, c2, c3, k1

MCCallers == {c1, c2, c3}
MCKeys == {k1}
=============================================================================
