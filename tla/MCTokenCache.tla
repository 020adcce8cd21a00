---------------------------- MODULE MCTokenCache ----------------------------
(* Two goroutines of one process, or two processes of one each, sharing a  *)
(* store.  Two mints are enough for one to overtake the other: the second  *)
(* can be saved in part, by either, with the first in the store.           *)
EXTENDS TokenCache

CONSTANTS p1, p2, g1, g2, one, other

MCCalls == {g1, g2}
MCOneProcess == {p1}
MCTwoProcesses == {p1, p2}
MCTogether == [c \in MCCalls |-> p1]
MCApart == [c \in MCCalls |-> IF c = g1 THEN p1 ELSE p2]
MCOneAccount == {one}
MCTwoAccounts == {one, other}
=============================================================================
