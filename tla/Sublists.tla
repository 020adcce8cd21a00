------------------------------ MODULE Sublists ------------------------------
(***************************************************************************)
(* SelectSeq for a set in place of a test.  It is a fold, which a proof    *)
(* can take apart: SelectSeq is built into the prover, which knows no fact *)
(* about it.                                                               *)
(***************************************************************************)
EXTENDS Sequences, SequencesExt

\* The elements of s that are in S, in their order.
Sublist(s, S) == FoldLeft(LAMBDA sub, x : IF x \in S THEN Append(sub, x) ELSE sub, <<>>, s)
=============================================================================
