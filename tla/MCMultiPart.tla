----------------------------- MODULE MCMultiPart -----------------------------
(* MultiPart for TLC.                                                      *)
EXTENDS MultiPart, TLC

CONSTANTS plain, assign

\* Of two values one holds an "=", and the other is what precedes it.
CutAssign == [x \in Values |-> IF x = assign THEN plain ELSE x]

\* The parts that use mstf.tcllib do not differ, nor do the labels.
Symmetry == Permutations(Parts \ CParts) \cup Permutations(SyncLabels)
=============================================================================
