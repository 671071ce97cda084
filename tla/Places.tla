-------------------------------- MODULE Places --------------------------------
(* The order of positions in a sequence, without building the subsequence. *)
EXTENDS Integers, FiniteSets

(* The place of i in a finite set of positions: 1 for the least. *)
Place(positions, i) == Cardinality({j \in positions : j <= i})
=============================================================================
