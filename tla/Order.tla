-------------------------------- MODULE Order --------------------------------
(* sorted() of Python over a set, by a strict order that is total on it. *)
EXTENDS Integers, SequencesExt

Sorted(S, Less(_, _)) ==
    [i \in 1..Cardinality(S) |-> CHOOSE e \in S : Cardinality({f \in S : Less(f, e)}) = i - 1]
=============================================================================
