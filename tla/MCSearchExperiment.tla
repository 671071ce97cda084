-------------------------- MODULE MCSearchExperiment --------------------------
(***************************************************************************)
(* One family and its control, searched over three vectors: the default d,  *)
(* a at the frontier, and b behind it.                                      *)
(***************************************************************************)
EXTENDS SearchExperiment

Found(r, v) == [reason |-> r, value |-> v]

Target(d, a, b) == ("d" :> d) @@ ("a" :> a) @@ ("b" :> b)
FlatControl == [v \in Vectors |-> Found("declined", 0)]

(* Adaptive search gains most on the first evaluators; the frontier vector a is
   challenged or settles more than the default; b behind it makes the evaluator
   raise, is invalid, or settles most.  On the last ones the control is gained
   on as well. *)
MCVerdicts ==
    {("target" :> t) @@ ("control" :> FlatControl) : t \in
        {Target(Found("declined", 0), Found("approved", 2), Found("approved", 3)),
         Target(Found("approved", 1), Found("challenged", 0), Found("approved", 3)),
         Target(Found("declined", 0), Found("approved", 2), Found("evaluation_failure", 0)),
         Target(Found("approved", 1), Found("challenged", 0), Found("invalid_candidate", 0))}}
    \cup {("target" :> Target(Found("declined", 0), Found("approved", 2), Found("approved", 3)))
           @@ ("control" :> [FlatControl EXCEPT !["a"] = Found("approved", 1)])}

(* The session proposed every vector once, to these evaluators or to ones that
   declined the default. *)
MCSession(f, found) ==
    LET plan == <<"d", "a", "b">>
        Recorded(w) == [i \in 1..3 |->
                          [vector |-> plan[i], parent |-> i - 1, feedback |-> w[plan[i]]]]
    IN  {Recorded(found), Recorded([found EXCEPT !["d"] = Found("declined", 0)])}

MCFrontier == <<"a">>
MCOthers == [v \in Vectors |-> Vectors \ {v}]
MCFamilies == <<"target">>
MCSeeds == <<1>>
=============================================================================
