-------------------------------- MODULE MCRails --------------------------------
(***************************************************************************)
(* The payment rails; the search for the campaigns that gain most on them,  *)
(* which sees the rails through an evaluator only; and the store that the   *)
(* experiments keep their artifacts in, where two processes store the same  *)
(* bytes under different media types.  The three share nothing, so that an  *)
(* execution is about one of them.                                          *)
(***************************************************************************)
EXTENDS MCPaymentRail, MCSearchExperiment, ArtifactStore

CONSTANTS w1, w2, json, text, bytes

MCCalls(w) == {<<bytes, IF w = w1 THEN json ELSE text>>}

VARIABLE program   \* "rails", "search" or "artifacts"; fixed

MCInit ==
    /\ program \in {"rails", "search", "artifacts"}
    /\ Init /\ SearchInit /\ ArtifactInit
    /\ program # "rails" => setUp = CHOOSE s \in SetUps : TRUE
    /\ program # "search" =>
         /\ verdict = CHOOSE w \in Verdicts : TRUE
         /\ tape = CHOOSE t \in Tapes(verdict) : TRUE

MCNext ==
    /\ \/ program = "rails" /\ Next /\ UNCHANGED <<searchVars, artifactVars>>
       \/ program = "search" /\ SearchNext /\ UNCHANGED <<vars, artifactVars>>
       \/ program = "artifacts" /\ ArtifactNext /\ UNCHANGED <<vars, searchVars>>
    /\ UNCHANGED program

MCSpec ==
    /\ MCInit /\ [][MCNext]_<<program, vars, searchVars, artifactVars>>
    /\ \A w \in Writers : WF_artifactVars(program = "artifacts" /\ PutStep(w))
=============================================================================
