----------------------------- MODULE MCAttempts -----------------------------
(***************************************************************************)
(* The programs that may run an attempt: the locked run with two processes, *)
(* the confirmatory run as it is meant to be used - one process at a time,  *)
(* killed anywhere and started again - and the staged run with two.  They   *)
(* share nothing; an execution is about one of them.                        *)
(***************************************************************************)
EXTENDS LockedAttempt, ConfirmatoryAttempt, StagedChain

CONSTANTS p1, p2

(* A shorter list of stages, in the same order: what the metric stage derives
   from, the metric stage with its workers, and the stage that closes the chain.
   The stages before do what "arms" does with fewer checkpoints. *)
MCStages == <<"arms", "metrics", "finalize">>

VARIABLE program   \* "locked", "confirmatory" or "staged"; fixed

MCInit ==
    /\ program \in {"locked", "confirmatory", "staged"}
    /\ Init
    /\ ConfirmatoryInit
    /\ ChainInit

MCNext ==
    /\ \/ program = "locked" /\ Next /\ UNCHANGED <<confirmatoryVars, chainVars>>
       \/ program = "confirmatory" /\ ConfirmatoryNext /\ UNCHANGED <<vars, chainVars>>
       \/ program = "staged" /\ ChainNext /\ UNCHANGED <<vars, confirmatoryVars>>
    /\ UNCHANGED program

MCSpec ==
    /\ MCInit
    /\ [][MCNext]_<<program, vars, confirmatoryVars, chainVars>>
    /\ \A p \in Runners : WF_chainVars(RunStage(p))
=============================================================================
