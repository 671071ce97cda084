------------------------------ MODULE MCDefense ------------------------------
(***************************************************************************)
(* The defence: what it observes, and how it is released.                   *)
(*                                                                          *)
(* Two consumers of observed events: the feature state, with the events of  *)
(* MCFeatureState, and the cases an analyst gets.  The observations of the  *)
(* cases: parties that share an actor, a counterparty or only a bridge,     *)
(* bridges available when a decision is made and just after it, decisions   *)
(* that are made late, two at one instant, and cases opened at different    *)
(* times that are joined afterwards.                                        *)
(*                                                                          *)
(* Two kinds of command: those that provision the signing keys, and those   *)
(* that lead from the runs to the published evaluation.                     *)
(***************************************************************************)
EXTENDS MCFeatureState, CaseQueue, AuthorityProvisioning, DefenseWorkflow, TLC

CONSTANTS p1, p2, p3, good, edited, poor

Observed(id, at, decide, actor, counterparty, score) ==
    [id |-> id, at |-> at, decide |-> decide, actor |-> actor,
     counterparty |-> counterparty, score |-> score]

MCRows ==
    {Observed(1, 1, 0, 1, 12, 0), Observed(2, 1, 1, 1, 11, 1), Observed(3, 1, 1, 2, 12, 0),
     Observed(4, 1, 2, 2, 11, 0), Observed(5, 2, 0, 1, 13, 0), Observed(6, 2, 2, 3, 13, 1),
     Observed(8, 1, 3, 1, 12, 0), Observed(9, 4, 4, 1, 13, 0), Observed(10, 5, 5, 2, 11, 0)}

(* Another order than that of the row ids. *)
MCDigestRank == [i \in 1..10 |-> (4 * i) % 11]

MCConfigs ==
    {[analysts |-> 1, service |-> 2, bucket |-> 2],
     [analysts |-> 2, service |-> 2, bucket |-> 4],
     [analysts |-> 2, service |-> 1, bucket |-> 3]}
MCOften ==
    [generate |-> 1, build |-> 1, train |-> 2, prepare |-> 2, release |-> 2]
-----------------------------------------------------------------------------
VARIABLE part      \* "features", "cases", "keys" or "release"; fixed

MCInit ==
    /\ FeatureInit /\ CaseInit /\ ProvisionInit /\ WorkflowInit
    /\ part \in {"features", "cases", "keys", "release"}

MCNext ==
    /\ \/ part = "features" /\ FeatureNext /\ UNCHANGED <<caseVars, provisionVars, workflowVars>>
       \/ part = "cases" /\ CaseNext /\ UNCHANGED <<featureVars, provisionVars, workflowVars>>
       \/ part = "keys" /\ ProvisionNext /\ UNCHANGED <<featureVars, caseVars, workflowVars>>
       \/ part = "release" /\ WorkflowNext /\ UNCHANGED <<featureVars, caseVars, provisionVars>>
    /\ UNCHANGED part

MCSpec ==
    MCInit /\ [][MCNext]_<<part, featureVars, caseVars, provisionVars, workflowVars>>
=============================================================================
