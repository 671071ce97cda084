------------------------ MODULE ConfirmatoryAttempt ------------------------
(***************************************************************************)
(* The confirmatory run of scripts/run_defense_v4_confirmatory.py over the  *)
(* receipt of evaluation/v3_receipt.py (which the v3 runner uses the same   *)
(* way): look for a receipt, put one there, score the arms, write four      *)
(* artifacts, put the final receipt in its place.                           *)
(*                                                                          *)
(* The receipt is moved into place by a rename that asks nothing.  Calls    *)
(* carry a number, 0 for none; the pre-execution checks and the approval    *)
(* token are satisfied.                                                     *)
(***************************************************************************)
EXTENDS Integers

CONSTANTS
    Operators,     \* processes that may be told to run it
    Artifacts,     \* the number of files a run publishes
    MaxRuns,       \* bound: calls of the script
    MaxKills       \* bound: killed processes

ASSUME ConfirmatoryConstants ==
    /\ Artifacts \in Nat \ {0} /\ MaxRuns \in Nat /\ MaxKills \in Nat

NoReceipt == [run |-> 0, status |-> "none"]

VARIABLES
    phase,      \* process -> where its call is
    run,        \* process -> the number of its call
    runs,       \* calls so far
    receipt,    \* execution-receipt.json
    files,      \* artifact -> the call that wrote it last
    scored,     \* calls that have begun to score the arms
    kills

confirmatoryVars == <<phase, run, runs, receipt, files, scored, kills>>

Proceed(p, to) == phase' = [phase EXCEPT ![p] = to]

(* write_receipt_atomically: a synced temporary file, then os.replace. *)
PutReceipt(p, status) ==
    receipt' = [run |-> run[p], status |-> status]

(* create_v4_receipt: has_receipt says no. *)
LookForReceipt(p) ==
    /\ phase[p] = "idle"
    /\ runs < MaxRuns
    /\ receipt = NoReceipt
    /\ runs' = runs + 1
    /\ run' = [run EXCEPT ![p] = runs + 1]
    /\ Proceed(p, "create")
    /\ UNCHANGED <<receipt, files, scored, kills>>

CreateReceipt(p) ==
    /\ phase[p] = "create"
    /\ PutReceipt(p, "running")
    /\ Proceed(p, "score")
    /\ UNCHANGED <<run, runs, files, scored, kills>>

(* Mutant: a call that failed to score leaves no receipt behind. *)
ScoreArmsOrForget(p) ==
    /\ phase[p] = "score"
    /\ scored' = scored \cup {run[p]}
    /\ \/ Proceed(p, "publish") /\ UNCHANGED receipt
       \/ Proceed(p, "idle") /\ receipt' = NoReceipt
    /\ UNCHANGED <<run, runs, files, kills>>

(* execute_v4_arms: the sealed population is scored; it may raise. *)
ScoreArms(p) ==
    /\ phase[p] = "score"
    /\ scored' = scored \cup {run[p]}
    /\ \/ Proceed(p, "publish") \/ Proceed(p, "failed")
    /\ UNCHANGED <<run, runs, receipt, files, kills>>

(* Mutant: the verdict is put on the receipt when the first file is written. *)
PublishArtifactEarly(p) ==
    /\ phase[p] = "publish"
    /\ files' = [files EXCEPT ![1] = run[p]]
    /\ Proceed(p, "finalize")
    /\ UNCHANGED <<run, runs, receipt, scored, kills>>

(* The files of the rendered card, one after the other; a write may raise. *)
PublishArtifact(p) ==
    /\ phase[p] = "publish"
    /\ \/ \E i \in 1..Artifacts :
             /\ files[i] # run[p]
             /\ \A j \in 1..(i - 1) : files[j] = run[p]
             /\ files' = [files EXCEPT ![i] = run[p]]
             /\ Proceed(p, IF i = Artifacts THEN "finalize" ELSE "publish")
       \/ Proceed(p, "failed") /\ UNCHANGED files
    /\ UNCHANGED <<run, runs, receipt, scored, kills>>

(* finalize_v4_receipt.  No arm ever passes: project_gate_evidence reports no
   calibration error and no time to alert, so that the verdict of
   from_gate_results is always no_promotion. *)
Finalize(p) ==
    /\ \/ phase[p] = "finalize" /\ PutReceipt(p, "no_promotion")
       \/ phase[p] = "failed" /\ PutReceipt(p, "failed")
    /\ Proceed(p, "idle")
    /\ UNCHANGED <<run, runs, files, scored, kills>>

KillOperator(p) ==
    /\ phase[p] # "idle"
    /\ kills < MaxKills
    /\ kills' = kills + 1
    /\ Proceed(p, "idle")
    /\ UNCHANGED <<run, runs, receipt, files, scored>>

ConfirmatoryInit ==
    /\ phase = [p \in Operators |-> "idle"]
    /\ run = [p \in Operators |-> 0]
    /\ runs = 0
    /\ receipt = NoReceipt
    /\ files = [i \in 1..Artifacts |-> 0]
    /\ scored = {}
    /\ kills = 0

ConfirmatoryNext ==
    \E p \in Operators :
        \/ LookForReceipt(p) \/ CreateReceipt(p) \/ ScoreArms(p) \/ PublishArtifact(p)
        \/ Finalize(p) \/ KillOperator(p)

ConfirmatorySpec == ConfirmatoryInit /\ [][ConfirmatoryNext]_confirmatoryVars
-----------------------------------------------------------------------------
(* "Durable record that the one permitted v3 confirmatory attempt was
   consumed": the sealed population is scored by one call at most. *)
ScoredOnce == \A a, b \in scored : a = b

(* A verdict on the receipt is backed by the files of the same call, all of
   them, and no receipt stands for a call that never scored. *)
VerdictBacked ==
    receipt.status = "no_promotion" =>
        /\ receipt.run \in scored
        /\ \A i \in 1..Artifacts : files[i] = receipt.run

(* The receipt tells what happened: one call scored, and a verdict is that call's. *)
ReceiptStands == ScoredOnce /\ VerdictBacked
=============================================================================
