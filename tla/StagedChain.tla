----------------------------- MODULE StagedChain -----------------------------
(***************************************************************************)
(* The staged evidence run: scripts/run_defense_v5_kaggle_stage.py executes *)
(* one stage per call, evaluation/v5_staged_evidence.py makes its records,  *)
(* evaluation/v5_checkpoint_storage.py publishes them with the manifest     *)
(* last, and v5_kaggle_independent_verifier.py reads the chain afterwards.  *)
(*                                                                          *)
(* A checkpoint directory has a number, 0 for none, which stands for the    *)
(* digest of its manifest.  Operators put any directories they like under   *)
(* the input root, use any execution manifest and any machine, and their    *)
(* calls fail or are killed anywhere.  The input root does not change while *)
(* a call reads it (it is a read-only mount).                               *)
(***************************************************************************)
EXTENDS Integers, Sequences

CONSTANTS
    Runners,     \* processes that may be told to run the next stage
    Executions,    \* approved execution manifests; each is one attempt
    Machines,      \* runtime environments
    Stages,        \* the stages in their order
    Arms,          \* the number of arms the metric stage evaluates
    MaxRoots,      \* bound: output directories ever used
    MaxFailures    \* bound: failing calls and killed processes

ASSUME StagedConstants ==
    /\ Stages \in Seq({"authorize", "corpus", "features", "arms", "control", "metrics", "finalize"})
    /\ Len(Stages) > 0 /\ Arms \in Nat /\ MaxRoots \in Nat /\ MaxFailures \in Nat
    \* V5KaggleStage: the arms have one stage, and the metrics come after it.
    /\ \A i, j \in 1..Len(Stages) : Stages[i] = "arms" /\ Stages[j] = "arms" => i = j
    /\ \A i \in 1..Len(Stages) : Stages[i] = "metrics" => \E j \in 1..(i - 1) : Stages[j] = "arms"

Roots == 1..MaxRoots
NoDirectory == [link |-> "absent"]
Idle == [at |-> "idle"]

VARIABLES
    root,       \* directory -> what is in it
    call,       \* operator -> its call
    failures

chainVars == <<root, call, failures>>

(* read_v5_checkpoint_manifest: a manifest under one name only, which lists
   what is in the directory. *)
CheckpointReadable(r) == root[r].link = "single" /\ root[r].whole

IndexOf(stage) == CHOOSE i \in 1..Len(Stages) : Stages[i] = stage

Tip(chain) == chain[Len(chain)]

Failing == failures < MaxFailures /\ failures' = failures + 1
-----------------------------------------------------------------------------
Begin(p, execution, machine) ==
    /\ call[p] = Idle
    /\ call' = [call EXCEPT ![p] =
                  [at |-> "reading", execution |-> execution, machine |-> machine,
                   chain |-> <<>>]]
    /\ UNCHANGED <<root, failures>>

(* _read_input_chain, one present stage after the other: the directory under
   the next stage's name holds that stage, after the one read before. *)
ReadInput(p) ==
    /\ call[p].at = "reading"
    /\ LET chain == call[p].chain
       IN  /\ Len(chain) < Len(Stages)
           /\ \E r \in Roots :
                 /\ CheckpointReadable(r)
                 /\ root[r].stage = Len(chain) + 1
                 /\ chain # <<>> => root[r].predecessor = Tip(chain)
                 /\ call' = [call EXCEPT ![p].chain = Append(chain, r)]
    /\ UNCHANGED <<root, failures>>

(* Mutant: any checkpoint of the stage before will do. *)
ContinuesAnyAttempt(chain, execution) == Len(chain) < Len(Stages)

(* The attempt receipt of this execution, its mode included, is that of the
   predecessor; a complete chain has no next stage. *)
Continues(chain, execution) ==
    /\ Len(chain) < Len(Stages)
    /\ chain # <<>> => root[Tip(chain)].execution = execution

(* Any refusal before the output directory is made. *)
Refuse(p) ==
    /\ call[p].at = "reading"
    /\ call' = [call EXCEPT ![p] = Idle]
    /\ UNCHANGED <<root, failures>>

(* execute_next_v5_kaggle_stage up to publish_v5_checkpoint: the capability
   for the stage after the tip, and an output directory that was not there. *)
StartStage(p) ==
    /\ call[p].at = "reading"
    /\ LET chain == call[p].chain
       IN  /\ Continues(chain, call[p].execution)
           /\ \E r \in Roots :
                 /\ root[r] = NoDirectory
                 /\ \A q \in Roots : q < r => root[q] # NoDirectory
                 /\ root' = [root EXCEPT ![r] =
                       [link |-> "none", whole |-> FALSE, stage |-> Len(chain) + 1,
                        execution |-> call[p].execution, machine |-> call[p].machine,
                        predecessor |-> IF chain = <<>> THEN 0 ELSE Tip(chain),
                        from |-> {}, receipts |-> <<>>]]
                 /\ call' = [call EXCEPT ![p] =
                       [at |-> "records", chain |-> chain, out |-> r]]
    /\ UNCHANGED failures

StageOf(p) == Stages[root[call[p].out].stage]

(* The checkpoints a stage derives its records from, found under the input
   root by the names of their stages. *)
Sources(stage, chain) ==
    LET names == CASE stage \in {"authorize", "corpus"} -> {}
                   [] stage \in {"features", "control"} -> {"corpus"}
                   [] stage = "arms" -> {"corpus", "features"}
                   [] stage = "metrics" -> {"arms", "control"}
                   [] stage = "finalize" -> {Stages[i] : i \in 1..Len(chain)}
    IN  {chain[i] : i \in {j \in 1..Len(chain) : Stages[j] \in names}}

(* _run_v5_metric_arm_worker_subprocess: a fresh process per arm, whose receipt
   names the arm and the checkpoint of the arms. *)
WorkerReturns(p) ==
    /\ call[p].at = "records" /\ StageOf(p) = "metrics"
    /\ LET done == root[call[p].out].receipts
       IN  /\ Len(done) < Arms
           /\ root' = [root EXCEPT ![call[p].out].receipts =
                Append(done, [arm |-> Len(done) + 1, source |-> call[p].chain[IndexOf("arms")]])]
    /\ UNCHANGED <<call, failures>>

(* A worker that exits badly, prints something or hands in a receipt that does
   not match ends the stage. *)
WorkerFails(p) ==
    /\ call[p].at = "records" /\ StageOf(p) = "metrics"
    /\ Len(root[call[p].out].receipts) < Arms
    /\ Failing
    /\ call' = [call EXCEPT ![p] = Idle]
    /\ UNCHANGED root

(* Mutant: workers are given all the time they want. *)
StageDeadlineNone(p) == FALSE /\ UNCHANGED chainVars

(* _execute_v5_memory_safe_metric_stage: one deadline for all workers. *)
StageDeadline(p) ==
    /\ call[p].at = "records" /\ StageOf(p) = "metrics"
    /\ Len(root[call[p].out].receipts) < Arms
    /\ call' = [call EXCEPT ![p] = Idle]
    /\ UNCHANGED <<root, failures>>

(* _validate_v5_metric_worker_receipt_set, of the stage's own receipts or, when
   the chain is finalized, of the metric checkpoint. *)
ReceiptsBound(receipts, arms) ==
    /\ Len(receipts) = Arms
    /\ \A i \in 1..Arms : receipts[i] = [arm |-> i, source |-> arms]

(* The records of the stage, in chunks that are written and synced as they
   come, then the observation.  The stage's own look at the lineage of its
   sources comes before the first record. *)
WriteRecords(p) ==
    /\ call[p].at = "records"
    /\ LET chain == call[p].chain
           stage == StageOf(p)
           arms == chain[IndexOf("arms")]
       IN  /\ stage = "metrics" => ReceiptsBound(root[call[p].out].receipts, arms)
           /\ stage = "finalize" => ReceiptsBound(root[Tip(chain)].receipts, arms)
           /\ root' = [root EXCEPT ![call[p].out].whole = TRUE,
                                   ![call[p].out].from = Sources(stage, chain)]
           /\ call' = [call EXCEPT ![p].at = "publish"]
    /\ UNCHANGED failures

(* A stage raises, a resource gate is exceeded, the disk is full: the directory
   stays, without a manifest. *)
StageFails(p) ==
    /\ call[p].at \in {"records", "publish"}
    /\ Failing
    /\ call' = [call EXCEPT ![p] = Idle]
    /\ UNCHANGED root

(* _publish_no_replace: linked from a temporary file, which is then removed. *)
LinkManifest(p) ==
    /\ call[p].at = "publish"
    /\ root' = [root EXCEPT ![call[p].out].link = "double"]
    /\ call' = [call EXCEPT ![p].at = "unlink"]
    /\ UNCHANGED failures

UnlinkTemporary(p) ==
    /\ call[p].at = "unlink"
    /\ root' = [root EXCEPT ![call[p].out].link = "single"]
    /\ call' = [call EXCEPT ![p] = Idle]
    /\ UNCHANGED failures

KillRunner(p) ==
    /\ call[p].at \in {"records", "publish", "unlink"}
    /\ Failing
    /\ call' = [call EXCEPT ![p] = Idle]
    /\ UNCHANGED root

(* What the process does by itself; whether a worker answers is up to it. *)
RunStage(p) ==
    \/ Refuse(p) \/ StartStage(p) \/ WriteRecords(p) \/ LinkManifest(p)
    \/ UnlinkTemporary(p) \/ StageDeadline(p)

ChainInit ==
    /\ root = [r \in Roots |-> NoDirectory]
    /\ call = [p \in Runners |-> Idle]
    /\ failures = 0

ChainNext ==
    \E p \in Runners :
        \/ \E execution \in Executions, machine \in Machines : Begin(p, execution, machine)
        \/ ReadInput(p) \/ RunStage(p) \/ WorkerReturns(p) \/ WorkerFails(p)
        \/ StageFails(p) \/ KillRunner(p)

ChainSpec == ChainInit /\ [][ChainNext]_chainVars

FairChainSpec == ChainSpec /\ \A p \in Runners : WF_chainVars(RunStage(p))
-----------------------------------------------------------------------------
(* The chain that ends in a checkpoint, by the digests in the manifests. *)
ChainOf(r) ==
    LET back[i \in 1..Len(Stages)] ==
          IF i = 1 THEN r
          ELSE IF back[i - 1] = 0 THEN 0 ELSE root[back[i - 1]].predecessor
        depth == CHOOSE i \in 1..Len(Stages) :
                   back[i] # 0 /\ (i = Len(Stages) \/ back[i + 1] = 0)
    IN  [i \in 1..depth |-> back[depth + 1 - i]]

(* verify_v5_kaggle_prefix, and for a complete chain _verify_v5_kaggle_evidence
   with the index of the compact final payload. *)
Verifies(chain) ==
    /\ \A i \in 1..Len(chain) :
         LET checkpoint == root[chain[i]]
         IN  /\ checkpoint.whole
             /\ checkpoint.stage = i
             /\ checkpoint.execution = root[chain[1]].execution
             /\ checkpoint.machine = root[chain[1]].machine
             /\ checkpoint.predecessor = IF i = 1 THEN 0 ELSE chain[i - 1]
             /\ Stages[i] = "metrics" =>
                   ReceiptsBound(checkpoint.receipts, chain[IndexOf("arms")])

(* What is published verifies: every checkpoint with a manifest, whatever the
   operators mixed under the input root and whichever calls died, ends a chain
   of whole checkpoints of one attempt that the independent verifier accepts
   if they were all made on one machine, and its records derive from
   checkpoints of that chain. *)
PublishedVerifies ==
    \A r \in Roots :
        root[r].link \in {"double", "single"} =>
            LET chain == ChainOf(r)
                ancestors == {chain[i] : i \in 1..Len(chain)}
            IN  /\ root[r].from \subseteq ancestors \ {r}
                /\ (\A a \in ancestors : root[a].machine = root[r].machine) => Verifies(chain)

(* A call ends, also when a worker of the metric stage never does. *)
CallsEnd == \A p \in Runners : call[p] # Idle ~> call[p] = Idle
=============================================================================
