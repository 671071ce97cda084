----------------------------- MODULE RunService -----------------------------
(***************************************************************************)
(* The run service of runs/runner.py: processes that share a signing key,   *)
(* an artifact store and an append-only index answer requests for runs.  A  *)
(* run stores its inputs, asks a fresh worker for each proposal, stores its *)
(* outputs and a signed manifest, and is published in the index.            *)
(*                                                                          *)
(* The artifacts are in a ContentStore.  A run is what its manifest depends *)
(* on: the request, the signing key, and the commit and tree of the         *)
(* sources it was executed under; its id is of the request and the key      *)
(* alone.  What is executed is deterministic.  Keys are numbers, 0 is none. *)
(***************************************************************************)
EXTENDS Integers, FiniteSets

CONSTANTS
    Processes,
    Requests,      \* scenario and policy asked for
    Budget,        \* proposals of a policy
    MaxKeys,       \* bound: keys, enough for one that is fresh whenever one is generated
    MaxCommits,    \* bound: changes of the sources
    MaxFaults,     \* bound: killed processes and power losses
    NoRun

ASSUME RunConstants ==
    Budget \in Nat /\ {MaxKeys, MaxCommits, MaxFaults} \subseteq Nat

VARIABLES
    key, keyDisk,      \* the key file, and as last synced
    head, tree,        \* commit of the sources, and what the inventory of them says
    stored, safe,      \* the artifact store, see ContentStore
    index, indexDisk,  \* runs published, and as last synced
    proc,              \* process -> the key it has in memory, and what its call is doing
    answered, durable, \* runs answered; those whose files had all been synced
    kills, losses

keyVars == <<key, keyDisk>>
sourceVars == <<head, tree>>
artifactVars == <<stored, safe>>
indexVars == <<index, indexDisk>>
answerVars == <<answered, durable>>
boundVars == <<kills, losses>>
vars == <<keyVars, sourceVars, artifactVars, indexVars, proc, answerVars, boundVars>>

Runs == [request : Requests, signer : 1..MaxKeys, head : 0..MaxCommits, tree : 0..MaxCommits]

(* What a call puts into the store: the inputs with their provenance and the
   authorization; the outputs with the completion, whose receipt names the
   authorization's and so the provenance; and the manifest. *)
Stages == {"inputs", "outputs", "manifest"}
Artifact(s, r) == <<s, r>>
Artifacts(r) == {Artifact(s, r) : s \in Stages}

Store == INSTANCE ContentStore WITH
    Payloads <- UNION {Artifacts(r) : r \in Runs},
    MediaTypes <- {"application/json"},
    returned <- {}

(* A process: the run of its call, what it is about to store, the proposals it
   has had, and whether it is this call that stored the last artifact. *)
Ready(k) == [pc |-> "up", signer |-> k, run |-> NoRun, stage |-> "inputs", audits |-> 0,
             wrote |-> FALSE]
Down == [Ready(0) EXCEPT !.pc = "down"]

At(p, where) == proc[p].pc = where
Goto(p, next) == proc' = [proc EXCEPT ![p].pc = next]
Return(p) == proc' = [proc EXCEPT ![p] = Ready(proc[p].signer)]

(* A key is generated at random: it is none that was ever used. *)
Fresh(k) ==
    /\ k \notin {key, keyDisk} \cup {proc[p].signer : p \in Processes}
    /\ \A r \in Runs : r.signer = k =>
          r \notin answered /\ Artifacts(r) \cap DOMAIN stored = {}
-----------------------------------------------------------------------------
(* load_or_create: the key is there. *)
ReadKey(p) ==
    /\ At(p, "down") /\ key # 0
    /\ proc' = [proc EXCEPT ![p] = Ready(key)]
    /\ UNCHANGED <<keyVars, sourceVars, artifactVars, indexVars, answerVars, boundVars>>

GenerateKey(p) ==
    /\ At(p, "down") /\ key = 0
    /\ \E k \in 1..MaxKeys :
          /\ Fresh(k) /\ \A j \in 1..(k - 1) : ~Fresh(j)
          /\ proc' = [proc EXCEPT ![p] = [Ready(k) EXCEPT !.pc = "publish key"]]
    /\ UNCHANGED <<keyVars, sourceVars, artifactVars, indexVars, answerVars, boundVars>>

(* The rename does not replace a key that was published meanwhile. *)
PublishKey(p) ==
    /\ At(p, "publish key")
    /\ key' = IF key = 0 THEN proc[p].signer ELSE key
    /\ Goto(p, "sync key")
    /\ UNCHANGED <<keyDisk, sourceVars, artifactVars, indexVars, answerVars, boundVars>>

(* Mutant: the key that was generated is used, whoever's is published. *)
SyncKeyNotRead(p) ==
    /\ At(p, "sync key")
    /\ keyDisk' = key
    /\ Goto(p, "up")
    /\ UNCHANGED <<key, sourceVars, artifactVars, indexVars, answerVars, boundVars>>

(* The directory is synced in any case, and the winner's key read. *)
SyncKey(p) ==
    /\ At(p, "sync key")
    /\ keyDisk' = key
    /\ proc' = [proc EXCEPT ![p] = Ready(key)]
    /\ UNCHANGED <<key, sourceVars, artifactVars, indexVars, answerVars, boundVars>>
-----------------------------------------------------------------------------
(* execute: the provenance of the sources is taken. *)
Execute(p, request) ==
    /\ At(p, "up")
    /\ proc' = [proc EXCEPT ![p].pc = "put",
                            ![p].run = [request |-> request, signer |-> proc[p].signer,
                                        head |-> head, tree |-> tree]]
    /\ UNCHANGED <<keyVars, sourceVars, artifactVars, indexVars, answerVars, boundVars>>

Payload(p) == Artifact(proc[p].stage, proc[p].run)

AfterPut == [inputs |-> "search", outputs |-> "verify", manifest |-> "publish"]
PutDone(p, wrote) ==
    proc' = [proc EXCEPT ![p].pc = AfterPut[proc[p].stage], ![p].wrote = wrote]

(* What was stored before is not synced again. *)
PutFound(p) ==
    /\ At(p, "put") /\ Payload(p) \in DOMAIN stored
    /\ PutDone(p, FALSE)
    /\ UNCHANGED <<keyVars, sourceVars, artifactVars, indexVars, answerVars, boundVars>>

PutNew(p) ==
    /\ At(p, "put")
    /\ Store!Add(Payload(p), "application/json")
    /\ Goto(p, "sync")
    /\ UNCHANGED <<keyVars, sourceVars, indexVars, answerVars, boundVars>>

PutSync(p) ==
    /\ At(p, "sync")
    /\ Store!Secure
    /\ PutDone(p, TRUE)
    /\ UNCHANGED <<keyVars, sourceVars, indexVars, answerVars, boundVars>>

(* propose: a worker answers with a candidate. *)
Propose(p) ==
    /\ At(p, "search") /\ proc[p].audits < Budget
    /\ proc' = [proc EXCEPT ![p].audits = @ + 1]
    /\ UNCHANGED <<keyVars, sourceVars, artifactVars, indexVars, answerVars, boundVars>>

(* Mutant: a worker is given any time it takes. *)
WorkerDeadlineNone(p) == FALSE /\ UNCHANGED vars

(* It fails, answers what is refused, or is killed at its deadline. *)
WorkerDeadline(p) ==
    /\ At(p, "search") /\ proc[p].audits < Budget
    /\ Return(p)
    /\ UNCHANGED <<keyVars, sourceVars, artifactVars, indexVars, answerVars, boundVars>>

Complete(p) ==
    /\ At(p, "search") /\ proc[p].audits = Budget
    /\ proc' = [proc EXCEPT ![p].pc = "put", ![p].stage = "outputs"]
    /\ UNCHANGED <<keyVars, sourceVars, artifactVars, indexVars, answerVars, boundVars>>

(* verify_run: inputs and outputs are there, signed by the key in memory, and
   the sources are what they were, except for the commit. *)
Verified(p) ==
    LET r == proc[p].run IN
    /\ r.signer = proc[p].signer
    /\ r.tree = tree
    /\ {Artifact("inputs", r), Artifact("outputs", r)} \subseteq DOMAIN stored

Verify(p) ==
    /\ At(p, "verify")
    /\ IF Verified(p)
       THEN proc' = [proc EXCEPT ![p].pc = "put", ![p].stage = "manifest"]
       ELSE Return(p)
    /\ UNCHANGED <<keyVars, sourceVars, artifactVars, indexVars, answerVars, boundVars>>

SameId(r, s) == r.request = s.request /\ r.signer = s.signer
Taken(r) == {s \in index : SameId(r, s)}

(* Mutant: the rename replaces what is published under the id. *)
PublishReplacing(p) ==
    /\ At(p, "publish")
    /\ index' = (index \ Taken(proc[p].run)) \cup {proc[p].run}
    /\ Goto(p, "sync index")
    /\ UNCHANGED <<keyVars, sourceVars, artifactVars, indexDisk, answerVars, boundVars>>

(* _publish_index: the first manifest of an id stays. *)
Publish(p) ==
    /\ At(p, "publish")
    /\ index' = index \cup {r \in {proc[p].run} : Taken(r) = {}}
    /\ Goto(p, "sync index")
    /\ UNCHANGED <<keyVars, sourceVars, artifactVars, indexDisk, answerVars, boundVars>>

(* The directory is synced in any case; another manifest there is a collision. *)
SyncIndex(p) ==
    /\ At(p, "sync index")
    /\ indexDisk' = index
    /\ IF proc[p].run \in index THEN Goto(p, "view") ELSE Return(p)
    /\ UNCHANGED <<keyVars, sourceVars, artifactVars, index, answerVars, boundVars>>

(* public_view: verified once more, then answered. *)
View(p) ==
    /\ At(p, "view")
    /\ Return(p)
    /\ answered' = answered \cup {r \in {proc[p].run} : Verified(p)}
    /\ durable' = durable \cup {r \in {proc[p].run} :
                                  Verified(p) /\ proc[p].wrote /\ keyDisk = r.signer}
    /\ UNCHANGED <<keyVars, sourceVars, artifactVars, indexVars, boundVars>>
-----------------------------------------------------------------------------
(* The sources are committed to, and what the inventory covers may change. *)
Commit ==
    /\ head < MaxCommits
    /\ head' = head + 1
    /\ tree' \in {tree, head'}
    /\ UNCHANGED <<keyVars, artifactVars, indexVars, proc, answerVars, boundVars>>

Kill(p) ==
    /\ ~At(p, "down") /\ kills + losses < MaxFaults
    /\ kills' = kills + 1
    /\ proc' = [proc EXCEPT ![p] = Down]
    /\ UNCHANGED <<keyVars, sourceVars, artifactVars, indexVars, answerVars, losses>>

(* What is not synced may be lost. *)
PowerLoss ==
    /\ kills + losses < MaxFaults
    /\ losses' = losses + 1
    /\ proc' = [p \in Processes |-> Down]
    /\ key' \in {key, keyDisk} /\ keyDisk' = key'
    /\ \E kept \in SUBSET DOMAIN stored : Store!Lose(kept)
    /\ \E kept \in SUBSET index : indexDisk \subseteq kept /\ index' = kept
    /\ indexDisk' = index'
    /\ UNCHANGED <<sourceVars, answerVars, kills>>

Init ==
    /\ key = 0 /\ keyDisk = 0
    /\ head = 0 /\ tree = 0
    /\ stored = <<>> /\ safe = {}
    /\ index = {} /\ indexDisk = {}
    /\ proc = [p \in Processes |-> Down]
    /\ answered = {} /\ durable = {}
    /\ kills = 0 /\ losses = 0

(* What a process does once it has been asked for a run. *)
Proceed(p) ==
    \/ PutFound(p) \/ PutNew(p) \/ PutSync(p)
    \/ WorkerDeadline(p) \/ Complete(p)
    \/ Verify(p) \/ Publish(p) \/ SyncIndex(p) \/ View(p)

Next ==
    \/ \E p \in Processes :
          \/ ReadKey(p) \/ GenerateKey(p) \/ PublishKey(p) \/ SyncKey(p)
          \/ \E r \in Requests : Execute(p, r)
          \/ Proceed(p) \/ Propose(p) \/ Kill(p)
    \/ Commit \/ PowerLoss

Spec == Init /\ [][Next]_vars

(* A call that is not killed goes on, and a worker's time runs out. *)
FairSpec == Spec /\ \A p \in Processes : WF_vars(Proceed(p))
-----------------------------------------------------------------------------
(* get(run_id): the one entry of the id is the run, its artifacts are there, and
   a process that has the key of the directory verifies it. *)
Gettable(r) ==
    /\ Taken(r) = {r}
    /\ Artifacts(r) \subseteq DOMAIN stored
    /\ key = r.signer

(* A run that was answered can be had from every process as long as the sources
   it was executed under are there: whatever ran at the same time, was executed
   again under a later commit, started with a key of its own, or was killed.
   After a power loss this holds for the runs whose files had been synced. *)
AnsweredRunsLoad == \A r \in answered : losses = 0 \/ r \in durable => Gettable(r)

(* A request ends, also when a worker hangs: answered, refused, or killed. *)
ExecuteEnds == \A p \in Processes : proc[p].run # NoRun ~> proc[p].run = NoRun
=============================================================================
