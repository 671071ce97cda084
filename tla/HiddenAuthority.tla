--------------------------- MODULE HiddenAuthority ---------------------------
(***************************************************************************)
(* The hidden evaluation authority of evaluation_hidden/authority_core.py:  *)
(* the threads of a program have it issue one capability and evaluate one   *)
(* set of decisions against the restricted truth, which only its worker, a  *)
(* process of its own (worker_client.py, worker.py), ever opens.            *)
(*                                                                          *)
(* The authority's state is in memory, under a lock that is held for single *)
(* assignments; verification, the artifact store and the worker run outside *)
(* it.  A put of the store is one step here (ArtifactStore has its parts).  *)
(* A call that finds the authority taken raises, changes nothing and has no *)
(* action; the release sequence is always 1 and is left out.                *)
(***************************************************************************)
EXTENDS Integers

CONSTANTS
    Threads,
    MaxHiddenCalls   \* bound: calls of either method

ASSUME HiddenConstants == MaxHiddenCalls \in Nat

VARIABLES
    place,         \* thread -> where its call is
    number,     \* thread -> the number of its call
    calls,      \* calls so far
    issuance,   \* issuance_state
    active,     \* whether the capability exists
    lifecycle,
    frozen,     \* calls whose decisions' freeze receipt is stored
    worker,     \* call -> its worker
    opened,     \* calls whose worker has read the restricted truth
    sealed,     \* calls whose evaluation receipt is stored
    outcomes,   \* calls that returned an outcome
    alive       \* the program

hiddenVars == <<place, number, calls, issuance, active, lifecycle, frozen, worker, opened,
                sealed, outcomes, alive>>

HiddenCalls == 1..MaxHiddenCalls

Running == {"started", "checked", "evaluated", "stored"}

Go(t, to) == place' = [place EXCEPT ![t] = to]

Begins(t, to) ==
    /\ place[t] = "idle"
    /\ calls < MaxHiddenCalls
    /\ calls' = calls + 1
    /\ number' = [number EXCEPT ![t] = calls + 1]
    /\ Go(t, to)
-----------------------------------------------------------------------------
(* freeze_and_issue: taken under the lock, verified outside it. *)
BeginIssue(t) ==
    /\ issuance = "UNISSUED"
    /\ ~active
    /\ Begins(t, "verify")
    /\ issuance' = "ISSUING"
    /\ UNCHANGED <<active, lifecycle, frozen, worker, opened, sealed, outcomes>>

(* No exact attestation, or one that does not verify, or a time before it. *)
RefuseIssue(t) ==
    /\ place[t] = "verify"
    /\ issuance' = "UNISSUED"
    /\ Go(t, "idle")
    /\ UNCHANGED <<number, calls, active, lifecycle, frozen, worker, opened, sealed, outcomes>>

Issue(t) ==
    /\ place[t] = "verify"
    /\ issuance = "ISSUING"
    /\ issuance' = "FROZEN"
    /\ active' = TRUE
    /\ Go(t, "idle")
    /\ UNCHANGED <<number, calls, lifecycle, frozen, worker, opened, sealed, outcomes>>

(* evaluate_hidden_replay *)
Reserve(t) ==
    /\ lifecycle = "READY"
    /\ Begins(t, "check")
    /\ lifecycle' = "RESERVED"
    /\ UNCHANGED <<issuance, active, frozen, worker, opened, sealed, outcomes>>

(* The capability presented is the active one, the attestation still verifies,
   the times are in order and the decisions freeze. *)
Check(t) ==
    /\ place[t] = "check"
    /\ active
    /\ Go(t, "freeze")
    /\ UNCHANGED <<number, calls, issuance, active, lifecycle, frozen, worker, opened,
                   sealed, outcomes>>

FreezeDecisions(t) ==
    /\ place[t] = "freeze"
    /\ frozen' = frozen \cup {number[t]}
    /\ Go(t, "consume")
    /\ UNCHANGED <<number, calls, issuance, active, lifecycle, worker, opened, sealed, outcomes>>

Consume(t) ==
    /\ place[t] = "consume"
    /\ lifecycle = "RESERVED"
    /\ lifecycle' = "CONSUMED"
    /\ Go(t, "launch")
    /\ UNCHANGED <<number, calls, issuance, active, frozen, worker, opened, sealed, outcomes>>

(* invoke: the sources still match the manifest, the worker starts. *)
Launch(t) ==
    /\ place[t] = "launch"
    /\ worker' = [worker EXCEPT ![number[t]] = "started"]
    /\ Go(t, "wait")
    /\ UNCHANGED <<number, calls, issuance, active, lifecycle, frozen, opened, sealed, outcomes>>

(* Mutant: what failed may be tried again. *)
AfterFailureOpen == "READY"

(* The finally: a reservation is never given back. *)
AfterFailure == IF lifecycle = "RESERVED" THEN "CONSUMED" ELSE lifecycle

(* Any refusal or exception before the worker runs. *)
FailHidden(t) ==
    /\ place[t] \in {"check", "freeze", "launch"}
    /\ lifecycle' = AfterFailure
    /\ Go(t, "idle")
    /\ UNCHANGED <<number, calls, issuance, active, frozen, worker, opened, sealed, outcomes>>

(* The worker's output is complete and its proof is that of this call. *)
Answer(t) ==
    /\ place[t] = "wait"
    /\ worker[number[t]] = "replied"
    /\ outcomes' = outcomes \cup {number[t]}
    /\ Go(t, "idle")
    /\ UNCHANGED <<number, calls, issuance, active, lifecycle, frozen, worker, opened, sealed>>

(* Mutant: the client waits for as long as the worker lives. *)
StopWorkerEnded(t) ==
    /\ place[t] = "wait"
    /\ worker[number[t]] \notin Running
    /\ worker' = [worker EXCEPT ![number[t]] = "failed"]
    /\ lifecycle' = AfterFailure
    /\ Go(t, "idle")
    /\ UNCHANGED <<number, calls, issuance, active, frozen, opened, sealed, outcomes>>

(* _collect_bounded: the worker failed, was over a limit, or the deadline is
   seen to have passed, even if the worker has replied by then; its process
   group is killed. *)
StopWorker(t) ==
    /\ place[t] = "wait"
    /\ worker' = [worker EXCEPT ![number[t]] = "failed"]
    /\ lifecycle' = AfterFailure
    /\ Go(t, "idle")
    /\ UNCHANGED <<number, calls, issuance, active, frozen, opened, sealed, outcomes>>
-----------------------------------------------------------------------------
WorkerTo(c, from, to) == worker[c] = from /\ worker' = [worker EXCEPT ![c] = to]

(* _isolated_worker_main: the stored freeze receipt is the one in the request. *)
WorkerChecks(c) ==
    /\ c \in frozen
    /\ WorkerTo(c, "started", "checked")
    /\ UNCHANGED <<opened, sealed>>

WorkerEvaluates(c) ==
    /\ WorkerTo(c, "checked", "evaluated")
    /\ opened' = opened \cup {c}
    /\ UNCHANGED sealed

(* Mutant: the evaluation receipt may be left out. *)
WorkerStoresOrNot(c) ==
    /\ WorkerTo(c, "evaluated", "stored")
    /\ sealed' \in {sealed, sealed \cup {c}}
    /\ UNCHANGED opened

WorkerStores(c) ==
    /\ WorkerTo(c, "evaluated", "stored")
    /\ sealed' = sealed \cup {c}
    /\ UNCHANGED opened

WorkerReplies(c) == WorkerTo(c, "stored", "replied") /\ UNCHANGED <<opened, sealed>>

(* A refusal, an exception or one of the limits it runs under. *)
WorkerGivesUp(c) ==
    /\ worker[c] \in Running
    /\ worker' = [worker EXCEPT ![c] = "failed"]
    /\ UNCHANGED <<opened, sealed>>

(* In a session of its own, the worker outlives the program. *)
WorkerStep ==
    /\ \E c \in HiddenCalls :
          \/ WorkerChecks(c) \/ WorkerEvaluates(c) \/ WorkerStores(c)
          \/ WorkerReplies(c) \/ WorkerGivesUp(c)
    /\ UNCHANGED <<place, number, calls, issuance, active, lifecycle, frozen, outcomes, alive>>

KillProgram ==
    /\ alive
    /\ alive' = FALSE
    /\ UNCHANGED <<place, number, calls, issuance, active, lifecycle, frozen, worker, opened,
                   sealed, outcomes>>

(* What a thread does by itself once it has made a call. *)
HiddenCallStep(t) ==
    /\ alive
    /\ \/ RefuseIssue(t) \/ Issue(t) \/ Check(t) \/ FreezeDecisions(t) \/ Consume(t)
       \/ Launch(t) \/ FailHidden(t) \/ Answer(t) \/ StopWorker(t)
    /\ UNCHANGED alive

HiddenCall(t) ==
    /\ alive
    /\ BeginIssue(t) \/ Reserve(t)
    /\ UNCHANGED alive

HiddenInit ==
    /\ place = [t \in Threads |-> "idle"]
    /\ number = [t \in Threads |-> 0]
    /\ calls = 0
    /\ issuance = "UNISSUED"
    /\ active = FALSE
    /\ lifecycle = "READY"
    /\ frozen = {}
    /\ worker = [c \in HiddenCalls |-> "none"]
    /\ opened = {}
    /\ sealed = {}
    /\ outcomes = {}
    /\ alive = TRUE

HiddenNext ==
    \/ \E t \in Threads : HiddenCall(t) \/ HiddenCallStep(t)
    \/ WorkerStep
    \/ KillProgram

HiddenSpec == HiddenInit /\ [][HiddenNext]_hiddenVars
-----------------------------------------------------------------------------
(* One authority freezes one set of decisions and opens the truth for those
   only, after they are in the store; an outcome returned has its
   evaluation receipt there; and no reservation, of the capability or of the
   evaluation, is left without the thread that will resolve it.  The program
   may be killed, the worker fail, hang or answer late. *)
DecisionsSealed ==
    /\ \A c, d \in frozen : c = d
    /\ \A c, d \in HiddenCalls : worker[c] # "none" /\ worker[d] # "none" => c = d
    /\ opened \subseteq frozen
    /\ outcomes \subseteq sealed
    /\ issuance = "ISSUING" => \E t \in Threads : place[t] = "verify"
    /\ lifecycle = "RESERVED" => \E t \in Threads : place[t] \in {"check", "freeze", "consume"}

(* Every call ends, although its worker may hang, and a reserved authority is
   consumed in the end. *)
HiddenCallsEnd ==
    /\ \A t \in Threads : place[t] # "idle" ~> place[t] = "idle" \/ ~alive
    /\ lifecycle = "RESERVED" ~> lifecycle = "CONSUMED" \/ ~alive
=============================================================================
