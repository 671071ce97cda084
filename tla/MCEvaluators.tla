----------------------------- MODULE MCEvaluators -----------------------------
(***************************************************************************)
(* The two programs that hold an evaluator's capability and leave the work  *)
(* to a process of its own: the evaluation service, and the authority of    *)
(* the hidden evaluation.  They share nothing; an execution is about one.   *)
(***************************************************************************)
EXTENDS MCEvaluationService, HiddenAuthority

VARIABLE program   \* "service" or "hidden"; fixed

(* The program was killed and its worker has come to an end. *)
HiddenOver ==
    /\ ~alive
    /\ \A c \in HiddenCalls : worker[c] \notin Running
    /\ UNCHANGED hiddenVars

MCInit == program \in {"service", "hidden"} /\ Init /\ HiddenInit

MCNext ==
    /\ \/ program = "service" /\ Next /\ UNCHANGED hiddenVars
       \/ program = "hidden" /\ (HiddenNext \/ HiddenOver) /\ UNCHANGED vars
    /\ UNCHANGED program

MCSpec ==
    /\ MCInit
    /\ [][MCNext]_<<program, vars, hiddenVars>>
    /\ \A p \in Processes : WF_vars(Holding(p))
    /\ \A t \in Threads : WF_hiddenVars(HiddenCallStep(t))

(* Neither program waits for a worker that never ends: the lock of the service
   is released, and a call of the authority returns. *)
WorkersBounded == LockReleased /\ HiddenCallsEnd
=============================================================================
