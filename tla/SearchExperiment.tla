--------------------------- MODULE SearchExperiment ---------------------------
(***************************************************************************)
(* The red-team search of redteam/search.py, as the replication experiment  *)
(* of scripts/run_task6_holdout.py runs it: one search per family, policy   *)
(* and seed, a negative control, and a verifier that derives every claim    *)
(* from the evidence of the cells (redteam/task6_verifier.py).              *)
(*                                                                          *)
(* The evaluator answers a vector the same way whenever it is asked; its    *)
(* verdicts, and the session the cached planner replays, are chosen         *)
(* initially.  A random draw is a choice.  A candidate's id is its place in *)
(* the history.  Digests, seals and the winner of a search are left out.    *)
(***************************************************************************)
EXTENDS Integers, Sequences, FiniteSets, FiniteSetsExt, SequencesExt

CONSTANTS
    Vectors,       \* feasible parameter vectors
    Default,
    Frontier,      \* boundary vectors one field away from the default, in rank order
    Near,          \* vector -> vectors one to three fields away
    OneField,      \* vector -> those exactly one field away
    Families,      \* target families, in order
    Control,       \* family of the negative control
    Seeds,
    RateFamilies,  \* families measured by the rate of settled value, not by yield
    QueryBudget,        \* proposals, queries and logical time of a search
    WallMs, NsPerMs,
    Verdicts,      \* family -> vector -> feedback, the evaluators considered
    Session(_, _), \* the planner's recorded session on a family, given its verdicts
    MaxNow         \* bound: the clock, in nanoseconds

Trialled == ToSet(Families) \cup {Control}

ASSUME SearchConstants ==
    /\ {WallMs, NsPerMs, MaxNow} \subseteq Nat /\ QueryBudget \in Nat \ {0}
    /\ Families \in Seq(ToSet(Families)) /\ Families # <<>>
    /\ IsInjective(Families) /\ Control \notin ToSet(Families)
    /\ Seeds \in Seq(ToSet(Seeds)) /\ Seeds # <<>>
    /\ Default \in Vectors /\ Frontier \in Seq(Vectors) /\ Near \in [Vectors -> SUBSET Vectors]

(* An evaluator answers every vector, and a recorded session is that of a whole
   search. *)
ASSUME WorldTyped ==
    \A w \in Verdicts :
        /\ \A f \in Trialled, v \in Vectors :
              DOMAIN w[f][v] = {"reason", "value"} /\ w[f][v].value \in Int
        /\ \A f \in ToSet(Families) : \A t \in Session(f, w[f]) :
              /\ t \in Seq(ToSet(t)) /\ Len(t) >= QueryBudget
              /\ \A i \in DOMAIN t :
                    /\ t[i].vector \in Vectors
                    /\ t[i] = [vector |-> t[i].vector, parent |-> t[i].parent,
                               feedback |-> t[i].feedback]

Failures == {"evaluation_failure", "invalid_candidate"}
Tape == "cached_llm"

TargetPolicies == <<"fixed", "random", "adaptive", Tape>>
ControlPolicies == <<"fixed", "random", "adaptive">>

CellsOf(families, policies) ==
    FlattenSeq([f \in DOMAIN families |->
        FlattenSeq([p \in DOMAIN policies |->
            [s \in DOMAIN Seeds |-> [family |-> families[f], policy |-> policies[p]]]])])
Cells == CellsOf(Families, TargetPolicies) \o CellsOf(<<Control>>, ControlPolicies)

VARIABLES
    verdict,    \* family -> vector -> what the evaluator finds
    tape,       \* family -> recorded session: trials the planner was shown and proposed
    nanos,
    cell,       \* number of the cell being searched
    step,       \* of its search
    trials, asked, start, exhausted,  \* its state; asked is the candidate or the trial at hand
    traces,     \* vectors in the trace buffer of the family's evaluator
    audits,     \* planner calls in the audit buffer
    evidence,   \* cells done
    report,     \* what is published, or how the run ended
    lateAnswer, disturbed, earned     \* history variables, see the properties

localVars == <<trials, asked, start, exhausted>>
worldVars == <<verdict, tape>>
ghostVars == <<lateAnswer, disturbed, earned>>
searchVars == <<worldVars, nanos, cell, step, localVars, traces, audits, evidence, report, ghostVars>>

Here == Cells[cell]
Late == nanos >= start + WallMs * NsPerMs

(* The evaluator's value is hidden from the policies in the control. *)
Public(family, feedback) ==
    IF family = Control THEN [feedback EXCEPT !.value = 0] ELSE feedback

Approved(feedback) == feedback.reason = "approved"
Objective(feedback) ==
    4 * feedback.value - (CASE Approved(feedback) -> 0
                            [] feedback.reason = "challenged" -> 1
                            [] OTHER -> 4)
-----------------------------------------------------------------------------
Vector(v, parent) == [vector |-> v, parent |-> parent]
Seen == {trials[i].vector : i \in DOMAIN trials}

(* The best of at most three trials drawn from those that did not fail. *)
Parents ==
    LET eligible == {i \in DOMAIN trials : trials[i].feedback.reason \notin Failures}
        Beats(i, S) == \A j \in S : Objective(trials[j].feedback) <= Objective(trials[i].feedback)
    IN  IF eligible = {} THEN {Len(trials)}
        ELSE {i \in eligible :
                \E S \in SUBSET eligible :
                    /\ i \in S /\ Cardinality(S) = IF Cardinality(eligible) < 3
                                                    THEN Cardinality(eligible) ELSE 3
                    /\ Beats(i, S)}

OrElse(S, T) == IF S # {} THEN S ELSE T

(* The frontier of the default first, then a neighbour of a good trial: not yet
   tried if there is one, one field away if there is one.  The confidence bound
   that ranks the rest is any choice. *)
AdaptiveChoices ==
    LET open == SelectInSeq(Frontier, LAMBDA v : v \notin Seen)
        Of(v) == LET fresh == OrElse(Near[v] \ Seen, Near[v])
                 IN  OrElse(OrElse(fresh \cap OneField[v], fresh), {v})
    IN  IF open # 0
        THEN {Vector(Frontier[open], CHOOSE i \in DOMAIN trials : trials[i].vector = Default)}
        ELSE UNION {{Vector(v, i) : v \in Of(trials[i].vector)} : i \in Parents}

(* The prompt is the whole visible history: the session is replayed as far as
   the history is the recorded one. *)
Replayable(family) ==
    /\ Len(trials) < Len(tape[family])
    /\ trials = SubSeq(tape[family], 1, Len(trials))

Proposals(family, policy) ==
    CASE policy = Tape ->
            IF Replayable(family)
            THEN LET next == tape[family][Len(trials) + 1] IN {Vector(next.vector, next.parent)}
            ELSE {}
      [] policy = "fixed" \/ (policy # Tape /\ trials = <<>>) -> {Vector(Default, Len(trials))}
      [] policy = "random" /\ trials # <<>> -> {Vector(v, Len(trials)) : v \in Vectors}
      [] policy = "adaptive" /\ trials # <<>> -> AdaptiveChoices
-----------------------------------------------------------------------------
(* Time passes between any two reads of the clock. *)
Tick ==
    /\ report = "running" /\ nanos < MaxNow
    /\ nanos' = nanos + 1
    /\ UNCHANGED <<worldVars, cell, step, localVars, traces, audits, evidence, report, ghostVars>>

StartSearch ==
    /\ report = "running" /\ step = "start" /\ cell <= Len(Cells)
    /\ trials' = <<>> /\ start' = nanos /\ exhausted' = FALSE
    /\ step' = "propose"
    /\ UNCHANGED <<worldVars, nanos, cell, asked, traces, audits, evidence, report, ghostVars>>

(* The clock is read before the policy is asked, and again before the candidate
   is evaluated. *)
GiveUp ==
    /\ report = "running"
    /\ \/ step = "propose" /\ Len(trials) < QueryBudget
       \/ step = "evaluate"
    /\ Late
    /\ exhausted' = TRUE /\ disturbed' = TRUE
    /\ step' = "finish"
    /\ UNCHANGED <<worldVars, nanos, cell, trials, asked, start, traces, audits, evidence, report,
                   lateAnswer, earned>>

ProposeNext ==
    /\ report = "running" /\ step = "propose" /\ Len(trials) < QueryBudget
    /\ ~Late
    /\ asked' \in Proposals(Here.family, Here.policy)
    /\ audits' = IF Here.policy = Tape THEN audits + 1 ELSE audits
    /\ step' = "evaluate"
    /\ UNCHANGED <<worldVars, nanos, cell, trials, start, exhausted, traces, evidence, report,
                   ghostVars>>

(* A prompt the session does not have: the policy raises, and the run with it. *)
ReplayMiss ==
    /\ report = "running" /\ step = "propose" /\ Len(trials) < QueryBudget
    /\ ~Late
    /\ Proposals(Here.family, Here.policy) = {}
    /\ audits' = audits + 1
    /\ report' = "aborted"
    /\ disturbed' = (disturbed \/ \E i \in DOMAIN tape[Here.family] :
                        LET t == tape[Here.family][i]
                        IN  t.feedback # Public(Here.family, verdict[Here.family][t.vector]))
    /\ UNCHANGED <<worldVars, nanos, cell, step, localVars, traces, evidence, lateAnswer, earned>>

(* The evaluator runs the candidate and keeps a trace of it; one that raises
   leaves none, and the policy is told of a failure. *)
Evaluate ==
    /\ report = "running" /\ step = "evaluate"
    /\ ~Late
    /\ LET f == Here.family
           found == verdict[f][asked.vector]
           raises == found.reason = "evaluation_failure"
       IN  /\ traces' = IF raises THEN traces ELSE [traces EXCEPT ![f] = Append(@, asked.vector)]
           /\ asked' = [vector |-> asked.vector, parent |-> asked.parent,
                        feedback |-> Public(f, found)]
           /\ earned' = [earned EXCEPT ![<<f, Here.policy>>] =
                            [asked |-> @.asked + 1,
                             approved |-> @.approved + (IF Approved(found) THEN 1 ELSE 0),
                             value |-> @.value + (IF Approved(found) THEN found.value ELSE 0)]]
           /\ disturbed' = (disturbed \/ raises)
    /\ step' = "record"
    /\ UNCHANGED <<worldVars, nanos, cell, trials, start, exhausted, audits, evidence, report,
                   lateAnswer>>

Record ==
    /\ report = "running" /\ step = "record"
    /\ trials' = Append(trials, asked)
    /\ exhausted' = (Late /\ Len(trials) + 1 < QueryBudget)
    /\ step' = IF exhausted' THEN "finish" ELSE "propose"
    /\ lateAnswer' = (lateAnswer \/ Late)
    /\ disturbed' = (disturbed \/ Late)
    /\ UNCHANGED <<worldVars, nanos, cell, asked, start, traces, audits, evidence, report, earned>>

(* Mutant: a search is exhausted only if its loop was left early. *)
ExhaustedInLoop == exhausted

Exhausted == exhausted \/ Late

(* Full milliseconds; the part of one that is over the limit counts as one. *)
ElapsedMs ==
    LET ns == nanos - start
        ms == ns \div NsPerMs
    IN  IF ns > WallMs * NsPerMs /\ ms = WallMs THEN ms + 1 ELSE ms

Approvals == {i \in DOMAIN trials : Approved(trials[i].feedback)}

(* Mutant: the buffer is read and left as it is. *)
DrainedNot(buffer) == buffer

Drained(buffer) == <<>>

(* The search ends, and its cell is built from the result and the two buffers:
   there must be one trace for each trial. *)
FinishCell ==
    /\ report = "running"
    /\ \/ step = "propose" /\ Len(trials) = QueryBudget
       \/ step = "finish"
    /\ disturbed' = (disturbed \/ Late)
    /\ traces' = [traces EXCEPT ![Here.family] = Drained(@)]
    /\ audits' = IF Here.policy = Tape THEN 0 ELSE audits
    /\ IF Len(traces[Here.family]) # Len(trials)
       THEN report' = "aborted" /\ UNCHANGED <<cell, step, evidence>>
       ELSE /\ evidence' = Append(evidence,
                  [used |-> Len(trials),
                   approved |-> Cardinality(Approvals),
                   value |-> SumFunctionOnSet([i \in DOMAIN trials |-> trials[i].feedback.value],
                                             Approvals),
                   exhausted |-> Exhausted,
                   overrun |-> IF ElapsedMs > WallMs THEN ElapsedMs - WallMs ELSE 0,
                   traced |-> \A i \in DOMAIN trials :
                                 traces[Here.family][i] = trials[i].vector,
                   attempts |-> audits])
            /\ cell' = cell + 1
            /\ step' = "start"
            /\ UNCHANGED report
    /\ trials' = <<>> /\ asked' = Vector(Default, 0) /\ start' = nanos /\ exhausted' = FALSE
    /\ UNCHANGED <<worldVars, nanos, lateAnswer, earned>>
-----------------------------------------------------------------------------
CellsFor(family, policy) ==
    {i \in DOMAIN evidence : Cells[i] = [family |-> family, policy |-> policy]}

Used(family, policy) ==
    SumFunctionOnSet([i \in DOMAIN evidence |-> evidence[i].used], CellsFor(family, policy))
ApprovedCount(family, policy) ==
    SumFunctionOnSet([i \in DOMAIN evidence |-> evidence[i].approved], CellsFor(family, policy))
NetValue(family, policy) ==
    SumFunctionOnSet([i \in DOMAIN evidence |-> evidence[i].value], CellsFor(family, policy))

(* At least 0.10 more, of the value settled or of the proposals approved. *)
Improves(family, a, r) ==
    IF family \in RateFamilies
    THEN IF r.value = 0 THEN a.value # 0 ELSE 10 * (a.value - r.value) >= r.value
    ELSE 10 * (a.approved * r.asked - r.approved * a.asked) >= a.asked * r.asked

Aggregate(family, policy) ==
    [asked |-> Used(family, policy), approved |-> ApprovedCount(family, policy),
     value |-> NetValue(family, policy)]

(* verify_search_cell, for one cell. *)
CellVerified(i) ==
    /\ evidence[i].traced
    /\ evidence[i].attempts = IF Cells[i].policy = Tape THEN evidence[i].used ELSE 0

(* Mutant: cells that ran out of time count as matched. *)
MatchedRegardless == \A i \in DOMAIN evidence : evidence[i].used = QueryBudget

Matched ==
    \A i \in DOMAIN evidence :
        ~evidence[i].exhausted /\ evidence[i].overrun = 0 /\ evidence[i].used = QueryBudget

ControlFlat ==
    LET a == Aggregate(Control, "adaptive")
        r == Aggregate(Control, "random")
    IN  a.approved * r.asked = r.approved * a.asked

Supported == {f \in ToSet(Families) :
                Improves(f, Aggregate(f, "adaptive"), Aggregate(f, "random"))}

MoreValue ==
    SumFunction([f \in ToSet(Families) |-> NetValue(f, "adaptive")])
        > SumFunction([f \in ToSet(Families) |-> NetValue(f, "random")])

CriterionMet == Matched /\ ControlFlat /\ Supported = ToSet(Families) /\ MoreValue

(* capability_delta_report: what the process that ran the targets may report of
   them, that all families are supported and the adaptive claim with them. *)
LiveReport ==
    LET targets == {i \in DOMAIN evidence : Cells[i].family # Control} IN
    IF \E i \in targets :
          evidence[i].used # QueryBudget \/ evidence[i].exhausted \/ evidence[i].overrun # 0
    THEN "refused"
    ELSE IF Supported = ToSet(Families) /\ MoreValue THEN "supported" ELSE "not supported"

(* The bundle is built and verified, then published: every cell must verify, and
   every cell have spent its whole budget. *)
PublishClaim ==
    /\ report = "running" /\ step = "start" /\ cell > Len(Cells)
    /\ report' =
         IF /\ audits = 0
            /\ \A i \in DOMAIN evidence : CellVerified(i)
            /\ SumFunction([i \in DOMAIN evidence |-> evidence[i].used]) = Len(Cells) * QueryBudget
         THEN IF CriterionMet THEN "criterion met" ELSE "criterion not met"
         ELSE "aborted"
    /\ UNCHANGED <<worldVars, nanos, cell, step, localVars, traces, audits, evidence, ghostVars>>

Tapes(found) ==
    {t \in [ToSet(Families) -> UNION {Session(f, found[f]) : f \in ToSet(Families)}] :
        \A f \in ToSet(Families) : t[f] \in Session(f, found[f])}

SearchInit ==
    /\ verdict \in Verdicts
    /\ tape \in Tapes(verdict)
    /\ nanos = 0
    /\ cell = 1 /\ step = "start"
    /\ trials = <<>> /\ asked = Vector(Default, 0) /\ start = 0 /\ exhausted = FALSE
    /\ traces = [f \in Trialled |-> <<>>]
    /\ audits = 0
    /\ evidence = <<>>
    /\ report = "running"
    /\ lateAnswer = FALSE /\ disturbed = FALSE
    /\ earned = [c \in Trialled \X ToSet(TargetPolicies) |->
                    [asked |-> 0, approved |-> 0, value |-> 0]]

SearchNext ==
    \/ Tick
    \/ StartSearch \/ GiveUp \/ ProposeNext \/ ReplayMiss \/ Evaluate \/ Record \/ FinishCell
    \/ PublishClaim

SearchSpec == SearchInit /\ [][SearchNext]_searchVars
-----------------------------------------------------------------------------
InTime == ~lateAnswer

(* A published claim that the criterion is met is true of what the evaluators
   found, not only of what was written down: every answer came before the
   deadline of its search, adaptive search did better than random search by the
   preregistered margin on every family with the same number of questions, and
   not at all better on the control.  The process that ran it says the same. *)
ClaimHonest ==
    report = "criterion met" =>
        /\ InTime
        /\ \A f \in ToSet(Families) :
              /\ earned[f, "adaptive"].asked = Len(Seeds) * QueryBudget
              /\ earned[f, "random"].asked = Len(Seeds) * QueryBudget
              /\ Improves(f, earned[f, "adaptive"], earned[f, "random"])
        /\ earned[Control, "adaptive"].approved = earned[Control, "random"].approved
        /\ LiveReport = "supported"

(* A run that nothing disturbs is never lost: if no deadline passed, no evaluator
   raised, and the recorded session is of these evaluators, a result is published,
   whatever the policies drew. *)
UndisturbedPublishes == report = "aborted" => disturbed
=============================================================================
