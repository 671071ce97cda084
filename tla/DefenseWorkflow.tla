--------------------------- MODULE DefenseWorkflow ---------------------------
(***************************************************************************)
(* The release of a defence by the command lines of                         *)
(* src/apar/defense/orchestration.py: generate the runs, build the corpus,  *)
(* train the defender, prepare the hidden context, evaluate in development, *)
(* evaluate on the hidden context and release.  The commands share no lock: *)
(* they find each other's results as files in three directories and in the  *)
(* artifact store, and publish their own one by one, never replacing one    *)
(* and syncing the directory after each.  Several operators run commands at *)
(* once; a command may fail or be killed anywhere, and the machine may lose *)
(* its power.                                                               *)
(*                                                                          *)
(* A file's content is its kind and what it was made of.  Generating the    *)
(* runs and building the corpus are deterministic; a training depends on    *)
(* the checkout it ran in (its sources are bound into the bundle).  Of the  *)
(* 22 public files one stands for those written and read together.  The     *)
(* commands addressed by digests publish no file of these: what they leave  *)
(* in the store is what Train, Develop and Release leave there.             *)
(***************************************************************************)
EXTENDS Naturals, Sequences, Functions

CONSTANTS
    Operators,     \* command lines that run at once
    Checkouts,     \* states of the checkout a training may run in
    Feasible,      \* those whose defender meets the operating budget
    Often,         \* bound: what a command does -> how often it is begun
    MaxMishaps,    \* bound: failures, kills and power losses
    Nothing

CorpusFiles == {"observations", "corpus-manifest"}
TrainingFiles == {"calibration.json", "model", "defender-bundle"}
ReportFiles == {"calibration.csv", "scorecard"}
FixtureFiles == CorpusFiles \union TrainingFiles \union ReportFiles

Fixtures == FixtureFiles \union {"hash-manifest"}
Directories ==
    {Fixtures, {"run-ledger", "corpus-envelope", "hidden-context"},
     {"run-manifests", "result"}}
FileNames == UNION Directories

GenerateOrder == <<"run-ledger", "run-manifests">>
BuildOrder == <<"corpus-envelope", "observations", "corpus-manifest">>
TrainOrder == <<"calibration.json", "model", "defender-bundle">>

(* Mutant: the hashes are published before the result they belong to. *)
HashesFirst == <<"calibration.csv", "scorecard", "hash-manifest", "result">>

ReleaseOrder == <<"calibration.csv", "scorecard", "result", "hash-manifest">>
FailureOrder ==
    <<"calibration.csv", "calibration.json", "defender-bundle", "scorecard", "model",
      "result", "hash-manifest">>

VARIABLES
    published,   \* the files there are -> their content, as processes see it
    unsynced,    \* the names a power loss may drop
    litter,      \* a temporary file was left among the fixtures
    command,     \* operator -> the command it runs
    begun,       \* what a command does -> how often it was begun
    trained,     \* checkouts whose defender is in the store
    completed,   \* those with a development completion in the store
    selected,    \* hidden contexts whose digest was printed
    opened,      \* hidden contexts a defender was evaluated on
    mishaps

fileVars == <<published, unsynced, litter>>
evidenceVars == <<trained, completed, selected, opened>>
workflowVars == <<fileVars, command, begun, evidenceVars, mishaps>>

NoCommand == [does |-> "nothing", at |-> "idle", on |-> Nothing, left |-> <<>>, no |-> 0]

Content(kind, of) == [kind |-> kind, of |-> of]

WorkflowInit ==
    /\ published = <<>> /\ unsynced = {} /\ litter = FALSE
    /\ command = [o \in Operators |-> NoCommand] /\ begun = [does \in DOMAIN Often |-> 0]
    /\ trained = {} /\ completed = {} /\ selected = {} /\ opened = {}
    /\ mishaps = 0

(* A signed alias of that kind is at its path. *)
Alias(f, kind) == f \in DOMAIN published /\ published[f].kind = kind

CorpusAlias == Alias("corpus-manifest", "corpus_envelope")
DefenderAlias == Alias("defender-bundle", "defender_ensemble")

Present == Fixtures \intersect DOMAIN published

(* No temporary file lies among the fixtures, and none is being written. *)
Clean ==
    /\ ~litter
    /\ \A o \in Operators : command[o].at = "staged" => Head(command[o].left) \notin Fixtures

(* A command has read what it starts from, and goes to work. *)
Begin(o, does, at, on, left) ==
    /\ command[o].at = "idle" /\ begun[does] < Often[does]
    /\ begun' = [begun EXCEPT ![does] = @ + 1]
    /\ command' = [command EXCEPT ![o] =
           [does |-> does, at |-> at, on |-> on, left |-> left, no |-> begun'[does]]]
    /\ UNCHANGED <<fileVars, completed, selected, opened, mishaps>>

Reach(o, at) == command' = [command EXCEPT ![o].at = at]
Stop(o) == command' = [command EXCEPT ![o] = NoCommand]

Generate(o) ==
    Begin(o, "generate", "publishing", Nothing, GenerateOrder) /\ UNCHANGED trained

Build(o) ==
    /\ Alias("run-manifests", "run_ledger")
    /\ Begin(o, "build", "publishing", Nothing, BuildOrder) /\ UNCHANGED trained

(* A defender that meets the budget is in the store, then exported; of one that
   does not, only the failure is published. *)
Train(o, c) ==
    /\ CorpusAlias
    /\ trained' = trained \union ({c} \intersect Feasible)
    /\ IF c \in Feasible THEN Begin(o, "train", "publishing", c, TrainOrder)
       ELSE Begin(o, "train", "preflight", c, FailureOrder)

(* Every preparation draws fresh seeds: its hidden context is its own. *)
Prepare(o) ==
    /\ CorpusAlias /\ DefenderAlias
    /\ "hidden-context" \notin DOMAIN published
    /\ Begin(o, "prepare", "publishing",
             [context |-> begun["prepare"] + 1,
              defender |-> published["defender-bundle"].of],
             <<"hidden-context">>)
    /\ UNCHANGED trained

(* The development evaluation reads what never changes and leaves its completion
   in the store: when it ends is all that the other commands can tell. *)
Develop(c) ==
    /\ c \in trained
    /\ completed' = completed \union {c}
    /\ UNCHANGED <<fileVars, command, begun, trained, selected, opened, mishaps>>

(* The operator gives the digests that a preparation and a development
   evaluation printed.  The named form reads the aliases and will publish. *)
Release(o, named) ==
    /\ "hidden-context" \in DOMAIN published
    /\ LET hidden == published["hidden-context"].of
       IN  /\ hidden \in selected /\ hidden.defender \in completed
           /\ named => /\ CorpusAlias /\ DefenderAlias
                       /\ published["defender-bundle"].of = hidden.defender
           /\ Begin(o, "release", "opening", hidden, IF named THEN ReleaseOrder ELSE <<>>)
    /\ UNCHANGED trained

(* publish_competition_evaluation: the worker replays the defender on the truth
   of the hidden context. *)
OpenHidden(o) ==
    /\ command[o].at = "opening"
    /\ opened' = opened \union {command[o].on}
    /\ IF command[o].left = <<>> THEN Stop(o) ELSE Reach(o, "preflight")
    /\ UNCHANGED <<fileVars, begun, trained, completed, selected, mishaps>>

(* Exactly the files of the earlier commands are among the fixtures, and there
   is no result. *)
ExportAllowed(o) ==
    /\ Clean /\ "result" \notin DOMAIN published
    /\ IF command[o].does = "release"
       THEN Present = CorpusFiles \union TrainingFiles
       ELSE Present = CorpusFiles /\ Alias("run-manifests", "run_ledger")

Preflight(o) ==
    /\ command[o].at = "preflight"
    /\ IF ExportAllowed(o) THEN Reach(o, "publishing") ELSE Stop(o)
    /\ UNCHANGED <<fileVars, begun, evidenceVars, mishaps>>

(* What has to be there before this file is made: the files it lists. *)
NothingMissing(o) ==
    LET f == Head(command[o].left)
    IN  CASE f = "hash-manifest" /\ command[o].does = "release" ->
                 Clean /\ Present = FixtureFiles
          [] f \in {"result", "hash-manifest"} /\ command[o].does = "train" ->
                 FixtureFiles \subseteq Present
          [] OTHER -> TRUE

(* The temporary file is written and synced. *)
Stage(o) ==
    /\ command[o].at = "publishing"
    /\ IF NothingMissing(o) THEN Reach(o, "staged") ELSE Stop(o)
    /\ UNCHANGED <<fileVars, begun, evidenceVars, mishaps>>

ContentOf(o, f) ==
    LET c == command[o]
    IN  CASE f = "run-manifests" -> Content("run_ledger", Nothing)
          [] f = "corpus-manifest" -> Content("corpus_envelope", Nothing)
          [] f = "defender-bundle" ->
                 Content(IF c.on \in Feasible THEN "defender_ensemble"
                         ELSE "infeasible_candidate", c.on)
          [] f \in {"calibration.json", "model", "hidden-context"} -> Content(f, c.on)
          [] f = "result" ->
                 Content(IF c.does = "train" THEN "no_promotion" ELSE "evaluated", c.on)
          [] f \in ReportFiles -> Content(f, c.no)
          [] f = "hash-manifest" -> Content(f, [g \in FixtureFiles |-> published[g]])
          [] OTHER -> Content(f, Nothing)

Put(f, content) ==
    /\ published' = [g \in DOMAIN published \union {f} |->
           IF g = f THEN content ELSE published[g]]
    /\ unsynced' = unsynced \union {f}

(* Mutant: the rename replaces what is there. *)
ReplaceFile(o) ==
    /\ command[o].at = "staged"
    /\ LET f == Head(command[o].left)
       IN  Put(f, ContentOf(o, f))
    /\ Reach(o, "renamed")
    /\ UNCHANGED <<litter, begun, evidenceVars, mishaps>>

(* The rename that never replaces: a file that is there ends the command. *)
PublishFile(o) ==
    /\ command[o].at = "staged"
    /\ LET f == Head(command[o].left)
       IN  IF f \notin DOMAIN published
           THEN Put(f, ContentOf(o, f)) /\ Reach(o, "renamed")
           ELSE Stop(o) /\ UNCHANGED <<published, unsynced>>
    /\ UNCHANGED <<litter, begun, evidenceVars, mishaps>>

(* The next file, or the end: a preparation prints the digest it selected. *)
NextFile(o) ==
    /\ IF Len(command[o].left) = 1 THEN Stop(o)
       ELSE command' = [command EXCEPT ![o].at = "publishing", ![o].left = Tail(@)]
    /\ selected' = IF command[o].does = "prepare" THEN selected \union {command[o].on}
                   ELSE selected

SyncDirectory(o) ==
    /\ command[o].at = "renamed"
    /\ \E d \in Directories : Head(command[o].left) \in d /\ unsynced' = unsynced \ d
    /\ NextFile(o)
    /\ UNCHANGED <<published, litter, begun, trained, completed, opened, mishaps>>

(* A step fails; what was published stays, the temporary file is removed. *)
CommandFails(o) ==
    /\ command[o].at # "idle" /\ mishaps < MaxMishaps
    /\ Stop(o)
    /\ mishaps' = mishaps + 1
    /\ UNCHANGED <<fileVars, begun, evidenceVars>>

(* A command killed while it writes leaves its temporary file. *)
KillWriting(o) ==
    /\ command[o].at = "staged" /\ Head(command[o].left) \in Fixtures
    /\ mishaps < MaxMishaps
    /\ Stop(o)
    /\ litter' = TRUE /\ mishaps' = mishaps + 1
    /\ UNCHANGED <<published, unsynced, begun, evidenceVars>>

Outage ==
    /\ mishaps < MaxMishaps
    /\ \E lost \in SUBSET unsynced :
           published' = [f \in DOMAIN published \ lost |-> published[f]]
    /\ unsynced' = {}
    /\ litter' \in IF Clean THEN {FALSE} ELSE BOOLEAN
    /\ command' = [o \in Operators |-> NoCommand]
    /\ mishaps' = mishaps + 1
    /\ UNCHANGED <<begun, evidenceVars>>

WorkflowNext ==
    \/ \E o \in Operators :
           \/ Generate(o) \/ Build(o) \/ Prepare(o)
           \/ \E c \in Checkouts : Train(o, c)
           \/ \E named \in BOOLEAN : Release(o, named)
           \/ OpenHidden(o) \/ Preflight(o)
           \/ Stage(o) \/ PublishFile(o) \/ SyncDirectory(o)
           \/ CommandFails(o) \/ KillWriting(o)
    \/ \E c \in Checkouts : Develop(c)
    \/ Outage

WorkflowSpec == WorkflowInit /\ [][WorkflowNext]_workflowVars

(* The hashes come last: once they are published, every public file is there
   and is the one they name, the training files are all of one training, the
   reports all of one command, and the result is about that defender and, when
   it was evaluated, about a hidden context that was opened. *)
ReleaseHolds ==
    "hash-manifest" \in DOMAIN published =>
        /\ FixtureFiles \subseteq DOMAIN published
        /\ published["hash-manifest"].of = [f \in FixtureFiles |-> published[f]]
        /\ \A f, g \in TrainingFiles : published[f].of = published[g].of
        /\ \A f, g \in ReportFiles : published[f].of = published[g].of
        /\ \/ /\ Alias("result", "evaluated") /\ DefenderAlias
              /\ published["result"].of \in opened
              /\ published["result"].of.defender = published["defender-bundle"].of
           \/ /\ Alias("result", "no_promotion")
              /\ Alias("defender-bundle", "infeasible_candidate")
              /\ published["result"].of = published["defender-bundle"].of

(* One hidden context is selected and one defender evaluated on it, however many
   preparations and evaluations race, fail, are killed or are repeated. *)
OneHiddenOpened == \A h, i \in opened : h = i

(* When the failure of a training is published ("hidden release not attempted"),
   no hidden context was opened, and none ever is. *)
FailureUnopened == Alias("result", "no_promotion") => opened = {}

(* The hidden context is opened for one defender, and not beside a failure. *)
HiddenOpenedOnce == OneHiddenOpened /\ FailureUnopened
=============================================================================
