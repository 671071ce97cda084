# A TLA+ model of APAR's core

APAR (Adaptive Payment Assurance Range) turns fraud threats into replayable
campaigns, runs them across card, account-to-account and agentic payment rails
in a deterministic simulator, evaluates defenses on the result, and keeps the
evidence under content addresses. This directory holds TLA+ modules for the
parts of it where order, failure and repetition matter, the TLC configurations
that check them on small instances, and proofs that TLAPS checks for instances
of every size. Paths below are relative to `src/src/apar/` unless they start
with `src/`.

## The system

| component | state it keeps | operations | used by |
|---|---|---|---|
| ledger (`simulator/ledger.py`) | balances per account and currency, entries, entry ids | construct, `post` | engine |
| clock and engine (`simulator/clock.py`, `engine.py`) | command queue, due-time index, event log, entity state, UUID counter, terminal failure | `schedule`, `post`, `emit`, `run`, and the context handed to an adapter | runs, red team, evaluation |
| card and A2A rails (`simulator/rails/card.py`, `a2a.py`) | per payment: lifecycle state, terms, idempotency records, history commitment (as entity state) | `handle(command)` | engine |
| trust verifier (`trust/verifier.py`) | records (nonce, evidence, receipt chain), one pending preview, one pending plan | `preview`, `prepare_commit`, `apply_commit`, `commit`, discards, `dump_state`, `load_state` | agentic rail, generators |
| agentic rail (`simulator/rails/agentic.py`) | the verifier's records as entity state | `handle(command)` | engine |
| artifact store (`storage/artifacts.py`) | one directory per digest, temporary directories | `put_bytes`, `read`, `resolve` | runs, evaluation, defense, API |
| run service and policy worker (`runs/`) | signing key, append-only index, artifacts, one worker process per proposal | start, execute, verify, publish, get | API, defense |
| API (`api/`) | the two services it starts | create, get and run over HTTP | console |
| feature state (`features/state.py`) | known, admitted and late events, rows, checkpoint | process, checkpoint, restore | defense, evaluation |
| cases (`cases/grouping.py`, `queue.py`) | union-find over time, cases and their merges, queue slots | group alerts, simulate the queue | evaluation |
| defense (`defense/`) | key files; the released files of one defender, in three directories | provision, generate, build, train, prepare, evaluate, release | people, scripts |
| evaluation service (`evaluation/service.py`) | durable binding, signed index, lock file, worker process | start, create, get | API |
| hidden authority (`evaluation_hidden/`) | capability and evaluation lifecycles in memory, worker process | freeze and issue, evaluate | evaluation, defense |
| validity oracle (`evaluation_hidden/validity.py`) | none | judge the events of a campaign | runs |
| one-attempt runners (`evaluation/v3_*.py`, `v4_runner.py`, `src/scripts/run_defense_v4_confirmatory.py`) | receipt, result files | run once | scripts |
| locked run (`evaluation/v5_evidence_storage.py`, `src/scripts/run_defense_v5_locked_development.py`) | receipt, chunks, manifest, summary | run once | scripts |
| staged chain (`evaluation/v5_checkpoint_storage.py`, `v5_staged_evidence.py`, `src/scripts/run_defense_v5_kaggle_stage.py`, `v5_kaggle_independent_verifier.py`) | checkpoint directories, metric workers | run a stage, verify a chain | scripts |
| registry, compiler, contracts | static threat registry, schemas | compile a scenario bundle | runs, generators |
| red-team search (`redteam/`, `src/scripts/run_task6_holdout.py`) | history and deadline of a search, trace and audit buffers, cells | search, verify a cell, publish a result | scripts |
| generators | seeded randomness | generate campaigns | runs, evaluation |
| V2 to V5 protocols (`v?_protocol.py`, `evaluation/v?_*.py`) | preregistration, populations | compute in a fixed order, verify | scripts |
| demo, console | none of its own | static replay | people |

How they interact: the owner of an engine schedules commands; `run` pops them
in order and calls the rail adapter with a context that can post to the ledger,
store entity state, mint ids and schedule; the adapter returns events that the
engine appends to its log. The agentic adapter asks the trust verifier first
and keeps the verifier's records as entity state. The run service asks a worker
process for proposals, runs them in engines, has the oracle judge the events,
and stores everything in the artifact store. Observed events feed the feature
state, whose rows a defender scores; its alerts become cases. A defender is
trained, its decisions are frozen, and the hidden authority's worker evaluates
them on a truth nobody else opens. All calls inside an engine are synchronous;
processes meet only in the file system.

What is hard about it, and therefore what the properties are about:

- partial effects: a handler changes the ledger, the entity state and the log
  one after the other, and any of these can refuse;
- swallowed exceptions: an adapter may catch what its context raised and return
  normally, and the run loop then goes on in a failed engine;
- structures that must agree: clock queue and due-time index, entries and
  entry ids, entity history and event log, verifier records and stored state,
  case assignments and merges, a rolled-back union-find and the graph;
- retries and replays: idempotency keys, nonces, step-up evidence, receipts;
- things that may happen once: an attempt, a release, a key set, a capability;
- several processes, killed processes and power losses around renames, links
  and directory syncs that decide who was first;
- workers that fail, hang or answer late;
- deadlines that pass between any two reads of the clock, and buffers that
  outlast the search they belong to;
- events that come in pieces, repeated, late, or about a later decision;
- one verifier object behind several engines.

The full list, line by line and with the property that covers each, is under
`hazards` in `PROJECT.json`.

## Modules

| module | models | built from |
|---|---|---|
| `Ledger` | `simulator/ledger.py` | |
| `SimulationEngine` | `simulator/engine.py`, `clock.py`, `rails/base.py` | |
| `PaymentRail` | the handler that `card.py` and `a2a.py` share | instance of `Ledger` |
| `CardRail`, `A2ARail` | lifecycle tables, checks and postings of the two rails | |
| `ValidityOracle` | `evaluation_hidden/validity.py` on the events of these rails | |
| `RailOracle` | the events of the two rails, shown to the oracle | over `PaymentRail`, `CardRail`, `A2ARail` and `ValidityOracle` |
| `TrustVerifier` | `trust/verifier.py` | |
| `AgenticRail` | `simulator/rails/agentic.py` | extends `TrustVerifier`, instance of `Ledger` |
| `ContentStore` | what a content-addressed store promises | |
| `ArtifactStore` | `storage/artifacts.py` | refines `ContentStore` |
| `RunService` | `runs/runner.py`, `runs/policy_worker.py`, start-up in `api/app.py` | over `ContentStore` |
| `OneAttempt` | what a run that may happen once promises | |
| `LockedAttempt` | the locked run | refines `OneAttempt` |
| `ConfirmatoryAttempt` | the confirmatory run of the v4 runner | |
| `StagedChain` | the staged run and its independent verifier | |
| `EvaluationService` | `evaluation/service.py` | |
| `HiddenAuthority` | `evaluation_hidden/authority_core.py`, `worker_client.py`, `worker.py` | |
| `FeatureState` | `features/state.py`, offline reference `features/builders.py` | `Order`, `Places` |
| `CaseGrouping`, `CaseQueue` | `cases/grouping.py`, `cases/queue.py` | `Order`; the queue over the grouping |
| `AuthorityProvisioning` | `provision_defense_authorities` of `defense/orchestration.py` | |
| `SearchExperiment` | `redteam/search.py`, `policies.py`, `task6_verifier.py`, the replay of `llm_policy.py`, the buffer of `benchmark.py`; the loop of `src/scripts/run_task6_holdout.py` | |
| `DefenseWorkflow` | the other command lines of `defense/orchestration.py` | |
| `Order` | a set as a sequence, by a key | |
| `Places` | the place of a position among some positions of a sequence | |
| `Foundations` | lemmas on induction, places and sums over finite sets | `Places`, TLAPS |
| `SimulatorProofs` | theorems about `Ledger` and `SimulationEngine` | both, `Foundations` |
| `RailProofs` | theorems about `PaymentRail`, the tables of `CardRail` and `A2ARail`, and the oracle | `RailOracle`, `Foundations` |
| `AgenticRailProofs` | theorems about `TrustVerifier` and `AgenticRail` | `AgenticRail`, `Foundations` |
| `RecoveryProofs` | theorems about `ArtifactStore`, `FeatureState`, `CaseGrouping` and `CaseQueue` | these, `Foundations` |
| `AttemptProofs` | theorems about `LockedAttempt`, `ConfirmatoryAttempt` and `StagedChain` | these, `Foundations`, TLAPS |
| `ServiceProofs` | theorems about `RunService`, `AuthorityProvisioning` and `DefenseWorkflow` | these, TLAPS |
| `EvaluatorProofs` | theorems about `EvaluationService`, `HiddenAuthority` and `SearchExperiment` | these, `Foundations` |
| `MC...` | constants of the runs; several put independent modules side by side | the modules they extend |

Definitions keep the names of the code where TLA+ allows; `map` in
`PROJECT.json` gives the lines of each. A definition whose comment begins with
"Mutant" is not part of any specification: it is a variant of the definition
after it, with a bug the code could plausibly have, and shows that the property
named for it in `PROJECT.json` would notice.

### Ledger

An amount is a number of raw units, a currency has a grain of raw units per
minor unit, and `Quantize` is Decimal's half-even rounding on that grid.
`Post` is `Ledger.post` from the first check to the append. `Reject` is every
raise; that it changes nothing is because the code works on a copy, and the
mutant `RejectInPlace` is what would happen otherwise. Debits are checked
against the balances before the credits of the same entry, as in the code.
`BooksBalance` is two things: no value is made or lost (`Conserved`), and the
balances are the openings plus what the entries say (`EntriesExplainBalances`).

### SimulationEngine

The clock's queue is a set of commands ordered by (time, priority, insertion);
the due-time heap is a count per instant. `run` is a program counter:
`RunInitialize` or `RunResume`, then `Deliver` and a callback for each command
that is due, then `RunReturns`. During a callback the adapter may make any
context call in any order, carry on after an exception, copy its execution
context, and return any batch of up to two events. Ids are the 48-bit suffix
of the UUIDs, so the order of the log is that of (time, id). `Honest` narrows
the adapter to what the repository's three adapters do.

`Diverge` is the assertion at engine.py:494; its guard never becomes true,
which is what `IndexAgrees` says. A copied context may be run again at any later
point: in the callback that leaked it, in a later one, between two commands or
between two runs (`LateCall`, any of the four calls that change state); whether
the engine obeys depends on the scope the copy carries. `ContextDiscipline` has
three parts: after the first failure nothing is posted, written, scheduled or
minted any more; no call through a context whose own callback has ended is
obeyed (`outlived` would hold that callback); and entity state is written only
while a callback runs. A schedule may also be refused for its priority, command
or time zone, whatever the time.

### PaymentRail, CardRail, A2ARail

One handler call is one action, one per way out: `HandleRetry` (the request is
known), `HandleAdvance`, `HandleUnfunded` (the ledger refuses after the id has
been minted), `HandleIllegal` (every LifecycleError). Hashes are injective: a
fingerprint is what it covers, and a commitment is the sequence of all that was
chained. `Position` states where a payment's money ought to be in each
lifecycle state, independently of the steps that lead there, and is what
`MoneyFollowsStates` compares the ledger with; its other part says that what is
reserved is funded. `OneStory` compares the ledger, the event log and each
payment's committed history. `Tamper` is the owner of the engine storing an
entity with one field changed.

### ValidityOracle

The oracle is a pure function of a campaign's events, with tables of legal
lifecycles and postings written apart from those of the rails. The module has
both, and `OracleAgrees` (in `RailOracle`) compares them with the rails over every reachable log:
the accounts it replays end with the ledger's balances, and it finds no fault
with what the rails did, except that its list of lifecycles lacks some the rail
allows: the card rail accepts a reversal after clearing, which the oracle (and
`src/tests`, as an "impossible transition") refuses. Such campaigns are counted
invalid; nothing in the repository promises that the two lists are equal.

### TrustVerifier

Requests carry the first identity, signature, mandate or scope check they fail
as an attribute; the order of all later checks (expiry, nonce, chain, evidence)
is modelled. Callers may interleave all methods, show a preview that was never
issued, keep a plan for later, and load any state they have seen or a damaged
one. A receipt is the chain of the commitments below it.

### AgenticRail

The handler as one action per way out, with the verifier's operators applied to
the stored trust state, as `load_state` makes it. Several engines share the
verifier and its owner uses it between commands, which is how
`evaluation/v5_population.py` wires it. The scorer may raise, may answer any
action, and may itself have called the verifier. `TrustStory`: the log, the
chain of the stored records and the ledger's entries agree for every engine, and
what the verifier would dump is always a state it would load.

### ContentStore and ArtifactStore

`ArtifactStore` has one action per system call that matters: create the
temporary directory, write and sync each file, sync the directory, rename
without replacing, sync the root, clean up. A power loss finds each directory
under its present or its last synced name, and unsynced files torn or gone.
`ContentStore` is the promise: a payload is added once, later callers get the
first reference, and what is secured survives. The refinement mapping reads
`stored` off the directories named by a digest and `safe` off the names on disk.
`ArtifactsDurable`: what is published is whole, and what was secured stays.

A writer that finds an artifact already published returns its reference without
syncing the root (artifacts.py:64 and :93). If the publisher has not reached
its own sync, a power loss takes an artifact whose reference has been handed
out. The model contains this: `Lose` in `ContentStore` may drop returned
references. Durability is therefore claimed for the publishing writer only.

### RunService

Processes that start without a signing key each make one, and the exclusive
rename decides; a request stores its inputs, asks a fresh worker for every
proposal of its budget, stores its outputs and its manifest, and is published
in the index, which is never replaced. A worker answers, fails or hangs. The
sources may be committed to between two requests, which changes a run's
manifest and not its id. `AnsweredRunsLoad` is what a client relies on: a run
it was answered can be had later, from any process, while its sources are there.
The store is used through `ContentStore`'s actions, so that a power loss may
take what was reused without a sync (runner.py:1190), and the property says so.

### OneAttempt, LockedAttempt, ConfirmatoryAttempt

`OneAttempt` is a register that is consumed before anything is executed, is
executed by the call that consumed it, and is never given back after that.
`LockedAttempt` has the four names of the locked run in one directory: a
receipt that is linked exclusively, chunks, a manifest that is linked last, and
a summary. A power loss drops or brings back each unsynced name by itself.
`ExecutedOnce` is the refinement of `OneAttempt`; `EvidenceHasReceipt` and
`PublishedComplete` say what may be found on the disk afterwards.

`ConfirmatoryAttempt` has the same intent over `os.replace`, which asks
nothing. With one process at a time, started and killed anywhere,
`ReceiptStands` holds: the sealed population is scored by one call, and a
verdict has all its files from that call. With two at once it does not, see
"Findings".

### StagedChain

Operators put any directories under the input root, give any execution
manifest and run any stage; a stage checks the lineage of what it finds, makes
its records with metric workers under one deadline for all of them, and
publishes them with the manifest last. `PublishedVerifies` says that whatever
was published ends a chain the independent verifier accepts, and that its
records derive from that chain; `CallsEnd`, that no hanging worker keeps a
stage. The records themselves are abstract. `StagedConstants` keeps of the order of
the stages (v5_kaggle_protocol.py:29) that there is one stage of arms, and that
the metrics come after it; a control may have several.

### EvaluationService

Start-up binds the capability (a temporary file is synced, linked, and its name
removed) and cleans up after publishers that died; `create` holds the lock of
the index from the lookup over the worker's run to the publication. Entries are
names that are lost or come back with the power until the directory is synced.
The cleanup is two steps, the unlink (service.py:921) and the sync (:922), and
every call of the file system that writes may fail (`BindingFails`,
`DiscardFails`, `PublishFails`): a create whose sync fails removes its temporary
name all the same, and leaves an entry that is visible and not synced. Two of
the three input pairs of the run come to one evaluation id.

`AnsweredKept` is what "durable publication only" (service.py:1367) would be:
what a create was answered with stays in the index. The code does not keep it:
what tells a later call to sync is the temporary name, and it goes before the
sync. Two kills and a power loss are enough (`service_answers`), or one failing
sync. `AnswersLoad` is what it does keep: the evaluation of a create that
published it and returned stays, whatever is killed, fails or loses power
afterwards; every answer stays while nothing fails and one process at most is
killed; and no reader ever refuses the index as a whole.

### HiddenAuthority

One action per stretch of the code between two places where the lock is
released: reservation, checks, freezing, consumption, the worker's protocol,
the answer. `DecisionsSealed` is the conjunction the authority exists for: one
set of decisions, frozen and stored before the truth is opened, opened for
those only, an outcome only with its stored receipt, and no reservation that
outlives the thread that would resolve it. A call with the wrong capability, or
made too early, consumes the authority for good; the state is in memory only,
so that a restarted program can issue again. Both are the code's behaviour and
the property is stated with them.

### FeatureState

Events arrive in any pieces and order, repeated and late; a row stands for
what its features may read. `twin` is the state that was never interrupted.
`StreamExact`: one row per accepted decision, in order, from what was available
strictly before it; and as long as nothing came late, the rows of one offline
call. `RestartInvisible` compares with the twin after any accepted restore.

The order of a history is what `restore` compares, and it matters for one thing
that the rows show: which decision opened a payment. Two decisions on one payment
have a party or their outcome in common, so that the order of the two is in one
of the histories (`PaymentsRecognisable`: card.py:815 and a2a.py:735 take both
parties of an event from the payment, agentic.py:439 from the request). Without
it, two decisions of one payment that share nothing could come back from a
checkpoint in the other order.

### CaseGrouping and CaseQueue

The segment tree over batches, the union-find with its rollback log and the
second pass that opens, extends and merges cases are modelled as the code has
them; `ComponentsExact` compares every decision with a plain graph search.
`CasesOnlyGrow` says that a later call with more observations never changes the
id, opening or priority of a case. It is stated for observations that become
available after the decisions already made: one that is decided later but was
available earlier is an edge for the batches in between (grouping.py:604-610),
although a call with an earlier `as_of` refuses it (grouping.py:976-981), and may
change an earlier case. `FirstComeFirstServed` compares the queue, which
remembers its last slot only, with the definition of a fair allocation.

### AuthorityProvisioning

The command looks for every key file, publishes its own one by one, syncs the
directory, and on a failure removes those it created, by name. A power loss
leaves each name as it was synced or as it was changed since. An interrupt may
also come between the rename and the line that records the file as created
(orchestration.py:4005-4011): that file stays, since only recorded ones are
removed.

### DefenseWorkflow

The command lines share no lock. A command reads the signed aliases and
pointers of the earlier ones and publishes a fixed list of files, each by
writing a temporary file, an exclusive rename and a directory sync; the two
exports look once at what is there before they begin. The state is the files
with what each was made of, the unsynced names, and a record per running
command: what it does, where it is, what it still has to publish. `FixtureFiles`
has one file for each group of the 22 public ones that are written and read
together. Digests reach the later commands through the operator, who reads what
an earlier command printed: `selected` and `completed`.

`ReleaseHolds` is what a reader of the hash manifest relies on, across commands;
`HiddenOpenedOnce`, what the hidden evaluation relies on. A release opens the
hidden context before its export looks at the directory, so that a stray file
(a temporary file of a killed command, or a report of a release that failed)
makes it refuse after the truth was opened: the same context may be opened
again by the same defender, which the property allows, as the code does.

### SearchExperiment

The experiment is a sequence of cells: for each family, policy and seed one
search, then the same on a control whose gains are hidden from the policies. The
evaluator is a function from vectors to feedback, chosen initially, and so is
the session the cached planner replays; the session may have been recorded on
other evaluators. One action per stretch between two reads of the clock
(`Tick` may come between any two): ask the policy, evaluate, record, and build
the cell from the search's result and the two buffers it drains. A prompt is the
whole visible history, so the session is replayed as long as the history is the
recorded one. The adaptive policy is `AdaptiveChoices`, with any choice where
the code draws or ranks by a confidence bound.

`PublishClaim` is the verification of the whole bundle and its criterion.
`ClaimHonest` compares it with what happened, which the model keeps on the side:
no answer came at or after its deadline, both policies asked the same number of
questions, and adaptive search truly gained by the preregistered margin on
every family and nothing on the control. `UndisturbedPublishes` is the other
direction: without a deadline passed, an evaluator that raised or a session of
other evaluators, a run ends with a published result. (An evaluator that raises
leaves no trace of its candidate, so the run it happens in is lost,
task6_verifier.py:297; the repository promises nothing else.)

## Runs

Seven runs must pass on independent parts put side by side (an `MC` module has a
variable that is fixed initially and says which part the behaviour is about, so
that the parts add and do not multiply) or on one module; five runs must find a
violation.

| run | question | bounds |
|---|---|---|
| `engine` | books, overdraft and history of the ledger; order, both heaps, log, failure and liveness of the engine | 3 currencies with different grains; three profiles: much is scheduled; any batches and a leaked context; an honest adapter |
| `rails` | the two rails against the ledger, their own histories, retries, damage and the oracle; the search for campaigns over them; the artifact store: race, failure, crash, refinement, a put ends | five set-ups: two card payments, two transfers, a fee above the amount, payees who spend, one payment tampered with; 1 family and the control, 1 seed, 3 vectors, budget 3, five evaluators, a limit of 1 ms of 2 ns, clock up to 3; 2 writers, 2 media types, 3 directories, 1 fault, 1 power loss |
| `agentic` | the verifier under any calls; the rail over a damaged state, and over one verifier behind two engines | times 0..2, 3 records, 4 plans |
| `attempts` | the attempts that may happen once, and the staged chain | locked: 2 processes, 2 chunks, 3 calls, 3 faults, 2 power losses; confirmatory: 1 operator, 4 artifacts, 3 calls, 2 kills; staged: 2 runners, 2 executions, 3 stages, 2 arms, 4 directories, 1 failure |
| `confirmatory_race` | two confirmatory runs at once (violation) | 2 operators, 2 calls, no kill |
| `evaluation_service` | index, binding, lock and worker of the service; the hidden authority | 2 processes, 3 input pairs, 2 entries, 2 kills or a kill and a failing call, 1 power loss; 2 threads, 4 calls, the program killed anywhere |
| `service_restart` | the binding after a kill (violation) | 1 kill |
| `service_answers` | every answer is kept (violation) | 2 processes, 1 input pair, 2 kills, 1 power loss |
| `runs` | keys, runs, index and workers of the run service | 2 processes, 1 request, budget 1, 4 keys, 1 commit, 1 fault |
| `defense` | features, cases and queue; provisioning; the release workflow | 9 events up to time 5; 9 observations, 3 queue capacities; 3 commands, 3 key files, 2 faults; 2 operators, 1 generation, 1 build, 2 trainings in 3 checkouts, 2 preparations, 2 releases, any development evaluations, 1 mishap |
| `feature_restore` | every checkpoint is accepted (violation) | the events of `defense` |
| `feature_sources` | a decision is not its own history (violation) | the events of `defense` |

Why the bounds are enough: each property relates at most two commands, payments,
records, processes or cases, and each run has at least two of them and enough
steps for them to interfere: two payments so that one can spend what the other
needs, three records so that a nonce can come back after another, three
directories so that a third attempt follows a lost race, three provisioning
commands so that one can start after two have collided, two trainings of
different checkouts so that a file of one can stand where the other looks, and
observations whose cases open at different times before they are joined. A budget of
three lets the adaptive policy leave the frontier and mutate a good trial; a
clock that can go one past the limit has all three cases, before it, at it and
over it within the same millisecond. One
power loss mostly suffices because what is found after it is on disk for good;
the locked run has two, as its receipt may be lost and consumed again. Every
property of every passing run has a mutant of the code that violates it under
the run's own bounds.

`CHECK_DEADLOCK FALSE` is set where the system really stops: an engine that has
failed does nothing more, an attempt is consumed, a release is published, and
the counters that bound a run end it. No symmetry is declared: most runs
check liveness or order their values, and the others are small without it.

Fairness, always weak and of one process's own next step:

- the engine's run loop and its callbacks ending: a `while` loop, and a
  synchronous function; one that never returns hangs the run in the code too;
- a writer inside `put_bytes`, a process inside an execution of a run, a stage
  that has begun: they go on until they are killed;
- a process that holds the lock of the evaluation service's index, and a thread
  inside a call of the hidden authority: the worker they wait for may hang, and
  the deadline of its reader (`StopWorker` and its kin) is among their own steps.

No fairness is assumed of operators, of workers answering, or of clients.

### Findings

Five runs show the code doing other than a line of the repository says; each is
quoted under `findings` in `PROJECT.json`.

- `confirmatory_race`: the receipt of the one permitted confirmatory attempt is
  looked for and then moved into place with a rename that replaces
  (v4_runner.py:68): two processes started together both score.
- `service_restart`: a kill between the link and the unlink of the service's
  binding leaves it with two names, which every later start refuses
  (service.py:1097 and :1148).
- `service_answers`: a publisher is killed between the link and the sync of its
  entry, and the process that cleans up after it between the unlink and the sync;
  nothing syncs the entry any more, `create` answers with it, and a power loss
  takes it (service.py:921, :922 and :1452).
- `feature_restore`: `restore` admits events in the order of availability and
  compares histories in their order (state.py:207 and :257), though `process`
  admitted them cohort by cohort; genuine checkpoints are refused.
- `feature_sources`: a decision available before an earlier cohort is admitted
  for that one and counts in its own history (state.py:125).

## Proofs

For each module there is one inductive invariant, with a lemma that it holds
initially, one that every step keeps it, and theorems that follow. All hold for
every value of the constants that the named assumptions of the modules allow;
what a theorem assumes beyond them is in its statement. Several modules are
proved about in one proof module, side by side.

`SimulatorProofs`

- The ledger (`TypeCorrect`, `OverdraftSafe`, `IdsUnique`, `HistoryAppendOnly`):
  `IndInv` is the type invariant with entries in sequence form, the id set equal
  to the ids of the entries, no two entries with one id, and no negative balance
  without credit. A fresh id is unique only because the id set is exact, and
  balances stay whole because half-even rounding of a natural is a natural
  (`HalfEvenInt`).
- `BooksAlwaysBalance`: an accepted entry debits and credits the same total, so
  that the sum of the balances of a currency is that of the openings; and it
  moves each balance by what its own legs say, which is the sum over the
  entries with one more term. There are finitely many accounts.
- The engine (`IndexAlwaysAgrees`, `DeliveryAlwaysInOrder`,
  `LogAlwaysCanonical`, `HonestAlwaysAccepted`, `ContextsAreDisciplined`): the
  number a heap has for an instant is the number of commands waiting for it,
  because the only instant that a callback may add to out of order is the
  present one; what waits is not before the last delivery in the order of time,
  priority and insertion; the log is sorted because a batch is checked against
  its last event and each of its own; and what an honest adapter logs is never
  refused, because ids grow and are used by the callback that minted them. A
  context is obeyed only in its own callback because outside one no scope resolves,
  and in one only the running callback's (`Scoped`).

`RailProofs`

- `OneStoryAlways`, `RetriesAlwaysHarmless`: an entity no owner has rewritten is
  valid, and its history is the payment's part of the log, event by event
  (`RailInv`). That the handler validates what it is about to store is what
  makes a later retry pass the same validation.
- `MoneyAlwaysFollows`: each balance is its opening plus the sum of the positions
  of the payments. A posting that the ledger takes moves exactly its legs, and
  the legs of a transition are the difference of two positions, so that one term
  of the sum changes; all other payments on the account may be anything. What is
  reserved is funded because on a reserved account no position is negative.
- `CardPositionsFollow`, `A2APositionsFollow`: the proof of `MoneyAlwaysFollows`
  asks one thing of the tables, that positions and legs fit (`TermsFollow`), and
  these two show that the tables of card.py and a2a.py do, row by row, for every
  amount, every fee and every choice of the accounts whose ends are not
  themselves reserved. So the theorem is about the code's rails
  (`RailsOfTheCode`), with nothing assumed of positions.

- `CorruptionAlwaysContained`: in a valid entity the commitment of a record is the
  chain of what all records up to it cover (`CommitmentIsChain`), so that two
  valid entities of one payment with the same last commitment, or with the same
  records, are the same (`OneValidEntity`). An owner who rewrites one field leaves
  either the commitment or the records as they were, and the result is not valid
  (`RewritingDetected`); nothing is loaded, and so nothing is logged, for a
  payment whose entity is not valid (`OwnerInv`). The hypothesis
  `RewritesOneField` says that a rewrite concerns one field of an entity and
  leaves it an entity, its records included. It is about digests as injective
  values; what an owner who can forge all fields together could do is not excluded
  by the code, and is not claimed.
- `OracleAlwaysAgrees`: the oracle's replay is one transfer for each event as long
  as no event has a fault of its own (`AccountedGrows`), and none has, because
  every payment was opened with terms that passed the rail's checks
  (`EnrichedFaultless`). The transfer it makes for an event has the very sides
  that the rail's table posts for it (`RailEffects`), and the ledger took these,
  so that their totals agree, the sources have what they give, and both arrive at
  the same balances (`TransferPosts`). The life the oracle picks out of the log is
  the payment's committed history (`LifeIsHistory`, from `RailInv`, as every place
  in the life is some event's), hence each event names the one before. And the
  operations of a history are one of those by which the tables reach the state it
  is in (`LivesFollow`), eleven for cards and eight for transfers, which can be
  held against the oracle's lists one by one (`HistoryListed`): the lists leave
  out exactly what `Unlisted` says.

`MissingIsNoEntity`, a hypothesis of all but the two about the tables, says that
`Missing` is not a record of an entity's fields.

`AgenticRailProofs`

- `VerifierAlwaysLoads`: the verifier by itself. Its records are one chain per
  agent and have no nonce and no evidence twice, what it may still issue is not
  used yet, and a plan applies only to the state it was made for.
- `TrustStoryHolds`: the same for the rail, for any number of engines behind one
  verifier. For each engine the events of its log that are final are, place by
  place, the stored records, the approved ones the ledger's entries, and both
  kinds have the same order; the verifier the engines share has what
  `load_state` accepts whatever it was loaded from. `Names` is any set that has
  the values of requests and outcomes in it (`Covers`), and `DamagesAreRecords`
  says that a damaged history is a sequence of records over the same names.

`RecoveryProofs`

- `ArtifactsAlwaysDurable`: a directory is named by its digest only when both of
  its files are whole and synced, so that a power loss keeps its content if it
  keeps its name; and it keeps the name once the root was synced after the
  rename, which the writer that published waits for.
- `TreeIsStore`: the refinement of `ContentStore`, step by step. A rename without
  replacement is the one step that adds; a call returns what the directory of
  the digest is, or what it has published; a power loss may lose, of what is
  stored, only what was not secured.

- The feature state (`StreamIsExact`, `RestartsInvisible`), for any set of
  observations, which may be infinite, and any finite calls. `FeatureIInv` has
  three parts. Every decision known has its row, in order (`Settled`); this is not
  inductive inside a call, so it is taken through the cohorts of a call one by one
  (`Sound`, `ProcessedPath`). Until something comes late, what has been admitted
  and who opened each payment are functions of what is known and of the watermark,
  written without calls or cohorts (`AdmittedBy`, `OpenedBy`): what comes in time
  does not change them for earlier times (`PastKept`) and a cohort moves them
  forward (`CohortExact`). As the row of a decision is a function of what is
  known, and rows are in the order of the decisions, two ways to the same
  knowledge have the same rows (`RowsDetermined`), one call with everything
  among them. And the live state and its twin agree in all that a row can show
  (`Same`), though not in the order of admission: equal histories have any two
  events with something in common in the same order (`HistoriesOrder`), so the
  same decision opens each payment (`HistoriesOpen`). That `Sorted` lists its set
  in order, and that there is one such list, is proved through ranks (`RankOrder`,
  `SameList`).

- The case grouping, for any set of observations with the ids and digests that
  `RowsTyped` and `DigestsInjective` ask for. The invariant of the calls
  (`CaseInvHolds`) says little, since `group_cases` starts from nothing each time:
  what is known is finite and of the past, and the engine is what grouping it at
  once gives. The work is inside one call.
  - `ComponentsAlwaysExact`: an edge is added over a cover of one or two
    intervals of batches, and a leaf lies below exactly one position of a cover of
    an interval it is in (`CoverIs`, `PathIsVisible`). `Represents` says what the
    union-find stands for after some edges: every node has a root, which a number
    that falls along the parents makes well-founded; two nodes have one root when
    no closed set of nodes tells them apart; and the root's record describes its
    part. `AddEdgeHolds` keeps it, and undoing gives back the very union-find it
    was done to (`UndoAdded`), so that the walk through a subtree leaves what it
    found and has built the batches of its leaves (`HigherWalked`).
  - `AlertsAssignedOnce`: `SoundEngine` names for each case ever opened the case
    that is left of it, which the aliases lead to in a falling depth, and says
    that a case holds the alerts whose assignment leads to it. Resolving a plan
    anew before it is carried out (`Live`) is what keeps this when an earlier alert
    of the same batch has merged its cases.
  - `CasesAlwaysGrow`: `Grown` says what an earlier engine's cases have become, each
    itself or part of one that was before it; `Stands` puts both together, and is
    kept from batch to batch for any earlier engine (`RunStands`). What is known
    later lists the decisions and batches known before as its first ones
    (`ListPrefix`, `BatchKept`), so that a call with more passes through the engine
    of the call before (`GroupKept`), whose cases then grow.
- The case queue (`AlwaysServedInOrder`): the one slot that is remembered is the
  last that any case has got, and every slot between a waiting case and the one
  it gets is full (`Fair`). The backlog at any instant is at most that at the
  last arrival before it (`PeakReached`). It holds for any finite set of cases
  with distinct digests; that the engine's are that is `ArrivalQueueable`.

`AttemptProofs`

- `EvidenceAlwaysCovered`, `LockedRunExecutesOnce`: the state is typed, a call
  number is used by one process only, a published file is that of the receipt's
  call, and what a power loss may leave differs from what is visible only in
  ways that keep this. The second theorem is the refinement of `OneAttempt`.
- `PublishedAlwaysComplete`: a call that links its manifest has linked all of its
  chunks, and no name is taken twice; so much of this as does not speak of
  presence survives a power loss.
- `ReceiptAlwaysStands`: under `Alone` (at most one operator), a call that scores
  has looked for the receipt and found none, and nobody else moves one into
  place. Without `Alone` it is false, as `confirmatory_race` shows.
- `PublishedAlwaysVerifies`: manifests lead back from a checkpoint along one chain
  only (`OneChain`), so a chain read under the input root, one directory after
  the other, is the one the manifests name (`ReadsOn`), and a stage that
  continues it publishes the end of a longer one; nobody but the call that made
  a directory writes to it, and never after its manifest. `ChainFound` is what
  makes this a statement about `ChainOf`, whose way back is defined recursively.

`ServiceProofs`

- The run service (`RunsAlwaysLoad`, `OneKeyServes`): a key that is published is
  replaced by a power loss only, and nobody serves with another; the first
  manifest of an id stays; a call publishes only when verification has found
  what the manifest speaks of, syncs the index before it answers, and takes as
  synced only what it wrote.
- The provisioning of authorities (`AlwaysProvisionedOnce`, `AlwaysRemovesOwn`):
  the files a command has recorded as created are its own, as seen and as a
  power loss may leave them, and a command that is looking has created none;
  hence one that undoes never removes another's file.
- The release workflow (`HiddenAlwaysOpenedOnce`, `PublishedForever`): what is on
  disk stays (`SyncedStays`), so a digest that was printed is the published
  context's for good, which gives one context. That none is opened beside a
  published failure needs more: every training publishes its calibration first,
  so that a feasible and an infeasible one cannot both come past it, and a
  preparation wants the defender of a feasible one.
- That the published hashes hold (`ReleaseAlwaysHolds`): each list of files that
  leads to them begins with one that a single command can publish, so that a
  command that has come past it finds the files it publishes to be its own,
  synced one by one (`ItsOwn`); what the preflight of an export has seen stays,
  and is secured by the export's first sync, which takes the whole directory
  (`Grounded`); and the hashes come last. `Woven` says of the files alone what
  this leaves on disk, whatever stopped the commands that wrote them.

`EvaluatorProofs`

- The evaluation service (`TypeCorrect`, `AnswersAlwaysLoad`): one process writes
  the index at a time, and the writer's claim (no other entry has its id, and
  there is room) stays true until it publishes because no other process can
  write meanwhile. A create that publishes returns after its sync, so that its
  entry is on disk (`AnsweredOnDisk`). For the other answers, with no failing
  call: while nobody was killed, an unsynced entry is that of a publisher that
  is about to sync it (`UnsyncedIsPublishing`); after one kill it still has its
  temporary name, which stops every answer until it is removed, or the process
  that has just removed it is about to sync (`UnsyncedIsFound`). A second kill
  breaks exactly that.
- The hidden authority (`HiddenAlwaysSealed`): for each lifecycle, which thread
  is where, and what has been stored by then.
- The search (`ClaimAlwaysHonest`): what a policy asked of a family and gained
  there is the sum over its cells in the evidence, and over the trials of the
  search at hand (`EarnedKept`); each family has one cell for every policy and
  seed (`CellsPlanned`), so that whole budgets make equal numbers of questions;
  and once an answer came late, its search asks nothing more and stays late until
  its cell is built and marked (`LateShown`). The mark does not follow from how
  the loop was left: the last answer of a whole budget may be late, and only the
  last read of the clock notices. What the control settled is missing, as it is
  hidden from the policies; the claim needs only its approvals.
- `UndisturbedAlwaysPublishes`: every policy but the planner always has a vector
  to propose (`SomeProposal`), and the planner has one while its history is the
  recorded one, which each answer of the same evaluators continues
  (`TapeFollowed`); and as long as nothing was disturbed the two buffers hold the
  search at hand and nothing else, at every step (`Clear`).

Both ask of the constants (`WorldTyped`) that an evaluator answers every vector
with a whole number and that a recorded session is as long as a budget: the
cached planner is prepared on sessions of a whole budget, and one that ends early
would be missed like any prompt it does not have.

`Foundations` is what these rest on. The library's induction theorems take a
predicate as a parameter, which cannot be handed to the provers; but for a fixed
predicate, induction is a statement about the set of the things that have it,
and then it follows from the least element of a set of naturals
(`UpwardInduction`) or from a smallest counterexample (`SetInduction`). With it
the folds of the community modules can be unfolded at any element (`Summed`): a
sum over a finite set does not depend on the order in which it was made, and
what one changed term does to it is `SumChanged`. Where the log is compared with
another sequence the modules speak of the place of a position (`Place`) instead
of a filtered sequence, because `NextPlace` says what one more position does,
and a filter is defined by recursion.

Only model-checked: liveness.

## Not modelled, and why

`components` in `PROJECT.json` lists every part with its reason. The map covers
a small share of the repository's lines, and this will remain so: most of its code is
numeric (training, scoring, metrics, reports, populations), deterministic
computation from sealed inputs in one process (generators, protocols),
or validation of one document at a time (contracts, bundles, evidence layers,
the independent verifiers), without state that interleaving, failure or
repetition could bring out of order.

Freezing, JSON validation, canonical encodings, digests and signatures appear as
injective values or as the outcome of a check. Within the modelled parts, left
out are:

- Decimal's 28-digit context: balances are unbounded integers;
- the double name a checkpoint may keep after a kill (v5_checkpoint_storage.py:315)
  is in `StagedChain`, but not power losses there: a stage's machine is rented
  and its disk goes with it;
- power losses under `ConfirmatoryAttempt`: the receipt's directory is never
  synced (v3_receipt.py:68), so a power loss may take it; no line of the
  repository promises otherwise;
- in `LockedAttempt`, that the chunk directory is never synced
  (v5_evidence_storage.py:314) is modelled, and limits what `PublishedComplete`
  can say after a power loss;
- whether a temporary file left by a power loss has its content: nobody reads it;
- in `SearchExperiment`, capabilities, seals and digests, the winner, the online
  planner, the uncertainty (descriptive only), and the script's own files.

## Plan

What further work would add, most important first:

1. the rescue of an interrupted staged run
   (`src/scripts/run_defense_v5_kaggle_non_authoritative_rescue.py`), whose output
   is moved into place with `os.replace`, over `StagedChain`;
2. the files of the replication experiment (`src/scripts/run_task6_holdout.py`): its
   attempt marker and the publication of its result, over `SearchExperiment`; and
   the agentic replay as a property over `AgenticRail`;
3. the checks of the defender's bundle and of the promotion gates as operators
   against a reference definition.
