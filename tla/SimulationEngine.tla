-------------------------- MODULE SimulationEngine --------------------------
(***************************************************************************)
(* The discrete-event engine of src/apar/simulator/engine.py together with  *)
(* the clock it owns (clock.py): a priority queue of commands, a second     *)
(* heap of due times that run() steers by, an adapter that is called back   *)
(* with a revocable capability, an append-only event log and one terminal   *)
(* failure.                                                                 *)
(*                                                                          *)
(* The adapter is any code: during a callback it may call the context in    *)
(* any order, catch what a call raises and carry on, leak a copy of its     *)
(* execution context that is run again later, raise, or return any         *)
(* batch.  An honest one does what the three rail adapters do: it returns   *)
(* events stamped with the current time and with ids minted in that same    *)
(* callback.  A profile says which kind the adapter is and bounds the       *)
(* execution; it is chosen at the start and never changes.                  *)
(***************************************************************************)
EXTENDS Integers, Sequences, FiniteSets

CONSTANTS
    MaxTime,       \* the last instant anything is scheduled for
    Profiles       \* the executions explored, see ProfileType

(* priorities: those commands are scheduled with; uuidLimit: 2^48 in the code;
   the other numbers are bounds on the commands scheduled, on the ledger
   postings and entity writes together, and on the events logged. *)
ProfileType ==
    [honest : BOOLEAN, priorities : SUBSET Int, uuidLimit : Nat \ {0},
     maxSchedules : Nat, maxWrites : Nat, maxEvents : Nat]

ASSUME EngineConstants ==
    /\ MaxTime \in Nat
    /\ \A p \in Profiles : p \in ProfileType

Times == 0..MaxTime
NoCutoff == MaxTime + 1          \* run(until=None)

VARIABLES
    profile,      \* the execution explored; fixed
    hasAdapter,   \* a factory is registered for the scenario's rail; fixed
    now,          \* _clock._now
    queue,        \* _clock._queue: the commands not yet delivered
    sequence,     \* _clock._sequence
    due,          \* _scheduled_times, as a count per instant
    uuids,        \* _uuid_sequence
    events,       \* _events
    seen,         \* _seen_event_ids
    posts,        \* number of entries the ledger accepted
    writes,       \* number of entity-state writes
    initialized,  \* _initialized
    failure,      \* _failure: "none", or what failed first
    pc,           \* where run() is: idle, initialize, loop or handle
    until,        \* the cutoff of the current run(); NoCutoff outside one
    minted,       \* ids minted in the current callback
    invocations,  \* callbacks started so far
    scopes,       \* callback scopes that still resolve to the engine
    copied,       \* callback scopes held by a leaked execution context
    delivered,    \* history: commands handed to the adapter, in order
    outlived      \* history: callbacks whose context was obeyed after they ended

clockVars == <<now, queue, sequence, due>>
logVars == <<events, seen>>
callVars == <<minted, invocations, scopes, copied>>
engineVars == <<profile, hasAdapter, clockVars, uuids, logVars, posts, writes, initialized, failure,
                pc, until, callVars, delivered, outlived>>

Honest == profile.honest
EventIds == 0..(profile.uuidLimit - 1)   \* UUID strings compare as their 48-bit suffix

Healthy == failure = "none"
InCallback == pc \in {"initialize", "handle"}

(* _mark_failed keeps the first failure. *)
MarkFailed(reason) == failure' = IF Healthy THEN reason ELSE failure
-----------------------------------------------------------------------------
(* Heap order of the clock's queue. *)
Before(c, d) ==
    \/ c.at < d.at
    \/ c.at = d.at /\ c.priority < d.priority
    \/ c.at = d.at /\ c.priority = d.priority /\ c.sequence < d.sequence

(* Mutant: the heap compares times and insertion order only. *)
FirstNoPriority(c) ==
    \A d \in queue \ {c} : c.at < d.at \/ (c.at = d.at /\ c.sequence < d.sequence)

First(c) == \A d \in queue \ {c} : Before(c, d)

(* Replay-manifest order of the event log. *)
EventBefore(e, f) == e.time < f.time \/ (e.time = f.time /\ e.id < f.id)

(* schedule() with a time the clock accepts: clock first, index second. *)
Enqueue(at, priority) ==
    /\ queue' = queue \cup {[at |-> at, priority |-> priority, sequence |-> sequence]}
    /\ sequence' = sequence + 1
    /\ due' = [due EXCEPT ![at] = @ + 1]
    /\ UNCHANGED <<now, failure>>

(* Mutant: the index is pushed before the clock has accepted the command. *)
RefuseScheduleIndexed(at) ==
    /\ due' = [due EXCEPT ![at] = @ + 1]
    /\ MarkFailed("schedule")
    /\ UNCHANGED <<now, queue, sequence>>

(* schedule() with a time in the past or not in UTC, or with an invalid priority
   or command: refused at any time. *)
RefuseSchedule(at) ==
    /\ MarkFailed("schedule")
    /\ UNCHANGED clockVars

AcceptsTime(at) == at >= now

Schedule(at, priority) ==
    /\ Healthy
    /\ sequence < profile.maxSchedules
    /\ \/ AcceptsTime(at) /\ Enqueue(at, priority)
       \/ RefuseSchedule(at)
    /\ UNCHANGED <<uuids, logVars, posts, writes, initialized, pc, until,
                   callVars, delivered>>

(* Mutant: post() is not gated on the engine's health. *)
LedgerPostUngated(accepted) ==
    /\ posts + writes < profile.maxWrites
    /\ IF accepted
       THEN posts' = posts + 1 /\ UNCHANGED failure
       ELSE MarkFailed("post") /\ UNCHANGED posts
    /\ UNCHANGED <<clockVars, uuids, logVars, writes, initialized, pc, until,
                   callVars, delivered>>

(* post(): the ledger accepts the entry or refuses it (see module Ledger). *)
LedgerPost(accepted) ==
    /\ Healthy
    /\ posts + writes < profile.maxWrites
    /\ IF accepted
       THEN posts' = posts + 1 /\ UNCHANGED failure
       ELSE MarkFailed("post") /\ UNCHANGED posts
    /\ UNCHANGED <<clockVars, uuids, logVars, writes, initialized, pc, until,
                   callVars, delivered>>

(* set_entity_state(): a value outside the closed state algebra is refused. *)
SetEntityState(accepted) ==
    /\ Healthy
    /\ posts + writes < profile.maxWrites
    /\ IF accepted
       THEN writes' = writes + 1 /\ UNCHANGED failure
       ELSE MarkFailed("entity") /\ UNCHANGED writes
    /\ UNCHANGED <<clockVars, uuids, logVars, posts, initialized, pc, until,
                   callVars, delivered>>

(* Mutant: ids are unique but drawn at random instead of counted up. *)
NewUuidRandom ==
    /\ Healthy
    /\ uuids < profile.uuidLimit
    /\ uuids' = uuids + 1
    /\ \E id \in EventIds \ (seen \cup minted) : minted' = minted \cup {id}
    /\ UNCHANGED <<failure, clockVars, logVars, posts, writes, initialized, pc, until,
                   invocations, scopes, copied, delivered>>

(* new_uuid(): a 48-bit suffix that counts up. *)
NewUuid ==
    /\ Healthy
    /\ IF uuids >= profile.uuidLimit
       THEN MarkFailed("uuid") /\ UNCHANGED <<uuids, minted>>
       ELSE /\ uuids' = uuids + 1
            /\ minted' = minted \cup {uuids}
            /\ UNCHANGED failure
    /\ UNCHANGED <<clockVars, logVars, posts, writes, initialized, pc, until,
                   invocations, scopes, copied, delivered>>
-----------------------------------------------------------------------------
(* _append_batch: what it refuses, and why. *)
BatchOK(batch) ==
    /\ \A i \in DOMAIN batch :
          /\ batch[i].sameRail
          /\ batch[i].time = now
          /\ batch[i].id \notin seen
    /\ \A i, j \in DOMAIN batch : batch[i].id = batch[j].id => i = j

LogEntry(event) == [time |-> event.time, id |-> event.id]

(* Mutant: the batch is not compared with the last event already logged. *)
FollowsLogUnchecked(batch) == TRUE

(* The first event of the sorted batch, hence every event of the batch, comes
   no earlier than the last one logged. *)
FollowsLog(batch) ==
    events # <<>> =>
        \A i \in DOMAIN batch : ~EventBefore(LogEntry(batch[i]), events[Len(events)])

(* sorted is the batch in canonical order. *)
SortedFrom(sorted, batch) ==
    /\ {sorted[i] : i \in DOMAIN sorted} = {LogEntry(batch[i]) : i \in DOMAIN batch}
    /\ \A i, j \in DOMAIN sorted : i < j => EventBefore(sorted[i], sorted[j])

Admissible(batch) == BatchOK(batch) /\ FollowsLog(batch)

(* The whole batch is appended or nothing is. *)
AppendBatch(batch) ==
    IF Admissible(batch)
    THEN /\ \E sorted \in [1..Len(batch) -> [time : {now}, id : EventIds]] :
               SortedFrom(sorted, batch) /\ events' = events \o sorted
         /\ seen' = seen \cup {batch[i].id : i \in DOMAIN batch}
         /\ UNCHANGED failure
    ELSE MarkFailed(IF BatchOK(batch) THEN "order" ELSE "batch") /\ UNCHANGED logVars

(* What a caller may hand in, up to two events. *)
Events == [id : EventIds, time : Times, sameRail : BOOLEAN]

Batches ==
    {b \in {<<>>} \cup {<<e>> : e \in Events} \cup {<<e, f>> : e, f \in Events} :
        /\ Len(events) + Len(b) <= profile.maxEvents
        /\ Honest => \A i, j \in DOMAIN b :
              /\ b[i].id \in minted /\ b[i].time = now /\ b[i].sameRail
              /\ b[i].id = b[j].id => i = j}
-----------------------------------------------------------------------------
(* Entering and leaving a callback: a fresh scope, revoked at the end however
   the callback ends, so that copies of its context stop resolving. *)
BeginCallback ==
    /\ invocations' = invocations + 1
    /\ scopes' = scopes \cup {invocations + 1}
    /\ minted' = {}
    /\ UNCHANGED copied

(* Mutant: only the context variable is reset; the scope object stays live. *)
EndCallbackUnrevoked ==
    /\ UNCHANGED <<scopes, invocations, copied>>
    /\ minted' = {}

EndCallback ==
    /\ scopes' = scopes \ {invocations}
    /\ minted' = {}
    /\ UNCHANGED <<invocations, copied>>
-----------------------------------------------------------------------------
EngineInit ==
    /\ profile \in Profiles
    /\ hasAdapter \in BOOLEAN
    /\ now = 0
    /\ queue = {}
    /\ sequence = 0
    /\ due = [t \in Times |-> 0]
    /\ uuids = 0
    /\ events = <<>>
    /\ seen = {}
    /\ posts = 0
    /\ writes = 0
    /\ initialized = FALSE
    /\ failure = "none"
    /\ pc = "idle"
    /\ until = NoCutoff
    /\ minted = {}
    /\ invocations = 0
    /\ scopes = {}
    /\ copied = {}
    /\ delivered = <<>>
    /\ outlived = {}

(* The owner of the engine, between runs. *)
OwnerSchedule(at, priority) == pc = "idle" /\ Schedule(at, priority)

OwnerPost(accepted) == pc = "idle" /\ LedgerPost(accepted)

(* emit(): a batch of one.  An honest owner mints the id on the spot. *)
Emit(event) ==
    /\ pc = "idle"
    /\ Healthy
    /\ Len(events) < profile.maxEvents
    /\ IF Honest
       THEN /\ uuids < profile.uuidLimit
            /\ event = [id |-> uuids, time |-> now, sameRail |-> TRUE]
            /\ uuids' = uuids + 1
       ELSE UNCHANGED uuids
    /\ AppendBatch(<<event>>)
    /\ UNCHANGED <<clockVars, posts, writes, initialized, pc, until, callVars, delivered>>

(* run(): a cutoff in the past is refused without failing the engine, which
   changes nothing; a missing adapter fails it. *)
RunUnsupported(cutoff) ==
    /\ pc = "idle"
    /\ Healthy
    /\ cutoff >= now
    /\ ~hasAdapter
    /\ MarkFailed("adapter")
    /\ UNCHANGED <<clockVars, uuids, logVars, posts, writes, initialized, pc, until,
                   callVars, delivered>>

RunInitialize(cutoff) ==
    /\ pc = "idle"
    /\ Healthy
    /\ cutoff >= now
    /\ hasAdapter
    /\ ~initialized
    /\ pc' = "initialize"
    /\ until' = cutoff
    /\ BeginCallback
    /\ UNCHANGED <<clockVars, uuids, logVars, posts, writes, initialized, failure, delivered>>

RunResume(cutoff) ==
    /\ pc = "idle"
    /\ Healthy
    /\ cutoff >= now
    /\ hasAdapter
    /\ initialized
    /\ pc' = "loop"
    /\ until' = cutoff
    /\ UNCHANGED <<clockVars, uuids, logVars, posts, writes, initialized, failure,
                   callVars, delivered>>

(* Mutant: the loop stops in front of work that falls on the cutoff. *)
DueStrictly(t) == due[t] > 0 /\ (until = NoCutoff \/ t < until)

Due(t) == due[t] > 0 /\ t <= until

(* The clock's pop, and the call of the adapter. *)
Dispatch(c) ==
    /\ queue' = queue \ {c}
    /\ now' = c.at
    /\ pc' = "handle"
    /\ UNCHANGED until
    /\ delivered' = Append(delivered, [command |-> c, upTo |-> sequence])
    /\ BeginCallback
    /\ UNCHANGED failure

(* The clock holds no command for the instant the index gave, or none. *)
Diverge ==
    /\ queue' = {c \in queue : ~First(c)}
    /\ now' \in IF queue = {} THEN {now} ELSE {c.at : c \in {d \in queue : First(d)}}
    /\ pc' = "idle"
    /\ until' = NoCutoff
    /\ MarkFailed("diverged")
    /\ UNCHANGED <<callVars, delivered>>

(* One turn of the loop: both heaps are popped, the clock moves to the
   command's time and the adapter is called, unless the heaps disagree. *)
Deliver ==
    /\ pc = "loop"
    /\ \E t \in Times :
          /\ Due(t)
          /\ \A s \in Times : due[s] > 0 => t <= s
          /\ due' = [due EXCEPT ![t] = @ - 1]
          /\ IF \E c \in queue : First(c) /\ c.at = t
             THEN \E c \in queue : First(c) /\ Dispatch(c)
             ELSE Diverge
    /\ UNCHANGED <<sequence, uuids, logVars, posts, writes, initialized>>

RunReturns ==
    /\ pc = "loop"
    /\ ~\E t \in Times : Due(t)
    /\ pc' = "idle"
    /\ until' = NoCutoff
    /\ UNCHANGED <<clockVars, uuids, logVars, posts, writes, initialized, failure,
                   callVars, delivered>>

(* What a context can be asked for; each call may raise into the adapter, which
   may catch it. *)
ContextCall ==
    \/ \E at \in Times, p \in profile.priorities : Schedule(at, p)
    \/ \E ok \in BOOLEAN : LedgerPost(ok) \/ SetEntityState(ok)
    \/ NewUuid

(* The adapter keeps a copy of its execution context, or a task running in one. *)
CopyContext ==
    /\ InCallback
    /\ ~Honest
    /\ copied = {}                \* bound: one leaked context
    /\ copied' = copied \cup {invocations}
    /\ UNCHANGED <<clockVars, uuids, logVars, posts, writes, initialized, failure, pc,
                   until, minted, invocations, scopes, delivered>>

(* A call that runs in the kept copy: any call, at any later point, in the
   callback that leaked it, in a later one or in none.  The engine obeys it if
   the scope it carries still resolves. *)
LateCall ==
    \E scope \in copied \cap scopes :
        /\ ContextCall
        /\ outlived' = IF InCallback /\ scope = invocations
                        THEN outlived ELSE outlived \cup {scope}

InitializeReturns ==
    /\ pc = "initialize"
    /\ initialized' = TRUE
    /\ pc' = "loop"
    /\ EndCallback
    /\ UNCHANGED <<clockVars, uuids, logVars, posts, writes, failure, until, delivered>>

HandleReturns(batch) ==
    /\ pc = "handle"
    /\ AppendBatch(batch)
    /\ IF Admissible(batch)
       THEN pc' = "loop" /\ UNCHANGED until
       ELSE pc' = "idle" /\ until' = NoCutoff
    /\ EndCallback
    /\ UNCHANGED <<clockVars, uuids, posts, writes, initialized, delivered>>

CallbackRaises ==
    /\ InCallback
    /\ MarkFailed("raised")
    /\ pc' = "idle"
    /\ until' = NoCutoff
    /\ EndCallback
    /\ UNCHANGED <<clockVars, uuids, logVars, posts, writes, initialized, delivered>>

Owner ==
    \/ \E at \in Times, p \in profile.priorities : OwnerSchedule(at, p)
    \/ \E ok \in BOOLEAN : OwnerPost(ok)
    \/ \E e \in Events : Emit(e)
    \/ \E cutoff \in Times \cup {NoCutoff} :
          RunUnsupported(cutoff) \/ RunInitialize(cutoff) \/ RunResume(cutoff)

Loop == Deliver \/ RunReturns

Adapter == (InCallback /\ ContextCall) \/ CopyContext

CallbackEnds ==
    \/ InitializeReturns
    \/ \E b \in Batches : HandleReturns(b)
    \/ CallbackRaises

EngineNext ==
    /\ \/ (Owner \/ Loop \/ Adapter \/ CallbackEnds) /\ UNCHANGED outlived
       \/ LateCall
    /\ UNCHANGED <<profile, hasAdapter>>

EngineSpec == EngineInit /\ [][EngineNext]_engineVars

(* run() is a loop that keeps going, and adapters return (or raise). *)
EngineFairness ==
    /\ WF_engineVars(Loop /\ UNCHANGED <<profile, hasAdapter, outlived>>)
    /\ WF_engineVars(CallbackEnds /\ UNCHANGED <<profile, hasAdapter, outlived>>)

FairEngineSpec == EngineSpec /\ EngineFairness
-----------------------------------------------------------------------------
(* The due-time heap that run() steers by holds exactly the times of the
   commands in the clock's queue, also after a refused schedule that the
   adapter swallowed. *)
IndexAgrees == \A t \in Times : due[t] = Cardinality({c \in queue : c.at = t})

(* The log is in the replay manifest's order (time, then id) over all batches,
   and no event id occurs twice: replay_events would accept it. *)
LogCanonical ==
    /\ \A i, j \in 1..Len(events) : i < j => EventBefore(events[i], events[j])
    /\ seen = {events[i].id : i \in 1..Len(events)}

(* Commands are delivered once each, and of two that waited at the same time
   the one first by time, priority and insertion goes first. *)
DeliveryOrder ==
    \A i, j \in 1..Len(delivered) : i < j =>
        /\ delivered[i].command # delivered[j].command
        /\ delivered[j].command.sequence < delivered[i].upTo =>
              Before(delivered[i].command, delivered[j].command)

(* "irrecoverably failed": after the first failure no posting, no entity
   write, no new command and no new id, although run() may go on popping when
   the adapter caught the exception; and the first failure is the one kept. *)
FailureIsTerminal ==
    ~Healthy => failure' = failure /\ UNCHANGED <<posts, writes, sequence, uuids>> /\ pc # "idle"

(* Contexts are good for what their callback may do and no longer: "Invalidate
   this invocation everywhere, including copied contexts/tasks".  No call of any
   kind (schedule, post, set_entity_state, new_uuid) made through a context whose
   own callback has ended is ever obeyed, not even while a later callback runs;
   entity state is written only while a callback runs; and nothing happens once
   the engine has failed. *)
ContextDiscipline ==
    [][/\ FailureIsTerminal
       /\ writes' # writes => InCallback
       /\ outlived' = {}]_engineVars

(* An adapter that returns only ids it minted in that callback is never refused
   for a duplicate id or for the order of its events, however callbacks at one
   instant interleave with what the owner emits. *)
HonestNeverRefused == Honest => failure \notin {"batch", "order"}

(* run() serves all the work up to its cutoff, work scheduled by its own
   callbacks included, unless the engine fails. *)
DueWorkServed ==
    \A s \in UNION {0..(p.maxSchedules - 1) : p \in Profiles} :
        (\E c \in queue : c.sequence = s /\ pc # "idle" /\ c.at <= until)
            ~> (~Healthy \/ \A c \in queue : c.sequence # s)
=============================================================================
