---------------------------- MODULE FeatureState ----------------------------
(***************************************************************************)
(* CausalFeatureState of src/apar/features/state.py: an incremental state   *)
(* that is given observed events in any pieces and any order, computes one  *)
(* row for every decision from what was available strictly before it, and   *)
(* can be written to a checkpoint and restored from it.                     *)
(*                                                                          *)
(* The features only read the state, so a row stands for what they may      *)
(* read: the admitted events, the events that opened a payment, and the     *)
(* late events.  They never look at the order of a history; only the        *)
(* checkpoint does.  Times are Nat; an event that is no decision has        *)
(* decide = 0.                                                              *)
(***************************************************************************)
EXTENDS Order, Places

CONSTANTS
    Events      \* observations callers hold: [id, at, decide, actor,
                \* counterparty, kind, payment]; two with one id conflict

ASSUME EventsTyped ==
    /\ \A e \in Events : e.id \in Nat /\ e.at \in Nat \ {0} /\ e.decide \in Nat
    /\ \A e \in Events : e.decide # 0 => e.at <= e.decide

(* Two decisions about one payment have something in common: the rails take both
   parties of an event from the payment. *)
ASSUME PaymentsRecognisable ==
    \A e, f \in Events :
        e.decide # 0 /\ f.decide # 0 /\ e.payment = f.payment =>
            \E by \in {"actor", "counterparty", "kind"} : e[by] = f[by]

VARIABLES
    live,       \* the state in use: restored whenever it can be
    twin        \* the same state, never restored

featureVars == <<live, twin>>
-----------------------------------------------------------------------------
IsDecision(e) == e.decide # 0

Fresh == [known |-> {}, admitted |-> <<>>, emitted |-> {}, late |-> <<>>,
          watermark |-> 0, rows |-> <<>>]

(* The order of (available_at, event_id). *)
Before(e, f) == e.at < f.at \/ (e.at = f.at /\ e.id < f.id)

ById(e, f) == e.id < f.id

Admitted(state) == ToSet(state.admitted)

(* The events that opened their payment: the first decision of it admitted. *)
Openings(admitted) ==
    {admitted[i] : i \in {j \in DOMAIN admitted :
        /\ IsDecision(admitted[j])
        /\ \A k \in 1..(j - 1) :
              ~(IsDecision(admitted[k]) /\ admitted[k].payment = admitted[j].payment)}}

(* _admit_event appends to one history each by actor, counterparty and outcome;
   those by pair and of amounts are in the order of the actor's.  A history is
   the events with their places in it. *)
Histories(admitted) ==
    [by \in {"actor", "counterparty", "kind"} |->
        LET Positions(key) == {i \in DOMAIN admitted : admitted[i][by] = key}
            Of(key) == {<<admitted[i], Place(Positions(key), i)>> : i \in Positions(key)}
        IN  [key \in {admitted[i][by] : i \in DOMAIN admitted} |-> Of(key)]]

(* _state_views: the neighbours in the graph of opened payments. *)
Adjacency(admitted) == {{e.actor, e.counterparty} : e \in Openings(admitted)}
-----------------------------------------------------------------------------
(* _admit_sources_strictly_before, which leaves out the cohort's own events. *)
Admit(state, time) ==
    state.admitted \o
    Sorted({e \in state.known \ Admitted(state) : e.at < time /\ e.decide # time}, Before)

Row(state, event) ==
    [event |-> event, admitted |-> Admitted(state), openings |-> Openings(state.admitted),
     late |-> DOMAIN state.late]

(* One cohort of process: the decisions of one time that have no row yet. *)
Cohort(state, time) ==
    LET now    == {e \in state.known \ state.emitted : e.decide = time}
        opened == [state EXCEPT !.admitted = Admit(state, time)]
        order  == Sorted(now, ById)
    IN  [opened EXCEPT !.rows = @ \o [i \in DOMAIN order |-> Row(opened, order[i])],
                       !.emitted = @ \cup now,
                       !.watermark = time]

(* Mutant: a decision at a time that has been decided is remembered. *)
RefusedConflicts(state, events) ==
    \E e \in events, f \in events \cup state.known : e.id = f.id /\ e # f

(* What _remember refuses: a second observation under an id, and a decision at
   a time that has been decided. *)
Refused(state, events) ==
    \/ \E e \in events, f \in events \cup state.known : e.id = f.id /\ e # f
    \/ \E e \in events \ state.known : IsDecision(e) /\ e.decide <= state.watermark

(* Mutant: only an event that is no decision can be late. *)
RememberDecisions(state, events) ==
    LET new == {e \in events \ state.known : e.at < state.watermark /\ ~IsDecision(e)}
    IN  [state EXCEPT !.known = @ \cup events,
                      !.late = [e \in new \cup DOMAIN @ |->
                                   IF e \in new THEN state.watermark ELSE @[e]]]

(* _remember: an event is late if it was available before the watermark. *)
Remember(state, events) ==
    LET new == {e \in events \ state.known : e.at < state.watermark}
    IN  [state EXCEPT !.known = @ \cup events,
                      !.late = [e \in new \cup DOMAIN @ |->
                                   IF e \in new THEN state.watermark ELSE @[e]]]

(* The cohorts of several times, one after the other. *)
Cohorts(state, times) ==
    LET after[i \in 0..Len(times)] ==
            IF i = 0 THEN state ELSE Cohort(after[i - 1], times[i])
    IN  after[Len(times)]

(* process(): what raises halfway leaves the events it remembered. *)
Processed(state, events) ==
    LET remembered == Remember(state, events)
        times == {e.decide : e \in {f \in remembered.known \ remembered.emitted : IsDecision(f)}}
    IN  IF \E time \in times : time <= remembered.watermark THEN remembered
        ELSE Cohorts(remembered, Sorted(times, <))

(* build_feature_matrix: all events in one call. *)
OneShot(events) == Processed(Fresh, events)
-----------------------------------------------------------------------------
(* The admitted events, as restore admits them again. *)
Readmitted(state) == Sorted(Admitted(state), Before)

Times(decisions) == {e.decide : e \in decisions}

(* What restore finds consistent in a checkpoint of this state. *)
Consistent(state) ==
    /\ state.emitted = {e \in state.known : IsDecision(e)}
    /\ IF state.emitted = {} THEN state.watermark = 0
       ELSE /\ state.watermark \in Times(state.emitted)
            /\ \A time \in Times(state.emitted) : time <= state.watermark
    /\ \A e \in Admitted(state) : e.at < state.watermark
    /\ \A e \in DOMAIN state.late :
          /\ e.at < state.late[e] /\ state.late[e] <= state.watermark
          /\ state.late[e] \in Times(state.emitted)

(* restore accepts the checkpoint of this state. *)
Restorable(state) ==
    /\ Consistent(state)
    /\ Histories(Readmitted(state)) = Histories(state.admitted)
    /\ Adjacency(Readmitted(state)) = Adjacency(state.admitted)

(* Mutant: what is known and not yet admitted is not in the checkpoint. *)
RestoredAdmitted(state) ==
    [state EXCEPT !.admitted = Readmitted(state), !.known = Admitted(state) \cup state.emitted]

(* The rows are the caller's; everything else comes from the checkpoint. *)
Restored(state) == [state EXCEPT !.admitted = Readmitted(state)]
-----------------------------------------------------------------------------
FeatureInit == live = Fresh /\ twin = Fresh

(* process() given some events, new ones or not; a refusal changes nothing. *)
Process(events) ==
    /\ live' = IF Refused(live, events) THEN live ELSE Processed(live, events)
    /\ twin' = IF Refused(twin, events) THEN twin ELSE Processed(twin, events)

(* restore(checkpoint()) *)
Restart ==
    /\ Restorable(live)
    /\ live' = Restored(live)
    /\ UNCHANGED twin

FeatureNext ==
    Restart \/ \E events \in SUBSET Events : IsFiniteSet(events) /\ Process(events)

FeatureSpec == FeatureInit /\ [][FeatureNext]_featureVars
-----------------------------------------------------------------------------
Punctual == DOMAIN live.late = {}

(* Every decision that was accepted has exactly one row, in the order of
   (decision_at, event_id), made of what was available strictly before it: no
   order of calls, repetition or restart skips, repeats or reorders one. *)
RowsOnceInOrder ==
    /\ {live.rows[i].event : i \in DOMAIN live.rows} = {e \in live.known : IsDecision(e)}
    /\ \A i, j \in DOMAIN live.rows : i < j =>
          LET e == live.rows[i].event
              f == live.rows[j].event
          IN  e.decide < f.decide \/ (e.decide = f.decide /\ e.id < f.id)
    /\ \A i \in DOMAIN live.rows :
          \A e \in live.rows[i].admitted \cup live.rows[i].late :
             e.at < live.rows[i].event.decide

(* Online is offline: as long as nothing came late, the rows are those one call
   with all events would have given, however the events were cut into calls and
   however often the state was restored ("Require cohort-partitioned online
   replay to equal one-shot offline construction"). *)
OnlineIsOffline == Punctual => live.rows = OneShot(live.known).rows

(* The rows of a stream of calls, as a whole and against the offline build. *)
StreamExact == RowsOnceInOrder /\ OnlineIsOffline

(* A restart cannot be seen: wherever restore accepts a checkpoint, the rows
   that follow are those of a state that was never interrupted. *)
RestartInvisible == live.rows = twin.rows

(* "It cannot contribute to historical aggregates for itself or another decision
   at the same time": no decision is among what was admitted for a row of its
   own time. *)
OwnTimeExcluded ==
    \A i \in DOMAIN live.rows :
        \A e \in live.rows[i].admitted : e.decide # live.rows[i].event.decide

(* "Require checkpoint restore to reproduce uninterrupted cohort-boundary
   replay": the checkpoint of any state is accepted. *)
CheckpointsRestore == Restorable(live)
=============================================================================
