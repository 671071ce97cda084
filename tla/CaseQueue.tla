------------------------------ MODULE CaseQueue ------------------------------
(***************************************************************************)
(* simulate_case_queue of src/apar/cases/queue.py over the cases of         *)
(* CaseGrouping: analysts take cases in the order of arrival, at slots of   *)
(* the length of one service that are anchored in buckets.  One unit of     *)
(* time stands for a minute; the SLA is one comparison of the wait and left *)
(* out.                                                                     *)
(***************************************************************************)
EXTENDS CaseGrouping

CONSTANT Configs        \* [analysts, service, bucket]

ASSUME ConfigsValid ==
    \A c \in Configs :
        /\ {c.analysts, c.service, c.bucket} \subseteq Nat \ {0}
        /\ c.service <= c.bucket /\ c.bucket % c.service = 0
-----------------------------------------------------------------------------
Arrival(e) == {[id |-> c, opened |-> e.active[c].at, priority |-> e.active[c].priority] :
                  c \in DOMAIN e.active}

(* Mutant: priority before arrival. *)
AheadByPriority(a, b) ==
    a.priority > b.priority \/ (a.priority = b.priority /\ DigestRank[a.id] < DigestRank[b.id])

Ahead(a, b) ==
    \/ a.opened < b.opened
    \/ a.opened = b.opened /\ a.priority > b.priority
    \/ a.opened = b.opened /\ a.priority = b.priority /\ DigestRank[a.id] < DigestRank[b.id]

(* _first_slot_at_or_after *)
FirstSlot(opened, config) ==
    LET start == (opened \div config.bucket) * config.bucket
        wave  == (opened - start + config.service - 1) \div config.service
    IN  IF wave >= config.bucket \div config.service THEN start + config.bucket
        ELSE start + wave * config.service

(* Mutant: a case may join the last slot after that has begun. *)
AllocateLate(queue, case, config) ==
    LET next == IF queue.slot < 0 THEN 0 ELSE queue.slot + config.service
        earliest == FirstSlot(case.opened, config)
        begin == IF queue.slot >= 0 /\ case.opened < next /\ queue.uses < config.analysts
                 THEN queue.slot
                 ELSE IF earliest >= next THEN earliest ELSE next
    IN  [slot |-> begin,
         uses |-> IF begin = queue.slot THEN queue.uses + 1 ELSE 1,
         started |-> Append(queue.started, [case |-> case, at |-> begin])]

(* One case in the loop of _allocate_snapshots. *)
Allocate(queue, case, config) ==
    LET next == IF queue.slot < 0 THEN 0 ELSE queue.slot + config.service
        earliest == FirstSlot(case.opened, config)
        begin == IF queue.slot >= 0 /\ case.opened <= queue.slot /\ queue.uses < config.analysts
                 THEN queue.slot
                 ELSE IF earliest >= next THEN earliest ELSE next
    IN  [slot |-> begin,
         uses |-> IF begin = queue.slot THEN queue.uses + 1 ELSE 1,
         started |-> Append(queue.started, [case |-> case, at |-> begin])]

(* The snapshots of a report. *)
Snapshots(cases, config) ==
    LET order == Sorted(cases, Ahead)
        after[i \in 0..Len(order)] ==
            IF i = 0 THEN [slot |-> -1, uses |-> 0, started |-> <<>>]
            ELSE Allocate(after[i - 1], order[i], config)
    IN  after[Len(order)].started

(* _peak_backlog looks at the instants of arrival only, after what starts then
   has started. *)
PeakBacklog(snapshots) ==
    LET Waiting(t) == Cardinality({i \in DOMAIN snapshots : snapshots[i].case.opened <= t})
                      - Cardinality({i \in DOMAIN snapshots : snapshots[i].at <= t})
    IN  Max({0} \cup {Waiting(snapshots[i].case.opened) : i \in DOMAIN snapshots})
-----------------------------------------------------------------------------
(* Each case starts at the first slot after its arrival for which those before
   it have left an analyst. *)
NoneIdle(s, config) ==
    LET Free(i, t) == Cardinality({j \in 1..(i - 1) : s[j].at = t}) < config.analysts
        Slots == {config.service * k : k \in 0..(MaxTime + Len(s))}
    IN  \A i \in DOMAIN s :
            /\ s[i].at \in Slots /\ s[i].at >= s[i].case.opened /\ Free(i, s[i].at)
            /\ \A t \in Slots : s[i].case.opened <= t /\ t < s[i].at => ~Free(i, t)

(* At no instant more cases wait than the peak that is reported. *)
PeakIsPeak(s, config) ==
    \A t \in 0..(MaxTime + config.service * Len(s)) :
        Cardinality({i \in DOMAIN s : s[i].case.opened <= t /\ t < s[i].at}) <= PeakBacklog(s)

(* No analyst waits next to a case, though the code remembers one slot only; and
   the peak it reports, from the instants of arrival, is that over all instants. *)
FirstComeFirstServed ==
    \A config \in Configs :
        LET s == Snapshots(Arrival(engine), config)
        IN  NoneIdle(s, config) /\ PeakIsPeak(s, config)
=============================================================================
