---------------------------- MODULE CaseGrouping ----------------------------
(***************************************************************************)
(* group_cases of src/apar/cases/grouping.py: alerts become investigation   *)
(* cases by what connected their parties before each decision.              *)
(*                                                                          *)
(* The code finds the connected components of every decision time in one    *)
(* pass: an observation is an edge between its actor and its counterparty   *)
(* that exists over one or two intervals of batches, the intervals hang in  *)
(* a segment tree, and one union-find is carried down the tree and rolled   *)
(* back on the way up.  A second pass assigns the alerts, batch by batch.   *)
(*                                                                          *)
(* Times are Nat.  A node is a number, an actor below every counterparty    *)
(* as "actor:" sorts before "counterparty:".  Positions of decisions and    *)
(* batches count from 1.  A component keeps its edges instead of their      *)
(* total, first and latest.                                                 *)
(***************************************************************************)
EXTENDS Order, Functions

CONSTANTS
    Rows,           \* observations: [id, at, decide, actor, counterparty, score];
                    \* decide = 0 where none is made
    MaxTime,        \* as_of goes no further
    DigestRank      \* [row ids -> Nat]: where a case id sorts, a digest of the row id

ASSUME RowsTyped ==
    /\ MaxTime \in Nat
    /\ \A r \in Rows : {r.id, r.at, r.decide, r.actor, r.counterparty, r.score} \subseteq Nat
    /\ \A r \in Rows : r.decide # 0 => r.at <= r.decide
    /\ \A r, s \in Rows : r.id = s.id => r = s
    /\ \A r, s \in Rows : r.actor < s.counterparty

ASSUME DigestsInjective ==
    /\ \A r \in Rows : DigestRank[r.id] \in Nat
    /\ \A r, s \in Rows : DigestRank[r.id] = DigestRank[s.id] => r = s

VARIABLES
    now,            \* as_of
    seen,           \* the observations known by then
    alerts,         \* ids of those whose decision is not APPROVE
    engine          \* the case engine after the last batch of group_cases(seen)

caseVars == <<now, seen, alerts, engine>>
-----------------------------------------------------------------------------
Earlier(r, s) == r.decide < s.decide \/ (r.decide = s.decide /\ r.id < s.id)

Available(r, s) == r.at < s.at \/ (r.at = s.at /\ r.id < s.id)

Decisions(rows) == Sorted({r \in rows : r.decide # 0}, Earlier)

BatchTimes(rows) == Sorted({r.decide : r \in {s \in rows : s.decide # 0}}, <)

Nodes(rows) == {r.actor : r \in rows} \cup {r.counterparty : r \in rows}
-----------------------------------------------------------------------------
(* The union-find: a node's parent, and for each root what it stands for. *)
NewDsu(rows) ==
    LET decisions == Decisions(rows)
        Touches(n) == {p \in DOMAIN decisions : n \in {decisions[p].actor, decisions[p].counterparty}}
    IN  [parent |-> [n \in Nodes(rows) |-> n],
         part |-> [n \in Nodes(rows) |->
                      [size |-> 1, minimum |-> n, evidence |-> {}, members |-> Touches(n)]],
         history |-> <<>>]

Find(dsu, n) ==
    LET root[m \in DOMAIN dsu.parent] ==
            IF dsu.parent[m] = m THEN m ELSE root[dsu.parent[m]]
    IN  root[n]

Lighter(a, b) == a.size < b.size \/ (a.size = b.size /\ a.minimum < b.minimum)

(* Add an edge; the history keeps what the surviving root was. *)
AddEdge(dsu, row) ==
    LET left  == Find(dsu, row.actor)
        right == Find(dsu, row.counterparty)
        root  == IF Lighter(dsu.part[left], dsu.part[right]) THEN right ELSE left
        gone  == IF root = left THEN right ELSE left
        a     == dsu.part[root]
        b     == dsu.part[gone]
        whole == [size     |-> IF root = gone THEN a.size ELSE a.size + b.size,
                  minimum  |-> IF a.minimum < b.minimum THEN a.minimum ELSE b.minimum,
                  evidence |-> a.evidence \cup b.evidence \cup {row},
                  members  |-> a.members \cup b.members]
    IN  [parent  |-> [dsu.parent EXCEPT ![gone] = root],
         part    |-> [dsu.part EXCEPT ![root] = whole],
         history |-> Append(dsu.history, [root |-> root, gone |-> gone, was |-> a])]

(* Mutant: the members of the surviving root are not taken back. *)
UndoKeepsMembers(dsu, entry) ==
    [dsu EXCEPT !.parent[entry.gone] = entry.gone,
                !.part[entry.root] = [entry.was EXCEPT !.members = dsu.part[entry.root].members],
                !.history = Front(@)]

Undo(dsu, entry) ==
    [dsu EXCEPT !.parent[entry.gone] = entry.gone,
                !.part[entry.root] = entry.was,
                !.history = Front(@)]

AddEdges(dsu, rows) ==
    LET after[i \in 0..Len(rows)] == IF i = 0 THEN dsu ELSE AddEdge(after[i - 1], rows[i])
    IN  after[Len(rows)]

(* As long as the history is longer than the mark, its last entry is undone. *)
Rollback(dsu, mark) ==
    LET undone[k \in 0..(Len(dsu.history) - mark)] ==
            IF k = 0 THEN dsu ELSE Undo(undone[k - 1], Last(undone[k - 1].history))
    IN  undone[Len(dsu.history) - mark]

Snapshot(dsu, n, priorLimit) ==
    LET part == dsu.part[Find(dsu, n)]
    IN  [part EXCEPT !.members = {p \in @ : p < priorLimit}]
-----------------------------------------------------------------------------
PowerOfTwo[h \in Nat] == IF h = 0 THEN 1 ELSE 2 * PowerOfTwo[h - 1]

(* The height of the tree: its leaves are the first power of two that is enough. *)
Height(batches) ==
    CHOOSE h \in 0..batches : /\ PowerOfTwo[h] >= batches
                              /\ \A g \in 0..(h - 1) : PowerOfTwo[g] < batches

(* add_interval: the positions that cover the leaves left..right-1, level by level. *)
Cover(left, right, height) ==
    LET level[k \in 0..height] ==
            IF k = 0 THEN <<left, right>>
            ELSE <<(level[k - 1][1] + 1) \div 2, level[k - 1][2] \div 2>>
        Ends(k) == {p \in {level[k][1]} : p % 2 = 1} \cup {p - 1 : p \in {q \in {level[k][2]} : q % 2 = 1}}
    IN  UNION {Ends(k) : k \in {l \in 0..height : level[l][1] < level[l][2]}}

(* The batches that see a row: those later than its availability, but not the
   one it is decided in. *)
VisibleFrom(times, row) == Cardinality({i \in DOMAIN times : times[i] <= row.at})

Intervals(times, row) ==
    LET own  == (CHOOSE i \in DOMAIN times : times[i] = row.decide) - 1
        from == VisibleFrom(times, row)
        last == Len(times)
    IN  IF row.decide = 0 THEN {<<from, last>>}
        ELSE {<<from, own>>, <<IF from > own + 1 THEN from ELSE own + 1, last>>}

(* The rows at one position of the tree, in the order of availability. *)
RowsAt(rows, times, position) ==
    LET height == Height(Len(times))
        leaves == PowerOfTwo[height]
        Covered(r) == \E i \in Intervals(times, r) :
                         i[1] < i[2] /\ position \in Cover(i[1] + leaves, i[2] + leaves, height)
    IN  Sorted({r \in rows : Covered(r)}, Available)

(* One alert of a batch with the components of its two parties, before it. *)
Alert(dsu, decisions, position, priorLimit) ==
    LET row == decisions[position]
    IN  [position |-> position, row |-> row,
         components |-> {Snapshot(dsu, n, priorLimit) : n \in {row.actor, row.counterparty}}]

Batch(dsu, rows, time) ==
    LET decisions == Decisions(rows)
        here == {p \in DOMAIN decisions : decisions[p].decide = time}
        first == CHOOSE p \in here : \A q \in here : p <= q
    IN  [at |-> time,
         alerts |-> [i \in 1..Cardinality(here) |-> Alert(dsu, decisions, first + i - 1, first)]]

(* The calls of visit() from a position, the leaves h levels below it: the
   positions in the order in which they are entered, and 0 where one is left. *)
Visits[h \in Nat] ==
    IF h = 0 THEN [p \in Nat |-> <<p, 0>>]
    ELSE [p \in Nat |-> <<p>> \o Visits[h - 1][2 * p] \o Visits[h - 1][2 * p + 1] \o <<0>>]

(* visit() is entered: it marks the union-find, and at a leaf builds the batch. *)
Enter(walk, rows, position) ==
    LET times == BatchTimes(rows)
        down  == AddEdges(walk.dsu, RowsAt(rows, times, position))
        leaf  == position - PowerOfTwo[Height(Len(times))] + 1
    IN  [dsu     |-> down,
         marks   |-> Append(walk.marks, Len(walk.dsu.history)),
         batches |-> IF leaf \in DOMAIN times
                     THEN Append(walk.batches, Batch(down, rows, times[leaf]))
                     ELSE walk.batches]

Leave(walk) ==
    [walk EXCEPT !.dsu = Rollback(@, Last(walk.marks)), !.marks = Front(@)]

(* Down the tree with one union-find, which is rolled back on the way up. *)
Walk(walk, rows, visits) ==
    LET after[i \in 0..Len(visits)] ==
            IF i = 0 THEN walk
            ELSE IF visits[i] = 0 THEN Leave(after[i - 1])
            ELSE Enter(after[i - 1], rows, visits[i])
    IN  after[Len(visits)]

(* _build_causal_topology *)
Topology(rows) ==
    LET batches == Len(BatchTimes(rows))
    IN  IF batches = 0 THEN <<>>
        ELSE Walk([dsu |-> NewDsu(rows), marks |-> <<>>, batches |-> <<>>],
                  rows, Visits[Height(batches)][1]).batches
-----------------------------------------------------------------------------
(* The case engine.  A case is named by the row that opened it. *)
NewEngine == [assigned |-> <<>>, active |-> <<>>, aliases |-> <<>>]

(* resolve(), whose shortening of the trail is left out. *)
Resolve(e, case) ==
    LET end[c \in {case} \cup DOMAIN e.aliases \cup Range(e.aliases)] ==
            IF c \in DOMAIN e.aliases THEN end[e.aliases[c]] ELSE c
    IN  end[case]

CaseBefore(e, c, d) ==
    \/ e.active[c].at < e.active[d].at
    \/ e.active[c].at = e.active[d].at /\ DigestRank[c] < DigestRank[d]

(* Mutant: the first case by id alone. *)
FirstCaseById(e, cases) ==
    CHOOSE c \in cases : \A d \in cases \ {c} : DigestRank[c] < DigestRank[d]

FirstCase(e, cases) == CHOOSE c \in cases : \A d \in cases \ {c} : CaseBefore(e, c, d)

(* matching_ids(), which goes through the members or through the cases,
   whichever are fewer. *)
Matching(e, component) ==
    IF Cardinality(component.members) <= Cardinality(DOMAIN e.active)
    THEN {Resolve(e, e.assigned[p]) : p \in component.members \cap DOMAIN e.assigned}
         \cap DOMAIN e.active
    ELSE {c \in DOMAIN e.active : e.active[c].members \cap component.members # {}}

(* What an alert found before its batch: the cases of the component whose first
   case is the earliest. *)
Plan(e, alert) ==
    LET found == {k \in alert.components : Matching(e, k) # {}}
        First(k) == FirstCase(e, Matching(e, k))
        Ahead(k, l) == \/ CaseBefore(e, First(k), First(l))
                       \/ First(k) = First(l) /\ k.minimum < l.minimum
    IN  IF found = {} THEN {}
        ELSE Matching(e, CHOOSE k \in found : \A l \in found \ {k} : Ahead(k, l))

(* The frozen priority of a case, in units that keep it whole.  Its term for the
   amount of the payment is left out. *)
Priority(alert, time) ==
    LET entities == SumFunctionOnSet([k \in alert.components |-> k.size], alert.components)
        spread   == IF entities < 2 THEN 0 ELSE IF entities > 10 THEN 8 ELSE entities - 2
        times    == {r.at : r \in UNION {k.evidence : k \in alert.components}}
        recency  == IF times = {} THEN 0 ELSE 1200 \div (1 + time - Max(times))
    IN  5400 * alert.row.score + 225 * spread + recency

MembersOf(e, cases) == UNION {e.active[c].members : c \in cases}

(* Mutant: the aliases of what is merged are not kept. *)
MergeNoAlias(e, into, others) ==
    [e EXCEPT !.active = [c \in DOMAIN @ \ others |->
                  IF c = into THEN [@[c] EXCEPT !.members = @ \cup MembersOf(e, others)] ELSE @[c]]]

Merge(e, into, others) ==
    [assigned |-> e.assigned,
     active   |-> [c \in DOMAIN e.active \ others |->
                      IF c = into
                      THEN [e.active[c] EXCEPT !.members = @ \cup MembersOf(e, others)]
                      ELSE e.active[c]],
     aliases  |-> [c \in DOMAIN e.aliases \cup others |->
                      IF c \in others THEN into ELSE e.aliases[c]]]

(* What an alert does after the plans of its batch are made: it joins the first
   of the cases it found, which takes the others in, or opens one. *)
Assign(e, time, alert, matched) ==
    LET live   == {Resolve(e, c) : c \in matched} \cap DOMAIN e.active
        case   == IF live = {} THEN alert.row.id ELSE FirstCase(e, live)
        opened == [at |-> time, priority |-> Priority(alert, time), members |-> {}]
        joined == IF live = {}
                  THEN [e EXCEPT !.active = [c \in DOMAIN @ \cup {case} |->
                                                IF c = case THEN opened ELSE @[c]]]
                  ELSE Merge(e, case, live \ {case})
    IN  [joined EXCEPT
            !.active[case].members = @ \cup {alert.position},
            !.assigned = [p \in DOMAIN @ \cup {alert.position} |->
                             IF p = alert.position THEN case ELSE @[p]]]

(* One batch: every plan is made before any alert is assigned. *)
RunBatch(e, batch, intervened) ==
    LET after[i \in 0..Len(batch.alerts)] ==
            IF i = 0 THEN e
            ELSE IF batch.alerts[i].row.id \notin intervened THEN after[i - 1]
            ELSE Assign(after[i - 1], batch.at, batch.alerts[i], Plan(e, batch.alerts[i]))
    IN  after[Len(batch.alerts)]

(* group_cases, from the topology on. *)
Group(rows, intervened) ==
    LET batches == Topology(rows)
        after[b \in 0..Len(batches)] ==
            IF b = 0 THEN NewEngine ELSE RunBatch(after[b - 1], batches[b], intervened)
    IN  after[Len(batches)]

(* The cases it returns. *)
Cases(e, rows) ==
    {[id |-> c, opened |-> e.active[c].at, priority |-> e.active[c].priority,
      events |-> {Decisions(rows)[p].id : p \in e.active[c].members}] : c \in DOMAIN e.active}
-----------------------------------------------------------------------------
(* A row can be part of a call when as_of has reached all its times. *)
KnownAt(r) == IF r.decide = 0 THEN r.at ELSE r.decide

CaseInit ==
    /\ now = 0
    /\ seen = {}
    /\ alerts = {}
    /\ engine = NewEngine

(* group_cases is called again with what has become known since. *)
Advance ==
    \E new \in SUBSET {r \in Rows : KnownAt(r) = now + 1} :
        \E raised \in SUBSET {r.id : r \in {s \in new : s.decide # 0}} :
            /\ IsFiniteSet(new)
            /\ now' = now + 1
            /\ seen' = seen \cup new
            /\ alerts' = alerts \cup raised
            /\ engine' = Group(seen', alerts')

CaseNext == now < MaxTime /\ Advance

CaseSpec == CaseInit /\ [][CaseNext]_caseVars
-----------------------------------------------------------------------------
(* What connects n before a time: declared, not computed. *)
Visible(rows, time) == {r \in rows : r.at < time /\ r.decide # time}

(* The nodes that no set of nodes with n in it, and no edge out of it, leaves out. *)
Connected(edges, n) ==
    LET nodes == Nodes(edges) \cup {n}
        Closed(S) == \A r \in edges : r.actor \in S <=> r.counterparty \in S
        around == {S \in SUBSET nodes : n \in S /\ Closed(S)}
    IN  {m \in nodes : \A S \in around : m \in S}

Component(rows, time, n) ==
    LET edges == Visible(rows, time)
        nodes == Connected(edges, n)
        decisions == Decisions(rows)
    IN  [size     |-> Cardinality(nodes),
         minimum  |-> CHOOSE m \in nodes : \A k \in nodes : m <= k,
         evidence |-> {r \in edges : r.actor \in nodes},
         members  |-> {p \in DOMAIN decisions :
                          /\ decisions[p].decide < time
                          /\ {decisions[p].actor, decisions[p].counterparty} \cap nodes # {}}]

(* The components are exact: one union-find, rolled back over a tree of
   intervals, gives at every decision what a search of the graph of everything
   available strictly before it, its own batch left out, would give. *)
ComponentsExact ==
    LET topology == Topology(seen)
    IN  /\ [b \in DOMAIN topology |-> topology[b].at] = BatchTimes(seen)
        /\ \A b \in DOMAIN topology : \A i \in DOMAIN topology[b].alerts :
              LET alert == topology[b].alerts[i]
              IN  alert.components =
                    {Component(seen, topology[b].at, n) :
                        n \in {alert.row.actor, alert.row.counterparty}}

(* Every alert is in one case, the one that its assignment leads to through any
   number of merges, and only alerts are: either way of matching_ids finds the
   same cases. *)
AssignedOnce ==
    LET decisions == Decisions(seen)
    IN  /\ DOMAIN engine.assigned = {p \in DOMAIN decisions : decisions[p].id \in alerts}
        /\ \A p \in DOMAIN engine.assigned, c \in DOMAIN engine.active :
              p \in engine.active[c].members <=> Resolve(engine, engine.assigned[p]) = c
        /\ \A p \in DOMAIN engine.assigned :
              Resolve(engine, engine.assigned[p]) \in DOMAIN engine.active

(* "Later alerts may extend or merge a case, but the canonical first-evidence ID
   and priority of the earliest case remain unchanged": what becomes available
   later only adds to a case, or merges it into one that was opened before. *)
CasesOnlyGrow ==
    [][(\A r \in seen' \ seen : \A s \in seen : r.at >= s.decide) =>
         \A c \in Cases(engine, seen) : \E d \in Cases(engine', seen') :
            /\ c.events \subseteq d.events
            /\ \E b \in Cases(engine, seen) :
                  /\ b.id = d.id /\ b.opened = d.opened /\ b.priority = d.priority
                  /\ b = c \/ CaseBefore(engine, b.id, c.id)]_caseVars
=============================================================================
